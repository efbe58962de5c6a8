--------------------------- MODULE OwnershipProof ---------------------------
(***************************************************************************)
(* Theorems about who owns objects: the pools that release them later      *)
(* (AutoreleasePool), then the objects that refer to them (References).    *)
(***************************************************************************)
EXTENDS AutoreleasePoolInv, ReferencesInv,
        SequenceTheorems, FiniteSetTheorems, WellFoundedInduction, TLAPS

-----------------------------------------------------------------------------
(* AutoreleasePool in the normal mode, for every set of objects, every     *)
(* size of a page and any number of entries and pools.                     *)
(*                                                                         *)
(* The invariant IInv of AutoreleasePoolInv holds initially and is kept by *)
(* every action.  Two lemmas carry the argument: Added says what adding an *)
(* entry does to the pages whichever path it takes, and FramesKept that    *)
(* calls which stay where they are keep their place in the stack.          *)

Entries == Objects \cup {POOL_BOUNDARY}
Frame == [page : Nat, at : 0..Capacity, state : {"open", "popping", "releasing"}]

-----------------------------------------------------------------------------
(* Sequences                                                               *)

(* A prefix keeps its elements.                                            *)
LEMMA Prefix ==
  ASSUME NEW S, NEW s \in Seq(S), NEW n \in 0..Len(s)
  PROVE  /\ SubSeq(s, 1, n) \in Seq(S)
         /\ Len(SubSeq(s, 1, n)) = n
         /\ \A i \in 1..n : SubSeq(s, 1, n)[i] = s[i]
<1>1. \A i \in 1..n : s[i] \in S
  BY ElementOfSeq, LenProperties
<1> QED
  BY <1>1, SubSeqProperties, LenProperties

(* A prefix that ends in a changed element.                                *)
LEMMA PrefixThen ==
  ASSUME NEW S, NEW s \in Seq(S), NEW n \in 1..Len(s), NEW e \in S
  PROVE  /\ Append(SubSeq(s, 1, n - 1), e) \in Seq(S)
         /\ DOMAIN Append(SubSeq(s, 1, n - 1), e) = 1..n
         /\ \A i \in 1..n : Append(SubSeq(s, 1, n - 1), e)[i] = IF i = n THEN e ELSE s[i]
<1> DEFINE t == SubSeq(s, 1, n - 1)
<1>0. Len(s) \in Nat
  BY LenProperties
<1>1. n - 1 \in 0..Len(s)
  BY <1>0
<1>2. t \in Seq(S) /\ Len(t) = n - 1 /\ \A i \in 1..n - 1 : t[i] = s[i]
  BY <1>1, Prefix
<1>3. /\ Append(t, e) \in Seq(S) /\ Len(Append(t, e)) = n
      /\ \A i \in 1..n - 1 : Append(t, e)[i] = t[i]
      /\ Append(t, e)[n] = e
  <2> HIDE DEF t
  <2> QED BY <1>0, <1>2, AppendProperties
<1>4. DOMAIN Append(t, e) = 1..n
  BY <1>3, LenProperties
<1> QED
  BY <1>0, <1>2, <1>3, <1>4

(* What Front leaves.                                                      *)
LEMMA FrontLast ==
  ASSUME NEW S, NEW s \in Seq(S), s # <<>>
  PROVE  /\ Len(s) \in Nat \ {0}
         /\ Front(s) \in Seq(S)
         /\ Len(Front(s)) = Len(s) - 1
         /\ \A i \in 1..Len(s) - 1 : Front(s)[i] = s[i]
         /\ Last(s) = s[Len(s)] /\ Last(s) \in S
<1>1. Len(s) \in Nat \ {0}
  BY EmptySeq, LenProperties
<1>2. Len(s) - 1 \in 0..Len(s)
  BY <1>1
<1>3. s[Len(s)] \in S
  BY <1>1, ElementOfSeq
<1> QED
  BY <1>1, <1>2, <1>3, Prefix DEF Front, Last

-----------------------------------------------------------------------------
(* Adding an entry                                                         *)

(* The page that AutoreleaseFullPage steps to is the next one.             *)
LEMMA NextPage ==
  ASSUME TypeOK, Layout, HasPage, Full(tls), NEW e \in Entries, AutoreleaseFullPage(e)
  PROVE  /\ tls' = tls + 1
         /\ pages' \in Seq(Seq(Entries)) /\ tls + 1 \in DOMAIN pages'
         /\ pages'[tls + 1] = <<e>>
         /\ \A p \in 1..tls : pages'[p] = pages[p]
         /\ \A p \in DOMAIN pages' : p > tls + 1 => pages'[p] = <<>>
<1> DEFINE n == Len(pages)
           rest == {p \in tls + 1 .. n : ~Full(p)}
<1>1. /\ pages \in Seq(Seq(Entries)) /\ n \in Nat /\ DOMAIN pages = 1..n
      /\ tls \in 1..n /\ HotPage = tls
  BY LenProperties DEF TypeOK, HasPage, Entries, HotPage, Nil, EMPTY_POOL_PLACEHOLDER
<1>2. /\ <<>> \in Seq(Entries) /\ Append(<<>>, e) = <<e>> /\ <<e>> \in Seq(Entries)
      /\ Len(<<>>) = 0
  OBVIOUS
<1>3. \A p \in tls + 1 .. n : pages[p] = <<>> /\ ~Full(p)
  <2> TAKE p \in tls + 1 .. n
  <2>1. p \in DOMAIN pages /\ p > tls
    BY <1>1
  <2>2. pages[p] = <<>>
    BY <2>1 DEF Layout
  <2> QED
    BY <2>2, <1>2, PoolAssumption DEF Full
<1>4. CASE tls < n
  <2>1. tls + 1 \in rest /\ \A p \in rest : tls + 1 <= p
    BY <1>1, <1>3, <1>4
  <2>2. (CHOOSE p \in rest : \A q \in rest : p <= q) = tls + 1
    BY <2>1, <1>1
  <2>3. pages' = [pages EXCEPT ![tls + 1] = Append(@, e)] /\ tls' = tls + 1
    BY <2>1, <2>2, <1>1 DEF AutoreleaseFullPage, Add
  <2>4. pages[tls + 1] = <<>> /\ tls + 1 \in 1..n
    BY <1>1, <1>3, <1>4
  <2>5. pages' = [pages EXCEPT ![tls + 1] = <<e>>]
    BY <2>3, <2>4, <1>1, <1>2
  <2>6. pages' \in Seq(Seq(Entries)) /\ DOMAIN pages' = 1..n
    BY <2>4, <2>5, <1>1, <1>2, ExceptSeq, LenProperties
  <2> QED
    BY <2>3, <2>4, <2>5, <2>6, <1>1, <1>3
<1>5. CASE tls = n
  <2>1. rest = {}
    BY <1>1, <1>5
  <2> DEFINE more == Append(pages, <<>>)
  <2>2. pages' = [more EXCEPT ![n + 1] = Append(@, e)] /\ tls' = n + 1
    BY <2>1, <1>1 DEF AutoreleaseFullPage, Add
  <2>3. /\ more \in Seq(Seq(Entries)) /\ Len(more) = n + 1
        /\ \A p \in 1..n : more[p] = pages[p]
        /\ more[n + 1] = <<>>
    BY <1>1, <1>2, AppendProperties
  <2>4. DOMAIN more = 1..n + 1
    BY <2>3, LenProperties
  <2> HIDE DEF more
  <2>5. pages' = [more EXCEPT ![n + 1] = <<e>>]
    BY <2>2, <2>3, <2>4, <1>1, <1>2
  <2>6. pages' \in Seq(Seq(Entries)) /\ DOMAIN pages' = 1..n + 1
    BY <2>3, <2>4, <2>5, <1>1, <1>2, ExceptSeq, LenProperties
  <2> QED
    BY <2>2, <2>3, <2>4, <2>5, <2>6, <1>1, <1>5
<1>6. tls < n \/ tls = n
  <2> HIDE DEF n, rest
  <2>1. tls \in 1..n /\ n \in Nat
    BY <1>1
  <2> QED
    BY <2>1
<1> QED
  BY <1>4, <1>5, <1>6

(* What adding e does when there is a page afterwards: e is on top, the    *)
(* layout is as before, and what was in the pages still is.                *)
Added(e) ==
  /\ pages' \in Seq(Seq(Entries))
  /\ \A p \in DOMAIN pages' : Len(pages'[p]) <= Capacity
  /\ tls' \in DOMAIN pages'
  /\ \A p \in DOMAIN pages' : /\ p < tls' => Len(pages'[p]) = Capacity
                              /\ p > tls' => pages'[p] = <<>>
  /\ Len(pages'[tls']) \in 1..Capacity
  /\ pages'[tls'][Len(pages'[tls'])] = e
  /\ HasPage => /\ \/ tls < tls'
                   \/ tls = tls' /\ Len(pages'[tls]) = Len(pages[tls]) + 1
                /\ \A p \in 1..tls : \A k \in DOMAIN pages[p] :
                     k \in DOMAIN pages'[p] /\ pages'[p][k] = pages[p][k]
  /\ tls = EMPTY_POOL_PLACEHOLDER =>
       tls' = 1 /\ Len(pages'[1]) = 2 /\ pages'[1][1] = POOL_BOUNDARY

(* hotPage() names a page exactly when the thread has left the placeholder *)
(* behind, and every page is a bounded stack of entries.                   *)
LEMMA HotPageExists ==
  ASSUME TypeOK
  PROVE  /\ pages \in Seq(Seq(Entries)) /\ Len(pages) \in Nat
         /\ DOMAIN pages = 1..Len(pages)
         /\ HasPage => tls \in 1..Len(pages) /\ HotPage = tls /\ HotPage # Nil
         /\ ~HasPage => HotPage = Nil /\ tls \in {Nil, EMPTY_POOL_PLACEHOLDER}
         /\ \A p \in DOMAIN pages : /\ pages[p] \in Seq(Entries)
                                    /\ Len(pages[p]) \in 0..Capacity
                                    /\ DOMAIN pages[p] = 1..Len(pages[p])
<1>1. pages \in Seq(Seq(Entries)) /\ Len(pages) \in Nat /\ DOMAIN pages = 1..Len(pages)
  BY LenProperties DEF TypeOK, Entries
<1>2. /\ HasPage => tls \in 1..Len(pages) /\ HotPage = tls /\ HotPage # Nil
      /\ ~HasPage => HotPage = Nil /\ tls \in {Nil, EMPTY_POOL_PLACEHOLDER}
  BY <1>1 DEF TypeOK, HasPage, HotPage, Nil, EMPTY_POOL_PLACEHOLDER
<1>3. ASSUME NEW p \in DOMAIN pages
      PROVE  /\ pages[p] \in Seq(Entries)
             /\ Len(pages[p]) \in 0..Capacity
             /\ DOMAIN pages[p] = 1..Len(pages[p])
  <2>1. pages[p] \in Seq(Entries)
    BY <1>1, <1>3, ElementOfSeq
  <2>2. Len(pages[p]) \in Nat /\ DOMAIN pages[p] = 1..Len(pages[p])
    BY <2>1, LenProperties
  <2> QED
    BY <2>1, <2>2, <1>3, PoolAssumption DEF TypeOK
<1> QED
  BY <1>1, <1>2, <1>3

(* autoreleaseFast either sets the placeholder, for the first pool of a    *)
(* thread without pages, or puts its entry on top of the hot page.         *)
LEMMA AddingAnEntry ==
  ASSUME NormalMode, TypeOK, Unused, Layout, NEW e \in Entries, AutoreleaseFast(e)
  PROVE  \/ /\ tls = Nil /\ e = POOL_BOUNDARY
            /\ tls' = EMPTY_POOL_PLACEHOLDER /\ pages' = pages
         \/ Added(e)
<1> USE PoolAssumption
<1>1. CASE HasPage /\ ~Full(tls)
  <2>1. /\ tls \in 1..Len(pages) /\ pages[tls] \in Seq(Entries)
        /\ Len(pages[tls]) \in Nat /\ Len(pages[tls]) < Capacity
        /\ DOMAIN pages[tls] = 1..Len(pages[tls])
    BY <1>1, HotPageExists DEF Full
  <2> DEFINE page == Append(pages[tls], e)
  <2>2. pages' = [pages EXCEPT ![tls] = page] /\ tls' = tls
    BY <1>1, HotPageExists DEF AutoreleaseFast, Add
  <2>3. /\ page \in Seq(Entries) /\ Len(page) = Len(pages[tls]) + 1
        /\ \A k \in 1..Len(pages[tls]) : page[k] = pages[tls][k]
        /\ page[Len(page)] = e
        /\ DOMAIN page = 1..Len(pages[tls]) + 1
    <3>1. /\ page \in Seq(Entries) /\ Len(page) = Len(pages[tls]) + 1
          /\ \A k \in 1..Len(pages[tls]) : page[k] = pages[tls][k]
          /\ page[Len(pages[tls]) + 1] = e
      BY <2>1, AppendProperties
    <3> QED
      BY <3>1, LenProperties
  <2> HIDE DEF page
  <2>4. pages' \in Seq(Seq(Entries)) /\ DOMAIN pages' = DOMAIN pages
    BY <2>1, <2>2, <2>3, HotPageExists, ExceptSeq, LenProperties
  <2>5. /\ pages'[tls] = page
        /\ \A p \in DOMAIN pages : p # tls => pages'[p] = pages[p]
    BY <2>1, <2>2, HotPageExists
  <2>6. \A p \in DOMAIN pages' : Len(pages'[p]) <= Capacity
    <3>1. Len(pages'[tls]) <= Capacity
      BY <2>1, <2>3, <2>5
    <3>2. \A p \in DOMAIN pages : p # tls => Len(pages'[p]) <= Capacity
      BY <2>5 DEF TypeOK
    <3> QED
      BY <2>4, <3>1, <3>2
  <2>7. \A p \in DOMAIN pages' : /\ p < tls' => Len(pages'[p]) = Capacity
                                 /\ p > tls' => pages'[p] = <<>>
    BY <1>1, <2>2, <2>4, <2>5 DEF Layout, Full
  <2>8. \A p \in 1..tls : \A k \in DOMAIN pages[p] :
          k \in DOMAIN pages'[p] /\ pages'[p][k] = pages[p][k]
    <3> TAKE p \in 1..tls
    <3>1. p \in DOMAIN pages
      BY <2>1, HotPageExists
    <3>2. CASE p = tls
      BY SMTT(60), <2>1, <2>3, <2>5, <3>2
    <3>3. CASE p # tls
      BY <2>5, <3>1, <3>3
    <3> QED
      BY <3>2, <3>3
  <2>9. tls # EMPTY_POOL_PLACEHOLDER
    BY <1>1 DEF HasPage
  <2>10. tls' \in DOMAIN pages' /\ Len(pages'[tls']) \in 1..Capacity
         /\ pages'[tls'][Len(pages'[tls'])] = e
         /\ Len(pages'[tls]) = Len(pages[tls]) + 1
    BY <2>1, <2>2, <2>3, <2>4, <2>5, HotPageExists
  <2> QED
    BY <2>2, <2>4, <2>6, <2>7, <2>8, <2>9, <2>10 DEF Added
<1>2. CASE HasPage /\ Full(tls)
  <2>1. AutoreleaseFullPage(e)
    BY <1>2, HotPageExists DEF AutoreleaseFast
  <2>2. /\ tls' = tls + 1
        /\ pages' \in Seq(Seq(Entries)) /\ tls + 1 \in DOMAIN pages'
        /\ pages'[tls + 1] = <<e>>
        /\ \A p \in 1..tls : pages'[p] = pages[p]
        /\ \A p \in DOMAIN pages' : p > tls + 1 => pages'[p] = <<>>
    BY <1>2, <2>1, NextPage
  <2>3. tls \in 1..Len(pages) /\ DOMAIN pages = 1..Len(pages) /\ Len(pages) \in Nat
    BY <1>2, HotPageExists
  <2>4. DOMAIN pages' = 1..Len(pages') /\ Len(pages') \in Nat
    BY <2>2, LenProperties
  <2>5. \A p \in 1..tls : Len(pages'[p]) = Capacity
    <3> TAKE p \in 1..tls
    <3>1. p \in DOMAIN pages /\ (p = tls \/ p < tls)
      BY <2>3
    <3>2. Len(pages[p]) = Capacity
      BY <1>2, <3>1 DEF Layout, Full
    <3> QED
      BY <2>2, <3>2
  <2>6. Len(<<e>>) = 1 /\ <<e>>[1] = e /\ Len(<<>>) = 0
    OBVIOUS
  <2>7. \A p \in DOMAIN pages' : p \in 1..tls \/ p = tls + 1 \/ p > tls + 1
    BY <2>3, <2>4
  <2>8. \A p \in DOMAIN pages' : Len(pages'[p]) <= Capacity
    <3> TAKE p \in DOMAIN pages'
    <3>1. CASE p \in 1..tls
      BY <2>5, <3>1
    <3>2. CASE p = tls + 1
      <4>1. Len(pages'[p]) = 1
        BY <2>2, <2>6, <3>2
      <4> QED
        BY <4>1
    <3>3. CASE p > tls + 1
      <4>1. Len(pages'[p]) = 0
        BY <2>2, <2>6, <3>3
      <4> QED
        BY <4>1
    <3> QED
      BY <2>7, <3>1, <3>2, <3>3
  <2>9. \A p \in DOMAIN pages' : /\ p < tls' => Len(pages'[p]) = Capacity
                                 /\ p > tls' => pages'[p] = <<>>
    BY <2>2, <2>3, <2>4, <2>5
  <2>10. tls # EMPTY_POOL_PLACEHOLDER
    BY <1>2 DEF HasPage
  <2> QED
    BY <2>2, <2>3, <2>6, <2>8, <2>9, <2>10 DEF Added
<1>3. CASE tls = EMPTY_POOL_PLACEHOLDER
  <2>1. AutoreleaseNoPage(e) /\ ~HasPage /\ tls # Nil
    BY <1>3, HotPageExists DEF AutoreleaseFast, HasPage, Nil, EMPTY_POOL_PLACEHOLDER
  <2>2. pages' = [<< <<POOL_BOUNDARY>> >> EXCEPT ![1] = Append(@, e)] /\ tls' = 1
    BY <1>3, <2>1 DEF AutoreleaseNoPage, Add
  <2>3. pages' = << <<POOL_BOUNDARY, e>> >>
    BY <2>2
  <2>4. POOL_BOUNDARY \in Entries
    BY DEF Entries
  <2>5. pages' \in Seq(Seq(Entries)) /\ DOMAIN pages' = {1}
    BY <2>3, <2>4
  <2>6. pages'[1] = <<POOL_BOUNDARY, e>> /\ Len(pages'[1]) = 2
        /\ pages'[1][1] = POOL_BOUNDARY /\ pages'[1][2] = e
    BY <2>3
  <2> QED
    BY <2>1, <2>2, <2>5, <2>6 DEF Added
<1>4. CASE tls = Nil /\ e # POOL_BOUNDARY
  <2>1. AutoreleaseNoPage(e) /\ ~HasPage /\ tls # EMPTY_POOL_PLACEHOLDER
    BY <1>4, HotPageExists DEF AutoreleaseFast, HasPage, Nil, EMPTY_POOL_PLACEHOLDER
  <2>2. pages' = [<< <<>> >> EXCEPT ![1] = Append(@, e)] /\ tls' = 1
    BY <1>4, <2>1 DEF AutoreleaseNoPage, Add, NormalMode
  <2>3. pages' = << <<e>> >>
    BY <2>2
  <2>4. pages' \in Seq(Seq(Entries)) /\ DOMAIN pages' = {1}
    BY <2>3
  <2>5. pages'[1] = <<e>> /\ Len(pages'[1]) = 1 /\ pages'[1][1] = e
    BY <2>3
  <2> QED
    BY <2>1, <2>2, <2>4, <2>5 DEF Added
<1>5. CASE tls = Nil /\ e = POOL_BOUNDARY
  <2>1. AutoreleaseNoPage(e) /\ tls # EMPTY_POOL_PLACEHOLDER
    BY <1>5, HotPageExists DEF AutoreleaseFast, HasPage, Nil, EMPTY_POOL_PLACEHOLDER
  <2> QED
    BY <1>5, <2>1 DEF AutoreleaseNoPage, NormalMode
<1> QED
  BY <1>1, <1>2, <1>3, <1>4, <1>5, HotPageExists

-----------------------------------------------------------------------------
(* Calls                                                                   *)

(* A pool's token names a page that exists and a place within it.          *)
LEMMA CallTypes ==
  ASSUME TypeOK
  PROVE  /\ calls \in Seq(Frame) /\ Len(calls) \in Nat /\ DOMAIN calls = 1..Len(calls)
         /\ \A i \in DOMAIN calls : /\ calls[i] \in Frame
                                    /\ calls[i].page \in Nat /\ calls[i].at \in Nat
                                    /\ calls[i].page \in DOMAIN pages \cup {Nil}
                                    /\ PageOf(i) \in Nat \ {0}
<1>1. calls \in Seq(Frame) /\ Len(calls) \in Nat /\ DOMAIN calls = 1..Len(calls)
  BY LenProperties DEF TypeOK, Frame
<1>2. ASSUME NEW i \in DOMAIN calls
      PROVE  calls[i] \in Frame /\ calls[i].page \in Nat /\ calls[i].at \in Nat
             /\ calls[i].page \in DOMAIN pages \cup {Nil}
             /\ PageOf(i) \in Nat \ {0}
  <2>1. calls[i] \in Frame
    BY <1>1, <1>2, ElementOfSeq
  <2>2. calls[i].page \in Nat /\ calls[i].at \in 0..Capacity
    BY <2>1 DEF Frame
  <2> QED
    BY <2>1, <2>2, <1>2, PoolAssumption DEF PageOf, Nil, TypeOK
<1> QED
  BY <1>1, <1>2

(* Calls keep their places: none is added, some may end, some may begin    *)
(* to pop or go on with it.                                                *)
Stay ==
  \A i \in DOMAIN calls' :
    /\ i \in DOMAIN calls
    /\ PageOf(i)' = PageOf(i)
    /\ calls'[i].at = calls[i].at
    /\ calls'[i].state = "open" => calls[i].state = "open"
    /\ calls'[i].page = Nil => calls[i].page = Nil /\ calls'[i].state = "open"

(* Pools that keep their places stay nested in the order of their pushes.  *)
LEMMA NestedKept ==
  ASSUME Nested, Stay
  PROVE  Nested'
BY DEF Nested, Stay

(* At most pages above the hot page are freed.                             *)
Shrunk ==
  /\ pages' \in Seq(Seq(Entries))
  /\ tls' = tls
  /\ tls \in DOMAIN pages'
  /\ \A p \in DOMAIN pages' : p \in DOMAIN pages /\ pages'[p] = pages[p]

(* Freeing only pages above the hot page leaves every pool's token valid.  *)
LEMMA FramesKept ==
  ASSUME IInv, HasPage, Stay, Shrunk
  PROVE  Frames'
<1> SUFFICES ASSUME NEW i \in DOMAIN calls'
             PROVE  /\ PageOf(i)' <= tls
                    /\ calls'[i].at < Capacity
                    /\ calls'[i].page = Nil => calls'[i].at = 0 /\ calls'[i].state = "open"
                    /\ PageOf(i)' = tls => calls'[i].at <= Len(pages'[tls])
                    /\ calls'[i].state = "open" =>
                         /\ calls'[i].at + 1 \in DOMAIN pages'[PageOf(i)']
                         /\ pages'[PageOf(i)'][calls'[i].at + 1] = POOL_BOUNDARY
  BY DEF Frames, Shrunk
<1>1. /\ i \in DOMAIN calls /\ PageOf(i)' = PageOf(i) /\ calls'[i].at = calls[i].at
      /\ calls'[i].state = "open" => calls[i].state = "open"
      /\ calls'[i].page = Nil => calls[i].page = Nil /\ calls'[i].state = "open"
  BY DEF Stay
<1>2. PageOf(i) \in Nat \ {0} /\ PageOf(i) <= tls /\ tls \in Nat
  BY <1>1, CallTypes, HotPageExists DEF IInv, Frames
<1>3. DOMAIN pages' = 1..Len(pages') /\ Len(pages') \in Nat
  BY LenProperties DEF Shrunk
<1>4. pages'[tls] = pages[tls] /\ pages'[PageOf(i)] = pages[PageOf(i)]
  BY <1>2, <1>3 DEF Shrunk
<1> QED
  BY <1>1, <1>4 DEF Frames, IInv

(* What kill may do while no pool moves preserves the invariant.           *)
LEMMA StayKeeps ==
  ASSUME IInv, HasPage, Stay, Shrunk, calls' \in Seq(Frame), exiting' \in BOOLEAN
  PROVE  IInv'
<1>1. Frames' /\ Nested'
  BY FramesKept, NestedKept DEF IInv
<1>2. HasPage' /\ Unused'
  BY DEF HasPage, Shrunk, Unused
<1>3. Layout'
  BY DEF Layout, Shrunk, Full, HasPage, IInv
<1>4. \A p \in DOMAIN pages' : Len(pages'[p]) <= Capacity
  BY DEF Shrunk, IInv, TypeOK
<1>5. ASSUME NEW i \in DOMAIN calls'
      PROVE  calls'[i].page \in DOMAIN pages' \cup {Nil}
  <2>1. i \in DOMAIN calls /\ PageOf(i)' = PageOf(i) /\ PageOf(i) \in Nat \ {0}
        /\ PageOf(i) <= tls /\ tls \in Nat
    BY <1>5, CallTypes, HotPageExists DEF IInv, Frames, Stay
  <2>2. DOMAIN pages' = 1..Len(pages') /\ Len(pages') \in Nat /\ tls \in DOMAIN pages'
    BY LenProperties DEF Shrunk
  <2>3. PageOf(i)' \in DOMAIN pages'
    BY <2>1, <2>2
  <2> QED
    BY <2>3 DEF PageOf
<1>6. TypeOK'
  BY <1>4, <1>5 DEF TypeOK, Shrunk, Entries, Frame
<1> QED
  BY <1>1, <1>2, <1>3, <1>6 DEF IInv

(* Only the last of the calls from i on remains, as a pop of its place.    *)
LEMMA CutBack ==
  ASSUME TypeOK, NEW i \in DOMAIN calls, NEW f \in Frame,
         calls' = Append(SubSeq(calls, 1, i - 1), f)
  PROVE  /\ calls' \in Seq(Frame) /\ DOMAIN calls' = 1..i
         /\ \A j \in 1..i : /\ j \in DOMAIN calls
                            /\ calls'[j] = IF j = i THEN f ELSE calls[j]
<1>1. calls \in Seq(Frame) /\ i \in 1..Len(calls) /\ DOMAIN calls = 1..Len(calls)
      /\ Len(calls) \in Nat
  BY CallTypes
<1> QED
  BY <1>1, PrefixThen

(* The calls that were there are still below the entry that was added.     *)
LEMMA OldFrames ==
  ASSUME IInv, NEW e \in Entries, Added(e), NEW i \in DOMAIN calls
  PROVE  /\ calls[i].at < Capacity
         /\ calls[i].page = Nil => calls[i].at = 0 /\ calls[i].state = "open"
         /\ \/ PageOf(i) < tls'
            \/ /\ PageOf(i) = tls'
               /\ calls[i].at <= Len(pages'[tls']) - 1
               /\ calls[i].state = "open" => calls[i].at < Len(pages'[tls']) - 1
         /\ calls[i].page \in DOMAIN pages' \cup {Nil}
         /\ calls[i].state = "open" =>
              /\ calls[i].at + 1 \in DOMAIN pages'[PageOf(i)]
              /\ pages'[PageOf(i)][calls[i].at + 1] = POOL_BOUNDARY
<1>1. CASE HasPage
  <2>1. /\ PageOf(i) \in 1..tls /\ tls \in DOMAIN pages /\ tls \in Nat
        /\ calls[i].at \in Nat /\ calls[i].at < Capacity
        /\ calls[i].page = Nil => calls[i].at = 0 /\ calls[i].state = "open"
        /\ PageOf(i) = tls => calls[i].at <= Len(pages[tls])
    BY <1>1, CallTypes, HotPageExists DEF IInv, Frames
  <2>2. /\ \/ tls < tls'
           \/ tls = tls' /\ Len(pages'[tls]) = Len(pages[tls]) + 1
        /\ \A k \in DOMAIN pages[PageOf(i)] :
             k \in DOMAIN pages'[PageOf(i)] /\ pages'[PageOf(i)][k] = pages[PageOf(i)][k]
    BY <1>1, <2>1 DEF Added
  <2>3. tls' \in DOMAIN pages' /\ DOMAIN pages' = 1..Len(pages') /\ Len(pages') \in Nat
    BY LenProperties DEF Added
  <2>4. calls[i].state = "open" =>
          /\ calls[i].at + 1 \in DOMAIN pages[PageOf(i)]
          /\ pages[PageOf(i)][calls[i].at + 1] = POOL_BOUNDARY
    BY <1>1 DEF IInv, Frames
  <2>5. calls[i].state = "open" /\ PageOf(i) = tls => calls[i].at < Len(pages[tls])
    <3>1. DOMAIN pages[tls] = 1..Len(pages[tls]) /\ Len(pages[tls]) \in Nat
      BY <2>1, HotPageExists DEF IInv
    <3> QED
      BY <2>1, <2>4, <3>1
  <2>6. \/ PageOf(i) < tls'
        \/ /\ PageOf(i) = tls'
           /\ calls[i].at <= Len(pages'[tls']) - 1
           /\ calls[i].state = "open" => calls[i].at < Len(pages'[tls']) - 1
    <3>1. CASE tls < tls'
      BY <2>1, <2>3, <3>1
    <3>2. CASE tls = tls' /\ Len(pages'[tls]) = Len(pages[tls]) + 1
      <4>1. Len(pages[tls]) \in Nat
        BY <2>1, HotPageExists DEF IInv
      <4>2. Len(pages'[tls']) - 1 = Len(pages[tls])
        BY <3>2, <4>1
      <4> QED
        BY <2>1, <2>5, <3>2, <4>2
    <3> QED
      BY <2>2, <3>1, <3>2
  <2>7. calls[i].page \in DOMAIN pages' \cup {Nil}
    <3>1. PageOf(i) \in DOMAIN pages'
      BY <2>1, <2>2, <2>3
    <3> QED
      BY <3>1 DEF PageOf
  <2> QED
    BY <2>1, <2>2, <2>4, <2>6, <2>7
<1>2. CASE tls = EMPTY_POOL_PLACEHOLDER
  <2>1. calls = <<Scope(Nil, 0, "open")>>
    BY <1>2 DEF IInv, Unused, HasPage, Nil, EMPTY_POOL_PLACEHOLDER
  <2>2. i = 1 /\ calls[i] = [page |-> Nil, at |-> 0, state |-> "open"]
    BY <2>1 DEF Scope
  <2>3. tls' = 1 /\ Len(pages'[1]) = 2 /\ pages'[1][1] = POOL_BOUNDARY
    BY <1>2 DEF Added
  <2>4. pages'[1] \in Seq(Entries)
    BY <2>3, ElementOfSeq, LenProperties DEF Added
  <2>5. DOMAIN pages'[1] = 1..2
    BY <2>3, <2>4, LenProperties
  <2> QED
    BY <2>2, <2>3, <2>5, PoolAssumption DEF PageOf
<1>3. CASE tls = Nil
  BY <1>3 DEF IInv, Unused, HasPage, EMPTY_POOL_PLACEHOLDER, Nil
<1> QED
  BY <1>1, <1>2, <1>3 DEF HasPage

(* What adding an entry leaves of the invariant, whoever adds it.          *)
LEMMA AddedShape ==
  ASSUME NEW e \in Entries, Added(e)
  PROVE  /\ HasPage' /\ Unused' /\ Layout'
         /\ pages' \in Seq(Seq(Entries))
         /\ \A p \in DOMAIN pages' : Len(pages'[p]) <= Capacity
         /\ tls' \in DOMAIN pages' \cup {Nil, EMPTY_POOL_PLACEHOLDER}
<1>1. DOMAIN pages' = 1..Len(pages') /\ tls' \in DOMAIN pages'
  BY LenProperties DEF Added
<1>2. HasPage'
  BY <1>1 DEF HasPage, Nil, EMPTY_POOL_PLACEHOLDER
<1>3. Layout'
  BY <1>2 DEF Layout, Full, Added
<1> QED
  BY <1>1, <1>2, <1>3 DEF Unused, Added

-----------------------------------------------------------------------------
(* The actions                                                             *)

(* A thread that has not pushed a pool satisfies the invariant.            *)
LEMMA InitIInv == Init => IInv
<1> SUFFICES ASSUME Init PROVE IInv
  OBVIOUS
<1>1. /\ pages = <<>> /\ pages \in Seq(Seq(Entries)) /\ DOMAIN pages = {}
      /\ calls = <<>> /\ calls \in Seq(Frame) /\ DOMAIN calls = {}
      /\ tls = Nil /\ exiting = FALSE
  BY DEF Init
<1>2. TypeOK
  BY <1>1 DEF TypeOK, Entries, Frame
<1>3. ~HasPage
  BY <1>1 DEF HasPage
<1> QED
  BY <1>1, <1>2, <1>3 DEF IInv, Unused, Layout, Frames, Nested

(* A step that leaves the thread's pools alone preserves the invariant.    *)
LEMMA StutterKeeps == IInv /\ UNCHANGED vars => IInv'
BY DEF IInv, vars, TypeOK, HasPage, Unused, Layout, Full, Frames, Nested, PageOf

(* No page, no calls.                                                      *)
LEMMA EmptyKeeps ==
  ASSUME pages' = <<>>, calls' = <<>>, tls' = Nil, exiting' \in BOOLEAN
  PROVE  IInv'
<1>1. /\ pages' \in Seq(Seq(Entries)) /\ DOMAIN pages' = {}
      /\ calls' \in Seq(Frame) /\ DOMAIN calls' = {}
  OBVIOUS
<1>2. TypeOK'
  BY <1>1 DEF TypeOK, Entries, Frame
<1>3. ~HasPage'
  BY DEF HasPage
<1> QED
  BY <1>1, <1>2, <1>3 DEF IInv, Unused, Layout, Frames, Nested

(* objc_autoreleasePoolPush preserves the invariant, placeholder and new   *)
(* page included.                                                          *)
LEMMA PushKeeps ==
  ASSUME NormalMode, IInv, Push
  PROVE  IInv'
<1>1. AutoreleaseFast(POOL_BOUNDARY) /\ exiting' = exiting /\ POOL_BOUNDARY \in Entries
  BY DEF Push, NormalMode, Entries
<1>2. CASE tls = Nil /\ tls' = EMPTY_POOL_PLACEHOLDER /\ pages' = pages
  <2>1. pages' = <<>> /\ calls = <<>>
    BY <1>2 DEF IInv, Unused, HasPage
  <2>2. calls' = <<Scope(Nil, 0, "open")>>
    BY <1>2, <2>1 DEF Push
  <2>3. Scope(Nil, 0, "open") \in Frame /\ Scope(Nil, 0, "open").page = Nil
    BY PoolAssumption DEF Scope, Frame, Nil
  <2>4. /\ pages' \in Seq(Seq(Entries)) /\ DOMAIN pages' = {}
        /\ calls' \in Seq(Frame) /\ DOMAIN calls' = {1}
        /\ calls'[1].page = Nil
    BY <2>1, <2>2, <2>3
  <2>5. TypeOK'
    BY <1>1, <1>2, <2>4 DEF TypeOK, Entries, Frame, IInv
  <2>6. ~HasPage' /\ tls' # Nil
    BY <1>2 DEF HasPage, Nil, EMPTY_POOL_PLACEHOLDER
  <2>7. Nested'
    BY <2>4 DEF Nested
  <2> QED
    BY <2>1, <2>2, <2>5, <2>6, <2>7 DEF IInv, Unused, Layout, Frames
<1>3. CASE Added(POOL_BOUNDARY)
  <2> DEFINE f == Scope(tls', Len(pages'[tls']) - 1, "open")
  <2>0. PICK n \in Nat : n = Len(calls)
    BY CallTypes DEF IInv
  <2>1. /\ HasPage' /\ Unused' /\ Layout'
        /\ pages' \in Seq(Seq(Entries))
        /\ \A p \in DOMAIN pages' : Len(pages'[p]) <= Capacity
        /\ tls' \in DOMAIN pages' \cup {Nil, EMPTY_POOL_PLACEHOLDER}
    BY <1>1, <1>3, AddedShape
  <2>2. /\ tls' \in DOMAIN pages' /\ tls' \in Nat \ {0}
        /\ Len(pages'[tls']) \in 1..Capacity
        /\ pages'[tls'][Len(pages'[tls'])] = POOL_BOUNDARY
        /\ DOMAIN pages'[tls'] = 1..Len(pages'[tls'])
    <3>1. pages' \in Seq(Seq(Entries)) /\ tls' \in DOMAIN pages'
      BY <1>3 DEF Added
    <3>2. tls' \in 1..Len(pages') /\ Len(pages') \in Nat /\ pages'[tls'] \in Seq(Entries)
      BY <3>1, LenProperties, ElementOfSeq
    <3> QED
      BY <1>3, <3>1, <3>2, LenProperties DEF Added
  <2>3. /\ f \in Frame /\ f.page = tls' /\ f.at = Len(pages'[tls']) - 1
        /\ f.state = "open" /\ f.page # Nil
    BY <2>2, PoolAssumption DEF Scope, Frame, Nil
  <2>4. calls' = Append(calls, f)
    BY <2>1 DEF Push, HasPage
  <2>5. calls \in Seq(Frame) /\ DOMAIN calls = 1..n
    BY <2>0, CallTypes DEF IInv
  <2> HIDE DEF f
  <2>6. /\ calls' \in Seq(Frame) /\ DOMAIN calls' = 1..n + 1
        /\ \A i \in 1..n : calls'[i] = calls[i]
        /\ calls'[n + 1] = f
    <3>1. /\ calls' \in Seq(Frame) /\ Len(calls') = n + 1
          /\ \A i \in 1..n : calls'[i] = calls[i]
          /\ calls'[n + 1] = f
      BY <2>0, <2>3, <2>4, <2>5, AppendProperties
    <3> QED
      BY <3>1, LenProperties
  <2>7. PageOf(n + 1)' = tls' /\ \A i \in 1..n : PageOf(i)' = PageOf(i)
    BY <2>3, <2>6 DEF PageOf
  <2>8. \A i \in 1..n :
          /\ calls[i].at < Capacity
          /\ calls[i].page = Nil => calls[i].at = 0 /\ calls[i].state = "open"
          /\ \/ PageOf(i) < tls'
             \/ /\ PageOf(i) = tls'
                /\ calls[i].at <= f.at
                /\ calls[i].state = "open" => calls[i].at < f.at
          /\ calls[i].page \in DOMAIN pages' \cup {Nil}
          /\ calls[i].state = "open" =>
               /\ calls[i].at + 1 \in DOMAIN pages'[PageOf(i)]
               /\ pages'[PageOf(i)][calls[i].at + 1] = POOL_BOUNDARY
    BY <1>1, <1>3, <2>3, <2>5, OldFrames
  <2>9. TypeOK'
    <3>1. \A i \in DOMAIN calls' : calls'[i].page \in DOMAIN pages' \cup {Nil}
      BY <2>2, <2>3, <2>6, <2>8, <2>5
    <3> QED
      BY <1>1, <2>1, <2>6, <3>1 DEF TypeOK, IInv, Entries, Frame
  <2>10. Frames'
    <3>1. ASSUME NEW i \in 1..n + 1
          PROVE  /\ PageOf(i)' <= tls'
                 /\ calls'[i].at < Capacity
                 /\ calls'[i].page = Nil => calls'[i].at = 0 /\ calls'[i].state = "open"
                 /\ PageOf(i)' = tls' => calls'[i].at <= Len(pages'[tls'])
                 /\ calls'[i].state = "open" =>
                      /\ calls'[i].at + 1 \in DOMAIN pages'[PageOf(i)']
                      /\ pages'[PageOf(i)'][calls'[i].at + 1] = POOL_BOUNDARY
      <4>1. CASE i = n + 1
        <5>1. calls'[i] = f /\ PageOf(i)' = tls'
          BY <4>1, <2>6, <2>7
        <5>2. f.at < Capacity /\ f.at <= Len(pages'[tls']) /\ f.at + 1 = Len(pages'[tls'])
          BY <2>2, <2>3, PoolAssumption
        <5> QED
          BY <5>1, <5>2, <2>2, <2>3
      <4>2. CASE i \in 1..n
        <5>1. calls'[i] = calls[i] /\ PageOf(i)' = PageOf(i)
              /\ calls[i].at \in Nat /\ PageOf(i) \in Nat
          BY <4>2, <2>5, <2>6, <2>7, CallTypes DEF IInv
        <5>2. PageOf(i) <= tls' /\ (PageOf(i) = tls' => calls[i].at <= Len(pages'[tls']))
          BY <4>2, <2>2, <2>3, <2>8, <5>1
        <5> QED
          BY <4>2, <2>8, <5>1, <5>2
      <4> QED
        BY <4>1, <4>2, <2>5
    <3> QED
      BY <2>6, <3>1 DEF Frames
  <2>11. Nested'
    <3>1. ASSUME NEW i \in 1..n + 1, NEW j \in 1..n + 1, i < j
          PROVE  \/ PageOf(i)' < PageOf(j)'
                 \/ /\ PageOf(i)' = PageOf(j)'
                    /\ calls'[i].at <= calls'[j].at
                    /\ calls'[i].state = "open" => calls'[i].at < calls'[j].at
      <4>1. i \in 1..n /\ calls'[i] = calls[i] /\ PageOf(i)' = PageOf(i)
        BY <2>5, <2>6, <2>7, <3>1
      <4>2. CASE j = n + 1
        BY <4>1, <4>2, <2>3, <2>6, <2>7, <2>8
      <4>3. CASE j \in 1..n
        BY <4>1, <4>3, <2>5, <2>6, <2>7, <3>1 DEF IInv, Nested
      <4> QED
        BY <4>2, <4>3, <2>5
    <3> QED
      BY <2>6, <3>1 DEF Nested
  <2> QED
    BY SMTT(60), <2>1, <2>9, <2>10, <2>11 DEF IInv
<1> QED
  BY <1>1, <1>2, <1>3, AddingAnEntry DEF IInv

(* autorelease preserves the invariant.                                    *)
LEMMA AutoreleaseKeeps ==
  ASSUME NormalMode, IInv, NEW o \in Objects, Autorelease(o)
  PROVE  IInv'
<1>1. /\ AutoreleaseFast(o) /\ o \in Entries /\ o # POOL_BOUNDARY
      /\ exiting' = exiting /\ calls' = calls
  BY PoolAssumption DEF Autorelease, Entries
<1>2. Added(o)
  BY <1>1, AddingAnEntry DEF IInv
<1>3. /\ HasPage' /\ Unused' /\ Layout'
      /\ pages' \in Seq(Seq(Entries))
      /\ \A p \in DOMAIN pages' : Len(pages'[p]) <= Capacity
      /\ tls' \in DOMAIN pages' \cup {Nil, EMPTY_POOL_PLACEHOLDER}
  BY <1>1, <1>2, AddedShape
<1>4. ASSUME NEW i \in DOMAIN calls
      PROVE  /\ PageOf(i)' = PageOf(i)
             /\ PageOf(i) <= tls'
             /\ calls[i].at < Capacity
             /\ calls[i].page \in DOMAIN pages' \cup {Nil}
             /\ calls[i].page = Nil => calls[i].at = 0 /\ calls[i].state = "open"
             /\ PageOf(i) = tls' => calls[i].at <= Len(pages'[tls'])
             /\ calls[i].state = "open" =>
                  /\ calls[i].at + 1 \in DOMAIN pages'[PageOf(i)]
                  /\ pages'[PageOf(i)][calls[i].at + 1] = POOL_BOUNDARY
  <2>1. PageOf(i)' = PageOf(i) /\ PageOf(i) \in Nat /\ calls[i].at \in Nat
    BY <1>1, CallTypes DEF PageOf, IInv
  <2>2. tls' \in Nat /\ Len(pages'[tls']) \in Nat
    BY <1>2, LenProperties DEF Added
  <2> QED
    BY <1>1, <1>2, <2>1, <2>2, OldFrames
<1>5. TypeOK'
  BY <1>1, <1>3, <1>4 DEF TypeOK, IInv, Entries
<1>6. Frames'
  BY <1>1, <1>4 DEF Frames
<1>7. Nested'
  BY <1>1, <1>4 DEF Nested, IInv
<1> QED
  BY <1>3, <1>5, <1>6, <1>7 DEF IInv

(* The start of objc_autoreleasePoolPop preserves the invariant: it drops  *)
(* the nested pools and begins to release, or pops the placeholder.        *)
LEMMA PopKeeps ==
  ASSUME IInv, NEW i \in DOMAIN calls, Pop(i)
  PROVE  IInv'
<1>1. pages' = pages /\ exiting' = exiting /\ exiting \in BOOLEAN
  BY DEF Pop, IInv, TypeOK
<1>2. CASE ~HasPage
  <2>1. pages = <<>> /\ calls = <<Scope(Nil, 0, "open")>> /\ HotPage = Nil
    BY <1>2, HotPageExists DEF IInv, Unused
  <2>2. i = 1 /\ calls[i].page = Nil
    BY <2>1 DEF Scope
  <2>3. tls' = Nil /\ calls' = SubSeq(calls, 1, 0)
    BY <2>1, <2>2 DEF Pop
  <2>4. calls' = <<>>
    BY <2>3, SubSeqEmpty
  <2> QED
    BY <1>1, <2>1, <2>3, <2>4, EmptyKeeps
<1>3. CASE HasPage
  <2>1. HotPage # Nil /\ tls \in DOMAIN pages /\ pages \in Seq(Seq(Entries))
    BY <1>3, HotPageExists DEF IInv
  <2> DEFINE f == Scope(PageOf(i), calls[i].at, "popping")
  <2>2. /\ calls[i].at \in 0..Capacity /\ PageOf(i) \in Nat \ {0}
        /\ calls[i].page = Nil => calls[i].at = 0
    BY <1>3, CallTypes DEF IInv, Frame, Frames
  <2>3. calls' = Append(SubSeq(calls, 1, i - 1), f) /\ tls' = tls
    BY <2>1, <2>2 DEF Pop, PageOf
  <2>4. f \in Frame /\ f.page = PageOf(i) /\ f.at = calls[i].at /\ f.state = "popping"
    BY <2>2 DEF Scope, Frame
  <2> HIDE DEF f
  <2>5. /\ calls' \in Seq(Frame) /\ DOMAIN calls' = 1..i
        /\ \A j \in 1..i : j \in DOMAIN calls /\ calls'[j] = IF j = i THEN f ELSE calls[j]
    BY <2>3, <2>4, CutBack DEF IInv
  <2>6. Stay
    <3>1. \A j \in 1..i : calls[j].page = Nil => calls[j].state = "open"
      BY <1>3, <2>5 DEF IInv, Frames
    <3>2. PageOf(i)' = PageOf(i) /\ i \in 1..i
      BY <2>2, <2>4, <2>5, CallTypes DEF PageOf, Nil, IInv
    <3>3. \A j \in 1..i : PageOf(j)' = PageOf(j)
      BY <2>5, <3>2 DEF PageOf
    <3> QED
      BY <2>2, <2>4, <2>5, <3>1, <3>3 DEF Stay, Nil
  <2>7. Shrunk
    BY <1>1, <2>1, <2>3 DEF Shrunk
  <2> QED
    BY <1>1, <1>3, <2>5, <2>6, <2>7, StayKeeps
<1> QED
  BY <1>2, <1>3

(* A pool that a release has pushed and popped preserves the invariant     *)
(* when the release it ran in goes on.                                     *)
LEMMA ReturnKeeps ==
  ASSUME IInv, NEW i \in DOMAIN calls, Return(i)
  PROVE  IInv'
<1>1. pages' = pages /\ tls' = tls /\ exiting' = exiting /\ exiting \in BOOLEAN
  BY DEF Return, IInv, TypeOK
<1>2. HasPage
  <2>1. calls[i].state = "releasing"
    BY DEF Return
  <2>2. CASE ~HasPage
    <3>1. calls = <<Scope(Nil, 0, "open")>>
      BY <2>2 DEF IInv, Unused
    <3> QED
      BY <2>1, <3>1 DEF Scope
  <2> QED
    BY <2>2
<1> DEFINE f == [calls[i] EXCEPT !.state = "popping"]
<1>3. /\ f \in Frame /\ f.page = calls[i].page /\ f.at = calls[i].at
      /\ f.state = "popping" /\ f.page # Nil
  <2>1. calls[i] \in Frame /\ calls[i].page # Nil
    BY <1>2, CallTypes DEF IInv, Frames, Return
  <2> QED
    BY <2>1 DEF Frame
<1>4. calls' = Append(SubSeq(calls, 1, i - 1), f)
  BY DEF Return
<1> HIDE DEF f
<1>5. /\ calls' \in Seq(Frame) /\ DOMAIN calls' = 1..i
      /\ \A j \in 1..i : j \in DOMAIN calls /\ calls'[j] = IF j = i THEN f ELSE calls[j]
  BY <1>3, <1>4, CutBack DEF IInv
<1>6. Stay
  <2>1. \A j \in 1..i : calls[j].page = Nil => calls[j].state = "open"
    BY <1>2, <1>5 DEF IInv, Frames
  <2>2. \A j \in 1..i : PageOf(j)' = PageOf(j)
    BY <1>3, <1>5 DEF PageOf
  <2> QED
    BY <1>3, <1>5, <2>1, <2>2 DEF Stay
<1>7. Shrunk
  BY <1>1, <1>2, HotPageExists DEF Shrunk, IInv
<1> QED
  BY <1>1, <1>2, <1>5, <1>6, <1>7, StayKeeps

(* tls_dealloc preserves the invariant.                                    *)
LEMMA ThreadExitKeeps ==
  ASSUME NormalMode, IInv, ThreadExit
  PROVE  IInv'
<1>1. CASE tls = EMPTY_POOL_PLACEHOLDER
  <2>1. ~HasPage /\ pages = <<>>
    BY <1>1 DEF HasPage, IInv, Unused
  <2>2. calls' = <<>> /\ tls' = Nil /\ pages' = pages /\ exiting' = exiting
    BY <1>1 DEF ThreadExit
  <2> QED
    BY <2>1, <2>2, EmptyKeeps DEF IInv, TypeOK
<1>2. CASE tls # EMPTY_POOL_PLACEHOLDER /\ pages[1] = <<>>
  <2>1. HasPage /\ tls # Nil
    BY <1>2 DEF ThreadExit, HasPage
  <2>2. 1 <= Len(pages) /\ Len(pages) \in Nat
    BY <2>1, HotPageExists DEF IInv
  <2>3. pages' = SubSeq(pages, 1, 0)
    BY <1>2, <2>2 DEF ThreadExit, Kill, NormalMode
  <2>4. pages' = <<>>
    BY <2>3, SubSeqEmpty
  <2>5. calls' = <<>> /\ tls' = Nil /\ exiting' = exiting
    BY <1>2 DEF ThreadExit
  <2> QED
    BY <2>4, <2>5, EmptyKeeps DEF IInv, TypeOK
<1>3. CASE tls # EMPTY_POOL_PLACEHOLDER /\ pages[1] # <<>>
  <2> DEFINE f == Scope(1, 0, "popping")
  <2>1. HasPage /\ tls \in 1..Len(pages) /\ Len(pages) \in Nat /\ DOMAIN pages = 1..Len(pages)
    <3>1. HasPage
      BY <1>3 DEF ThreadExit, HasPage
    <3> QED
      BY <3>1, HotPageExists DEF IInv
  <2>2. calls' = <<f>> /\ exiting' = TRUE /\ pages' = pages /\ tls' = tls
    BY <1>3 DEF ThreadExit
  <2>3. f \in Frame /\ f.page = 1 /\ f.at = 0 /\ f.state = "popping"
    BY PoolAssumption DEF Scope, Frame
  <2> HIDE DEF f
  <2>4. calls' \in Seq(Frame) /\ DOMAIN calls' = {1} /\ calls'[1] = f
    BY <2>2, <2>3
  <2>5. PageOf(1)' = 1
    BY <2>3, <2>4 DEF PageOf, Nil
  <2>6. TypeOK'
    BY <2>1, <2>2, <2>3, <2>4 DEF TypeOK, IInv, Frame
  <2>7. HasPage' /\ Unused' /\ Layout'
    BY <2>1, <2>2 DEF HasPage, Unused, Layout, Full, IInv
  <2>8. Frames'
    <3>1. Len(pages[tls]) \in Nat
      BY <2>1, HotPageExists DEF IInv
    <3>2. 1 <= tls /\ 0 <= Len(pages[tls]) /\ 0 < Capacity
      BY <2>1, <3>1, PoolAssumption
    <3>3. "popping" # "open" /\ f.page # Nil
      BY <2>3 DEF Nil
    <3> QED
      BY <2>2, <2>3, <2>4, <2>5, <3>2, <3>3 DEF Frames
  <2>9. Nested'
    BY <2>4 DEF Nested
  <2> QED
    BY <2>6, <2>7, <2>8, <2>9 DEF IInv
<1> QED
  BY <1>1, <1>2, <1>3

(* The pop in progress, and where its next release comes from.             *)
LEMMA LastCall ==
  ASSUME IInv, Releasing
  PROVE  /\ HasPage
         /\ Len(calls) \in DOMAIN calls /\ Last(calls) = calls[Len(calls)]
         /\ calls[Len(calls)].state = "popping"
         /\ calls[Len(calls)].page = PageOf(Len(calls))
         /\ calls[Len(calls)].page \in 1..tls
         /\ calls[Len(calls)].at \in Nat /\ calls[Len(calls)].at < Capacity
         /\ calls[Len(calls)].page = tls => calls[Len(calls)].at <= Len(pages[tls])
<1>1. calls # <<>> /\ Last(calls).state = "popping"
  BY DEF Releasing
<1>2. /\ calls \in Seq(Frame) /\ Len(calls) \in DOMAIN calls
      /\ Last(calls) = calls[Len(calls)]
  <2>1. calls \in Seq(Frame) /\ DOMAIN calls = 1..Len(calls)
    BY CallTypes DEF IInv
  <2>2. Len(calls) \in Nat \ {0} /\ Last(calls) = calls[Len(calls)]
    BY <1>1, <2>1, FrontLast
  <2> QED
    BY <2>1, <2>2
<1>3. HasPage
  <2>1. CASE ~HasPage
    <3>1. calls = <<Scope(Nil, 0, "open")>>
      BY <1>1, <2>1 DEF IInv, Unused
    <3> QED
      BY <1>2, <1>1, <3>1 DEF Scope
  <2> QED
    BY <2>1
<1>4. calls[Len(calls)].page # Nil
  BY <1>1, <1>2, <1>3 DEF IInv, Frames
<1>5. PageOf(Len(calls)) \in Nat \ {0} /\ tls \in Nat /\ calls[Len(calls)].at \in Nat
  BY <1>2, <1>3, CallTypes, HotPageExists DEF IInv
<1> QED
  BY <1>1, <1>2, <1>3, <1>4, <1>5 DEF IInv, Frames, PageOf

(* The page that releaseUntil's inner loop finds is the hot page or the    *)
(* one before it, and it is not below the stop.                            *)
LEMMA HottestPage ==
  ASSUME IInv, Releasing, NotDone
  PROVE  /\ HottestNonempty \in 1..tls
         /\ \/ HottestNonempty = tls
            \/ HottestNonempty = tls - 1 /\ pages[tls] = <<>>
         /\ pages[HottestNonempty] # <<>>
         /\ \/ Last(calls).page < HottestNonempty
            \/ /\ Last(calls).page = HottestNonempty
               /\ Last(calls).at < Len(pages[HottestNonempty])
<1> DEFINE c == calls[Len(calls)]
<1>1. /\ HasPage /\ Last(calls) = c
      /\ c.page \in 1..tls /\ c.at \in Nat /\ c.at < Capacity
      /\ c.page = tls => c.at <= Len(pages[tls])
  BY LastCall
<1>2. /\ tls \in 1..Len(pages) /\ Len(pages) \in Nat /\ DOMAIN pages = 1..Len(pages)
      /\ \A p \in DOMAIN pages : pages[p] \in Seq(Entries) /\ Len(pages[p]) \in 0..Capacity
  BY <1>1, HotPageExists DEF IInv
<1>3. Len(pages[c.page]) # c.at
  BY <1>1 DEF NotDone
<1> HIDE DEF c
<1>4. CASE pages[tls] # <<>>
  <2>1. \A p \in 1..tls :
          pages[p] # <<>> /\ (\A q \in p + 1 .. tls : pages[q] = <<>>) <=> p = tls
    BY <1>2, <1>4
  <2>2. tls \in 1..tls
    BY <1>2
  <2>3. HottestNonempty = tls
    BY <2>1, <2>2 DEF HottestNonempty
  <2>4. c.page < tls \/ (c.page = tls /\ c.at < Len(pages[tls]))
    <3>1. Len(pages[tls]) \in Nat
      BY <1>2
    <3>2. c.page = tls => c.at < Len(pages[tls])
      BY <1>1, <1>3, <3>1
    <3> QED
      BY <1>1, <1>2, <3>2
  <2> QED
    BY <1>1, <1>4, <2>2, <2>3, <2>4
<1>5. CASE pages[tls] = <<>>
  <2>1. Len(<<>>) = 0
    OBVIOUS
  <2>2. c.page # tls
    BY <1>1, <1>3, <1>5, <2>1
  <2>3. tls - 1 \in 1..tls /\ tls - 1 \in DOMAIN pages /\ tls - 1 < tls /\ c.page <= tls - 1
    BY <1>1, <1>2, <2>2
  <2>4. Len(pages[tls - 1]) = Capacity
    BY <1>1, <2>3 DEF IInv, Layout, Full
  <2>5. pages[tls - 1] # <<>>
    BY <2>1, <2>4, PoolAssumption
  <2>6. \A p \in 1..tls :
          pages[p] # <<>> /\ (\A q \in p + 1 .. tls : pages[q] = <<>>) <=> p = tls - 1
    <3> TAKE p \in 1..tls
    <3>1. CASE p = tls
      BY <1>2, <1>5, <3>1
    <3>2. CASE p = tls - 1
      <4>1. \A q \in p + 1 .. tls : q = tls
        BY <1>2, <3>2
      <4> QED
        BY <1>5, <2>5, <3>2, <4>1
    <3>3. CASE p < tls - 1
      <4>1. tls - 1 \in p + 1 .. tls
        BY <1>2, <3>3
      <4> QED
        BY <1>2, <2>5, <3>3, <4>1
    <3> QED
      BY <1>2, <3>1, <3>2, <3>3
  <2>7. HottestNonempty = tls - 1
    BY <2>3, <2>6 DEF HottestNonempty
  <2>8. c.page < tls - 1 \/ (c.page = tls - 1 /\ c.at < Len(pages[tls - 1]))
    BY <1>1, <1>2, <2>3, <2>4
  <2> QED
    BY <1>1, <1>5, <2>3, <2>5, <2>7, <2>8
<1> QED
  BY <1>4, <1>5

(* When it is over, the page whose pool was popped is the hot page.        *)
LEMMA DoneOnHotPage ==
  ASSUME IInv, Releasing, ~NotDone
  PROVE  HasPage /\ Last(calls).page = tls
<1>1. /\ HasPage /\ Last(calls).page \in 1..tls /\ Last(calls).at < Capacity
  BY LastCall
<1>2. Len(pages[Last(calls).page]) = Last(calls).at
  BY DEF NotDone
<1>3. tls \in 1..Len(pages) /\ DOMAIN pages = 1..Len(pages) /\ Len(pages) \in Nat
  BY <1>1, HotPageExists DEF IInv
<1>4. CASE Last(calls).page < tls
  <2>1. Len(pages[Last(calls).page]) = Capacity
    BY <1>1, <1>3, <1>4 DEF IInv, Layout, Full
  <2> QED
    BY <1>1, <1>2, <2>1, PoolAssumption
<1> QED
  BY <1>1, <1>3, <1>4

(* One turn of releaseUntil preserves the invariant, whether the hot page  *)
(* or, when that is empty, the page before it loses its last entry.        *)
LEMMA ReleaseOneKeeps ==
  ASSUME IInv, ReleaseOne
  PROVE  IInv'
<1>0. PICK p \in 1..tls : p = HottestNonempty
  BY HottestPage DEF ReleaseOne
<1>1. PICK n \in DOMAIN calls : n = Len(calls)
  BY LastCall DEF ReleaseOne
<1>2. /\ HasPage /\ calls[n].state = "popping" /\ calls[n].page = PageOf(n)
      /\ Last(calls) = calls[n] /\ calls[n].page \in 1..tls
  BY <1>1, LastCall DEF ReleaseOne
<1>3. /\ tls \in 1..Len(pages) /\ Len(pages) \in Nat /\ DOMAIN pages = 1..Len(pages)
      /\ pages \in Seq(Seq(Entries)) /\ p \in DOMAIN pages
      /\ \A q \in DOMAIN pages : /\ pages[q] \in Seq(Entries)
                                 /\ Len(pages[q]) \in 0..Capacity
                                 /\ DOMAIN pages[q] = 1..Len(pages[q])
  BY <1>0, <1>2, HotPageExists DEF IInv
<1>4. /\ p = tls \/ (p = tls - 1 /\ pages[tls] = <<>>)
      /\ pages[p] # <<>>
      /\ calls[n].page < p \/ (calls[n].page = p /\ calls[n].at < Len(pages[p]))
  BY <1>0, <1>2, HottestPage DEF ReleaseOne
<1>5. /\ pages' = [pages EXCEPT ![p] = Front(@)] /\ tls' = p /\ exiting' = exiting
      /\ calls' = IF Last(pages[p]) = POOL_BOUNDARY THEN calls
                  ELSE [calls EXCEPT ![n].state = "releasing"]
  BY <1>0, <1>1 DEF ReleaseOne
<1>6. /\ Len(pages[p]) \in Nat \ {0} /\ Front(pages[p]) \in Seq(Entries)
      /\ Len(Front(pages[p])) = Len(pages[p]) - 1
      /\ DOMAIN Front(pages[p]) = 1..Len(pages[p]) - 1
      /\ \A k \in 1..Len(pages[p]) - 1 : Front(pages[p])[k] = pages[p][k]
  <2>1. /\ Len(pages[p]) \in Nat \ {0} /\ Front(pages[p]) \in Seq(Entries)
        /\ Len(Front(pages[p])) = Len(pages[p]) - 1
        /\ \A k \in 1..Len(pages[p]) - 1 : Front(pages[p])[k] = pages[p][k]
    BY <1>3, <1>4, FrontLast
  <2> QED
    BY <2>1, LenProperties
<1>7. /\ pages' \in Seq(Seq(Entries)) /\ DOMAIN pages' = DOMAIN pages
      /\ pages'[p] = Front(pages[p])
      /\ \A q \in DOMAIN pages : q # p => pages'[q] = pages[q]
  <2>1. pages' = [pages EXCEPT ![p] = Front(pages[p])]
    BY <1>5
  <2>2. pages' \in Seq(Seq(Entries))
    BY <1>3, <1>6, <2>1, ExceptSeq
  <2> QED
    BY <1>3, <2>1, <2>2
<1>8. /\ calls' \in Seq(Frame) /\ DOMAIN calls' = DOMAIN calls
      /\ \A i \in DOMAIN calls : /\ i # n => calls'[i] = calls[i]
                                 /\ calls'[i].page = calls[i].page
                                 /\ calls'[i].at = calls[i].at
      /\ calls'[n].state # "open"
  <2>1. /\ calls \in Seq(Frame) /\ DOMAIN calls = 1..Len(calls)
        /\ calls[n] \in Frame
    BY <1>1, CallTypes DEF IInv
  <2>2. CASE Last(pages[p]) = POOL_BOUNDARY
    BY <1>2, <1>5, <2>1, <2>2
  <2>3. CASE Last(pages[p]) # POOL_BOUNDARY
    <3> DEFINE f == [calls[n] EXCEPT !.state = "releasing"]
    <3>1. f \in Frame /\ f.page = calls[n].page /\ f.at = calls[n].at /\ f.state = "releasing"
      BY <2>1 DEF Frame
    <3>2. calls' = [calls EXCEPT ![n] = f]
      BY <1>5, <2>3
    <3> HIDE DEF f
    <3>3. calls' \in Seq(Frame)
      BY <2>1, <3>1, <3>2, ExceptSeq
    <3> QED
      BY <2>1, <3>1, <3>2, <3>3
  <2> QED
    BY <2>2, <2>3
<1>9. \A i \in DOMAIN calls : PageOf(i)' = PageOf(i)
  BY <1>8 DEF PageOf
<1>10. TypeOK'
  <2>1. \A q \in DOMAIN pages' : Len(pages'[q]) <= Capacity
    <3> TAKE q \in DOMAIN pages'
    <3>1. CASE q = p
      <4>1. Len(pages'[q]) = Len(pages[p]) - 1 /\ Len(pages[p]) <= Capacity
        <5>1. Len(pages'[q]) = Len(pages[p]) - 1
          BY <1>6, <1>7, <3>1
        <5>2. Len(pages[p]) \in 0..Capacity
          BY <1>3
        <5> QED
          BY <5>1, <5>2
      <4> QED
        BY <1>6, <4>1, PoolAssumption
    <3>2. CASE q # p
      BY <1>3, <1>7, <3>2
    <3> QED
      BY <3>1, <3>2
  <2>2. \A i \in DOMAIN calls' : calls'[i].page \in DOMAIN pages' \cup {Nil}
    BY <1>7, <1>8, CallTypes DEF IInv
  <2> QED
    BY <1>3, <1>5, <1>7, <1>8, <2>1, <2>2 DEF TypeOK, Entries, Frame, IInv
<1>11. HasPage' /\ Unused'
  BY <1>3, <1>5 DEF HasPage, Unused, Nil, EMPTY_POOL_PLACEHOLDER
<1>12. Layout'
  <2>1. \A q \in DOMAIN pages : /\ q < tls => Len(pages[q]) = Capacity
                                /\ q > tls => pages[q] = <<>>
    BY <1>2 DEF IInv, Layout, Full
  <2>2. ASSUME NEW q \in DOMAIN pages
        PROVE  /\ q < p => Len(pages'[q]) = Capacity
               /\ q > p => pages'[q] = <<>>
    <3>1. q < p => q # p /\ q < tls
      BY SMTT(60), <1>3, <1>4
    <3>2. q > p => q # p /\ (q > tls \/ (q = tls /\ pages[tls] = <<>>))
      BY SMTT(60), <1>3, <1>4
    <3> QED
      BY <1>7, <2>1, <3>1, <3>2
  <2> QED
    BY <1>5, <1>7, <2>2 DEF Layout, Full
<1>13. Frames'
  <2>1. ASSUME NEW i \in DOMAIN calls
        PROVE  /\ PageOf(i) <= p
               /\ calls[i].at < Capacity
               /\ calls'[i].page = Nil => calls'[i].at = 0 /\ calls'[i].state = "open"
               /\ PageOf(i) = p => calls[i].at <= Len(pages'[p])
               /\ calls'[i].state = "open" =>
                    /\ calls[i].at + 1 \in DOMAIN pages'[PageOf(i)]
                    /\ pages'[PageOf(i)][calls[i].at + 1] = POOL_BOUNDARY
    <3>1. /\ PageOf(i) \in Nat \ {0} /\ calls[i].at \in Nat /\ calls[i].at < Capacity
          /\ PageOf(n) \in Nat \ {0} /\ calls[n].at \in Nat /\ calls[n].page # Nil
          /\ calls[i].page = Nil => calls[i].at = 0 /\ calls[i].state = "open"
          /\ calls[i].state = "open" =>
               /\ calls[i].at + 1 \in DOMAIN pages[PageOf(i)]
               /\ pages[PageOf(i)][calls[i].at + 1] = POOL_BOUNDARY
      BY <1>2, CallTypes DEF IInv, Frames, Nil
    <3>2. \/ PageOf(i) < PageOf(n)
          \/ /\ PageOf(i) = PageOf(n)
             /\ calls[i].at <= calls[n].at
             /\ calls'[i].state = "open" => i # n /\ calls[i].at < calls[n].at
      <4>1. CASE i = n
        BY <1>8, <3>1, <4>1
      <4>2. CASE i # n
        <5>1. i < n
          BY <1>1, <4>2, CallTypes DEF IInv
        <5> QED
          BY <1>8, <4>2, <5>1 DEF IInv, Nested
      <4> QED
        BY <4>1, <4>2
    <3>3. /\ PageOf(i) <= p
          /\ PageOf(i) = p => /\ calls[i].at <= Len(pages[p]) - 1
                              /\ calls'[i].state = "open" => calls[i].at < Len(pages[p]) - 1
      <4>1. PageOf(n) < p \/ (PageOf(n) = p /\ calls[n].at <= Len(pages[p]) - 1)
        BY <1>2, <1>4, <1>6, <3>1
      <4>2. p \in Nat /\ Len(pages[p]) - 1 \in Nat
        BY <1>3, <1>6
      <4>3. CASE PageOf(i) < PageOf(n)
        BY <3>1, <4>1, <4>2, <4>3
      <4>4. CASE /\ PageOf(i) = PageOf(n)
                 /\ calls[i].at <= calls[n].at
                 /\ calls'[i].state = "open" => i # n /\ calls[i].at < calls[n].at
        BY <3>1, <4>1, <4>2, <4>4
      <4> QED
        BY <3>2, <4>3, <4>4
    <3>4. calls'[i].state = "open" => i # n /\ calls[i].state = "open"
      BY <1>8
    <3>5. calls'[i].page = Nil => calls'[i].at = 0 /\ calls'[i].state = "open"
      BY <1>8, <3>1
    <3>6. ASSUME calls'[i].state = "open"
          PROVE  /\ calls[i].at + 1 \in DOMAIN pages'[PageOf(i)]
                 /\ pages'[PageOf(i)][calls[i].at + 1] = POOL_BOUNDARY
      <4>1. CASE PageOf(i) = p
        <5>1. calls[i].at + 1 \in 1..Len(pages[p]) - 1
          BY <1>6, <3>1, <3>3, <3>6, <4>1
        <5> QED
          BY <1>6, <1>7, <3>1, <3>4, <3>6, <4>1, <5>1
      <4>2. CASE PageOf(i) # p
        <5>1. PageOf(i) \in DOMAIN pages
          BY <1>3, <3>1, <3>3
        <5> QED
          BY <1>7, <3>1, <3>4, <3>6, <4>2, <5>1
      <4> QED
        BY <4>1, <4>2
    <3> QED
      BY <1>6, <1>7, <3>1, <3>3, <3>5, <3>6
  <2> QED
    BY <1>5, <1>8, <1>9, <2>1 DEF Frames
<1>14. Nested'
  <2>1. \A i \in DOMAIN calls : calls'[i].state = "open" => calls[i].state = "open"
    BY <1>8
  <2> QED
    BY <1>8, <1>9, <2>1 DEF IInv, Nested
<1> QED
  BY <1>10, <1>11, <1>12, <1>13, <1>14 DEF IInv

(* At its end pop frees at most pages above the hot page: the next one or, *)
(* from half full on, the one after it.                                    *)
LEMMA PopEndsShrinks ==
  ASSUME NormalMode, IInv, PopEnds
  PROVE  /\ HasPage /\ Last(calls).page = tls /\ tls' = tls
         /\ calls' = Front(calls) /\ exiting' = exiting
         /\ Shrunk
<1>1. HasPage /\ Last(calls).page = tls
  BY DoneOnHotPage DEF PopEnds
<1>2. /\ Kill(IF LessThanHalfFull(tls) THEN tls + 1 ELSE tls + 2)
      /\ tls' = tls /\ calls' = Front(calls) /\ exiting' = exiting
  BY <1>1 DEF PopEnds, NormalMode
<1>3. /\ tls \in 1..Len(pages) /\ Len(pages) \in Nat /\ DOMAIN pages = 1..Len(pages)
      /\ pages \in Seq(Seq(Entries))
  BY <1>1, HotPageExists DEF IInv
<1>4. Shrunk
  <2>1. PICK k \in {tls + 1, tls + 2} : Kill(k)
    BY SMTT(60), <1>2
  <2>2. CASE k > Len(pages)
    BY <1>2, <1>3, <2>1, <2>2 DEF Kill, Shrunk
  <2>3. CASE ~(k > Len(pages))
    <3>1. pages' = SubSeq(pages, 1, k - 1) /\ k - 1 \in 0..Len(pages) /\ tls <= k - 1
      BY <1>3, <2>1, <2>3 DEF Kill
    <3>2. /\ pages' \in Seq(Seq(Entries)) /\ Len(pages') = k - 1
          /\ \A q \in 1..k - 1 : pages'[q] = pages[q]
      BY <1>3, <3>1, Prefix
    <3>3. DOMAIN pages' = 1..k - 1
      BY <3>2, LenProperties
    <3> QED
      BY SMTT(60), <1>2, <1>3, <3>1, <3>2, <3>3 DEF Shrunk
  <2> QED
    BY <2>2, <2>3
<1> QED
  BY <1>1, <1>2, <1>4

(* The end of pop preserves the invariant.                                 *)
LEMMA PopEndsKeeps ==
  ASSUME NormalMode, IInv, PopEnds
  PROVE  IInv'
<1>1. HasPage
  BY PopEndsShrinks
<1>2. tls' = tls /\ calls' = Front(calls) /\ exiting' = exiting
  BY PopEndsShrinks
<1>4. Shrunk
  BY PopEndsShrinks
<1>5. /\ calls # <<>> /\ calls \in Seq(Frame) /\ DOMAIN calls = 1..Len(calls)
  BY CallTypes DEF IInv, PopEnds, Releasing
<1>6. /\ calls' \in Seq(Frame) /\ DOMAIN calls' = 1..Len(calls) - 1
      /\ Len(calls) \in Nat \ {0}
      /\ \A i \in 1..Len(calls) - 1 : calls'[i] = calls[i]
  BY <1>2, <1>5, FrontLast, LenProperties
<1>7. Stay
  <2>1. \A i \in DOMAIN calls' : i \in DOMAIN calls /\ calls'[i] = calls[i]
    BY <1>5, <1>6
  <2>2. \A i \in DOMAIN calls' : calls[i].page = Nil => calls[i].state = "open"
    BY <1>1, <2>1 DEF IInv, Frames
  <2> QED
    BY <2>1, <2>2 DEF Stay, PageOf
<1> QED
  BY <1>1, <1>2, <1>4, <1>6, <1>7, StayKeeps DEF IInv, TypeOK

(* The end of tls_dealloc preserves the invariant: no page remains.        *)
LEMMA ExitEndsKeeps ==
  ASSUME IInv, ExitEnds
  PROVE  IInv'
<1>1. HasPage
  BY LastCall DEF ExitEnds
<1>2. 1 <= Len(pages) /\ Len(pages) \in Nat
  BY <1>1, HotPageExists DEF IInv
<1>3. pages' = SubSeq(pages, 1, 0)
  BY <1>2 DEF ExitEnds, Kill
<1>4. pages' = <<>>
  BY <1>3, SubSeqEmpty
<1> QED
  BY <1>4, EmptyKeeps DEF ExitEnds

(* Every step of a thread preserves the invariant.                         *)
LEMMA NextKeeps ==
  ASSUME NormalMode, IInv, [Next]_vars
  PROVE  IInv'
<1>1. CASE Push
  BY <1>1, PushKeeps
<1>2. CASE \E o \in Objects : Autorelease(o)
  BY <1>2, AutoreleaseKeeps
<1>3. CASE \E i \in DOMAIN calls : Pop(i)
  BY <1>3, PopKeeps
<1>4. CASE ThreadExit
  BY <1>4, ThreadExitKeeps
<1>5. CASE ReleaseOne
  BY <1>5, ReleaseOneKeeps
<1>6. CASE PopEnds
  BY <1>6, PopEndsKeeps
<1>7. CASE ExitEnds
  BY <1>7, ExitEndsKeeps
<1>8. CASE \E i \in DOMAIN calls : Return(i)
  BY <1>8, ReturnKeeps
<1>9. CASE UNCHANGED vars
  BY <1>9, StutterKeeps
<1> QED
  BY <1>1, <1>2, <1>3, <1>4, <1>5, <1>6, <1>7, <1>8, <1>9 DEF Next, Client, Run

-----------------------------------------------------------------------------
(* Theorems                                                                *)

(* The inductive invariant holds in the normal mode.                       *)
THEOREM Invariance == Spec => [](NormalMode => IInv)
<1>1. Init => IInv
  BY InitIInv
<1>2. (NormalMode => IInv) /\ [Next]_vars => (NormalMode => IInv)'
  <2>1. [Next]_vars => UNCHANGED modes
    BY DEF Next, Client, Run, vars
  <2>2. [Next]_vars /\ NormalMode' => NormalMode
    BY <2>1 DEF modes, NormalMode
  <2> QED
    BY <2>2, NextKeeps
<1> QED
  BY <1>1, <1>2, PTL DEF Spec

(* A page never holds more entries than it has room for, and the hot page  *)
(* and every token are among the thread's pages.                           *)
THEOREM PagesWithinCapacity == Spec => [](NormalMode => TypeOK)
<1>1. IInv => TypeOK
  BY DEF IInv
<1> QED
  BY <1>1, Invariance, PTL

(* The fixme of releaseUntil, settled: its inner `while` can be `if`.      *)
THEOREM IfInsteadOfWhile == Spec => []IfSuffices
<1>1. ASSUME NormalMode => IInv PROVE IfSuffices
  <2> SUFFICES ASSUME NormalMode, Releasing, NotDone
               PROVE  \/ pages[tls] # <<>>
                      \/ tls > 1 /\ pages[tls - 1] # <<>>
    BY DEF IfSuffices
  <2>1. /\ HottestNonempty \in 1..tls /\ pages[HottestNonempty] # <<>>
        /\ HottestNonempty = tls \/ HottestNonempty = tls - 1
    BY <1>1, HottestPage
  <2>2. tls \in Nat
    BY <1>1, LastCall, HotPageExists DEF IInv
  <2>3. HottestNonempty = tls - 1 => tls > 1
    BY <2>1, <2>2
  <2> QED
    BY <2>1, <2>3
<1> QED
  BY <1>1, Invariance, PTL

(* The token of a pool that has not been popped leads to its boundary:     *)
(* pop never reports it as invalid or prematurely freed.                   *)
THEOREM TokensStayValid == Spec => [](NormalMode => TokensValid)
<1>1. ASSUME IInv PROVE TokensValid
  <2> SUFFICES ASSUME NEW i \in DOMAIN calls, calls[i].state = "open"
               PROVE  IF calls[i].page = Nil
                      THEN tls # EMPTY_POOL_PLACEHOLDER =>
                             pages # <<>> /\ pages[1][1] = POOL_BOUNDARY
                      ELSE /\ ValidToken(calls[i].page, calls[i].at)
                           /\ pages[calls[i].page][calls[i].at + 1] = POOL_BOUNDARY
    BY DEF TokensValid
  <2>1. CASE HasPage
    <3>1. /\ calls[i].at + 1 \in DOMAIN pages[PageOf(i)]
          /\ pages[PageOf(i)][calls[i].at + 1] = POOL_BOUNDARY
          /\ calls[i].page = Nil => calls[i].at = 0
      BY <1>1, <2>1 DEF IInv, Frames
    <3>2. /\ calls[i].page \in DOMAIN pages \cup {Nil}
          /\ tls \in 1..Len(pages) /\ Len(<<>>) = 0 /\ Len(pages) \in Nat
      BY <1>1, <2>1, CallTypes, HotPageExists DEF IInv
    <3>3. pages # <<>>
      BY <3>2
    <3> QED
      BY <3>1, <3>2, <3>3 DEF PageOf, ValidToken
  <2>2. CASE tls = EMPTY_POOL_PLACEHOLDER
    <3>1. calls = <<Scope(Nil, 0, "open")>>
      BY <1>1, <2>2 DEF IInv, Unused, HasPage, Nil, EMPTY_POOL_PLACEHOLDER
    <3>2. calls[i].page = Nil
      BY <3>1 DEF Scope
    <3> QED
      BY <2>2, <3>2
  <2>3. CASE tls = Nil
    BY <1>1, <2>3 DEF IInv, Unused, HasPage
  <2> QED
    BY <2>1, <2>2, <2>3 DEF HasPage
<1> QED
  BY <1>1, Invariance, PTL

(* "We expect any children to be completely empty" is right: when          *)
(* releaseUntil has reached its stop nothing is left on younger pages, so  *)
(* that killing them loses no release.                                     *)
THEOREM KilledPagesAreEmpty == Spec => []ChildrenEmptyNormally
<1>1. ASSUME NormalMode => IInv PROVE ChildrenEmptyNormally
  <2> SUFFICES ASSUME NormalMode, Releasing, ~NotDone,
                      NEW p \in Last(calls).page + 1 .. Len(pages)
               PROVE  pages[p] = <<>>
    BY DEF ChildrenEmptyNormally, ChildrenEmpty
  <2>1. HasPage /\ Last(calls).page = tls
    BY <1>1, DoneOnHotPage
  <2>2. p \in DOMAIN pages /\ p > tls
    BY <1>1, <2>1, HotPageExists DEF IInv
  <2> QED
    BY <1>1, <2>1, <2>2 DEF IInv, Layout
<1> QED
  BY <1>1, Invariance, PTL

(* The placeholder stands for one pool without objects, and a thread       *)
(* without a hot page has no pages.                                        *)
THEOREM PlaceholderIsOnePool == Spec => [](NormalMode => PlaceholderMeaning)
<1>1. IInv => PlaceholderMeaning
  BY DEF IInv, Unused, HasPage, PlaceholderMeaning, Nil, EMPTY_POOL_PLACEHOLDER
<1> QED
  BY <1>1, Invariance, PTL

(* In the mode programs run in, the pages are sound as a whole.            *)
THEOREM PagesAreSound == Spec => [](NormalMode => PagesSound)
<1>1. TypeOK /\ ChildrenEmptyNormally /\ PlaceholderMeaning => PagesSound
  BY DEF PagesSound
<1> QED
  BY <1>1, PagesWithinCapacity, KilledPagesAreEmpty, PlaceholderIsOnePool, PTL

-----------------------------------------------------------------------------
(* What pages hold, as one sequence                                        *)

(* A set of numbers has a smallest one, because < is well-founded; with it,*)
(* what holds of 0 and of the successor holds of all numbers.              *)
LEMMA NatMin ==
  ASSUME NEW T, T \subseteq Nat, T # {}
  PROVE  \E x \in T : \A y \in T : x <= y
<1>1. PICK R : R = {ss \in Nat \X Nat : ss[1] < ss[2]}
  OBVIOUS
<1>2. IsWellFoundedOn(R, Nat)
  <2>1. IsWellFoundedOn(OpToRel(<, Nat), Nat)
    BY NatLessThanWellFounded
  <2>2. OpToRel(<, Nat) = {ss \in Nat \X Nat : ss[1] < ss[2]}
    BY Zenon DEF OpToRel
  <2> QED
    BY <1>1, <2>1, <2>2, ZenonT(60)
<1>3. \E x \in T : \A y \in T : ~ (<<y, x>> \in R)
  BY <1>2, WFMin
<1>4. \A x, y \in Nat : x < y => <<x, y>> \in R
  BY <1>1
<1>5. PICK x \in T : \A y \in T : ~ (<<y, x>> \in R)
  BY <1>3
<1>6. ASSUME NEW y \in T PROVE x <= y
  <2>1. x \in Nat /\ y \in Nat
    OBVIOUS
  <2>2. ~ (y < x)
    BY <1>4, <1>5, <2>1
  <2> QED
    BY <2>1, <2>2
<1> QED
  BY <1>6

LEMMA SetInduction ==
  ASSUME NEW S, 0 \in S, \A n \in Nat : n \in S => n + 1 \in S
  PROVE  Nat \subseteq S
<1> SUFFICES ASSUME Nat \ S # {} PROVE FALSE
  OBVIOUS
<1>1. PICK x \in Nat \ S : \A y \in Nat \ S : x <= y
  <2>1. Nat \ S \subseteq Nat
    OBVIOUS
  <2> QED
    BY NatMin, <2>1
<1>2. x # 0 /\ x - 1 \in Nat
  OBVIOUS
<1>3. x - 1 \in S
  BY <1>1, <1>2
<1> QED
  BY <1>1, <1>2, <1>3

(* g[m] is what the m coldest of the n pages ps hold.                      *)
AllHolds(ps, g, n) ==
  g = [m \in 0..n |-> IF m = 0 THEN <<>> ELSE g[m - 1] \o ps[m]]

LEMMA HeldIs ==
  ASSUME NEW ps, NEW n \in Nat, NEW g, AllHolds(ps, g, n)
  PROVE  g[0] = <<>> /\ \A m \in 1..n : g[m] = g[m - 1] \o ps[m]
<1>1. \A m \in 0..n : g[m] = IF m = 0 THEN <<>> ELSE g[m - 1] \o ps[m]
  BY ZenonT(60) DEF AllHolds
<1>2. 0 \in 0..n /\ \A m \in 1..n : m \in 0..n /\ m # 0
  OBVIOUS
<1> QED
  BY <1>1, <1>2

LEMMA HeldExists ==
  ASSUME NEW ps
  PROVE  \A n \in Nat : \E g : AllHolds(ps, g, n)
<1>1. PICK S : S = {n \in Nat : \E g : AllHolds(ps, g, n)}
  OBVIOUS
<1>2. 0 \in S
  <2>1. PICK g : g = [m \in 0..0 |-> <<>>]
    OBVIOUS
  <2>2. AllHolds(ps, g, 0)
    BY <2>1 DEF AllHolds
  <2> QED
    BY <1>1, <2>2
<1>3. ASSUME NEW n \in Nat, n \in S PROVE n + 1 \in S
  <2>1. PICK g : AllHolds(ps, g, n)
    BY <1>1, <1>3
  <2>2. PICK h : h = [m \in 0..n + 1 |-> IF m = n + 1 THEN g[n] \o ps[n + 1] ELSE g[m]]
    OBVIOUS
  <2>3. \A m \in 0..n + 1 : h[m] = IF m = 0 THEN <<>> ELSE h[m - 1] \o ps[m]
    <3> SUFFICES ASSUME NEW m \in 0..n + 1
                 PROVE  h[m] = IF m = 0 THEN <<>> ELSE h[m - 1] \o ps[m]
      OBVIOUS
    <3>1. CASE m = n + 1
      <4>1. m # 0 /\ m - 1 = n /\ n \in 0..n + 1 /\ n # n + 1
        BY <3>1
      <4>2. h[m] = g[n] \o ps[n + 1] /\ h[n] = g[n]
        BY <2>2, <3>1, <4>1
      <4> QED
        BY <3>1, <4>1, <4>2
    <3>2. CASE m # n + 1
      <4>1. m \in 0..n
        BY <3>2
      <4>2. h[m] = g[m]
        BY <2>2, <3>2
      <4>3. g[m] = IF m = 0 THEN <<>> ELSE g[m - 1] \o ps[m]
        BY <2>1, <4>1 DEF AllHolds
      <4>4. m # 0 => h[m - 1] = g[m - 1]
        BY <2>2, <4>1
      <4> QED
        BY <4>2, <4>3, <4>4
    <3> QED
      BY <3>1, <3>2
  <2>4. AllHolds(ps, h, n + 1)
    BY <2>2, <2>3 DEF AllHolds
  <2> QED
    BY <1>1, <2>4
<1>4. Nat \subseteq S
  BY <1>2, <1>3, SetInduction
<1> QED
  BY <1>1, <1>4

(* Contents is what it is meant to be.                                     *)
LEMMA ContentsHold == Len(pages) \in Nat => AllHolds(pages, Contents, Len(pages))
<1> SUFFICES ASSUME Len(pages) \in Nat PROVE AllHolds(pages, Contents, Len(pages))
  OBVIOUS
<1>1. Contents = CHOOSE g : AllHolds(pages, g, Len(pages))
  BY Zenon DEF Contents, AllHolds
<1>2. \E g : AllHolds(pages, g, Len(pages))
  BY HeldExists
<1> QED
  BY <1>1, <1>2

(* It depends on the pages below only.                                     *)
SameBelow(ps, qs, m) == \A p \in 1..m : ps[p] = qs[p]

LEMMA HeldBelow ==
  ASSUME NEW ps, NEW qs, NEW k \in Nat, NEW n \in Nat, NEW g, NEW h,
         AllHolds(ps, g, k), AllHolds(qs, h, n)
  PROVE  \A m \in Nat : m <= k /\ m <= n /\ SameBelow(ps, qs, m) => g[m] = h[m]
<1> SUFFICES ASSUME NEW m \in Nat, m <= k, m <= n, SameBelow(ps, qs, m)
             PROVE  g[m] = h[m]
  OBVIOUS
<1>0. \A p \in 1..m : ps[p] = qs[p]
  BY DEF SameBelow
<1>1. PICK S : S = {i \in Nat : i <= m => g[i] = h[i]}
  OBVIOUS
<1>2. 0 \in S
  BY <1>1, HeldIs
<1>3. ASSUME NEW i \in Nat, i \in S PROVE i + 1 \in S
  <2> SUFFICES ASSUME i + 1 <= m PROVE g[i + 1] = h[i + 1]
    BY <1>1
  <2>1. g[i] = h[i]
    BY <1>1, <1>3
  <2>2. i + 1 \in 1..m /\ i + 1 \in 1..k /\ i + 1 \in 1..n /\ (i + 1) - 1 = i
    OBVIOUS
  <2>3. g[i + 1] = g[(i + 1) - 1] \o ps[i + 1] /\ h[i + 1] = h[(i + 1) - 1] \o qs[i + 1]
    BY ZenonT(60), <2>2, HeldIs
  <2>4. ps[i + 1] = qs[i + 1]
    BY <1>0, <2>2
  <2> QED
    BY <2>1, <2>2, <2>3, <2>4
<1>4. Nat \subseteq S
  BY <1>2, <1>3, SetInduction
<1> QED
  BY <1>1, <1>4

LEMMA HeldTypes ==
  ASSUME NEW S, NEW ps, NEW n \in Nat, NEW g, AllHolds(ps, g, n),
         \A p \in 1..n : ps[p] \in Seq(S)
  PROVE  \A m \in 0..n : g[m] \in Seq(S)
<1>1. PICK T : T = {i \in Nat : i <= n => g[i] \in Seq(S)}
  OBVIOUS
<1>2. 0 \in T
  <2>1. g[0] = <<>>
    BY HeldIs
  <2>2. <<>> \in Seq(S)
    OBVIOUS
  <2>3. g[0] \in Seq(S)
    BY <2>1, <2>2
  <2> QED
    BY <1>1, <2>3
<1>3. ASSUME NEW i \in Nat, i \in T PROVE i + 1 \in T
  <2> SUFFICES ASSUME i + 1 <= n PROVE g[i + 1] \in Seq(S)
    BY <1>1
  <2>1. g[i] \in Seq(S)
    BY <1>1, <1>3
  <2>2. i + 1 \in 1..n /\ (i + 1) - 1 = i
    OBVIOUS
  <2>3. g[i + 1] = g[(i + 1) - 1] \o ps[i + 1]
    BY <2>2, HeldIs
  <2>4. ps[i + 1] \in Seq(S)
    BY <2>2
  <2> QED
    BY <2>1, <2>2, <2>3, <2>4, ConcatProperties
<1>4. Nat \subseteq T
  BY <1>2, <1>3, SetInduction
<1> QED
  BY <1>1, <1>4

(* Pages of entries, and pages without any.                                *)
PagesOf(ps, n, S) == \A p \in 1..n : ps[p] \in Seq(S)
NoneFrom(ps, l, m) == \A p \in l + 1 .. m : ps[p] = <<>>

(* It grows with each page, unless the page is empty.                      *)
LEMMA HeldGrows ==
  ASSUME NEW S, NEW ps, NEW n \in Nat, NEW g, AllHolds(ps, g, n), PagesOf(ps, n, S),
         NEW l \in 0..n, NEW m \in l..n
  PROVE  /\ Len(g[l]) <= Len(g[m])
         /\ NoneFrom(ps, l, m) => g[m] = g[l]
<1>0. \A p \in 1..n : ps[p] \in Seq(S)
  BY DEF PagesOf
<1>1. PICK T : T = {i \in Nat : i >= l /\ i <= m =>
                      /\ Len(g[l]) <= Len(g[i])
                      /\ NoneFrom(ps, l, m) => g[i] = g[l]}
  OBVIOUS
<1>2. \A i \in 0..n : g[i] \in Seq(S) /\ Len(g[i]) \in Nat
  BY <1>0, HeldTypes, LenProperties
<1>3. 0 \in T
  <2>1. 0 >= l => l = 0
    OBVIOUS
  <2> QED
    BY <1>1, <1>2, <2>1
<1>4. ASSUME NEW i \in Nat, i \in T PROVE i + 1 \in T
  <2> SUFFICES ASSUME i + 1 >= l, i + 1 <= m
               PROVE  /\ Len(g[l]) <= Len(g[i + 1])
                      /\ NoneFrom(ps, l, m) => g[i + 1] = g[l]
    BY <1>1
  <2>1. CASE i + 1 = l
    BY <1>2, <2>1
  <2>2. CASE i + 1 # l
    <3>1. i >= l /\ i <= m /\ i \in 0..n /\ i + 1 \in 1..n /\ i + 1 \in l + 1 .. m /\ (i + 1) - 1 = i
      BY <2>2
    <3>2. /\ Len(g[l]) <= Len(g[i])
          /\ NoneFrom(ps, l, m) => g[i] = g[l]
      BY <1>1, <1>4, <3>1
    <3>3. g[i + 1] = g[i] \o ps[i + 1] /\ ps[i + 1] \in Seq(S) /\ g[i] \in Seq(S)
      <4>1. g[i + 1] = g[(i + 1) - 1] \o ps[i + 1]
        BY <3>1, HeldIs
      <4> QED
        BY <1>0, <1>2, <3>1, <4>1
    <3>4. Len(g[i + 1]) = Len(g[i]) + Len(ps[i + 1]) /\ Len(ps[i + 1]) \in Nat
      BY <3>3, ConcatProperties, LenProperties
    <3>5. ps[i + 1] = <<>> => g[i + 1] = g[i]
      BY <3>3, ConcatEmptySeq
    <3>6. Len(g[l]) \in Nat /\ Len(g[i]) \in Nat
      BY <1>2, <3>1
    <3>7. Len(g[l]) <= Len(g[i + 1])
      <4>1. \A a, b, c \in Nat : a <= b => a <= b + c
        OBVIOUS
      <4>2. Len(g[l]) <= Len(g[i]) + Len(ps[i + 1])
        BY <3>2, <3>4, <3>6, <4>1
      <4> QED
        BY <3>4, <4>2
    <3>8. NoneFrom(ps, l, m) => g[i + 1] = g[l]
      BY <3>1, <3>2, <3>5 DEF NoneFrom
    <3> QED
      BY <3>7, <3>8
  <2> QED
    BY <2>1, <2>2
<1>5. Nat \subseteq T
  BY <1>3, <1>4, SetInduction
<1>6. m \in T /\ m >= l /\ m <= m
  BY <1>5
<1> QED
  BY <1>1, <1>6

LEMMA HeldEmpty ==
  ASSUME NEW ps, NEW n \in Nat, NEW g, AllHolds(ps, g, n), PagesOf(ps, n, Entries),
         NEW l \in Nat, NEW m \in Nat, l <= m, m <= n, NoneFrom(ps, l, m)
  PROVE  g[m] = g[l]
<1>1. l \in 0..n /\ m \in l..n
  OBVIOUS
<1> QED
  BY <1>1, HeldGrows

-----------------------------------------------------------------------------
(* The abstract stack and its calls                                        *)

ScopeType == [height : Nat, state : {"open", "popping", "releasing"}]

LEMMA ContentsAre ==
  IInv => /\ AllHolds(pages, Contents, Len(pages))
          /\ \A m \in 0..Len(pages) : Contents[m] \in Seq(Entries) /\ Len(Contents[m]) \in Nat
<1> SUFFICES ASSUME IInv
             PROVE  /\ AllHolds(pages, Contents, Len(pages))
                    /\ \A m \in 0..Len(pages) : Contents[m] \in Seq(Entries) /\ Len(Contents[m]) \in Nat
  OBVIOUS
<1>1. /\ Len(pages) \in Nat /\ DOMAIN pages = 1..Len(pages)
      /\ \A p \in DOMAIN pages : pages[p] \in Seq(Entries)
  BY HotPageExists DEF IInv
<1>2. AllHolds(pages, Contents, Len(pages))
  BY <1>1, ContentsHold
<1>3. \A m \in 0..Len(pages) : Contents[m] \in Seq(Entries)
  BY <1>1, <1>2, HeldTypes
<1> QED
  BY <1>2, <1>3, LenProperties

(* The stack ends on the hot page.                                         *)
StackFits ==
  /\ HasPage => /\ Contents[tls - 1] \in Seq(Entries) /\ pages[tls] \in Seq(Entries)
                /\ Len(Contents[tls - 1]) \in Nat /\ Len(pages[tls]) \in Nat
                /\ Stacked = Contents[tls - 1] \o pages[tls]
                /\ Stacked = Contents[tls]
                /\ Len(Stacked) = Len(Contents[tls - 1]) + Len(pages[tls])
  /\ tls = EMPTY_POOL_PLACEHOLDER => Stacked = <<POOL_BOUNDARY>>
  /\ tls = Nil => Stacked = <<>>
  /\ Stacked \in Seq(Entries)

LEMMA StackedIs == IInv => StackFits
<1> SUFFICES ASSUME IInv PROVE StackFits
  OBVIOUS
<1>1. /\ Len(pages) \in Nat /\ DOMAIN pages = 1..Len(pages)
      /\ \A p \in DOMAIN pages : pages[p] \in Seq(Entries) /\ Len(pages[p]) \in Nat
      /\ HasPage => tls \in 1..Len(pages)
  BY HotPageExists DEF IInv
<1>2. /\ AllHolds(pages, Contents, Len(pages))
      /\ \A m \in 0..Len(pages) : Contents[m] \in Seq(Entries) /\ Len(Contents[m]) \in Nat
  BY ContentsAre
<1>3. ASSUME HasPage
      PROVE  /\ Contents[tls - 1] \in Seq(Entries) /\ pages[tls] \in Seq(Entries)
             /\ Len(Contents[tls - 1]) \in Nat /\ Len(pages[tls]) \in Nat
             /\ Stacked = Contents[tls - 1] \o pages[tls]
             /\ Stacked = Contents[tls]
             /\ Len(Stacked) = Len(Contents[tls - 1]) + Len(pages[tls])
             /\ Stacked \in Seq(Entries)
  <2>1. tls \in 1..Len(pages) /\ tls \in 0..Len(pages) /\ Len(pages) \in tls..Len(pages)
        /\ tls - 1 \in 0..Len(pages)
    BY <1>1, <1>3
  <2>2. \A p \in tls + 1 .. Len(pages) : pages[p] = <<>>
    <3> SUFFICES ASSUME NEW p \in tls + 1 .. Len(pages) PROVE pages[p] = <<>>
      OBVIOUS
    <3>1. p \in DOMAIN pages /\ p > tls
      BY <1>1, <2>1
    <3> QED
      BY <1>3, <3>1 DEF IInv, Layout
  <2>3. Contents[Len(pages)] = Contents[tls]
    <3>1. \A p \in 1..Len(pages) : pages[p] \in Seq(Entries)
      BY <1>1
    <3>2. PICK g : g = Contents
      BY SMTT(60)
    <3>3. PICK n \in Nat : n = Len(pages)
      BY <1>1
    <3>4. AllHolds(pages, g, n)
      BY <1>2, <3>2, <3>3
    <3>5. PagesOf(pages, n, Entries) /\ NoneFrom(pages, tls, n)
      BY <2>2, <3>1, <3>3 DEF PagesOf, NoneFrom
    <3>6. tls \in Nat /\ tls <= n /\ n <= n
      BY <2>1, <3>3
    <3>7. g[n] = g[tls]
      BY <3>4, <3>5, <3>6, HeldEmpty
    <3> QED
      BY <3>2, <3>3, <3>7
  <2>4. Stacked = Contents[tls]
    BY <1>3, <2>3 DEF Stacked, HasPage
  <2>5. Contents[tls] = Contents[tls - 1] \o pages[tls]
    BY <1>1, <1>2, <2>1, HeldIs
  <2>6. /\ Contents[tls - 1] \in Seq(Entries) /\ Len(Contents[tls - 1]) \in Nat
        /\ pages[tls] \in Seq(Entries) /\ Len(pages[tls]) \in Nat
    BY <1>1, <1>2, <2>1
  <2>7. Stacked \in Seq(Entries) /\ Len(Stacked) = Len(Contents[tls - 1]) + Len(pages[tls])
    BY <2>4, <2>5, <2>6, ConcatProperties
  <2> QED
    BY <2>4, <2>5, <2>6, <2>7
<1>4. tls = EMPTY_POOL_PLACEHOLDER => Stacked = <<POOL_BOUNDARY>>
  BY DEF Stacked
<1>5. tls = Nil => Stacked = <<>>
  <2> SUFFICES ASSUME tls = Nil PROVE Stacked = <<>>
    OBVIOUS
  <2>1. pages = <<>>
    BY DEF IInv, Unused, HasPage
  <2>2. Len(pages) = 0
    BY <2>1
  <2>3. Contents[0] = <<>>
    BY <1>1, <1>2, HeldIs
  <2> QED
    BY <2>2, <2>3 DEF Stacked, Nil, EMPTY_POOL_PLACEHOLDER
<1>6. Stacked \in Seq(Entries)
  <2>1. <<POOL_BOUNDARY>> \in Seq(Entries) /\ <<>> \in Seq(Entries)
    BY DEF Entries
  <2> QED
    BY <1>3, <1>4, <1>5, <2>1 DEF HasPage
<1> QED
  BY <1>3, <1>4, <1>5, <1>6 DEF StackFits

(* Each call is at its height.                                             *)
ScopesFit ==
  /\ Scopes \in Seq(ScopeType) /\ Len(Scopes) = Len(calls)
  /\ DOMAIN Scopes = DOMAIN calls /\ DOMAIN calls = 1..Len(calls) /\ Len(calls) \in Nat
  /\ \A i \in DOMAIN calls : /\ Scopes[i] = [height |-> Height(calls[i]), state |-> calls[i].state]
                             /\ Height(calls[i]) \in Nat

LEMMA ScopesAre == IInv => ScopesFit
<1> SUFFICES ASSUME IInv PROVE ScopesFit
  OBVIOUS
<1>1. /\ Len(calls) \in Nat /\ DOMAIN calls = 1..Len(calls)
      /\ \A i \in DOMAIN calls : /\ calls[i].page \in Nat /\ calls[i].at \in Nat /\ calls[i] \in Frame
                                 /\ calls[i].page \in DOMAIN pages \cup {Nil}
  BY CallTypes DEF IInv
<1>2. Len(pages) \in Nat /\ DOMAIN pages = 1..Len(pages)
  BY HotPageExists DEF IInv
<1>3. ASSUME NEW i \in DOMAIN calls PROVE Height(calls[i]) \in Nat /\ calls[i].state \in {"open", "popping", "releasing"}
  <2>1. calls[i].page # Nil => calls[i].page - 1 \in 0..Len(pages)
    BY <1>1, <1>2, <1>3
  <2>2. calls[i].page # Nil => Len(Contents[calls[i].page - 1]) \in Nat
    BY <2>1, ContentsAre
  <2>3. calls[i].state \in {"open", "popping", "releasing"}
    BY <1>1, <1>3 DEF Frame
  <2> QED
    BY <1>1, <1>3, <2>2, <2>3 DEF Height
<1>4. /\ DOMAIN Scopes = 1..Len(calls)
      /\ \A i \in DOMAIN calls : Scopes[i] = [height |-> Height(calls[i]), state |-> calls[i].state]
  BY <1>1 DEF Scopes
<1>5. Scopes \in [1..Len(calls) -> ScopeType]
  <2>1. \A i \in DOMAIN calls : [height |-> Height(calls[i]), state |-> calls[i].state] \in ScopeType
    BY <1>3 DEF ScopeType
  <2> QED
    BY <1>1, <2>1 DEF Scopes
<1>6. Scopes \in Seq(ScopeType)
  BY <1>1, <1>5, SeqDef
<1>7. Len(Scopes) = Len(calls)
  BY <1>1, <1>4, <1>6, LenProperties
<1> QED
  BY <1>1, <1>3, <1>4, <1>6, <1>7 DEF ScopesFit

LEMMA After == ASSUME IInv' PROVE StackFits' /\ ScopesFit'
<1>1. (IInv => StackFits)' /\ (IInv => ScopesFit)'
  BY StackedIs, ScopesAre, PTL
<1> QED
  BY <1>1

LEMMA PagesHold ==
  IInv => Len(pages) \in Nat /\ AllHolds(pages, Contents, Len(pages)) /\ Contents[0] = <<>>
<1> SUFFICES ASSUME IInv
             PROVE  Len(pages) \in Nat /\ AllHolds(pages, Contents, Len(pages)) /\ Contents[0] = <<>>
  OBVIOUS
<1>1. Len(pages) \in Nat /\ AllHolds(pages, Contents, Len(pages))
  BY ContentsAre, HotPageExists DEF IInv
<1> QED
  BY <1>1, HeldIs

LEMMA HotPageIs == IInv => Len(pages) \in Nat /\ (HasPage => tls \in 1..Len(pages))
BY HotPageExists DEF IInv

(* Pages that do not change hold what they held.                           *)
LEMMA ContentsKept ==
  ASSUME IInv, IInv', NEW m \in Nat, m <= Len(pages), m <= Len(pages'),
         \A p \in 1..m : pages'[p] = pages[p]
  PROVE  Contents'[m] = Contents[m]
<1>1. (IInv => Len(pages) \in Nat /\ AllHolds(pages, Contents, Len(pages)) /\ Contents[0] = <<>>)'
  BY PagesHold, PTL
<1>2. PICK ps, qs : ps = pages /\ qs = pages'
  OBVIOUS
<1>3. PICK g, h : g = Contents /\ h = Contents'
  BY SMTT(60)
<1>4. PICK k \in Nat : k = Len(pages)
  BY HotPageExists DEF IInv
<1>5. PICK n \in Nat : n = Len(pages')
  BY <1>1
<1>6. AllHolds(ps, g, k)
  BY <1>2, <1>3, <1>4, ContentsAre
<1>7. AllHolds(qs, h, n)
  BY <1>1, <1>2, <1>3, <1>5 DEF AllHolds
<1>8. m <= k /\ m <= n /\ SameBelow(ps, qs, m)
  BY <1>2, <1>4, <1>5 DEF SameBelow
<1>9. \A i \in Nat : i <= k /\ i <= n /\ SameBelow(ps, qs, i) => g[i] = h[i]
  BY <1>6, <1>7, HeldBelow
<1>10. g[m] = h[m]
  BY <1>8, <1>9
<1> QED
  BY <1>3, <1>10

(* Whoever stays in its place stays at its height.                         *)
BelowSame == \A p \in Nat \ {0} : p < tls /\ p < tls' => pages'[p] = pages[p]

LEMMA HeightsKept ==
  ASSUME IInv, IInv', BelowSame, NEW i \in DOMAIN calls, NEW j \in DOMAIN calls',
         calls'[j].page = calls[i].page, calls'[j].at = calls[i].at
  PROVE  Height(calls[j])' = Height(calls[i])
<1>1. CASE calls[i].page = Nil
  BY <1>1 DEF Height, Nil
<1>2. CASE calls[i].page # Nil
  <2>1. calls[i].page \in Nat \ {0} /\ calls[i].page \in DOMAIN pages /\ Len(pages) \in Nat
    BY <1>2, CallTypes, HotPageExists DEF IInv, Nil
  <2>2. HasPage
    <3>1. pages # <<>>
      BY <2>1
    <3> QED
      BY <3>1 DEF IInv, Unused
  <2>3. calls[i].page <= tls /\ tls \in 1..Len(pages)
    BY <1>2, <2>2, HotPageExists DEF IInv, Frames, PageOf
  <2>4. (IInv => Len(pages) \in Nat /\ (HasPage => tls \in 1..Len(pages)))'
    BY HotPageIs, PTL
  <2>5. calls'[j].page \in DOMAIN pages'
    BY <1>2 DEF IInv, TypeOK, Nil
  <2>6. HasPage'
    <3>1. pages' # <<>>
      BY <2>5
    <3> QED
      BY <3>1 DEF IInv, Unused
  <2>7. calls'[j].page <= tls' /\ tls' \in 1..Len(pages') /\ Len(pages') \in Nat
    BY <1>2, <2>4, <2>6 DEF IInv, Frames, PageOf, Nil
  <2>8. PICK m \in Nat : m = calls[i].page - 1
    BY <2>1
  <2>9. m <= Len(pages) /\ m <= Len(pages') /\ m < tls /\ m < tls'
    BY <2>1, <2>3, <2>7, <2>8
  <2>10. \A p \in 1..m : pages'[p] = pages[p]
    <3> SUFFICES ASSUME NEW p \in 1..m PROVE pages'[p] = pages[p]
      OBVIOUS
    <3>1. p \in Nat \ {0} /\ p < tls /\ p < tls'
      BY <2>3, <2>7, <2>9
    <3> QED
      BY <3>1 DEF BelowSame
  <2>11. Contents'[m] = Contents[m]
    BY <2>9, <2>10, ContentsKept
  <2> QED
    BY <1>2, <2>8, <2>11 DEF Height, Nil
<1> QED
  BY <1>1, <1>2

LEMMA SameScopes ==
  ASSUME IInv, IInv', BelowSame, calls' = calls
  PROVE  Scopes' = Scopes
<1>1. ScopesFit /\ ScopesFit'
  BY ScopesAre, After
<1>2. \A i \in 1..Len(calls) : Scopes'[i] = Scopes[i]
  BY <1>1, HeightsKept DEF ScopesFit
<1>3. Scopes \in Seq(ScopeType) /\ Scopes' \in Seq(ScopeType) /\ Len(Scopes') = Len(Scopes) /\ Len(Scopes) = Len(calls)
  BY <1>1 DEF ScopesFit, ScopeType
<1> QED
  BY <1>2, <1>3, SeqEqual

LEMMA CutScopes ==
  ASSUME IInv, IInv', BelowSame, NEW i \in DOMAIN calls, NEW f \in Frame,
         calls' = Append(SubSeq(calls, 1, i - 1), f), Height(f)' = Height(calls[i])
  PROVE  Scopes' = Append(SubSeq(Scopes, 1, i - 1), [height |-> Scopes[i].height, state |-> f.state])
<1>1. ScopesFit /\ ScopesFit'
  BY ScopesAre, After
<1>2. /\ calls' \in Seq(Frame) /\ DOMAIN calls' = 1..i
      /\ \A j \in 1..i : /\ j \in DOMAIN calls
                         /\ calls'[j] = IF j = i THEN f ELSE calls[j]
  BY CutBack DEF IInv
<1>3. PICK e : e = [height |-> Scopes[i].height, state |-> f.state]
  OBVIOUS
<1>4. e \in ScopeType
  BY <1>1, <1>3 DEF ScopesFit, ScopeType, Frame
<1>5. Scopes \in Seq(ScopeType) /\ i \in 1..Len(Scopes)
  BY <1>1 DEF ScopesFit
<1>6. PICK s : s = Append(SubSeq(Scopes, 1, i - 1), e)
  OBVIOUS
<1>7. /\ s \in Seq(ScopeType) /\ DOMAIN s = 1..i
      /\ \A j \in 1..i : s[j] = IF j = i THEN e ELSE Scopes[j]
  BY <1>4, <1>5, <1>6, PrefixThen
<1>8. \A j \in 1..i : Scopes'[j] = s[j]
  <2> SUFFICES ASSUME NEW j \in 1..i PROVE Scopes'[j] = s[j]
    OBVIOUS
  <2>1. /\ j \in DOMAIN calls /\ j \in DOMAIN calls'
        /\ calls'[j] = IF j = i THEN f ELSE calls[j]
    BY <1>2
  <2>2. Height(calls[j])' = Height(calls[j])
    <3>1. CASE j = i
      BY <2>1, <3>1 DEF Height
    <3>2. CASE j # i
      BY <2>1, <3>2, HeightsKept
    <3> QED
      BY <3>1, <3>2
  <2>3. Scopes'[j] = [height |-> Height(calls[j]), state |-> calls'[j].state]
    BY <1>1, <2>1, <2>2 DEF ScopesFit
  <2>4. Scopes[j] = [height |-> Height(calls[j]), state |-> calls[j].state]
    BY <1>1, <2>1 DEF ScopesFit
  <2>5. CASE j = i
    BY <1>3, <1>7, <2>1, <2>3, <2>4, <2>5
  <2>6. CASE j # i
    BY <1>7, <2>1, <2>3, <2>4, <2>6
  <2> QED
    BY <2>5, <2>6
<1>9. Scopes' \in Seq(ScopeType) /\ Len(Scopes') = i /\ Len(s) = i
  <2>1. Scopes' \in Seq(ScopeType) /\ DOMAIN Scopes' = 1..i
    BY <1>1, <1>2 DEF ScopesFit, ScopeType
  <2>2. i \in Nat
    BY <1>1 DEF ScopesFit
  <2> QED
    BY <1>7, <2>1, <2>2, LenProperties
<1>10. Scopes' = s
  BY <1>7, <1>8, <1>9, SeqEqual
<1> QED
  BY <1>3, <1>6, <1>10

LEMMA MoreScopes ==
  ASSUME IInv, IInv', BelowSame, NEW f \in Frame, calls' = Append(calls, f)
  PROVE  Scopes' = Append(Scopes, [height |-> Height(f)', state |-> f.state])
<1>1. ScopesFit /\ ScopesFit'
  BY ScopesAre, After
<1>2. PICK n \in Nat : n = Len(calls)
  BY CallTypes DEF IInv
<1>3. /\ calls \in Seq(Frame) /\ Len(calls') = n + 1 /\ calls'[n + 1] = f
      /\ \A j \in 1..n : calls'[j] = calls[j]
  BY <1>2, CallTypes, AppendProperties DEF IInv
<1>4. PICK e : e = Scopes'[n + 1]
  OBVIOUS
<1>5. /\ DOMAIN calls = 1..n /\ DOMAIN calls' = 1..n + 1
      /\ Scopes \in Seq(ScopeType) /\ Len(Scopes) = n /\ Scopes' \in Seq(ScopeType) /\ Len(Scopes') = n + 1
  BY <1>1, <1>2, <1>3 DEF ScopesFit, ScopeType
<1>6. e = [height |-> Height(f)', state |-> f.state]
  <2>1. n + 1 \in DOMAIN calls'
    BY <1>5
  <2>2. e = [height |-> Height(calls[n + 1])', state |-> calls'[n + 1].state]
    BY <1>1, <1>4, <2>1 DEF ScopesFit
  <2>3. Height(calls[n + 1])' = Height(f)'
    BY <1>3 DEF Height
  <2> QED
    BY <1>3, <2>2, <2>3
<1>7. e \in ScopeType
  BY <1>4, <1>5, ElementOfSeq
<1>8. PICK s : s = Append(Scopes, e)
  OBVIOUS
<1>9. s \in Seq(ScopeType) /\ Len(s) = n + 1 /\ s[n + 1] = e /\ \A j \in 1..n : s[j] = Scopes[j]
  BY <1>5, <1>7, <1>8, AppendProperties
<1>10. \A j \in 1..n + 1 : Scopes'[j] = s[j]
  <2> SUFFICES ASSUME NEW j \in 1..n + 1 PROVE Scopes'[j] = s[j]
    OBVIOUS
  <2>1. CASE j = n + 1
    BY <1>4, <1>9, <2>1
  <2>2. CASE j # n + 1
    <3>1. j \in 1..n
      BY <2>2
    <3>2. j \in DOMAIN calls /\ j \in DOMAIN calls' /\ calls'[j] = calls[j]
      BY <1>3, <1>5, <3>1
    <3>3. Height(calls[j])' = Height(calls[j])
      BY <3>2, HeightsKept
    <3> QED
      BY <1>1, <1>9, <3>1, <3>2, <3>3 DEF ScopesFit
  <2> QED
    BY <2>1, <2>2
<1>11. Scopes' = s
  BY <1>5, <1>9, <1>10, SeqEqual
<1> QED
  BY <1>6, <1>8, <1>11

LEMMA DropScopes ==
  ASSUME IInv, IInv', BelowSame, calls # <<>>, calls' = Front(calls)
  PROVE  Scopes' = Front(Scopes)
<1>1. ScopesFit /\ ScopesFit'
  BY ScopesAre, After
<1>2. /\ calls \in Seq(Frame) /\ Len(calls) \in Nat \ {0} /\ Len(calls') = Len(calls) - 1
      /\ \A i \in 1..Len(calls) - 1 : calls'[i] = calls[i]
  <2>1. calls \in Seq(Frame)
    BY CallTypes DEF IInv
  <2> QED
    BY <2>1, FrontLast
<1>3. PICK s : s = Front(Scopes)
  OBVIOUS
<1>4. Scopes \in Seq(ScopeType) /\ Len(Scopes) = Len(calls) /\ Scopes # <<>>
  <2>1. Len(<<>>) = 0
    OBVIOUS
  <2> QED
    BY <1>1, <1>2, <2>1 DEF ScopesFit
<1>5. /\ s \in Seq(ScopeType) /\ Len(s) = Len(calls) - 1
      /\ \A i \in 1..Len(calls) - 1 : s[i] = Scopes[i]
  BY <1>3, <1>4, FrontLast
<1>6. \A i \in 1..Len(calls) - 1 : Scopes'[i] = s[i]
  <2> SUFFICES ASSUME NEW i \in 1..Len(calls) - 1 PROVE Scopes'[i] = s[i]
    OBVIOUS
  <2>1. i \in DOMAIN calls /\ i \in DOMAIN calls' /\ calls'[i] = calls[i]
    BY <1>1, <1>2 DEF ScopesFit
  <2>2. Height(calls[i])' = Height(calls[i])
    BY <2>1, HeightsKept
  <2> QED
    BY <1>1, <1>5, <2>1, <2>2 DEF ScopesFit
<1>7. Scopes' \in Seq(ScopeType) /\ Len(Scopes') = Len(calls) - 1
  BY <1>1, <1>2 DEF ScopesFit, ScopeType
<1>8. Scopes' = s
  BY <1>5, <1>6, <1>7, SeqEqual
<1> QED
  BY <1>3, <1>8

LEMMA ReleasingScopes ==
  ASSUME IInv, IInv', BelowSame, NEW n \in DOMAIN calls,
         calls' = [calls EXCEPT ![n].state = "releasing"]
  PROVE  Scopes' = [Scopes EXCEPT ![n].state = "releasing"]
<1>1. ScopesFit /\ ScopesFit'
  BY ScopesAre, After
<1>2. \A i \in DOMAIN calls : calls[i] \in Frame
  BY CallTypes DEF IInv
<1>3. /\ DOMAIN calls' = DOMAIN calls
      /\ \A i \in DOMAIN calls :
           calls'[i] = IF i = n THEN [calls[i] EXCEPT !.state = "releasing"] ELSE calls[i]
  OBVIOUS
<1>4. \A i \in DOMAIN calls :
        /\ calls'[i].page = calls[i].page /\ calls'[i].at = calls[i].at
        /\ calls'[i].state = IF i = n THEN "releasing" ELSE calls[i].state
  BY <1>2, <1>3 DEF Frame
<1>5. DOMAIN Scopes' = DOMAIN Scopes /\ DOMAIN Scopes = DOMAIN calls
  BY <1>1, <1>3 DEF ScopesFit
<1>6. \A i \in DOMAIN calls :
        Scopes'[i] = [height |-> Height(calls[i]), state |-> IF i = n THEN "releasing" ELSE calls[i].state]
  <2> SUFFICES ASSUME NEW i \in DOMAIN calls
               PROVE  Scopes'[i] = [height |-> Height(calls[i]),
                                    state |-> IF i = n THEN "releasing" ELSE calls[i].state]
    OBVIOUS
  <2>1. Height(calls[i])' = Height(calls[i])
    BY <1>3, <1>4, HeightsKept
  <2> QED
    BY <1>1, <1>3, <1>4, <2>1 DEF ScopesFit
<1>7. PICK s : s = [Scopes EXCEPT ![n].state = "releasing"]
  OBVIOUS
<1>8. /\ DOMAIN s = DOMAIN calls
      /\ \A i \in DOMAIN calls :
           s[i] = [height |-> Height(calls[i]), state |-> IF i = n THEN "releasing" ELSE calls[i].state]
  BY <1>1, <1>5, <1>7 DEF ScopesFit
<1>9. s = [i \in DOMAIN calls |-> s[i]]
  BY <1>5, <1>7
<1>10. Scopes' = [i \in DOMAIN calls |-> Scopes'[i]]
  BY <1>3 DEF Scopes
<1>11. Scopes' = s
  BY <1>6, <1>8, <1>9, <1>10
<1> QED
  BY <1>7, <1>11

(* The height of the first page is 0, also that of the placeholder's pool. *)
LEMMA Lowest ==
  ASSUME IInv, IInv', NEW f, f.page = 1, f.at = 0
  PROVE  Height(f)' = 0
<1>1. (IInv => Len(pages) \in Nat /\ AllHolds(pages, Contents, Len(pages)) /\ Contents[0] = <<>>)'
  BY PagesHold, PTL
<1>2. Contents'[0] = <<>> /\ Len(<<>>) = 0
  BY <1>1
<1>3. f.page - 1 = 0 /\ f.page # 0
  OBVIOUS
<1> QED
  BY <1>2, <1>3 DEF Height, Nil

-----------------------------------------------------------------------------
(* Each step is one of the stack                                           *)

(* An entry goes on top, whichever way it is added.                        *)
LEMMA AppendLast ==
  ASSUME NEW a \in Seq(Entries), NEW b \in Seq(Entries), NEW e \in Entries
  PROVE  a \o Append(b, e) = Append(a \o b, e)
<1>1. Append(b, e) = b \o <<e>> /\ <<e>> \in Seq(Entries)
  BY AppendIsConcat
<1>2. a \o b \in Seq(Entries)
  BY ConcatProperties
<1>3. Append(a \o b, e) = (a \o b) \o <<e>>
  BY <1>2, AppendIsConcat
<1>4. (a \o b) \o <<e>> = a \o (b \o <<e>>)
  BY <1>1, ConcatAssociative
<1> QED
  BY <1>1, <1>3, <1>4

LEMMA EntryOnTop ==
  ASSUME NormalMode, IInv, IInv', NEW e \in Entries, AutoreleaseFast(e)
  PROVE  BelowSame /\ Stacked' = Append(Stacked, e)
<1>1. StackFits /\ StackFits'
  BY StackedIs, After
<1>2. (IInv => Len(pages) \in Nat /\ AllHolds(pages, Contents, Len(pages)) /\ Contents[0] = <<>>)'
  BY PagesHold, PTL
<1>3. Len(pages) \in Nat /\ Contents[0] = <<>> /\ DOMAIN pages = 1..Len(pages)
  BY PagesHold, HotPageExists DEF IInv
<1>4. CASE HasPage
  <2>1. /\ tls \in 1..Len(pages) /\ HotPage = tls /\ HotPage # Nil
        /\ pages[tls] \in Seq(Entries) /\ Contents[tls - 1] \in Seq(Entries)
        /\ Stacked = Contents[tls - 1] \o pages[tls] /\ Stacked = Contents[tls]
    BY <1>1, <1>4, HotPageExists DEF IInv, StackFits
  <2>2. CASE ~Full(tls)
    <3>1. pages' = [pages EXCEPT ![tls] = Append(pages[tls], e)] /\ tls' = tls
      BY <2>1, <2>2 DEF AutoreleaseFast, Add
    <3>2. /\ DOMAIN pages' = DOMAIN pages /\ pages'[tls] = Append(pages[tls], e)
          /\ \A p \in DOMAIN pages : p # tls => pages'[p] = pages[p]
      BY <1>3, <2>1, <3>1
    <3>3. DOMAIN pages' = 1..Len(pages')
      BY LenProperties DEF IInv, TypeOK
    <3>4. Len(pages') = Len(pages)
      BY <1>2, <1>3, <3>2, <3>3
    <3>5. BelowSame
      BY <1>3, <2>1, <3>1, <3>2 DEF BelowSame
    <3>6. PICK m \in Nat : m = tls - 1
      BY <2>1
    <3>7. Contents'[m] = Contents[m]
      <4>1. m <= Len(pages) /\ m <= Len(pages') /\ \A p \in 1..m : pages'[p] = pages[p]
        BY <1>3, <2>1, <3>2, <3>4, <3>6
      <4> QED
        BY <4>1, ContentsKept
    <3>8. HasPage'
      BY <1>4, <3>1 DEF HasPage
    <3>9. Stacked' = Contents[m] \o Append(pages[tls], e)
      BY <1>1, <3>1, <3>2, <3>6, <3>7, <3>8 DEF StackFits
    <3>10. Contents[m] \o Append(pages[tls], e) = Append(Stacked, e)
      BY <2>1, <3>6, AppendLast
    <3> QED
      BY <3>5, <3>9, <3>10
  <2>3. CASE Full(tls)
    <3>1. AutoreleaseFullPage(e)
      BY <2>1, <2>3 DEF AutoreleaseFast
    <3>2. /\ tls' = tls + 1 /\ tls + 1 \in DOMAIN pages'
          /\ pages'[tls + 1] = <<e>>
          /\ \A p \in 1..tls : pages'[p] = pages[p]
      BY <1>4, <2>3, <3>1, NextPage DEF IInv
    <3>3. DOMAIN pages' = 1..Len(pages')
      BY LenProperties DEF IInv, TypeOK
    <3>4. BelowSame
      BY <1>3, <2>1, <3>2 DEF BelowSame
    <3>5. PICK m \in Nat : m = tls
      BY <2>1
    <3>6. Contents'[m] = Contents[m]
      <4>1. m <= Len(pages) /\ m <= Len(pages') /\ \A p \in 1..m : pages'[p] = pages[p]
        BY <1>2, <1>3, <2>1, <3>2, <3>3, <3>5
      <4> QED
        BY <4>1, ContentsKept
    <3>7. HasPage' /\ tls' - 1 = m
      BY <2>1, <3>2, <3>5 DEF HasPage, Nil, EMPTY_POOL_PLACEHOLDER
    <3>8. Stacked' = Contents'[m] \o <<e>>
      BY <1>1, <3>2, <3>7 DEF StackFits
    <3>9. Stacked' = Stacked \o <<e>>
      BY <2>1, <3>5, <3>6, <3>8
    <3>10. Append(Stacked, e) = Stacked \o <<e>>
      BY <1>1, AppendIsConcat DEF StackFits
    <3> QED
      BY <3>4, <3>9, <3>10
  <2> QED
    BY <2>2, <2>3
<1>5. CASE ~HasPage
  <2>1. /\ HotPage = Nil /\ AutoreleaseNoPage(e) /\ tls \in {Nil, EMPTY_POOL_PLACEHOLDER}
        /\ Nil # EMPTY_POOL_PLACEHOLDER
    BY <1>5, HotPageExists DEF IInv, AutoreleaseFast, Nil, EMPTY_POOL_PLACEHOLDER
  <2>2. BelowSame
    BY <2>1 DEF BelowSame, Nil, EMPTY_POOL_PLACEHOLDER
  <2>3. ASSUME NEW page \in Seq(Entries), pages' = <<page>>, tls' = 1 PROVE Stacked' = page
    <3>1. HasPage' /\ tls' - 1 = 0
      BY <2>3 DEF HasPage, Nil, EMPTY_POOL_PLACEHOLDER
    <3>2. Stacked' = <<>> \o page
      <4>1. Stacked' = Contents'[tls' - 1] \o pages'[tls']
        BY <1>1, <3>1 DEF StackFits
      <4>2. pages'[tls'] = page
        BY <2>3
      <4>3. Contents'[tls' - 1] = <<>>
        BY <1>2, <3>1
      <4> QED
        BY <4>1, <4>2, <4>3
    <3> QED
      BY <3>2, ConcatEmptySeq
  <2>4. CASE tls = EMPTY_POOL_PLACEHOLDER
    <3>1. pages' = [<< <<POOL_BOUNDARY>> >> EXCEPT ![1] = Append(@, e)] /\ tls' = 1
      BY <2>1, <2>4 DEF AutoreleaseNoPage, Add
    <3>2. pages' = << <<POOL_BOUNDARY, e>> >>
      BY <3>1
    <3>3. <<POOL_BOUNDARY, e>> \in Seq(Entries)
      BY DEF Entries
    <3>4. Stacked' = <<POOL_BOUNDARY, e>>
      BY <2>3, <3>1, <3>2, <3>3
    <3>5. Stacked = <<POOL_BOUNDARY>>
      BY <1>1, <2>4 DEF StackFits
    <3> QED
      BY <2>2, <3>4, <3>5
  <2>5. CASE tls = Nil /\ e # POOL_BOUNDARY
    <3>1. pages' = [<< <<>> >> EXCEPT ![1] = Append(@, e)] /\ tls' = 1
      BY <2>1, <2>5 DEF AutoreleaseNoPage, Add, NormalMode
    <3>2. pages' = << <<e>> >> /\ <<e>> \in Seq(Entries)
      BY <3>1
    <3>3. Stacked' = <<e>>
      BY <2>3, <3>1, <3>2
    <3>4. Stacked = <<>>
      BY <1>1, <2>5 DEF StackFits
    <3> QED
      BY <2>2, <3>3, <3>4
  <2>6. CASE tls = Nil /\ e = POOL_BOUNDARY
    <3>1. tls' = EMPTY_POOL_PLACEHOLDER
      BY <2>1, <2>6 DEF AutoreleaseNoPage, NormalMode
    <3>2. Stacked' = <<POOL_BOUNDARY>> /\ Stacked = <<>>
      BY <1>1, <2>6, <3>1 DEF StackFits
    <3> QED
      BY <2>2, <2>6, <3>2
  <2> QED
    BY <2>1, <2>4, <2>5, <2>6
<1> QED
  BY <1>4, <1>5

(* The client runs in both.                                                *)
LEMMA ClientOf ==
  ASSUME IInv, ClientRuns
  PROVE  Stack!ClientRuns
<1>1. ScopesFit
  BY SMTT(60), ScopesAre
<1>2. PICK n \in Nat : n = Len(calls)
  BY CallTypes DEF IInv
<1>3. SUFFICES ASSUME Scopes # <<>> PROVE Last(Scopes).state # "popping"
  BY Zenon DEF Stack!ClientRuns, Stack!Last, Last
<1>4. n # 0
  BY <1>1, <1>2, <1>3 DEF ScopesFit
<1>5. n \in DOMAIN calls /\ calls # <<>>
  BY <1>1, <1>2, <1>4 DEF ScopesFit
<1>6. Last(Scopes) = Scopes[n] /\ Last(calls) = calls[n]
  BY <1>1, <1>2 DEF ScopesFit, Last
<1>7. Scopes[n].state = calls[n].state
  BY <1>1, <1>5 DEF ScopesFit
<1> QED
  BY <1>5, <1>6, <1>7 DEF ClientRuns

(* objc_autoreleasePoolPush is Push, with and without a page.              *)
LEMMA PushPushes ==
  ASSUME NormalMode, IInv, IInv', Push
  PROVE  Stack!Push
<1>1. ClientRuns /\ AutoreleaseFast(POOL_BOUNDARY) /\ POOL_BOUNDARY \in Entries
  BY DEF Push, NormalMode, Entries
<1>2. BelowSame /\ Stacked' = Append(Stacked, POOL_BOUNDARY)
  BY <1>1, EntryOnTop
<1>3. StackFits /\ StackFits'
  BY StackedIs, After
<1>4. PICK k \in Nat : k = Len(Stacked) /\ Len(Stacked') = k + 1
  <2>1. Stacked \in Seq(Entries)
    BY <1>3 DEF StackFits
  <2>2. Len(Append(Stacked, POOL_BOUNDARY)) = Len(Stacked) + 1 /\ Len(Stacked) \in Nat
    BY <1>1, <2>1, AppendProperties, LenProperties
  <2> QED
    BY <1>2, <2>2
<1>5. PICK f : f = IF tls' = EMPTY_POOL_PLACEHOLDER THEN Scope(Nil, 0, "open")
                   ELSE Scope(tls', Len(pages'[tls']) - 1, "open")
  OBVIOUS
<1>6. calls' = Append(calls, f)
  BY <1>5 DEF Push
<1>7. f \in Frame /\ f.state = "open" /\ Height(f)' = Len(Stacked)
  <2>1. CASE tls' = EMPTY_POOL_PLACEHOLDER
    <3>1. f = [page |-> Nil, at |-> 0, state |-> "open"]
      BY <1>5, <2>1 DEF Scope
    <3>2. Len(Stacked') = 1
      BY <1>3, <2>1 DEF StackFits
    <3>3. k = 0
      <4>1. k + 1 = 1
        BY <1>4, <3>2
      <4> QED
        BY <4>1
    <3> QED
      BY <1>4, <3>1, <3>3, PoolAssumption DEF Frame, Height, Nil
  <2>2. CASE tls' # EMPTY_POOL_PLACEHOLDER
    <3>1. f = [page |-> tls', at |-> Len(pages'[tls']) - 1, state |-> "open"]
      BY <1>5, <2>2 DEF Scope
    <3>2. Added(POOL_BOUNDARY)
      BY <1>1, <2>2, AddingAnEntry DEF IInv
    <3>3. HasPage'
      BY <1>1, <3>2, AddedShape
    <3>4. Len(pages'[tls']) \in 1..Capacity
      BY <3>2 DEF Added
    <3>5. tls' \in Nat \ {0}
      BY <3>3 DEF IInv, TypeOK, HasPage, Nil, EMPTY_POOL_PLACEHOLDER
    <3>6. f \in Frame
      BY <3>1, <3>4, <3>5, PoolAssumption DEF Frame
    <3>7. /\ Len(Contents'[tls' - 1]) \in Nat /\ Len(pages'[tls']) \in Nat
          /\ Len(Stacked') = Len(Contents'[tls' - 1]) + Len(pages'[tls'])
      BY <1>3, <3>3 DEF StackFits
    <3>8. Height(f)' = Len(Contents'[tls' - 1]) + (Len(pages'[tls']) - 1)
      BY <3>1, <3>5 DEF Height, Nil
    <3>9. PICK a, b \in Nat : a = Len(Contents'[tls' - 1]) /\ b = Len(pages'[tls'])
      BY <3>7
    <3>10. k = a + (b - 1)
      <4>1. k + 1 = a + b
        BY <1>4, <3>7, <3>9
      <4> QED
        BY <4>1
    <3>11. Height(f)' = k
      BY <3>8, <3>9, <3>10
    <3> QED
      BY <1>4, <3>1, <3>6, <3>11
  <2> QED
    BY <2>1, <2>2
<1>8. Scopes' = Append(Scopes, [height |-> Height(f)', state |-> f.state])
  BY <1>2, <1>6, <1>7, MoreScopes
<1>9. Scopes' = Append(Scopes, [height |-> Len(Stacked), state |-> "open"])
  BY <1>7, <1>8
<1>10. Stack!ClientRuns
  BY <1>1, ClientOf
<1> QED
  BY <1>2, <1>9, <1>10 DEF Stack!Push, Stack!Scope

(* autorelease is Autorelease.                                             *)
LEMMA AutoreleaseAdds ==
  ASSUME NormalMode, IInv, IInv', NEW o \in Objects, Autorelease(o)
  PROVE  Stack!Autorelease(o)
<1>1. ClientRuns /\ AutoreleaseFast(o) /\ o \in Entries /\ calls' = calls
  BY DEF Autorelease, Entries
<1>2. BelowSame /\ Stacked' = Append(Stacked, o)
  BY <1>1, EntryOnTop
<1>3. Scopes' = Scopes
  BY <1>1, <1>2, SameScopes
<1>4. Stack!ClientRuns
  BY <1>1, ClientOf
<1> QED
  BY <1>2, <1>3, <1>4 DEF Stack!Autorelease

(* At most pages above the hot page are freed: nothing is popped.          *)
LEMMA SameStack ==
  ASSUME IInv, IInv', HasPage, Shrunk
  PROVE  BelowSame /\ Stacked' = Stacked
<1>1. StackFits /\ StackFits'
  BY StackedIs, After
<1>2. tls \in 1..Len(pages) /\ Len(pages) \in Nat
  BY HotPageIs
<1>3. (IInv => Len(pages) \in Nat /\ (HasPage => tls \in 1..Len(pages)))'
  BY HotPageIs, PTL
<1>4. HasPage' /\ tls' = tls
  BY DEF HasPage, Shrunk
<1>5. DOMAIN pages' = 1..Len(pages')
  BY LenProperties DEF Shrunk
<1>6. \A p \in 1..tls : pages'[p] = pages[p]
  <2>1. tls \in 1..Len(pages') /\ Len(pages') \in Nat
    BY <1>3, <1>4
  <2>2. \A p \in 1..tls : p \in DOMAIN pages'
    BY <1>5, <2>1
  <2> QED
    BY <2>2 DEF Shrunk
<1>7. BelowSame
  BY <1>2, <1>4, <1>6 DEF BelowSame
<1>8. PICK m \in Nat : m = tls
  BY <1>2
<1>9. Contents'[m] = Contents[m]
  <2>1. m <= Len(pages) /\ m <= Len(pages') /\ \A p \in 1..m : pages'[p] = pages[p]
    BY <1>2, <1>3, <1>4, <1>6, <1>8
  <2> QED
    BY <2>1, ContentsKept
<1> QED
  BY <1>1, <1>4, <1>7, <1>8, <1>9 DEF StackFits

(* Without a page there is one pool at most, the placeholder's.            *)
LEMMA EmptyScopes == ASSUME IInv', calls' = <<>> PROVE Scopes' = <<>>
<1>1. Scopes' \in Seq(ScopeType) /\ Len(Scopes') = Len(calls')
  BY After DEF ScopesFit, ScopeType
<1>2. Len(<<>>) = 0
  OBVIOUS
<1>3. Len(Scopes') = 0
  BY <1>1, <1>2
<1> QED
  BY <1>1, <1>3, EmptySeq

(* The beginning of a pop is Pop, or PopEmpty when the placeholder's pool  *)
(* is all there is.                                                        *)
LEMMA PopPops ==
  ASSUME IInv, IInv', NEW i \in DOMAIN calls, Pop(i)
  PROVE  Stack!Pop(i) \/ Stack!PopEmpty(i)
<1>1. Stack!ClientRuns
  BY ClientOf DEF Pop
<1>2. ScopesFit /\ StackFits /\ StackFits'
  BY ScopesAre, StackedIs, After
<1>3. \A j \in i..Len(Scopes) : Scopes[j].state = "open"
  <2> SUFFICES ASSUME NEW j \in i..Len(Scopes) PROVE Scopes[j].state = "open"
    OBVIOUS
  <2>1. j \in DOMAIN calls /\ j \in i..Len(calls)
    BY <1>2 DEF ScopesFit
  <2>2. calls[j].state = "open"
    BY <2>1 DEF Pop
  <2> QED
    BY <1>2, <2>1, <2>2 DEF ScopesFit
<1>4. CASE ~HasPage
  <2>1. /\ calls = <<Scope(Nil, 0, "open")>> /\ HotPage = Nil /\ tls = EMPTY_POOL_PLACEHOLDER
    <3>1. calls # <<>>
      OBVIOUS
    <3>2. tls \in {Nil, EMPTY_POOL_PLACEHOLDER}
      BY <1>4 DEF HasPage
    <3> QED
      BY <1>4, <3>1, <3>2, HotPageExists DEF IInv, Unused
  <2>2. i = 1 /\ calls[i].page = Nil
    BY <2>1 DEF Scope
  <2>3. tls' = Nil /\ calls' = SubSeq(calls, 1, 0)
    BY <2>1, <2>2 DEF Pop
  <2>4. calls' = <<>>
    BY <2>3, SubSeqEmpty
  <2>5. Stacked = <<POOL_BOUNDARY>> /\ Stacked' = <<>>
    BY <1>2, <2>1, <2>3 DEF StackFits
  <2>6. Scopes' = <<>>
    BY <2>4, EmptyScopes
  <2>7. Scopes[i].height = 0
    BY <1>2, <2>2 DEF ScopesFit, Height
  <2>8. SubSeq(Scopes, 1, i - 1) = <<>>
    BY <2>2, SubSeqEmpty
  <2>9. Front(Stacked) = <<>> /\ Len(Stacked) = 1
    BY <2>5, SubSeqEmpty DEF Front
  <2>10. Len(Stacked) = Scopes[i].height + 1
    BY <2>7, <2>9
  <2>11. Stacked' = Front(Stacked) /\ Scopes' = SubSeq(Scopes, 1, i - 1)
    BY <2>5, <2>6, <2>8, <2>9
  <2> QED
    BY <1>1, <1>3, <2>10, <2>11 DEF Stack!PopEmpty, Stack!Front, Front
<1>5. CASE HasPage
  <2>1. HotPage # Nil /\ tls \in DOMAIN pages /\ pages \in Seq(Seq(Entries))
    BY <1>5, HotPageExists DEF IInv
  <2>2. PICK f : f = Scope(PageOf(i), calls[i].at, "popping")
    OBVIOUS
  <2>3. /\ calls[i].at \in 0..Capacity /\ PageOf(i) \in Nat \ {0}
        /\ calls[i].page = Nil => calls[i].at = 0
    BY <1>5, CallTypes DEF IInv, Frame, Frames
  <2>4. calls' = Append(SubSeq(calls, 1, i - 1), f) /\ tls' = tls /\ pages' = pages
    BY <2>1, <2>2, <2>3 DEF Pop, PageOf
  <2>5. f \in Frame /\ f.page = PageOf(i) /\ f.at = calls[i].at /\ f.state = "popping"
    BY <2>2, <2>3 DEF Scope, Frame
  <2>6. BelowSame /\ Stacked' = Stacked
    <3>1. Shrunk
      BY <2>1, <2>4 DEF Shrunk
    <3> QED
      BY <1>5, <3>1, SameStack
  <2>7. Height(f)' = Height(calls[i])
    <3>1. CASE calls[i].page = Nil
      <4>1. f.page = 1 /\ f.at = 0
        BY <2>3, <2>5, <3>1 DEF PageOf
      <4>2. Height(f)' = 0
        BY <4>1, Lowest
      <4> QED
        BY <3>1, <4>2 DEF Height
    <3>2. CASE calls[i].page # Nil
      <4>1. PICK m \in Nat : m = calls[i].page - 1
        BY <2>3, <3>2 DEF PageOf
      <4>2. m <= Len(pages) /\ m <= Len(pages')
        <5>1. calls[i].page \in DOMAIN pages /\ DOMAIN pages = 1..Len(pages) /\ Len(pages) \in Nat
          BY <3>2, CallTypes, HotPageExists DEF IInv
        <5> QED
          BY <2>4, <4>1, <5>1
      <4>3. Contents'[m] = Contents[m]
        BY <2>4, <4>2, ContentsKept
      <4>4. f.page = calls[i].page
        BY <2>5, <3>2 DEF PageOf
      <4> QED
        BY <2>5, <3>2, <4>1, <4>3, <4>4 DEF Height
    <3> QED
      BY <3>1, <3>2
  <2>8. Scopes' = Append(SubSeq(Scopes, 1, i - 1), [height |-> Scopes[i].height, state |-> f.state])
    BY <2>4, <2>5, <2>6, <2>7, CutScopes
  <2> QED
    BY <1>1, <1>3, <2>5, <2>6, <2>8 DEF Stack!Pop, Stack!Scope
<1> QED
  BY <1>4, <1>5

(* The return of a -dealloc is Return.                                     *)
LEMMA ReturnReturns ==
  ASSUME IInv, IInv', NEW i \in DOMAIN calls, Return(i)
  PROVE  Stack!Return(i)
<1>1. ScopesFit
  BY ScopesAre
<1>2. pages' = pages /\ tls' = tls /\ calls[i].state = "releasing"
  BY DEF Return
<1>3. HasPage
  <2>1. CASE ~HasPage
    <3>1. calls = <<Scope(Nil, 0, "open")>>
      BY <2>1 DEF IInv, Unused
    <3> QED
      BY <1>2, <3>1 DEF Scope
  <2> QED
    BY <2>1
<1>4. PICK f : f = [calls[i] EXCEPT !.state = "popping"]
  OBVIOUS
<1>5. /\ f \in Frame /\ f.page = calls[i].page /\ f.at = calls[i].at /\ f.state = "popping"
  <2>1. calls[i] \in Frame
    BY CallTypes DEF IInv
  <2> QED
    BY <1>4, <2>1 DEF Frame
<1>6. calls' = Append(SubSeq(calls, 1, i - 1), f)
  BY <1>4 DEF Return
<1>7. BelowSame /\ Stacked' = Stacked
  <2>1. Shrunk
    BY <1>2, <1>3, HotPageExists DEF Shrunk, IInv
  <2> QED
    BY <1>3, <2>1, SameStack
<1>8. Height(f)' = Height(calls[i])
  <2>1. i \in DOMAIN calls' /\ calls'[i] = f
    <3>1. /\ DOMAIN calls' = 1..i
          /\ \A j \in 1..i : j \in DOMAIN calls /\ calls'[j] = IF j = i THEN f ELSE calls[j]
      BY <1>5, <1>6, CutBack DEF IInv
    <3>2. i \in 1..i
      BY CallTypes DEF IInv
    <3> QED
      BY <3>1, <3>2
  <2>2. Height(calls[i])' = Height(calls[i])
    BY <1>5, <1>7, <2>1, HeightsKept
  <2> QED
    BY <2>1, <2>2 DEF Height
<1>9. Scopes' = Append(SubSeq(Scopes, 1, i - 1), [height |-> Scopes[i].height, state |-> f.state])
  BY <1>5, <1>6, <1>7, <1>8, CutScopes
<1>10. Scopes[i].state = "releasing"
  BY <1>1, <1>2 DEF ScopesFit
<1>11. \A j \in i + 1 .. Len(Scopes) : Scopes[j].state = "open"
  <2> SUFFICES ASSUME NEW j \in i + 1 .. Len(Scopes) PROVE Scopes[j].state = "open"
    OBVIOUS
  <2>1. j \in DOMAIN calls /\ j \in i + 1 .. Len(calls)
    BY <1>1 DEF ScopesFit
  <2>2. calls[j].state = "open"
    BY <2>1 DEF Return
  <2> QED
    BY <1>1, <2>1, <2>2 DEF ScopesFit
<1> QED
  BY <1>5, <1>7, <1>9, <1>10, <1>11 DEF Stack!Return, Stack!Scope

(* A turn of releaseUntil is Release: it takes the last entry, which is    *)
(* above the place where the pop is to end.                                *)
LEMMA FrontOfAppend ==
  ASSUME NEW s \in Seq(Entries), NEW e \in Entries
  PROVE  Front(Append(s, e)) = s /\ Last(Append(s, e)) = e
<1>1. PICK t : t = Append(s, e)
  OBVIOUS
<1>2. t \in Seq(Entries) /\ t # <<>> /\ Len(t) = Len(s) + 1 /\ Len(s) \in Nat
      /\ t[Len(s) + 1] = e /\ \A i \in 1..Len(s) : t[i] = s[i]
  BY <1>1, AppendProperties, LenProperties
<1>3. /\ Front(t) \in Seq(Entries) /\ Len(Front(t)) = Len(t) - 1 /\ Last(t) = t[Len(t)]
      /\ \A i \in 1..Len(t) - 1 : Front(t)[i] = t[i]
  BY <1>2, FrontLast
<1>4. Len(t) - 1 = Len(s)
  BY <1>2
<1>5. Front(t) = s
  BY <1>2, <1>3, <1>4, SeqEqual
<1> QED
  BY <1>1, <1>2, <1>3, <1>5

LEMMA FrontOfConcat ==
  ASSUME NEW a \in Seq(Entries), NEW b \in Seq(Entries), b # <<>>
  PROVE  Front(a \o b) = a \o Front(b) /\ Last(a \o b) = Last(b)
<1>1. PICK s \in Seq(Entries), e \in Entries : b = Append(s, e)
  BY SequenceEmptyOrAppend
<1>2. a \o b = Append(a \o s, e)
  BY <1>1, AppendLast
<1>3. PICK t \in Seq(Entries) : t = a \o s
  BY ConcatProperties
<1>4. Front(Append(t, e)) = t /\ Last(Append(t, e)) = e
  BY FrontOfAppend
<1>5. Front(b) = s /\ Last(b) = e
  BY <1>1, FrontOfAppend
<1>6. a \o b = Append(t, e)
  BY <1>2, <1>3
<1> QED
  BY <1>3, <1>4, <1>5, <1>6

LEMMA ReleaseReleases ==
  ASSUME IInv, IInv', ReleaseOne
  PROVE  Stack!Release
<1>0. PICK p \in 1..tls : p = HottestNonempty
  BY HottestPage DEF ReleaseOne
<1>1. PICK n \in DOMAIN calls : n = Len(calls)
  BY LastCall DEF ReleaseOne
<1>2. PICK q \in 1..tls : q = calls[n].page
  BY <1>1, LastCall DEF ReleaseOne
<1>3. PICK k \in Nat : k = calls[n].at
  BY <1>1, LastCall DEF ReleaseOne
<1>4. /\ HasPage /\ calls[n].state = "popping" /\ k < Capacity
      /\ p = tls \/ (p = tls - 1 /\ pages[tls] = <<>>)
      /\ pages[p] # <<>>
      /\ q < p \/ (q = p /\ k < Len(pages[p]))
  <2>1. HasPage /\ calls[n].state = "popping" /\ Last(calls) = calls[n] /\ k < Capacity
    BY <1>1, <1>3, LastCall DEF ReleaseOne
  <2> QED
    BY <1>0, <1>2, <1>3, <2>1, HottestPage DEF ReleaseOne
<1>5. /\ tls \in 1..Len(pages) /\ Len(pages) \in Nat /\ DOMAIN pages = 1..Len(pages)
      /\ \A r \in DOMAIN pages : pages[r] \in Seq(Entries) /\ Len(pages[r]) \in Nat
  BY <1>4, HotPageExists DEF IInv
<1>6. p \in DOMAIN pages /\ q \in DOMAIN pages /\ p \in Nat /\ q \in Nat
  BY <1>5
<1>7. /\ pages' = [pages EXCEPT ![p] = Front(@)] /\ tls' = p
      /\ calls' = IF Last(pages[p]) = POOL_BOUNDARY THEN calls
                  ELSE [calls EXCEPT ![n].state = "releasing"]
  BY <1>0, <1>1 DEF ReleaseOne
<1>8. /\ DOMAIN pages' = DOMAIN pages /\ pages'[p] = Front(pages[p])
      /\ \A r \in DOMAIN pages : r # p => pages'[r] = pages[r]
  BY <1>6, <1>7
<1>9. BelowSame
  BY <1>5, <1>7, <1>8 DEF BelowSame
<1>10. /\ StackFits /\ StackFits' /\ ScopesFit
  BY StackedIs, After, ScopesAre
<1>11. PICK m \in Nat : m = p - 1 /\ m + 1 = p
  BY <1>6
<1>12. /\ AllHolds(pages, Contents, Len(pages))
       /\ \A r \in 0..Len(pages) : Contents[r] \in Seq(Entries) /\ Len(Contents[r]) \in Nat
       /\ \A r \in 1..Len(pages) : Contents[r] = Contents[r - 1] \o pages[r]
  BY <1>5, ContentsAre, HeldIs
<1>13. Contents'[m] = Contents[m]
  <2>1. (IInv => Len(pages) \in Nat /\ (HasPage => tls \in 1..Len(pages)))'
    BY HotPageIs, PTL
  <2>2. HasPage'
    BY <1>0, <1>7 DEF HasPage, Nil, EMPTY_POOL_PLACEHOLDER
  <2>3. Len(pages') \in Nat /\ p \in 1..Len(pages')
    BY <1>7, <2>1, <2>2
  <2>4. m <= Len(pages) /\ m <= Len(pages')
    BY <1>5, <1>6, <1>11, <2>3
  <2>5. \A r \in 1..m : pages'[r] = pages[r]
    BY <1>5, <1>6, <1>8, <1>11
  <2> QED
    BY <2>4, <2>5, ContentsKept
<1>14. /\ Contents[m] \in Seq(Entries) /\ pages[p] \in Seq(Entries)
       /\ Contents[p] = Contents[m] \o pages[p]
  <2>1. p \in 1..Len(pages) /\ m \in 0..Len(pages) /\ p - 1 = m
    BY <1>5, <1>6, <1>11
  <2>2. pages[p] \in Seq(Entries)
    BY <1>5, <1>6
  <2>3. Contents[m] \in Seq(Entries) /\ Contents[p] = Contents[p - 1] \o pages[p]
    BY <1>12, <2>1
  <2> QED
    BY <2>1, <2>2, <2>3
<1>15. Stacked = Contents[p]
  <2>1. Stacked = Contents[tls - 1] \o pages[tls] /\ Stacked = Contents[tls] /\ Contents[tls - 1] \in Seq(Entries)
    BY <1>4, <1>10 DEF StackFits
  <2>2. CASE p = tls
    BY <2>1, <2>2
  <2>3. CASE p = tls - 1 /\ pages[tls] = <<>>
    BY <2>1, <2>3, ConcatEmptySeq
  <2> QED
    BY <1>4, <2>2, <2>3
<1>16. Stacked' = Front(Stacked) /\ Last(Stacked) = Last(pages[p])
  <2>1. HasPage'
    BY <1>0, <1>7 DEF HasPage, Nil, EMPTY_POOL_PLACEHOLDER
  <2>2. Stacked' = Contents'[tls' - 1] \o pages'[tls']
    BY <1>10, <2>1 DEF StackFits
  <2>3. Stacked' = Contents[m] \o Front(pages[p])
    BY <1>7, <1>8, <1>11, <1>13, <2>2
  <2> QED
    BY <1>4, <1>14, <1>15, <2>3, FrontOfConcat
<1>17. Len(Stacked) > Scopes[n].height
  <2>1. PICK c \in Nat : c = Len(Contents[q - 1])
    <3>1. q - 1 \in 0..Len(pages)
      BY <1>5, <1>6
    <3> QED
      BY <1>12, <3>1
  <2>2. Scopes[n].height = c + k
    <3>1. Scopes[n].height = Height(calls[n])
      BY <1>10 DEF ScopesFit
    <3>2. q # 0
      OBVIOUS
    <3> QED
      BY <1>2, <1>3, <2>1, <3>1, <3>2 DEF Height, Nil
  <2>3. PICK l \in Nat : l = Len(pages[q])
    BY <1>5, <1>6
  <2>4. Len(Contents[q]) = c + l
    <3>1. Contents[q] = Contents[q - 1] \o pages[q] /\ Contents[q - 1] \in Seq(Entries) /\ pages[q] \in Seq(Entries)
      <4>1. q \in 1..Len(pages) /\ q - 1 \in 0..Len(pages)
        BY <1>5, <1>6
      <4> QED
        BY <1>5, <1>12, <4>1
    <3> QED
      BY <2>1, <2>3, <3>1, ConcatProperties
  <2>5. CASE q = p
    <3>1. k < l
      BY <1>4, <2>3, <2>5
    <3>2. c + l > c + k
      BY <3>1
    <3>3. Len(Stacked) = c + l
      BY <1>15, <2>4, <2>5
    <3> QED
      BY <2>2, <3>2, <3>3
  <2>6. CASE q < p
    <3>1. l = Capacity
      <4>1. q < tls
        BY <1>5, <1>6, <2>6
      <4> QED
        BY <1>4, <1>6, <2>3, <4>1 DEF IInv, Layout, Full
    <3>2. c + l > c + k
      BY <1>4, <3>1, PoolAssumption
    <3>3. PICK g : g = Contents
      BY SMTT(60)
    <3>4. PICK z \in Nat : z = Len(pages)
      BY <1>5
    <3>5. Len(g[q]) <= Len(g[p])
      <4>1. AllHolds(pages, g, z) /\ PagesOf(pages, z, Entries)
        BY <1>5, <1>12, <3>3, <3>4 DEF PagesOf
      <4>2. q \in 0..z /\ p \in q..z
        BY <1>5, <1>6, <2>6, <3>4
      <4> QED
        BY <4>1, <4>2, HeldGrows
    <3>6. PICK w \in Nat : w = Len(Stacked)
      BY <1>12, <1>15, <1>5, <1>6
    <3>7. c + l <= w
      BY <1>15, <2>4, <3>3, <3>5, <3>6
    <3>8. w > c + k
      BY <3>2, <3>7
    <3> QED
      BY <2>2, <3>6, <3>8
  <2> QED
    BY <1>4, <2>5, <2>6
<1>18. Scopes' = IF Last(Stacked) = POOL_BOUNDARY THEN Scopes ELSE [Scopes EXCEPT ![n].state = "releasing"]
  <2>1. CASE Last(pages[p]) = POOL_BOUNDARY
    BY <1>7, <1>9, <1>16, <2>1, SameScopes
  <2>2. CASE Last(pages[p]) # POOL_BOUNDARY
    BY <1>7, <1>9, <1>16, <2>2, ReleasingScopes
  <2> QED
    BY <2>1, <2>2
<1>19. /\ Scopes # <<>> /\ n = Len(Scopes) /\ Last(Scopes) = Scopes[n] /\ Scopes[n].state = "popping"
  <2>1. n = Len(Scopes) /\ Scopes[n].state = "popping" /\ n \in 1..Len(calls) /\ Len(calls) = Len(Scopes)
    BY <1>1, <1>4, <1>10 DEF ScopesFit
  <2>2. Len(<<>>) = 0
    OBVIOUS
  <2>3. Scopes # <<>>
    BY <2>1, <2>2
  <2> QED
    BY <2>1, <2>3 DEF Last
<1> QED
  BY <1>16, <1>17, <1>18, <1>19 DEF Stack!Release, Stack!Last, Stack!Front, Last, Front

(* releaseUntil has reached its stop, and the stack ends there: the call   *)
(* that ends is the last one, and its height is the height of the stack.   *)
LEMMA LastScope ==
  ASSUME IInv, Releasing
  PROVE  /\ Scopes # <<>> /\ Len(Scopes) = Len(calls) /\ Len(calls) \in DOMAIN calls
         /\ Last(Scopes) = Scopes[Len(calls)] /\ Last(Scopes).state = "popping"
         /\ Last(Scopes).height = Height(Last(calls))
<1>1. ScopesFit
  BY ScopesAre
<1>2. PICK n \in DOMAIN calls : n = Len(calls)
  BY LastCall
<1>3. calls[n].state = "popping" /\ Last(calls) = calls[n]
  BY <1>2, LastCall
<1>4. n = Len(Scopes) /\ n \in 1..Len(calls)
  BY <1>1, <1>2 DEF ScopesFit
<1>5. Scopes # <<>>
  <2>1. Len(<<>>) = 0
    OBVIOUS
  <2> QED
    BY <1>4, <2>1
<1>6. Last(Scopes) = Scopes[n]
  BY <1>4, <1>5 DEF Last
<1>7. Scopes[n].state = calls[n].state /\ Scopes[n].height = Height(calls[n])
  BY <1>1 DEF ScopesFit
<1> QED
  BY <1>2, <1>3, <1>4, <1>5, <1>6, <1>7

LEMMA DoneAtHeight ==
  ASSUME IInv, Releasing, ~NotDone
  PROVE  Len(Stacked) = Last(Scopes).height
<1>1. HasPage /\ Last(calls).page = tls
  BY DoneOnHotPage
<1>2. Len(pages[tls]) = Last(calls).at
  BY <1>1 DEF NotDone
<1>3. tls # Nil
  BY <1>1 DEF HasPage
<1>4. Height(Last(calls)) = Len(Contents[tls - 1]) + Len(pages[tls])
  BY <1>1, <1>2, <1>3 DEF Height
<1>5. Len(Stacked) = Len(Contents[tls - 1]) + Len(pages[tls])
  BY <1>1, StackedIs DEF StackFits
<1> QED
  BY <1>4, <1>5, LastScope

(* The end of pop is PopEnds: the children that it frees hold nothing.     *)
LEMMA PopEndsEnds ==
  ASSUME NormalMode, IInv, IInv', PopEnds
  PROVE  Stack!PopEnds
<1>1. Releasing /\ ~NotDone /\ calls # <<>>
  BY DEF PopEnds, Releasing
<1>2. HasPage /\ Shrunk /\ calls' = Front(calls)
  BY PopEndsShrinks
<1>3. BelowSame /\ Stacked' = Stacked
  BY <1>2, SameStack
<1>4. Scopes' = Front(Scopes)
  BY <1>1, <1>2, <1>3, DropScopes
<1>5. Scopes # <<>> /\ Last(Scopes).state = "popping"
  BY <1>1, LastScope
<1>6. Len(Stacked) = Last(Scopes).height
  BY <1>1, DoneAtHeight
<1> QED
  BY <1>3, <1>4, <1>5, <1>6, Zenon DEF Stack!PopEnds, Stack!Last, Stack!Front, Last, Front

(* The end of tls_dealloc is the end of its pop: nothing is left.          *)
LEMMA ExitEndsEnds ==
  ASSUME IInv, IInv', Exits, ExitEnds
  PROVE  Stack!PopEnds
<1>1. Releasing /\ ~NotDone /\ exiting /\ Len(calls) = 1 /\ calls # <<>>
  BY DEF ExitEnds, Releasing
<1>2. HasPage /\ Last(calls).page = tls
  BY <1>1, DoneOnHotPage
<1>3. Last(calls) = calls[1] /\ calls[1].page = 1 /\ calls[1].at = 0
  BY <1>1, LastCall DEF Exits
<1>4. Height(Last(calls)) = 0
  <2>1. Contents[0] = <<>> /\ Len(<<>>) = 0
    BY PagesHold
  <2>2. calls[1].page - 1 = 0 /\ calls[1].page # 0
    BY <1>3
  <2> QED
    BY <1>3, <2>1, <2>2 DEF Height, Nil
<1>5. Len(Stacked) = 0 /\ Last(Scopes).height = 0
  BY <1>1, <1>4, DoneAtHeight, LastScope
<1>6. Stacked = <<>>
  <2>1. Stacked \in Seq(Entries)
    BY StackedIs DEF StackFits
  <2> QED
    BY <1>5, <2>1, EmptySeq
<1>7. Stacked' = <<>>
  BY After DEF ExitEnds, StackFits
<1>8. Scopes' = <<>>
  BY EmptyScopes DEF ExitEnds
<1>9. Scopes # <<>> /\ Last(Scopes).state = "popping" /\ Len(Scopes) = 1
  BY <1>1, LastScope
<1>10. Front(Scopes) = <<>>
  <2>1. SubSeq(Scopes, 1, 0) = <<>>
    BY SubSeqEmpty
  <2>2. Len(Scopes) - 1 = 0
    BY <1>9
  <2> QED
    BY <2>1, <2>2 DEF Front
<1>11. Len(Stacked) = Last(Scopes).height /\ Stacked' = Stacked /\ Scopes' = Front(Scopes)
  BY <1>5, <1>6, <1>7, <1>8, <1>10
<1> QED
  BY <1>9, <1>11, Zenon DEF Stack!PopEnds, Stack!Last, Stack!Front, Last, Front

(* tls_dealloc is Exit: it pops from the first entry or, without an entry, *)
(* is done.                                                                *)
LEMMA ThreadExitExits ==
  ASSUME NormalMode, IInv, IInv', ThreadExit
  PROVE  Stack!Exit
<1>1. ScopesFit /\ StackFits /\ ScopesFit' /\ StackFits'
  BY ScopesAre, StackedIs, After
<1>2. \A i \in DOMAIN Scopes : Scopes[i].state = "open"
  BY <1>1 DEF ScopesFit, ThreadExit
<1>3. CASE tls = EMPTY_POOL_PLACEHOLDER
  <2>1. calls' = <<>> /\ tls' = Nil
    BY <1>3 DEF ThreadExit
  <2>2. Stacked = <<POOL_BOUNDARY>> /\ Stacked' = <<>>
    BY <1>1, <1>3, <2>1 DEF StackFits
  <2>3. \A i \in DOMAIN Stacked : Stacked[i] = POOL_BOUNDARY
    BY <2>2
  <2>4. Scopes' = <<>>
    BY <2>1, EmptyScopes
  <2> QED
    BY <1>2, <2>2, <2>3, <2>4 DEF Stack!Exit
<1>4. CASE tls # EMPTY_POOL_PLACEHOLDER /\ pages[1] = <<>>
  <2>1. HasPage /\ calls' = <<>> /\ tls' = Nil
    BY <1>4 DEF ThreadExit, HasPage
  <2>2. tls \in 1..Len(pages) /\ Len(pages) \in Nat /\ DOMAIN pages = 1..Len(pages)
    BY <2>1, HotPageExists DEF IInv
  <2>3. tls = 1
    <3>1. CASE 1 < tls
      <4>1. Full(1)
        BY <2>1, <2>2, <3>1 DEF IInv, Layout
      <4>2. Len(<<>>) = 0
        OBVIOUS
      <4> QED
        BY <1>4, <4>1, <4>2, PoolAssumption DEF Full
    <3> QED
      BY <2>2, <3>1
  <2>4. Stacked = <<>>
    <3>1. Stacked \in Seq(Entries) /\ Len(Stacked) = Len(Contents[tls - 1]) + Len(pages[tls])
      BY <1>1, <2>1 DEF StackFits
    <3>2. Contents[0] = <<>> /\ Len(<<>>) = 0 /\ tls - 1 = 0
      BY <2>3, PagesHold
    <3>3. Len(Contents[tls - 1]) = 0 /\ Len(pages[tls]) = 0
      BY <1>4, <2>3, <3>2
    <3>4. Len(Stacked) = 0
      BY <3>1, <3>3
    <3> QED
      BY <3>1, <3>4, EmptySeq
  <2>5. Stacked' = <<>>
    BY <1>1, <2>1 DEF StackFits
  <2>6. \A i \in DOMAIN Stacked : Stacked[i] = POOL_BOUNDARY
    BY <2>4
  <2>7. Scopes' = <<>>
    BY <2>1, EmptyScopes
  <2> QED
    BY <1>2, <2>5, <2>6, <2>7 DEF Stack!Exit
<1>5. CASE tls # EMPTY_POOL_PLACEHOLDER /\ pages[1] # <<>>
  <2>1. HasPage /\ pages' = pages /\ tls' = tls
    BY <1>5 DEF ThreadExit, HasPage
  <2>2. PICK f : f = Scope(1, 0, "popping")
    OBVIOUS
  <2>3. f.page = 1 /\ f.at = 0 /\ f.state = "popping"
    BY <2>2 DEF Scope
  <2>4. calls' = <<f>>
    BY <1>5, <2>2 DEF ThreadExit
  <2>5. Stacked' = Stacked
    <3>1. Shrunk
      BY <2>1, HotPageExists DEF Shrunk, IInv
    <3> QED
      BY <2>1, <3>1, SameStack
  <2>6. Height(f)' = 0
    BY <2>3, Lowest
  <2>7. 1 \in DOMAIN calls' /\ calls'[1] = f /\ Len(calls') = 1
    BY <2>4
  <2>8. Height(calls[1])' = 0
    BY <2>6, <2>7 DEF Height
  <2>9. /\ Scopes' \in Seq(ScopeType) /\ Len(Scopes') = 1
        /\ Scopes'[1] = [height |-> 0, state |-> "popping"]
    BY <1>1, <2>3, <2>7, <2>8 DEF ScopesFit, ScopeType
  <2>10. PICK e : e = [height |-> 0, state |-> "popping"]
    OBVIOUS
  <2>11. Scopes' = <<e>>
    <3>1. e \in ScopeType
      BY <2>10 DEF ScopeType
    <3>2. <<e>> \in Seq(ScopeType) /\ Len(<<e>>) = 1 /\ <<e>>[1] = e
      BY <3>1
    <3>3. \A j \in 1..1 : Scopes'[j] = <<e>>[j]
      BY <2>9, <2>10, <3>2
    <3> QED
      BY <2>9, <3>2, <3>3, SeqEqual
  <2> QED
    BY <1>2, <2>5, <2>10, <2>11 DEF Stack!Exit, Stack!Scope
<1> QED
  BY <1>3, <1>4, <1>5

-----------------------------------------------------------------------------
(* The pop of tls_dealloc is the lowest call and goes down to the bottom.  *)

LEMMA CutAbove ==
  ASSUME IInv, NEW i \in DOMAIN calls, NEW f \in Frame,
         calls' = Append(SubSeq(calls, 1, i - 1), f)
  PROVE  calls' # <<>> /\ (i # 1 => calls'[1] = calls[1]) /\ (i = 1 => calls'[1] = f)
<1>1. /\ DOMAIN calls' = 1..i
      /\ \A j \in 1..i : calls'[j] = IF j = i THEN f ELSE calls[j]
  BY CutBack DEF IInv
<1>2. i \in 1..Len(calls) /\ Len(calls) \in Nat
  BY CallTypes DEF IInv
<1>3. 1 \in 1..i /\ DOMAIN <<>> = {}
  BY <1>2
<1> QED
  BY <1>1, <1>3

LEMMA ExitsKept ==
  ASSUME NormalMode, IInv, Exits, [Next]_vars
  PROVE  Exits'
<1> SUFFICES ASSUME exiting'
             PROVE  /\ calls' # <<>> /\ calls'[1].state # "open"
                    /\ calls'[1].page = 1 /\ calls'[1].at = 0
  BY DEF Exits
<1>1. /\ calls \in Seq(Frame) /\ Len(calls) \in Nat /\ DOMAIN calls = 1..Len(calls)
      /\ \A i \in DOMAIN calls : calls[i] \in Frame
  BY CallTypes DEF IInv
<1>2. ASSUME exiting
      PROVE  /\ calls # <<>> /\ calls[1].state # "open" /\ calls[1].page = 1 /\ calls[1].at = 0
             /\ Len(calls) >= 1 /\ 1 \in DOMAIN calls /\ HasPage
  <2>1. calls # <<>> /\ calls[1].state # "open" /\ calls[1].page = 1 /\ calls[1].at = 0
    BY <1>2 DEF Exits
  <2>2. Len(calls) # 0
    BY <1>1, <2>1, EmptySeq
  <2>3. HasPage
    <3>1. CASE ~HasPage
      <4>1. calls = <<Scope(Nil, 0, "open")>>
        BY <2>1, <3>1 DEF IInv, Unused
      <4> QED
        BY <2>1, <4>1 DEF Scope
    <3> QED
      BY <3>1
  <2> QED
    BY <1>1, <2>1, <2>2, <2>3
<1>3. CASE Push
  <2>1. exiting
    BY <1>3 DEF Push
  <2>2. PICK f : calls' = Append(calls, f)
    BY <1>3 DEF Push
  <2>3. calls' # <<>> /\ calls'[1] = calls[1]
    <3>1. PICK n \in Nat : n = Len(calls)
      BY <1>1
    <3>2. n >= 1
      BY <1>2, <2>1, <3>1
    <3> QED
      BY SMTT(60), <1>1, <2>2, <3>1, <3>2
  <2> QED
    BY <1>2, <2>1, <2>3
<1>4. CASE \E o \in Objects : Autorelease(o)
  <2>1. exiting /\ calls' = calls
    BY <1>4 DEF Autorelease
  <2> QED
    BY <1>2, <2>1
<1>5. CASE \E i \in DOMAIN calls : Pop(i)
  <2>1. PICK i \in DOMAIN calls : Pop(i)
    BY <1>5
  <2>2. exiting
    BY <2>1 DEF Pop
  <2>3. i # 1
    BY <1>1, <1>2, <2>1, <2>2 DEF Pop
  <2>4. HotPage # Nil
    BY <1>2, <2>2, HotPageExists DEF IInv
  <2>5. PICK f : f = Scope(PageOf(i), calls[i].at, "popping")
    OBVIOUS
  <2>6. /\ calls[i].at \in 0..Capacity /\ PageOf(i) \in Nat \ {0}
        /\ calls[i].page = Nil => calls[i].at = 0
    BY <1>2, <2>2, CallTypes DEF IInv, Frame, Frames
  <2>7. calls' = Append(SubSeq(calls, 1, i - 1), f)
    BY <2>1, <2>4, <2>5, <2>6 DEF Pop, PageOf
  <2>8. f \in Frame
    BY <2>5, <2>6 DEF Scope, Frame
  <2> QED
    BY <1>2, <2>2, <2>3, <2>7, <2>8, CutAbove
<1>6. CASE ThreadExit
  <2>1. ~exiting
    BY <1>2, <1>6 DEF ThreadExit
  <2>2. calls' = <<Scope(1, 0, "popping")>>
    BY <1>6, <2>1 DEF ThreadExit
  <2> QED
    BY <2>2 DEF Scope
<1>7. CASE ReleaseOne
  <2>1. exiting
    BY <1>7 DEF ReleaseOne
  <2>2. calls' = calls \/ calls' = [calls EXCEPT ![Len(calls)].state = "releasing"]
    BY <1>7 DEF ReleaseOne
  <2>3. CASE calls' = calls
    BY <1>2, <2>1, <2>3
  <2>4. CASE calls' = [calls EXCEPT ![Len(calls)].state = "releasing"]
    <3>1. DOMAIN calls' = DOMAIN calls /\ DOMAIN <<>> = {}
      BY <2>4
    <3>2. calls'[1] = calls[1] \/ calls'[1] = [calls[1] EXCEPT !.state = "releasing"]
      BY <1>2, <2>1, <2>4
    <3>3. calls[1] \in Frame
      BY <1>1, <1>2, <2>1
    <3>4. calls'[1].page = calls[1].page /\ calls'[1].at = calls[1].at /\ calls'[1].state # "open"
      BY <1>2, <2>1, <3>2, <3>3 DEF Frame
    <3> QED
      BY <1>2, <2>1, <3>1, <3>4
  <2> QED
    BY <2>2, <2>3, <2>4
<1>8. CASE PopEnds
  <2>1. exiting /\ Len(calls) # 1 /\ calls' = Front(calls)
    BY <1>8 DEF PopEnds
  <2>2. PICK n \in Nat : n = Len(calls)
    BY <1>1
  <2>3. n >= 2
    BY SMTT(60), <1>2, <2>1, <2>2
  <2>4. Len(calls') = n - 1 /\ \A i \in 1..n - 1 : calls'[i] = calls[i]
    BY <1>1, <1>2, <2>1, <2>2, FrontLast
  <2>5. calls' # <<>> /\ calls'[1] = calls[1]
    BY <2>3, <2>4
  <2> QED
    BY <1>2, <2>1, <2>5
<1>9. CASE ExitEnds
  BY <1>9 DEF ExitEnds
<1>10. CASE \E i \in DOMAIN calls : Return(i)
  <2>1. PICK i \in DOMAIN calls : Return(i)
    BY <1>10
  <2>2. PICK f : f = [calls[i] EXCEPT !.state = "popping"]
    OBVIOUS
  <2>3. f \in Frame /\ f.page = calls[i].page /\ f.at = calls[i].at /\ f.state = "popping"
    BY <1>1, <2>2 DEF Frame
  <2>4. exiting /\ calls' = Append(SubSeq(calls, 1, i - 1), f)
    BY <2>1, <2>2 DEF Return
  <2>5. calls' # <<>> /\ (i # 1 => calls'[1] = calls[1]) /\ (i = 1 => calls'[1] = f)
    BY <2>3, <2>4, CutAbove
  <2> QED
    BY <1>2, <2>3, <2>4, <2>5
<1>11. CASE UNCHANGED vars
  BY <1>2, <1>11 DEF vars
<1> QED
  BY <1>3, <1>4, <1>5, <1>6, <1>7, <1>8, <1>9, <1>10, <1>11 DEF Next, Client, Run

-----------------------------------------------------------------------------
(* The pages implement the stack                                           *)

LEMMA InitStack == IInv /\ Init => Stack!Init
<1> SUFFICES ASSUME IInv, Init PROVE Stack!Init
  OBVIOUS
<1>1. ScopesFit /\ StackFits
  BY ScopesAre, StackedIs
<1>2. Stacked = <<>>
  BY <1>1 DEF Init, StackFits
<1>3. Len(Scopes) = 0 /\ Scopes \in Seq(ScopeType)
  BY <1>1 DEF Init, ScopesFit, ScopeType
<1>4. Scopes = <<>>
  BY <1>3, EmptySeq
<1> QED
  BY <1>2, <1>4 DEF Stack!Init

LEMMA StutterStack ==
  ASSUME IInv, IInv', UNCHANGED vars
  PROVE  UNCHANGED Stack!stackVars
<1>1. pages' = pages /\ tls' = tls /\ calls' = calls
  BY DEF vars
<1>2. Contents' = Contents
  BY <1>1, Zenon DEF Contents
<1>3. Stacked' = Stacked
  BY <1>1, <1>2 DEF Stacked
<1>4. BelowSame
  BY <1>1 DEF BelowSame
<1>5. Scopes' = Scopes
  BY <1>1, <1>4, SameScopes
<1> QED
  BY <1>3, <1>5 DEF Stack!stackVars

LEMMA StepStacks ==
  ASSUME NormalMode, IInv, IInv', Exits, [Next]_vars
  PROVE  Stack!Next \/ UNCHANGED Stack!stackVars
<1>1. CASE Push
  BY <1>1, PushPushes DEF Stack!Next
<1>2. CASE \E o \in Objects : Autorelease(o)
  BY <1>2, AutoreleaseAdds DEF Stack!Next
<1>3. DOMAIN Scopes = DOMAIN calls
  BY ScopesAre DEF ScopesFit
<1>4. CASE \E i \in DOMAIN calls : Pop(i)
  BY <1>3, <1>4, PopPops DEF Stack!Next
<1>5. CASE ThreadExit
  BY <1>5, ThreadExitExits DEF Stack!Next
<1>6. CASE ReleaseOne
  BY <1>6, ReleaseReleases DEF Stack!Next
<1>7. CASE PopEnds
  BY <1>7, PopEndsEnds DEF Stack!Next
<1>8. CASE ExitEnds
  BY <1>8, ExitEndsEnds DEF Stack!Next
<1>9. CASE \E i \in DOMAIN calls : Return(i)
  BY <1>3, <1>9, ReturnReturns DEF Stack!Next
<1>10. CASE UNCHANGED vars
  BY <1>10, StutterStack
<1> QED
  BY <1>1, <1>2, <1>4, <1>5, <1>6, <1>7, <1>8, <1>9, <1>10 DEF Next, Client, Run

(* In the mode programs run in, the pages are one stack: what a pop        *)
(* releases is what was autoreleased last, it ends exactly at the boundary *)
(* its pool pushed, whatever the -deallocs that it runs have pushed,       *)
(* popped or left behind, and a thread that exits leaves nothing.          *)
THEOREM ImplementsPoolStack == NormalMode /\ Spec => StackSpec
<1>1. Init => IInv /\ Exits
  BY InitIInv DEF Init, Exits
<1>2. NormalMode /\ IInv /\ Exits /\ [Next]_vars => (NormalMode /\ IInv /\ Exits)'
  <2>1. [Next]_vars => UNCHANGED modes
    BY DEF Next, Client, Run, vars
  <2>2. [Next]_vars /\ NormalMode => NormalMode'
    BY <2>1 DEF modes, NormalMode
  <2> QED
    BY <2>2, NextKeeps, ExitsKept
<1>3. IInv /\ Init => Stack!Init
  BY InitStack
<1>4. NormalMode /\ IInv /\ IInv' /\ Exits /\ [Next]_vars
      => [PagePerPoolOnly \/ Stack!Next]_(Stack!stackVars)
  BY StepStacks
<1>5. NormalMode /\ Spec => Stack!Init /\ [][PagePerPoolOnly \/ Stack!Next]_(Stack!stackVars)
  BY <1>1, <1>2, <1>3, <1>4, PTL DEF Spec
<1> QED
  BY <1>5 DEF StackSpec


-----------------------------------------------------------------------------
(* References, for every set of threads, objects and keys, and whatever    *)
(* the program stores.                                                     *)
(*                                                                         *)
(* The invariant RefsIInv of ReferencesInv holds initially                 *)
(* (ReferencesBegin) and every action preserves it (one lemma ...Keeps per *)
(* action); the three theorems at the end follow.  No step needs an        *)
(* induction: an action adds an element to each of the four sets of        *)
(* references to an object, or takes one from it, and changes the count by *)
(* the sum (Balanced); and it changes only the end of the stack of its     *)
(* thread (Continues, Starts), so that a set over all places of all stacks *)
(* changes by what one place has (CallRefsToggle, DeallocationsToggle).    *)

-----------------------------------------------------------------------------
(* Counting                                                                *)

One(b) == IF b THEN 1 ELSE 0

(* A set that gains or loses an element.                                   *)
LEMMA Toggle ==
  ASSUME NEW S, IsFiniteSet(S), NEW x, NEW m \in {0, 1}, x \in S <=> m = 1,
         NEW n \in {0, 1}, NEW T, T = (S \ {x}) \cup (IF n = 1 THEN {x} ELSE {})
  PROVE  /\ IsFiniteSet(T) /\ Cardinality(T) \in Nat /\ Cardinality(S) \in Nat
         /\ Cardinality(T) = Cardinality(S) - m + n
<1>1. /\ IsFiniteSet(S \ {x}) /\ Cardinality(S) \in Nat
      /\ Cardinality(S \ {x}) = IF x \in S THEN Cardinality(S) - 1 ELSE Cardinality(S)
  BY FS_RemoveElement, FS_CardinalityType
<1>2. Cardinality(S \ {x}) \in Nat
  BY <1>1, FS_CardinalityType
<1>3. Cardinality(S \ {x}) = Cardinality(S) - m
  BY <1>1
<1>4. CASE n = 1
  <2>1. T = (S \ {x}) \cup {x} /\ x \notin S \ {x}
    BY <1>4
  <2>2. IsFiniteSet(T) /\ Cardinality(T) = Cardinality(S \ {x}) + 1
    BY <1>1, <2>1, FS_AddElement
  <2> QED
    BY <1>1, <1>2, <1>3, <1>4, <2>2
<1>5. CASE n = 0
  <2>1. T = S \ {x}
    BY <1>5
  <2> QED
    BY <1>1, <1>2, <1>3, <1>5, <2>1
<1> QED
  BY <1>4, <1>5

LEMMA NonEmpty ==
  ASSUME NEW S, IsFiniteSet(S), NEW x \in S
  PROVE  Cardinality(S) \in Nat /\ Cardinality(S) > 0
<1>1. Cardinality(S) \in Nat /\ (Cardinality(S) = 0 <=> S = {})
  BY FS_CardinalityType, FS_EmptySet
<1> QED
  BY <1>1

-----------------------------------------------------------------------------
(* Stacks                                                                  *)

(* What a call at a place of a stack owns, and which object it deallocates.*)
Own(t, i) == IF i \in DOMAIN stack[t] THEN Owns(stack[t][i]) ELSE {}
Deals(t, i, o) ==
  i \in DOMAIN stack[t] /\ stack[t][i].obj = o /\ stack[t][i].at \in DeallocLabels

LEMMA InCallRefs ==
  ASSUME NEW o, NEW x
  PROVE  x \in CallRefs(o) <=>
           \E u \in Threads : \E i \in DOMAIN stack[u] :
             \E e \in Own(u, i) : e[2] = o /\ x = <<u, i, e>>
BY DEF CallRefs, RefsOfCall, Own

LEMMA InDeallocations ==
  ASSUME NEW o, NEW x
  PROVE  x \in Deallocations(o) <=>
           \E u \in Threads : \E i \in DOMAIN stack[u] : Deals(u, i, o) /\ x = <<u, i>>
BY DEF Deallocations, DeallocCalls, Deals

LEMMA InHeldRefs ==
  ASSUME NEW o, NEW x
  PROVE  x \in HeldRefs(o) <=> \E u \in Threads : \E i \in 1..held[u][o] : x = <<u, i>>
BY DEF HeldRefs

(* The calls below stay as they are.                                       *)
Kept(t, n) ==
  /\ stack' \in [Threads -> Seq(CallType)]
  /\ \A u \in Threads : u # t => stack'[u] = stack[u]
  /\ n \in Nat /\ n <= Len(stack[t]) /\ n <= Len(stack'[t])
  /\ Len(stack[t]) \in Nat /\ Len(stack'[t]) \in Nat
  /\ DOMAIN stack[t] = 1..Len(stack[t]) /\ DOMAIN stack'[t] = 1..Len(stack'[t])
  /\ \A i \in 1..n : stack'[t][i] = stack[t][i]

LEMMA StackTypes ==
  ASSUME RefsTypeOK, NEW t \in Threads
  PROVE  /\ stack[t] \in Seq(CallType) /\ Depth(t) \in Nat /\ Len(stack[t]) = Depth(t)
         /\ DOMAIN stack[t] = 1..Depth(t)
         /\ \A i \in DOMAIN stack[t] : stack[t][i] \in CallType
         /\ stack[t] = <<>> <=> Depth(t) = 0
         /\ stack[t] # <<>> => Depth(t) \in DOMAIN stack[t] /\ Top(t) = stack[t][Depth(t)]
<1>1. stack[t] \in Seq(CallType)
  BY DEF RefsTypeOK
<1>2. PICK s \in Seq(CallType) : s = stack[t]
  BY <1>1
<1>3. /\ Len(s) \in Nat /\ DOMAIN s = 1..Len(s) /\ \A i \in DOMAIN s : s[i] \in CallType
      /\ s = <<>> <=> Len(s) = 0
  OBVIOUS
<1>4. s # <<>> => Len(s) \in DOMAIN s
  BY <1>3
<1> QED
  BY <1>2, <1>3, <1>4 DEF Depth, Top, Last

(* The innermost call of t is replaced.                                    *)
LEMMA Continues ==
  ASSUME RefsTypeOK, NEW t \in Threads, stack[t] # <<>>, NEW c \in Seq(CallType), Continue(t, c),
         NEW n, n = Depth(t) - 1
  PROVE  /\ Kept(t, n) /\ Depth(t) = n + 1 /\ Top(t) = stack[t][n + 1]
         /\ Len(stack'[t]) = n + Len(c)
         /\ \A j \in 1..Len(c) : stack'[t][n + j] = c[j]
<1>1. PICK s \in Seq(CallType) : s = stack[t]
  BY StackTypes
<1>2. PICK m \in Nat : m = Len(c)
  OBVIOUS
<1>3. /\ Len(s) = n + 1 /\ n \in Nat /\ Top(t) = s[n + 1] /\ DOMAIN s = 1..n + 1
      /\ Depth(t) = n + 1
  BY <1>1, StackTypes
<1>4. PICK f : f = Front(s)
  OBVIOUS
<1>5. f \in Seq(CallType) /\ Len(f) = n /\ \A i \in 1..n : f[i] = s[i]
  BY <1>3, <1>4 DEF Front
<1>6. PICK r : r = f \o c
  OBVIOUS
<1>7. /\ r \in Seq(CallType) /\ Len(r) = n + m
      /\ \A i \in 1..n : r[i] = f[i]
      /\ \A j \in 1..m : r[n + j] = c[j]
  <2>1. r \in Seq(CallType) /\ Len(r) = Len(f) + Len(c)
    <3>1. f \o c \in Seq(CallType)
      BY <1>5
    <3>2. Len(f \o c) = Len(f) + Len(c)
      BY SMTT(60), <1>5
    <3> QED
      BY <3>1, <3>2, <1>6
  <2>2. \A i \in 1..(Len(f) + Len(c)) : r[i] = IF i <= Len(f) THEN f[i] ELSE c[i - Len(f)]
    BY <1>5, <1>6
  <2>3. \A i \in 1..(n + m) : r[i] = IF i <= n THEN f[i] ELSE c[i - n]
    BY <2>2, <1>2, <1>5
  <2>4. \A i \in 1..n : r[i] = f[i]
    BY <2>3, <1>2, <1>3
  <2>5. ASSUME NEW j \in 1..m  PROVE r[n + j] = c[j]
    <3>1. n + j \in 1..(n + m) /\ ~(n + j <= n) /\ (n + j) - n = j
      BY <1>2, <1>3
    <3> QED
      BY <3>1, <2>3
  <2> QED
    BY <2>1, <2>4, <2>5, <1>2, <1>5
<1>8. stack' = [stack EXCEPT ![t] = r] /\ stack \in [Threads -> Seq(CallType)]
  BY <1>1, <1>4, <1>6 DEF Continue, RefsTypeOK
<1>9. stack'[t] = r /\ \A u \in Threads : u # t => stack'[u] = stack[u]
  BY <1>8
<1>10. stack' \in [Threads -> Seq(CallType)]
  BY <1>7, <1>8
<1>11. Len(r) \in Nat /\ DOMAIN r = 1..Len(r) /\ n <= Len(r) /\ n <= Len(s) /\ Len(s) \in Nat
  <2>1. Len(r) \in Nat /\ DOMAIN r = 1..Len(r)
    BY <1>7
  <2>2. PICK k : k = Len(r)
    OBVIOUS
  <2>3. k = n + m
    BY <2>2, <1>7
  <2> QED
    BY <2>1, <2>2, <2>3, <1>2, <1>3
<1> QED
  BY <1>1, <1>2, <1>3, <1>5, <1>7, <1>9, <1>10, <1>11 DEF Kept

LEMMA Starts ==
  ASSUME RefsTypeOK, NEW t \in Threads, stack[t] = <<>>, NEW c \in CallType,
         stack' = [stack EXCEPT ![t] = <<c>>]
  PROVE  Kept(t, 0) /\ Depth(t) = 0 /\ Len(stack'[t]) = 1 /\ stack'[t][1] = c
<1>1. stack \in [Threads -> Seq(CallType)] /\ <<c>> \in Seq(CallType)
  BY DEF RefsTypeOK
<1>2. stack' \in [Threads -> Seq(CallType)] /\ stack'[t] = <<c>> /\ \A u \in Threads : u # t => stack'[u] = stack[u]
  BY <1>1
<1>3. Len(stack[t]) = 0 /\ DOMAIN stack[t] = 1..0 /\ Depth(t) = 0
  BY DEF Depth
<1>4. Len(<<c>>) = 1 /\ DOMAIN <<c>> = 1..1 /\ <<c>>[1] = c
  OBVIOUS
<1> QED
  BY <1>2, <1>3, <1>4 DEF Kept

(* Nothing changes at other places than place p of t.                      *)
OwnElsewhere(t, p) ==
  \A u \in Threads : \A i \in Nat : ~(u = t /\ i = p) => Own(u, i)' = Own(u, i)
DealsElsewhere(t, p) ==
  \A u \in Threads : \A i \in Nat : ~(u = t /\ i = p) =>
    \A o \in Instances : (Deals(u, i, o)' <=> Deals(u, i, o))

(* Whether place p of t owns x, a reference to q, is now as n says; other  *)
(* references to q are as they were.                                       *)
OwnToggles(t, p, q, x, n) ==
  \A d : d[2] = q => (d \in Own(t, p)' <=> IF d = x THEN n = 1 ELSE d \in Own(t, p))

LEMMA Domains ==
  ASSUME RefsTypeOK, NEW t \in Threads, NEW i, i \in DOMAIN stack[t]
  PROVE  i \in Nat
<1>1. DOMAIN stack[t] = 1..Depth(t) /\ Depth(t) \in Nat
  BY StackTypes
<1> QED
  BY <1>1

LEMMA OwnPlace ==
  ASSUME RefsTypeOK, NEW t \in Threads, NEW i, NEW d \in Own(t, i)
  PROVE  i \in DOMAIN stack[t] /\ i \in Nat
<1>1. i \in DOMAIN stack[t]
  BY DEF Own
<1> QED
  BY <1>1, Domains

LEMMA OwnPlaceAfter ==
  ASSUME RefsTypeOK', NEW t \in Threads, NEW i, NEW d \in Own(t, i)'
  PROVE  i \in DOMAIN stack'[t] /\ i \in Nat
<1>1. i \in DOMAIN stack'[t]
  BY DEF Own
<1>2. stack' \in [Threads -> Seq(CallType)]
  BY DEF RefsTypeOK
<1>3. stack'[t] \in Seq(CallType)
  BY <1>2
<1> QED
  BY <1>1, <1>3

LEMMA CallRefsToggle ==
  ASSUME RefsTypeOK, RefsTypeOK', NEW t \in Threads, NEW p \in Nat, NEW q, NEW x, x[2] = q,
         NEW n \in {0, 1}, OwnElsewhere(t, p), OwnToggles(t, p, q, x, n)
  PROVE  /\ CallRefs(q)' = (CallRefs(q) \ {<<t, p, x>>}) \cup (IF n = 1 THEN {<<t, p, x>>} ELSE {})
         /\ <<t, p, x>> \in CallRefs(q) <=> x \in Own(t, p)
<1> DEFINE y == <<t, p, x>>
<1>1. ASSUME NEW z \in CallRefs(q)'
      PROVE  z \in (CallRefs(q) \ {y}) \cup (IF n = 1 THEN {y} ELSE {})
  <2>1. PICK u, i, e : u \in Threads /\ i \in DOMAIN stack'[u] /\ e \in Own(u, i)' /\ e[2] = q /\ z = <<u, i, e>>
    BY <1>1 DEF CallRefs, RefsOfCall, Own
  <2>2. i \in Nat
    BY <2>1, OwnPlaceAfter
  <2>3. CASE u = t /\ i = p
    <3>1. IF e = x THEN n = 1 ELSE e \in Own(t, p)
      BY <2>1, <2>3 DEF OwnToggles
    <3>2. CASE e = x
      BY <3>1, <3>2, <2>1, <2>3
    <3>3. CASE e # x
      <4>1. e \in Own(t, p) /\ p \in DOMAIN stack[t]
        BY <3>1, <3>3, OwnPlace
      <4>2. z \in CallRefs(q) /\ z # y
        BY <4>1, <3>3, <2>1, <2>3, InCallRefs
      <4> QED
        BY <4>2
    <3> QED
      BY <3>2, <3>3
  <2>4. CASE ~(u = t /\ i = p)
    <3>1. e \in Own(u, i)
      BY <2>1, <2>2, <2>4 DEF OwnElsewhere
    <3>2. i \in DOMAIN stack[u]
      BY <2>1, <3>1, OwnPlace
    <3>3. z \in CallRefs(q) /\ z # y
      BY <3>1, <3>2, <2>1, <2>4, InCallRefs
    <3> QED
      BY <3>3
  <2> QED
    BY <2>3, <2>4
<1>2. ASSUME NEW z \in (CallRefs(q) \ {y}) \cup (IF n = 1 THEN {y} ELSE {})
      PROVE  z \in CallRefs(q)'
  <2>1. CASE z = y
    <3>1. n = 1
      BY <1>2, <2>1
    <3>2. x \in Own(t, p)'
      BY <3>1 DEF OwnToggles
    <3>3. p \in DOMAIN stack'[t]
      BY <3>2, OwnPlaceAfter
    <3> QED
      BY <2>1, <3>2, <3>3 DEF CallRefs, RefsOfCall, Own
  <2>2. CASE z # y
    <3>1. z \in CallRefs(q)
      BY <1>2, <2>2
    <3>2. PICK u, i, e : u \in Threads /\ i \in DOMAIN stack[u] /\ e \in Own(u, i) /\ e[2] = q /\ z = <<u, i, e>>
      BY <3>1, InCallRefs
    <3>3. i \in Nat
      BY <3>2, OwnPlace
    <3>4. e \in Own(u, i)'
      <4>1. CASE u = t /\ i = p
        <5>1. e # x
          BY <3>2, <2>2, <4>1
        <5> QED
          BY <5>1, <3>2, <4>1 DEF OwnToggles
      <4>2. CASE ~(u = t /\ i = p)
        BY <3>2, <3>3, <4>2 DEF OwnElsewhere
      <4> QED
        BY <4>1, <4>2
    <3>5. i \in DOMAIN stack'[u]
      BY <3>2, <3>4, OwnPlaceAfter
    <3> QED
      BY <3>2, <3>4, <3>5 DEF CallRefs, RefsOfCall, Own
  <2> QED
    BY <2>1, <2>2
<1>3. ASSUME y \in CallRefs(q) PROVE x \in Own(t, p)
  <2>1. PICK u, i, e : u \in Threads /\ i \in DOMAIN stack[u] /\ e \in Own(u, i) /\ e[2] = q /\ y = <<u, i, e>>
    BY <1>3, InCallRefs
  <2> QED
    BY <2>1
<1>4. ASSUME x \in Own(t, p) PROVE y \in CallRefs(q)
  <2>1. p \in DOMAIN stack[t]
    BY <1>4, OwnPlace
  <2> QED
    BY <1>4, <2>1, InCallRefs
<1> QED
  BY <1>1, <1>2, <1>3, <1>4

LEMMA CallRefsSame ==
  ASSUME RefsTypeOK, RefsTypeOK', NEW q,
         \A u \in Threads : \A i \in Nat : Own(u, i)' = Own(u, i)
  PROVE  CallRefs(q)' = CallRefs(q)
<1>1. ASSUME NEW z \in CallRefs(q)' PROVE z \in CallRefs(q)
  <2>1. PICK u, i, e : u \in Threads /\ i \in DOMAIN stack'[u] /\ e \in Own(u, i)' /\ e[2] = q /\ z = <<u, i, e>>
    BY <1>1 DEF CallRefs, RefsOfCall, Own
  <2>2. e \in Own(u, i)
    BY <2>1, OwnPlaceAfter
  <2>3. i \in DOMAIN stack[u]
    BY <2>1, <2>2, OwnPlace
  <2> QED
    BY <2>1, <2>2, <2>3, InCallRefs
<1>2. ASSUME NEW z \in CallRefs(q) PROVE z \in CallRefs(q)'
  <2>1. PICK u, i, e : u \in Threads /\ i \in DOMAIN stack[u] /\ e \in Own(u, i) /\ e[2] = q /\ z = <<u, i, e>>
    BY <1>2, InCallRefs
  <2>2. e \in Own(u, i)'
    BY <2>1, OwnPlace
  <2>3. i \in DOMAIN stack'[u]
    BY <2>1, <2>2, OwnPlaceAfter
  <2> QED
    BY <2>1, <2>2, <2>3 DEF CallRefs, RefsOfCall, Own
<1> QED
  BY <1>1, <1>2

(* The same of the calls that deallocate an object.                        *)
LEMMA DeallocationsToggle ==
  ASSUME RefsTypeOK, RefsTypeOK', NEW t \in Threads, NEW p \in Nat, NEW q \in Instances,
         DealsElsewhere(t, p)
  PROVE  Deallocations(q)'
           = (Deallocations(q) \ {<<t, p>>}) \cup (IF Deals(t, p, q)' THEN {<<t, p>>} ELSE {})
<1>1. ASSUME NEW z \in Deallocations(q)'
      PROVE  z \in (Deallocations(q) \ {<<t, p>>}) \cup (IF Deals(t, p, q)' THEN {<<t, p>>} ELSE {})
  <2>1. PICK u, i : u \in Threads /\ i \in DOMAIN stack'[u] /\ Deals(u, i, q)' /\ z = <<u, i>>
    BY <1>1 DEF Deallocations, DeallocCalls, Deals
  <2>2. i \in Nat
    <3>1. stack' \in [Threads -> Seq(CallType)]
      BY DEF RefsTypeOK
    <3>2. stack'[u] \in Seq(CallType)
      BY <2>1, <3>1
    <3> QED
      BY <2>1, <3>2
  <2>3. CASE u = t /\ i = p
    BY <2>1, <2>3
  <2>4. CASE ~(u = t /\ i = p)
    <3>1. Deals(u, i, q)
      BY <2>1, <2>2, <2>4 DEF DealsElsewhere
    <3>2. i \in DOMAIN stack[u]
      BY <3>1 DEF Deals
    <3>3. z \in Deallocations(q)
      BY <2>1, <3>1, <3>2, InDeallocations
    <3> QED
      BY <2>1, <2>4, <3>3
  <2> QED
    BY <2>3, <2>4
<1>2. ASSUME NEW z \in (Deallocations(q) \ {<<t, p>>}) \cup (IF Deals(t, p, q)' THEN {<<t, p>>} ELSE {})
      PROVE  z \in Deallocations(q)'
  <2>1. CASE z = <<t, p>>
    <3>1. Deals(t, p, q)'
      BY <1>2, <2>1
    <3> QED
      BY <2>1, <3>1 DEF Deallocations, DeallocCalls, Deals
  <2>2. CASE z # <<t, p>>
    <3>1. PICK u, i : u \in Threads /\ i \in DOMAIN stack[u] /\ Deals(u, i, q) /\ z = <<u, i>>
      BY <1>2, <2>2, InDeallocations
    <3>2. i \in Nat /\ ~(u = t /\ i = p)
      BY <3>1, <2>2, Domains
    <3>3. Deals(u, i, q)'
      BY <3>1, <3>2 DEF DealsElsewhere
    <3> QED
      BY <3>1, <3>3 DEF Deallocations, DeallocCalls, Deals
  <2> QED
    BY <2>1, <2>2
<1> QED
  BY <1>1, <1>2

LEMMA DeallocationsSame ==
  ASSUME RefsTypeOK, RefsTypeOK', NEW q \in Instances,
         \A u \in Threads : \A i \in Nat : (Deals(u, i, q)' <=> Deals(u, i, q))
  PROVE  Deallocations(q)' = Deallocations(q)
<1>1. ASSUME NEW z \in Deallocations(q)' PROVE z \in Deallocations(q)
  <2>1. PICK u, i : u \in Threads /\ i \in DOMAIN stack'[u] /\ Deals(u, i, q)' /\ z = <<u, i>>
    BY <1>1 DEF Deallocations, DeallocCalls, Deals
  <2>2. stack' \in [Threads -> Seq(CallType)]
    BY DEF RefsTypeOK
  <2>3. stack'[u] \in Seq(CallType)
    BY <2>1, <2>2
  <2>4. i \in Nat
    BY <2>1, <2>3
  <2>5. Deals(u, i, q)
    BY <2>1, <2>4
  <2> QED
    BY <2>1, <2>5 DEF Deallocations, DeallocCalls, Deals
<1>2. ASSUME NEW z \in Deallocations(q) PROVE z \in Deallocations(q)'
  <2>1. PICK u, i : u \in Threads /\ i \in DOMAIN stack[u] /\ Deals(u, i, q) /\ z = <<u, i>>
    BY <1>2, InDeallocations
  <2>2. Deals(u, i, q)'
    BY <2>1, Domains
  <2> QED
    BY <2>1, <2>2 DEF Deallocations, DeallocCalls, Deals
<1> QED
  BY <1>1, <1>2

-----------------------------------------------------------------------------
(* Calls                                                                   *)

LEMMA CallTyped ==
  ASSUME NEW l \in Labels, NEW o \in Instances \cup {nil}, NEW k \in Keys \cup {nil},
         NEW v \in Instances \cup {nil}, NEW policy \in Policies
  PROVE  /\ Call(l, o, k, v, policy) \in CallType
         /\ Call(l, o, k, v, policy).at = l /\ Call(l, o, k, v, policy).obj = o
         /\ Call(l, o, k, v, policy).key = k /\ Call(l, o, k, v, policy).val = v
         /\ Call(l, o, k, v, policy).policy = policy /\ Call(l, o, k, v, policy).todo = {}
BY DEF Call, CallType

LEMMA ReleasesTyped ==
  ASSUME NEW T \in SUBSET ((Keys \cup {nil}) \X Instances)
  PROVE  /\ Releases(T) \in CallType /\ Releases(T).at = "release" /\ Releases(T).todo = T
         /\ Releases(T).obj = nil
BY DEF Call, CallType, Releases, Labels, Policies

LEMMA Relabelled ==
  ASSUME NEW c \in CallType, NEW l \in Labels
  PROVE  LET d == [c EXCEPT !.at = l] IN
         /\ d \in CallType /\ d.at = l /\ d.obj = c.obj /\ d.key = c.key /\ d.val = c.val
         /\ d.policy = c.policy /\ d.flag = c.flag /\ d.todo = c.todo
BY DEF CallType

LEMMA ReleaseAllTyped ==
  ASSUME NEW T \in SUBSET ((Keys \cup {nil}) \X Instances)
  PROVE  /\ ReleaseAll(T) \in Seq(CallType)
         /\ T = {} => ReleaseAll(T) = <<>>
         /\ T # {} => ReleaseAll(T) = <<Releases(T)>>
<1>1. Releases(T) \in CallType
  BY ReleasesTyped
<1> QED
  BY <1>1 DEF ReleaseAll

LEMMA PresentTyped ==
  ASSUME NEW v \in Instances \cup {nil}
  PROVE  Present(v) \in SUBSET ((Keys \cup {nil}) \X Instances)
BY DEF Present

(* What calls own.                                                         *)
LEMMA OwnsNothing ==
  ASSUME NEW c \in CallType, c.at \notin {"release", "swap", "swapslot"}, Arguments(c)
  PROVE  Owns(c) = {}
BY DEF Arguments, Owns

LEMMA OwnsReleases ==
  ASSUME NEW T \in SUBSET ((Keys \cup {nil}) \X Instances)
  PROVE  Owns(Releases(T)) = T
BY ReleasesTyped DEF Owns

LEMMA OwnsValue ==
  ASSUME NEW c \in CallType, c.at \in {"swap", "swapslot"}, Arguments(c)
  PROVE  Owns(c) = IF c.policy = "retain" THEN Present(c.val) ELSE {}
BY DEF Arguments, Owns

-----------------------------------------------------------------------------
(* What is kept                                                            *)

LEMMA KeptPlaces ==
  ASSUME RefsTypeOK, NEW t \in Threads, NEW n, Kept(t, n)
  PROVE  \A u \in Threads : \A i \in Nat : ~(u = t /\ i > n) =>
           Own(u, i)' = Own(u, i) /\ \A o \in Instances : (Deals(u, i, o)' <=> Deals(u, i, o))
<1> SUFFICES ASSUME NEW u \in Threads, NEW i \in Nat, ~(u = t /\ i > n)
             PROVE  Own(u, i)' = Own(u, i) /\ \A o \in Instances : (Deals(u, i, o)' <=> Deals(u, i, o))
  OBVIOUS
<1>1. CASE u # t
  <2>1. stack'[u] = stack[u]
    BY <1>1 DEF Kept
  <2> QED
    BY <2>1 DEF Own, Deals
<1>2. CASE u = t
  <2>1. PICK a, b : a = Len(stack[t]) /\ b = Len(stack'[t])
    OBVIOUS
  <2>2. a \in Nat /\ b \in Nat /\ n <= a /\ n <= b /\ n \in Nat
        /\ DOMAIN stack[t] = 1..a /\ DOMAIN stack'[t] = 1..b
    BY <2>1 DEF Kept
  <2>3. i <= n
    BY <1>2, <2>2
  <2>4. (i \in DOMAIN stack'[t] <=> i \in DOMAIN stack[t]) /\ (i \in DOMAIN stack[t] => i \in 1..n)
    BY <2>2, <2>3
  <2>5. i \in 1..n => stack'[t][i] = stack[t][i]
    BY DEF Kept
  <2> QED
    BY <1>2, <2>4, <2>5 DEF Own, Deals
<1> QED
  BY <1>1, <1>2

(* Beyond the calls of a thread there is nothing.                          *)
LEMMA Beyond ==
  ASSUME RefsTypeOK, NEW t \in Threads, NEW n, Kept(t, n), NEW i \in Nat
  PROVE  /\ i > Depth(t) => Own(t, i) = {} /\ \A o : ~Deals(t, i, o)
         /\ i > Depth(t)' => Own(t, i)' = {} /\ \A o : ~Deals(t, i, o)'
<1>1. PICK a, b : a = Len(stack[t]) /\ b = Len(stack'[t])
  OBVIOUS
<1>2. a \in Nat /\ b \in Nat /\ DOMAIN stack[t] = 1..a /\ DOMAIN stack'[t] = 1..b
      /\ a = Depth(t) /\ b = Depth(t)'
  BY <1>1 DEF Kept, Depth
<1>3. (i > a => i \notin DOMAIN stack[t]) /\ (i > b => i \notin DOMAIN stack'[t])
  BY <1>2
<1> QED
  BY <1>2, <1>3 DEF Own, Deals

LEMMA OwnOneChanges ==
  ASSUME RefsTypeOK, NEW t \in Threads, NEW n, Kept(t, n), NEW p \in Nat,
         \A i \in Nat : i > n /\ i # p => Own(t, i)' = Own(t, i)
  PROVE  OwnElsewhere(t, p)
BY KeptPlaces DEF OwnElsewhere

LEMMA DealsOneChanges ==
  ASSUME RefsTypeOK, NEW t \in Threads, NEW n, Kept(t, n), NEW p \in Nat,
         \A i \in Nat : i > n /\ i # p => \A o \in Instances : (Deals(t, i, o)' <=> Deals(t, i, o))
  PROVE  DealsElsewhere(t, p)
BY KeptPlaces DEF DealsElsewhere

LEMMA OwnNoneChanges ==
  ASSUME RefsTypeOK, NEW t \in Threads, NEW n, Kept(t, n),
         \A i \in Nat : i > n => Own(t, i)' = Own(t, i)
  PROVE  \A u \in Threads : \A i \in Nat : Own(u, i)' = Own(u, i)
BY KeptPlaces

LEMMA DealsNoneChanges ==
  ASSUME RefsTypeOK, NEW t \in Threads, NEW n, Kept(t, n), NEW q \in Instances,
         \A i \in Nat : i > n => \A o \in Instances : (Deals(t, i, o)' <=> Deals(t, i, o))
  PROVE  \A u \in Threads : \A i \in Nat : (Deals(u, i, q)' <=> Deals(u, i, q))
BY KeptPlaces

BelowLabels == {"release", "destruct", "remove", "free"}

LEMMA StacksNext ==
  ASSUME RefsTypeOK, Stacks, NEW t \in Threads, NEW n, Kept(t, n), n = 0 \/ n < Depth(t),
         \A i \in Nat : i > n /\ i <= Depth(t)' =>
           Arguments(stack'[t][i]) /\ (i < Depth(t)' => stack'[t][i].at \in BelowLabels)
  PROVE  Stacks'
<1> SUFFICES ASSUME NEW u \in Threads, NEW i \in DOMAIN stack'[u]
             PROVE  /\ Arguments(stack'[u][i])
                    /\ i < Depth(u)' => stack'[u][i].at \in BelowLabels
  BY DEF Stacks, BelowLabels, Arguments
<1>1. CASE u # t
  <2>1. stack'[u] = stack[u]
    BY <1>1 DEF Kept
  <2>2. i \in DOMAIN stack[u] /\ Depth(u)' = Depth(u)
    BY <2>1 DEF Depth
  <2> QED
    BY <2>1, <2>2 DEF Stacks, BelowLabels
<1>2. CASE u = t
  <2>1. PICK a, b : a = Len(stack[t]) /\ b = Len(stack'[t])
    OBVIOUS
  <2>2. a \in Nat /\ b \in Nat /\ n <= a /\ n <= b /\ n \in Nat
        /\ DOMAIN stack[t] = 1..a /\ DOMAIN stack'[t] = 1..b /\ a = Depth(t) /\ b = Depth(t)'
    BY <2>1 DEF Kept, Depth
  <2>3. i \in Nat /\ i <= b /\ i >= 1
    BY <1>2, <2>2
  <2>4. CASE i > n
    BY <1>2, <2>2, <2>3, <2>4
  <2>5. CASE i <= n
    <3>1. i \in 1..n /\ i \in DOMAIN stack[t] /\ i < Depth(t)
      BY <2>2, <2>3, <2>5
    <3>2. stack'[t][i] = stack[t][i]
      BY <3>1 DEF Kept
    <3>3. Arguments(stack[t][i]) /\ stack[t][i].at \in BelowLabels
      BY <3>1 DEF Stacks, BelowLabels
    <3> QED
      BY <1>2, <3>2, <3>3
  <2> QED
    BY <2>2, <2>3, <2>4, <2>5
<1> QED
  BY <1>1, <1>2

(* Calls that are still where they were have the progress they had.        *)
LEMMA ProgressesNext ==
  ASSUME RefsTypeOK, Progresses, NEW t \in Threads, NEW n, Kept(t, n),
         \A u \in Threads : \A i \in DOMAIN stack[u] : ~(u = t /\ i > n) =>
           \A c \in CallType : c = stack[u][i] /\ Progress(c) => Progress(c)',
         \A i \in Nat : i > n /\ i <= Depth(t)' =>
           \A c \in CallType : c = stack'[t][i] => Progress(c)'
  PROVE  Progresses'
<1> SUFFICES ASSUME NEW u \in Threads, NEW i \in DOMAIN stack'[u]
             PROVE  Progress(stack[u][i])'
  BY DEF Progresses, Progress
<1>0. stack'[u] \in Seq(CallType)
  BY DEF Kept
<1>1. i \in Nat /\ stack'[u][i] \in CallType
  BY <1>0
<1>2. CASE u = t /\ i > n
  <2>1. i <= Depth(t)'
    BY <1>2, <1>0 DEF Depth
  <2>2. PICK c \in CallType : c = stack'[u][i]
    BY <1>1
  <2>3. Progress(c)'
    BY <1>1, <1>2, <2>1, <2>2
  <2> QED
    BY <2>2, <2>3 DEF Progress
<1>3. CASE ~(u = t /\ i > n)
  <2>1. i \in DOMAIN stack[u] /\ stack'[u][i] = stack[u][i]
    <3>1. CASE u # t
      BY <3>1 DEF Kept
    <3>2. CASE u = t
      <4>1. PICK a, b : a = Len(stack[t]) /\ b = Len(stack'[t])
        OBVIOUS
      <4>2. a \in Nat /\ b \in Nat /\ n <= a /\ n <= b /\ n \in Nat
            /\ DOMAIN stack[t] = 1..a /\ DOMAIN stack'[t] = 1..b
        BY <4>1 DEF Kept
      <4>3. i \in 1..n /\ i \in DOMAIN stack[t]
        BY <1>3, <3>2, <4>2
      <4> QED
        BY <3>2, <4>3 DEF Kept
    <3> QED
      BY <3>1, <3>2
  <2>2. PICK c \in CallType : c = stack[u][i]
    BY <1>1, <2>1
  <2>3. Progress(c)
    BY <2>1, <2>2 DEF Progresses
  <2>4. Progress(c)'
    BY <1>3, <2>1, <2>2, <2>3
  <2> QED
    BY <2>1, <2>2, <2>4 DEF Progress
<1> QED
  BY <1>2, <1>3

LEMMA ProgressSame ==
  ASSUME UNCHANGED <<slot, flag, tables>>, NEW c, Progress(c)
  PROVE  Progress(c)'
BY DEF Progress

LEMMA GuardsNext ==
  ASSUME RefsTypeOK, NEW t \in Threads, NEW n, Kept(t, n), NEW u \in Threads, u # t, Guards(u),
         \A o \in Instances \cup {nil} : held[u][o] > 0 => held'[u][o] > 0,
         Depth(u) # 0 => Top(u).obj \in Instances \cup {nil}
  PROVE  Guards(u)'
<1>1. stack'[u] = stack[u]
  BY DEF Kept
<1> QED
  BY <1>1 DEF Guards, Depth, Top

LEMMA GuardsQuiet ==
  ASSUME NEW t, Depth(t)' # 0 => Top(t)'.at \notin ActiveLabels
  PROVE  Guards(t)'
BY DEF Guards

LEMMA LocksNext ==
  ASSUME NEW t \in Threads, NEW n, Kept(t, n), NEW u \in Threads, u # t, Locks(u),
         assocLock' = u <=> assocLock = u,
         \A o \in Instances : slotLock'[o] = u <=> slotLock[o] = u,
         At(u, "getassoc") => assoc'[Top(u).obj][Top(u).key] = assoc[Top(u).obj][Top(u).key],
         At(u, "getslot") => slot'[Top(u).obj] = slot[Top(u).obj]
  PROVE  Locks(u)'
<1>1. stack'[u] = stack[u]
  BY DEF Kept
<1>2. Top(u)' = Top(u) /\ At(u, "getassoc")' = At(u, "getassoc") /\ At(u, "getslot")' = At(u, "getslot")
  BY <1>1 DEF Top, At
<1>3. (assocLock = u <=> At(u, "getassoc"))'
  BY <1>2 DEF Locks
<1>4. (\A o \in Instances : slotLock[o] = u <=> At(u, "getslot") /\ Top(u).obj = o)'
  BY <1>2 DEF Locks
<1>5. (At(u, "getassoc") => Owned(assoc[Top(u).obj][Top(u).key]) = Top(u).val)'
  BY <1>2 DEF Locks, Owned
<1>6. (At(u, "getslot") => slot[Top(u).obj] = Top(u).val)'
  BY <1>2 DEF Locks
<1> QED
  BY <1>3, <1>4, <1>5, <1>6 DEF Locks

LEMMA LocksQuiet ==
  ASSUME NEW t, ~At(t, "getassoc")', ~At(t, "getslot")', assocLock' # t,
         \A o \in Instances : slotLock'[o] # t
  PROVE  Locks(t)'
BY DEF Locks

-----------------------------------------------------------------------------
(* Deallocations                                                           *)

LEMMA OnceSame ==
  ASSUME NEW q \in Instances, Once(q), Deallocations(q)' = Deallocations(q),
         (q \in alive /\ count[q] = 0)' <=> (q \in alive /\ count[q] = 0)
  PROVE  Once(q)'
BY DEF Once

LEMMA TwoDeallocations ==
  ASSUME RefsTypeOK, NEW q \in Instances, Once(q), NEW u \in Threads, NEW i \in Nat, Deals(u, i, q)
  PROVE  /\ q \in alive /\ count[q] = 0
         /\ \A v \in Threads : \A j \in Nat : Deals(v, j, q) => v = u /\ j = i
         /\ Deallocations(q) = {<<u, i>>}
<1>1. <<u, i>> \in Deallocations(q)
  BY InDeallocations DEF Deals
<1>2. q \in alive /\ count[q] = 0 /\ Deallocations(q) = {<<u, i>>}
  BY <1>1 DEF Once
<1>3. ASSUME NEW v \in Threads, NEW j \in Nat, Deals(v, j, q) PROVE v = u /\ j = i
  <2>1. <<v, j>> \in Deallocations(q)
    BY <1>3, InDeallocations DEF Deals
  <2> QED
    BY <2>1, <1>2
<1> QED
  BY <1>2, <1>3

-----------------------------------------------------------------------------
(* References                                                              *)

LEMMA Finite ==
  ASSUME NEW q \in Instances, Counted(q), RefsTypeOK
  PROVE  /\ Cardinality(HeldRefs(q)) \in Nat /\ Cardinality(CallRefs(q)) \in Nat
         /\ Cardinality(AssocRefs(q)) \in Nat /\ Cardinality(SlotRefs(q)) \in Nat
         /\ count[q] \in Nat
<1>1. /\ IsFiniteSet(HeldRefs(q)) /\ IsFiniteSet(CallRefs(q))
      /\ IsFiniteSet(AssocRefs(q)) /\ IsFiniteSet(SlotRefs(q))
  BY DEF Counted
<1>2. count[q] \in Nat
  BY DEF RefsTypeOK
<1> QED
  BY <1>1, <1>2, FS_CardinalityType

LEMMA Referred ==
  ASSUME RefsTypeOK, NEW q \in Instances, Counted(q),
         HeldRefs(q) # {} \/ CallRefs(q) # {} \/ AssocRefs(q) # {} \/ SlotRefs(q) # {}
  PROVE  count[q] > 0
<1>1. PICK a, b, c, d : a = Cardinality(HeldRefs(q)) /\ b = Cardinality(CallRefs(q))
                        /\ c = Cardinality(AssocRefs(q)) /\ d = Cardinality(SlotRefs(q))
  OBVIOUS
<1>2. a \in Nat /\ b \in Nat /\ c \in Nat /\ d \in Nat
  BY <1>1, Finite
<1>3. (HeldRefs(q) # {} => a > 0) /\ (CallRefs(q) # {} => b > 0)
      /\ (AssocRefs(q) # {} => c > 0) /\ (SlotRefs(q) # {} => d > 0)
  BY <1>1, NonEmpty DEF Counted
<1>4. count[q] = a + b + c + d
  BY <1>1 DEF Counted
<1>5. a + b + c + d > 0
  BY <1>2, <1>3
<1> QED
  BY <1>4, <1>5

LEMMA HeldIsReferred ==
  ASSUME RefsTypeOK, NEW q \in Instances, Counted(q), NEW t \in Threads, held[t][q] > 0
  PROVE  count[q] > 0
<1>1. held[t][q] \in Nat
  BY DEF RefsTypeOK
<1>2. 1 \in 1..held[t][q]
  BY <1>1
<1>3. <<t, 1>> \in HeldRefs(q)
  BY <1>2, InHeldRefs
<1> QED
  BY <1>3, Referred

LEMMA AssocIsReferred ==
  ASSUME RefsTypeOK, NEW q \in Instances, Counted(q), NEW o \in Instances, NEW k \in Keys,
         Owned(assoc[o][k]) = q
  PROVE  count[q] > 0
<1>1. <<o, k>> \in AssocRefs(q)
  BY DEF AssocRefs
<1> QED
  BY <1>1, Referred

LEMMA SlotIsReferred ==
  ASSUME RefsTypeOK, NEW q \in Instances, Counted(q), NEW o \in Instances, slot[o] = q
  PROVE  count[q] > 0
<1>1. o \in SlotRefs(q)
  BY DEF SlotRefs
<1> QED
  BY <1>1, Referred

LEMMA CallIsReferred ==
  ASSUME RefsTypeOK, NEW q \in Instances, Counted(q), NEW t \in Threads, NEW i, NEW x \in Own(t, i),
         x[2] = q
  PROVE  count[q] > 0
<1>1. i \in DOMAIN stack[t]
  BY OwnPlace
<1>2. <<t, i, x>> \in CallRefs(q)
  BY <1>1, InCallRefs
<1> QED
  BY <1>2, Referred

(* One thread owns one reference more or one less.                         *)
HoldsMore(t, o) == held' = [held EXCEPT ![t][o] = @ + 1]
HoldsLess(t, o) == held' = [held EXCEPT ![t][o] = @ - 1]

LEMMA HeldMore ==
  ASSUME RefsTypeOK, NEW t \in Threads, NEW v \in Instances,
         HoldsMore(t, v), NEW q \in Instances, IsFiniteSet(HeldRefs(q))
  PROVE  /\ IsFiniteSet(HeldRefs(q)') /\ Cardinality(HeldRefs(q)') \in Nat
         /\ Cardinality(HeldRefs(q)) \in Nat
         /\ Cardinality(HeldRefs(q)') = Cardinality(HeldRefs(q)) + One(q = v)
<1>1. PICK h \in Nat : h = held[t][v]
  BY DEF RefsTypeOK
<1>2. /\ held'[t][v] = h + 1
      /\ \A u \in Threads : \A o \in Instances : ~(u = t /\ o = v) => held'[u][o] = held[u][o]
  BY <1>1 DEF RefsTypeOK, HoldsMore, HoldsLess
<1>3. CASE q # v
  <2>1. \A u \in Threads : held'[u][q] = held[u][q]
    BY <1>2, <1>3
  <2>2. HeldRefs(q)' = HeldRefs(q)
    BY <2>1 DEF HeldRefs
  <2> QED
    BY <1>3, <2>2, FS_CardinalityType DEF One
<1>4. CASE q = v
  <2> DEFINE x == <<t, h + 1>>
  <2>1. x \notin HeldRefs(q)
    <3>1. h + 1 \notin 1..held[t][q]
      BY <1>1, <1>4
    <3> QED
      BY <3>1, InHeldRefs
  <2>2. HeldRefs(q)' = HeldRefs(q) \cup {x}
    <3>1. ASSUME NEW z \in HeldRefs(q)' PROVE z \in HeldRefs(q) \cup {x}
      <4>1. PICK u, i : u \in Threads /\ i \in 1..held'[u][q] /\ z = <<u, i>>
        BY <3>1 DEF HeldRefs
      <4>2. CASE u = t
        <5>1. i \in 1..h + 1
          BY <1>2, <1>4, <4>1, <4>2
        <5>2. i \in 1..h \/ i = h + 1
          BY <5>1, <1>1
        <5> QED
          BY <5>2, <1>1, <1>4, <4>1, <4>2, InHeldRefs
      <4>3. CASE u # t
        BY <1>2, <4>1, <4>3, InHeldRefs
      <4> QED
        BY <4>2, <4>3
    <3>2. ASSUME NEW z \in HeldRefs(q) \cup {x} PROVE z \in HeldRefs(q)'
      <4>1. CASE z = x
        <5>1. h + 1 \in 1..held'[t][q]
          BY <1>1, <1>2, <1>4
        <5> QED
          BY <4>1, <5>1 DEF HeldRefs
      <4>2. CASE z \in HeldRefs(q)
        <5>1. PICK u, i : u \in Threads /\ i \in 1..held[u][q] /\ z = <<u, i>>
          BY <4>2, InHeldRefs
        <5>2. i \in 1..held'[u][q]
          <6>1. CASE u = t
            <7>1. held[u][q] = h /\ held'[u][q] = h + 1
              BY <1>1, <1>2, <1>4, <6>1
            <7> QED
              BY <5>1, <7>1, <1>1
          <6>2. CASE u # t
            BY <1>2, <5>1, <6>2
          <6> QED
            BY <6>1, <6>2
        <5> QED
          BY <5>1, <5>2 DEF HeldRefs
      <4> QED
        BY <3>2, <4>1, <4>2
    <3> QED
      BY <3>1, <3>2
  <2>3. /\ IsFiniteSet(HeldRefs(q)') /\ Cardinality(HeldRefs(q)') = Cardinality(HeldRefs(q)) + 1
    BY <2>1, <2>2, FS_AddElement
  <2> QED
    BY <1>4, <2>3, FS_CardinalityType DEF One
<1> QED
  BY <1>3, <1>4

LEMMA HeldLess ==
  ASSUME RefsTypeOK, NEW t \in Threads, NEW v \in Instances, held[t][v] > 0,
         HoldsLess(t, v), NEW q \in Instances, IsFiniteSet(HeldRefs(q))
  PROVE  /\ IsFiniteSet(HeldRefs(q)') /\ Cardinality(HeldRefs(q)') \in Nat
         /\ Cardinality(HeldRefs(q)) \in Nat
         /\ Cardinality(HeldRefs(q)') = Cardinality(HeldRefs(q)) - One(q = v)
<1>1. PICK h \in Nat : h = held[t][v]
  BY DEF RefsTypeOK
<1>2. /\ held'[t][v] = h - 1 /\ h - 1 \in Nat
      /\ \A u \in Threads : \A o \in Instances : ~(u = t /\ o = v) => held'[u][o] = held[u][o]
  BY <1>1 DEF RefsTypeOK, HoldsMore, HoldsLess
<1>3. CASE q # v
  <2>1. \A u \in Threads : held'[u][q] = held[u][q]
    BY <1>2, <1>3
  <2>2. HeldRefs(q)' = HeldRefs(q)
    BY <2>1 DEF HeldRefs
  <2> QED
    BY <1>3, <2>2, FS_CardinalityType DEF One
<1>4. CASE q = v
  <2> DEFINE x == <<t, h>>
  <2>1. x \in HeldRefs(q)
    <3>1. h \in 1..held[t][q]
      BY <1>1, <1>2, <1>4
    <3> QED
      BY <3>1, InHeldRefs
  <2>2. HeldRefs(q)' = HeldRefs(q) \ {x}
    <3>1. ASSUME NEW z \in HeldRefs(q)' PROVE z \in HeldRefs(q) \ {x}
      <4>1. PICK u, i : u \in Threads /\ i \in 1..held'[u][q] /\ z = <<u, i>>
        BY <3>1 DEF HeldRefs
      <4>2. CASE u = t
        <5>1. i \in 1..(h - 1)
          BY <1>2, <1>4, <4>1, <4>2
        <5>2. i \in 1..h /\ i # h
          BY <5>1, <1>1
        <5> QED
          BY <5>2, <1>1, <1>4, <4>1, <4>2, InHeldRefs
      <4>3. CASE u # t
        BY <1>2, <4>1, <4>3, InHeldRefs
      <4> QED
        BY <4>2, <4>3
    <3>2. ASSUME NEW z \in HeldRefs(q) \ {x} PROVE z \in HeldRefs(q)'
      <4>1. PICK u, i : u \in Threads /\ i \in 1..held[u][q] /\ z = <<u, i>>
        BY <3>2, InHeldRefs
      <4>2. i \in 1..held'[u][q]
        <5>1. CASE u = t
          <6>1. i \in 1..h /\ i # h
            BY <1>1, <1>4, <3>2, <4>1, <5>1
          <6>2. i \in 1..(h - 1)
            BY <6>1, <1>1
          <6> QED
            BY <6>2, <1>2, <1>4, <5>1
        <5>2. CASE u # t
          BY <1>2, <4>1, <5>2
        <5> QED
          BY <5>1, <5>2
      <4> QED
        BY <4>1, <4>2 DEF HeldRefs
    <3> QED
      BY <3>1, <3>2
  <2>3. /\ IsFiniteSet(HeldRefs(q)') /\ Cardinality(HeldRefs(q)') = Cardinality(HeldRefs(q)) - 1
    BY <2>1, <2>2, FS_RemoveElement
  <2> QED
    BY <1>4, <2>3, FS_CardinalityType DEF One
<1> QED
  BY <1>3, <1>4

(* An association is set, or a property, or what a call owns.              *)
Associates(o, k, e) == assoc' = [assoc EXCEPT ![o][k] = e]
Clears(o) == assoc' = [assoc EXCEPT ![o] = [k \in Keys |-> NoEntry]]
Stores(o, v) == slot' = [slot EXCEPT ![o] = v]

LEMMA AssocCount ==
  ASSUME RefsTypeOK, NEW o \in Instances, NEW k \in Keys, NEW e,
         Associates(o, k, e), NEW q \in Instances, IsFiniteSet(AssocRefs(q))
  PROVE  /\ IsFiniteSet(AssocRefs(q)') /\ Cardinality(AssocRefs(q)') \in Nat
         /\ Cardinality(AssocRefs(q)) \in Nat
         /\ Cardinality(AssocRefs(q)')
              = Cardinality(AssocRefs(q)) - One(Owned(assoc[o][k]) = q) + One(Owned(e) = q)
<1> DEFINE x == <<o, k>>
<1>1. /\ assoc'[o][k] = e
      /\ \A p \in Instances : \A j \in Keys : <<p, j>> # x => assoc'[p][j] = assoc[p][j]
  BY DEF RefsTypeOK, Associates
<1>2. x \in AssocRefs(q) <=> Owned(assoc[o][k]) = q
  BY DEF AssocRefs
<1>3. AssocRefs(q)' = (AssocRefs(q) \ {x}) \cup (IF Owned(e) = q THEN {x} ELSE {})
  <2>1. ASSUME NEW z \in Instances \X Keys
        PROVE  z \in AssocRefs(q)' <=> z \in (AssocRefs(q) \ {x}) \cup (IF Owned(e) = q THEN {x} ELSE {})
    <3>1. CASE z = x
      <4>1. assoc'[z[1]][z[2]] = e
        BY <1>1, <3>1
      <4>2. z \in AssocRefs(q)' <=> Owned(e) = q
        BY <4>1 DEF AssocRefs, Owned
      <4> QED
        BY <3>1, <4>2
    <3>2. CASE z # x
      <4>1. assoc'[z[1]][z[2]] = assoc[z[1]][z[2]]
        BY <1>1, <3>2
      <4>2. z \in AssocRefs(q)' <=> z \in AssocRefs(q)
        BY <4>1 DEF AssocRefs, Owned
      <4> QED
        BY <3>2, <4>2
    <3> QED
      BY <3>1, <3>2
  <2>2. AssocRefs(q)' \subseteq Instances \X Keys /\ AssocRefs(q) \subseteq Instances \X Keys
        /\ x \in Instances \X Keys
    BY DEF AssocRefs
  <2> QED
    BY <2>1, <2>2
<1>4. PICK m \in {0, 1}, n \in {0, 1} : (m = 1 <=> Owned(assoc[o][k]) = q) /\ (n = 1 <=> Owned(e) = q)
  OBVIOUS
<1>5. PICK S, T, y : S = AssocRefs(q) /\ T = AssocRefs(q)' /\ y = x
  OBVIOUS
<1>6. IsFiniteSet(S) /\ T = (S \ {y}) \cup (IF n = 1 THEN {y} ELSE {}) /\ (y \in S <=> m = 1)
  BY <1>2, <1>3, <1>4, <1>5
<1>7. /\ IsFiniteSet(T) /\ Cardinality(T) \in Nat /\ Cardinality(S) \in Nat
      /\ Cardinality(T) = Cardinality(S) - m + n
  BY <1>6, Toggle
<1>8. m = One(Owned(assoc[o][k]) = q) /\ n = One(Owned(e) = q)
  BY <1>4 DEF One
<1> QED
  BY <1>5, <1>7, <1>8

LEMMA SlotCount ==
  ASSUME RefsTypeOK, NEW o \in Instances, NEW w, Stores(o, w),
         NEW q \in Instances, IsFiniteSet(SlotRefs(q))
  PROVE  /\ IsFiniteSet(SlotRefs(q)') /\ Cardinality(SlotRefs(q)') \in Nat
         /\ Cardinality(SlotRefs(q)) \in Nat
         /\ Cardinality(SlotRefs(q)')
              = Cardinality(SlotRefs(q)) - One(slot[o] = q) + One(w = q)
<1>1. slot'[o] = w /\ \A p \in Instances : p # o => slot'[p] = slot[p]
  BY DEF RefsTypeOK, Stores
<1>2. o \in SlotRefs(q) <=> slot[o] = q
  BY DEF SlotRefs
<1>3. SlotRefs(q)' = (SlotRefs(q) \ {o}) \cup (IF w = q THEN {o} ELSE {})
  BY <1>1 DEF SlotRefs
<1>4. PICK m \in {0, 1}, n \in {0, 1} : (m = 1 <=> slot[o] = q) /\ (n = 1 <=> w = q)
  OBVIOUS
<1>5. PICK S, T, y : S = SlotRefs(q) /\ T = SlotRefs(q)' /\ y = o
  OBVIOUS
<1>6. IsFiniteSet(S) /\ T = (S \ {y}) \cup (IF n = 1 THEN {y} ELSE {}) /\ (y \in S <=> m = 1)
  BY <1>2, <1>3, <1>4, <1>5
<1>7. /\ IsFiniteSet(T) /\ Cardinality(T) \in Nat /\ Cardinality(S) \in Nat
      /\ Cardinality(T) = Cardinality(S) - m + n
  BY <1>6, Toggle
<1>8. m = One(slot[o] = q) /\ n = One(w = q)
  BY <1>4 DEF One
<1> QED
  BY <1>5, <1>7, <1>8

LEMMA CallCount ==
  ASSUME RefsTypeOK, RefsTypeOK', nil \notin Instances, NEW t \in Threads, NEW p \in Nat, OwnElsewhere(t, p),
         NEW v \in Instances \cup {nil}, NEW w \in Instances \cup {nil},
         Own(t, p) = Present(v), Own(t, p)' = Present(w),
         NEW q \in Instances, IsFiniteSet(CallRefs(q))
  PROVE  /\ IsFiniteSet(CallRefs(q)') /\ Cardinality(CallRefs(q)') \in Nat
         /\ Cardinality(CallRefs(q)) \in Nat
         /\ Cardinality(CallRefs(q)') = Cardinality(CallRefs(q)) - One(v = q) + One(w = q)
<1> DEFINE x == <<nil, q>>
           y == <<t, p, x>>
<1>1. x[2] = q
  OBVIOUS
<1>2. \A u \in Instances \cup {nil} : \A d : d[2] = q => (d \in Present(u) <=> d = x /\ u = q)
  BY DEF Present
<1>3. PICK m \in {0, 1}, n \in {0, 1} : (m = 1 <=> v = q) /\ (n = 1 <=> w = q)
  OBVIOUS
<1>4. OwnToggles(t, p, q, x, n)
  BY <1>2, <1>3 DEF OwnToggles
<1>5. /\ CallRefs(q)' = (CallRefs(q) \ {y}) \cup (IF n = 1 THEN {y} ELSE {})
      /\ y \in CallRefs(q) <=> x \in Own(t, p)
  <2> HIDE DEF x
  <2> QED
    BY <1>1, <1>4, CallRefsToggle
<1>6. x \in Own(t, p) <=> m = 1
  BY <1>2, <1>3
<1>7. PICK S, T, z : S = CallRefs(q) /\ T = CallRefs(q)' /\ z = y
  OBVIOUS
<1>8. IsFiniteSet(S) /\ T = (S \ {z}) \cup (IF n = 1 THEN {z} ELSE {}) /\ (z \in S <=> m = 1)
  BY <1>5, <1>6, <1>7
<1>9. /\ IsFiniteSet(T) /\ Cardinality(T) \in Nat /\ Cardinality(S) \in Nat
      /\ Cardinality(T) = Cardinality(S) - m + n
  BY <1>8, Toggle
<1>10. m = One(v = q) /\ n = One(w = q)
  BY <1>3 DEF One
<1> QED
  BY <1>7, <1>9, <1>10

LEMMA ReleaseCount ==
  ASSUME RefsTypeOK, RefsTypeOK', NEW t \in Threads, NEW p \in Nat, OwnElsewhere(t, p),
         NEW e \in Own(t, p), Own(t, p)' = Own(t, p) \ {e},
         NEW q \in Instances, IsFiniteSet(CallRefs(q))
  PROVE  /\ IsFiniteSet(CallRefs(q)') /\ Cardinality(CallRefs(q)') \in Nat
         /\ Cardinality(CallRefs(q)) \in Nat
         /\ Cardinality(CallRefs(q)') = Cardinality(CallRefs(q)) - One(e[2] = q)
<1>1. CASE e[2] = q
  <2> DEFINE y == <<t, p, e>>
  <2>1. OwnToggles(t, p, q, e, 0)
    BY DEF OwnToggles
  <2>2. /\ CallRefs(q)' = (CallRefs(q) \ {y}) \cup (IF 0 = 1 THEN {y} ELSE {})
        /\ y \in CallRefs(q) <=> e \in Own(t, p)
    BY <1>1, <2>1, CallRefsToggle
  <2>3. PICK S, T, z : S = CallRefs(q) /\ T = CallRefs(q)' /\ z = y
    OBVIOUS
  <2>4. IsFiniteSet(S) /\ T = S \ {z} /\ z \in S
    BY <2>2, <2>3
  <2>5. IsFiniteSet(T) /\ Cardinality(T) = Cardinality(S) - 1
    BY <2>4, FS_RemoveElement
  <2>6. Cardinality(T) \in Nat /\ Cardinality(S) \in Nat
    BY <2>4, <2>5, FS_CardinalityType
  <2>7. One(e[2] = q) = 1
    BY <1>1 DEF One
  <2> QED
    BY <2>3, <2>5, <2>6, <2>7
<1>2. CASE e[2] # q
  <2> DEFINE x == <<nil, q>>
             y == <<t, p, x>>
  <2>1. PICK n \in {0, 1} : n = 1 <=> x \in Own(t, p)
    OBVIOUS
  <2>2. OwnToggles(t, p, q, x, n) /\ x[2] = q
    BY <1>2, <2>1 DEF OwnToggles
  <2>3. /\ CallRefs(q)' = (CallRefs(q) \ {y}) \cup (IF n = 1 THEN {y} ELSE {})
        /\ y \in CallRefs(q) <=> x \in Own(t, p)
    <3> HIDE DEF x
    <3> QED
      BY <2>2, CallRefsToggle
  <2>4. CallRefs(q)' = CallRefs(q)
    BY <2>1, <2>3
  <2>5. One(e[2] = q) = 0
    BY <1>2 DEF One
  <2>6. Cardinality(CallRefs(q)) \in Nat
    BY FS_CardinalityType
  <2> QED
    BY <2>4, <2>5, <2>6
<1> QED
  BY <1>1, <1>2

(* The references of an object's associations become those of a call.      *)
LEMMA RemoveCount ==
  ASSUME RefsTypeOK, RefsTypeOK', nil \notin Instances, NEW t \in Threads, NEW p \in Nat, OwnElsewhere(t, p),
         NEW o \in Instances, Own(t, p) = {}, Own(t, p)' = OwnedBy(o),
         Clears(o), NEW q \in Instances, IsFiniteSet(CallRefs(q)), IsFiniteSet(AssocRefs(q))
  PROVE  /\ IsFiniteSet(CallRefs(q)') /\ Cardinality(CallRefs(q)') \in Nat
         /\ Cardinality(CallRefs(q)) \in Nat
         /\ IsFiniteSet(AssocRefs(q)') /\ Cardinality(AssocRefs(q)') \in Nat
         /\ Cardinality(AssocRefs(q)) \in Nat
         /\ Cardinality(CallRefs(q)') + Cardinality(AssocRefs(q)')
              = Cardinality(CallRefs(q)) + Cardinality(AssocRefs(q))
<1> DEFINE A == {x \in AssocRefs(q) : x[1] = o}
           y(k) == <<t, p, <<k, q>>>>
           B == {y(x[2]) : x \in A}
<1>1. /\ \A k \in Keys : assoc'[o][k] = NoEntry
      /\ \A c \in Instances : c # o => assoc'[c] = assoc[c]
  BY DEF RefsTypeOK, Clears
<1>2. \A k \in Keys : Owned(NoEntry) = nil /\ (Owned(assoc[o][k]) = q => assoc[o][k].val = q)
  BY DEF Owned, NoEntry
<1>3. AssocRefs(q)' = AssocRefs(q) \ A
  <2>1. ASSUME NEW z \in Instances \X Keys
        PROVE  z \in AssocRefs(q)' <=> z \in AssocRefs(q) /\ z[1] # o
    <3>1. CASE z[1] = o
      <4>1. assoc'[z[1]][z[2]] = NoEntry
        BY <1>1, <3>1
      <4>2. z \notin AssocRefs(q)'
        BY <4>1, <1>2 DEF AssocRefs, Owned, NoEntry
      <4> QED
        BY <3>1, <4>2
    <3>2. CASE z[1] # o
      <4>1. assoc'[z[1]][z[2]] = assoc[z[1]][z[2]]
        BY <1>1, <3>2
      <4>2. z \in AssocRefs(q)' <=> z \in AssocRefs(q)
        BY <4>1 DEF AssocRefs, Owned
      <4> QED
        BY <3>2, <4>2
    <3> QED
      BY <3>1, <3>2
  <2>2. AssocRefs(q)' \subseteq Instances \X Keys /\ AssocRefs(q) \subseteq Instances \X Keys
    BY DEF AssocRefs
  <2> QED
    BY <2>1, <2>2
<1>4. B \cap CallRefs(q) = {}
  <2>1. ASSUME NEW k, y(k) \in CallRefs(q) PROVE FALSE
    <3>1. PICK u, i, e : u \in Threads /\ i \in DOMAIN stack[u] /\ e \in Own(u, i) /\ y(k) = <<u, i, e>>
      BY <2>1, InCallRefs
    <3> QED
      BY <3>1
  <2> QED
    BY <2>1
<1>5. \A k : <<k, q>> \in OwnedBy(o) <=> k \in Keys /\ Owned(assoc[o][k]) = q
  <2>1. \A k \in Keys : Owned(assoc[o][k]) # nil => Owned(assoc[o][k]) = assoc[o][k].val
    BY DEF Owned
  <2> QED
    BY <2>1 DEF OwnedBy
<1>6. \A d \in OwnedBy(o) : d[2] = q => d = <<d[1], q>>
  BY DEF OwnedBy
<1>7. CallRefs(q)' = CallRefs(q) \cup B
  <2>1. ASSUME NEW z \in CallRefs(q)' PROVE z \in CallRefs(q) \cup B
    <3>1. PICK u, i, e : u \in Threads /\ i \in DOMAIN stack'[u] /\ e \in Own(u, i)' /\ e[2] = q /\ z = <<u, i, e>>
      BY <2>1 DEF CallRefs, RefsOfCall, Own
    <3>2. i \in Nat
      BY <3>1, OwnPlaceAfter
    <3>3. CASE u = t /\ i = p
      <4>1. e \in OwnedBy(o)
        BY <3>1, <3>3
      <4>2. e = <<e[1], q>>
        BY <3>1, <4>1, <1>6
      <4>3. e[1] \in Keys /\ Owned(assoc[o][e[1]]) = q
        BY <4>1, <4>2, <1>5
      <4>4. <<o, e[1]>> \in A
        BY <4>3 DEF AssocRefs
      <4>5. z = y(<<o, e[1]>>[2])
        BY <3>1, <3>3, <4>2
      <4> QED
        BY <4>4, <4>5
    <3>4. CASE ~(u = t /\ i = p)
      <4>1. e \in Own(u, i)
        BY <3>1, <3>2, <3>4 DEF OwnElsewhere
      <4>2. i \in DOMAIN stack[u]
        BY <3>1, <4>1, OwnPlace
      <4> QED
        BY <3>1, <4>1, <4>2, InCallRefs
    <3> QED
      BY <3>3, <3>4
  <2>2. ASSUME NEW z \in CallRefs(q) PROVE z \in CallRefs(q)'
    <3>1. PICK u, i, e : u \in Threads /\ i \in DOMAIN stack[u] /\ e \in Own(u, i) /\ e[2] = q /\ z = <<u, i, e>>
      BY <2>2, InCallRefs
    <3>2. i \in Nat /\ ~(u = t /\ i = p)
      BY <3>1, OwnPlace
    <3>3. e \in Own(u, i)'
      BY <3>1, <3>2 DEF OwnElsewhere
    <3>4. i \in DOMAIN stack'[u]
      BY <3>1, <3>3, OwnPlaceAfter
    <3> QED
      BY <3>1, <3>3, <3>4 DEF CallRefs, RefsOfCall, Own
  <2>3. ASSUME NEW z \in B PROVE z \in CallRefs(q)'
    <3>1. PICK x \in A : z = y(x[2])
      OBVIOUS
    <3>2. x[2] \in Keys /\ Owned(assoc[o][x[2]]) = q
      BY <3>1 DEF AssocRefs
    <3>3. <<x[2], q>> \in Own(t, p)'
      BY <3>2, <1>5
    <3>4. p \in DOMAIN stack'[t]
      BY <3>3, OwnPlaceAfter
    <3> QED
      BY <3>1, <3>3, <3>4 DEF CallRefs, RefsOfCall, Own
  <2> QED
    BY <2>1, <2>2, <2>3
<1>8. IsFiniteSet(A) /\ IsFiniteSet(B) /\ Cardinality(A) = Cardinality(B)
  <2>1. IsFiniteSet(A)
    BY FS_Subset
  <2> DEFINE f == [x \in A |-> y(x[2])]
  <2>2. \A x, z \in A : y(x[2]) = y(z[2]) => x = z
    BY DEF AssocRefs
  <2>3. f \in Bijection(A, B)
    BY <2>2 DEF Bijection, Injection, Surjection, IsInjective
  <2>4. ExistsBijection(A, B)
    BY <2>3 DEF ExistsBijection
  <2> QED
    BY <2>1, <2>4, FS_Bijection
<1>9. /\ IsFiniteSet(CallRefs(q)') /\ Cardinality(CallRefs(q)') = Cardinality(CallRefs(q)) + Cardinality(B)
  <2>1. IsFiniteSet(CallRefs(q) \cup B)
        /\ Cardinality(CallRefs(q) \cup B)
             = Cardinality(CallRefs(q)) + Cardinality(B) - Cardinality(CallRefs(q) \cap B)
    BY <1>8, FS_Union
  <2>2. CallRefs(q) \cap B = {}
    BY <1>4
  <2>3. Cardinality(CallRefs(q) \cap B) = 0
    BY <2>2, FS_EmptySet
  <2>4. PICK a, b : a = Cardinality(CallRefs(q)) /\ b = Cardinality(B)
    OBVIOUS
  <2>5. a \in Nat /\ b \in Nat
    BY <2>4, <1>8, FS_CardinalityType
  <2>6. a + b - 0 = a + b
    BY <2>5
  <2> QED
    BY <1>7, <2>1, <2>3, <2>4, <2>6
<1>10. /\ IsFiniteSet(AssocRefs(q)') /\ Cardinality(AssocRefs(q)') = Cardinality(AssocRefs(q)) - Cardinality(A)
  <2>1. IsFiniteSet(AssocRefs(q) \ A)
        /\ Cardinality(AssocRefs(q) \ A) = Cardinality(AssocRefs(q)) - Cardinality(AssocRefs(q) \cap A)
    BY FS_Difference
  <2>2. AssocRefs(q) \cap A = A
    OBVIOUS
  <2> QED
    BY <2>1, <2>2, <1>3
<1>11. PICK a, b, c, d, e : /\ a = Cardinality(CallRefs(q)) /\ b = Cardinality(A) /\ c = Cardinality(AssocRefs(q))
                            /\ d = Cardinality(CallRefs(q)') /\ e = Cardinality(AssocRefs(q)')
  OBVIOUS
<1>12. a \in Nat /\ b \in Nat /\ c \in Nat /\ d \in Nat /\ e \in Nat
  BY <1>8, <1>9, <1>10, <1>11, FS_CardinalityType
<1>13. d = a + b /\ e = c - b
  BY <1>8, <1>9, <1>10, <1>11
<1>14. d + e = a + c
  BY <1>12, <1>13
<1> QED
  BY <1>9, <1>10, <1>11, <1>12, <1>14

-----------------------------------------------------------------------------
(* How calls end                                                           *)

(* The innermost call of t has gone on, and is no setter or getter now.    *)
Settled(t, n) ==
  /\ n \in Nat /\ Depth(t) = n + 1 /\ Kept(t, n)
  /\ Stacks' /\ Guards(t)' /\ ~At(t, "getassoc")' /\ ~At(t, "getslot")'

LEMMA Settles ==
  ASSUME RefsTypeOK, Stacks, NEW t \in Threads, NEW n \in Nat, Kept(t, n), Depth(t) = n + 1,
         \A i \in Nat : i > n /\ i <= Depth(t)' =>
           /\ Arguments(stack'[t][i]) /\ stack'[t][i].at \notin ActiveLabels
           /\ i < Depth(t)' => stack'[t][i].at \in BelowLabels
  PROVE  Settled(t, n)
<1>1. PICK b \in Nat : b = Depth(t)' /\ b >= n /\ DOMAIN stack'[t] = 1..b /\ Len(stack'[t]) = b
  BY DEF Kept, Depth
<1>2. Stacks'
  BY StacksNext, <1>1
<1>3. b # 0 => stack'[t][b].at \notin ActiveLabels
  <2>1. CASE b > n
    BY <1>1, <2>1
  <2>2. CASE b = n /\ b # 0
    <3>1. n \in 1..n /\ n \in DOMAIN stack[t] /\ n < Depth(t)
      BY <2>2, StackTypes
    <3>2. stack'[t][n] = stack[t][n]
      BY <3>1 DEF Kept
    <3>3. stack[t][n].at \in BelowLabels
      BY <3>1 DEF Stacks, BelowLabels
    <3> QED
      BY <2>2, <3>2, <3>3 DEF BelowLabels, ActiveLabels
  <2> QED
    BY <1>1, <2>1, <2>2
<1>4. Top(t)' = stack'[t][b]
  BY <1>1 DEF Top, Last
<1>5. stack'[t] # <<>> => b # 0
  <2>1. stack'[t] \in Seq(CallType)
    BY DEF Kept
  <2> QED
    BY <1>1, <2>1
<1>6. \A l \in ActiveLabels : ~At(t, l)'
  BY <1>3, <1>4, <1>5 DEF At
<1>7. Guards(t)'
  BY <1>1, <1>3, <1>4 DEF Guards
<1> QED
  BY <1>2, <1>6, <1>7 DEF Settled, ActiveLabels

LEMMA Goes ==
  ASSUME RefsTypeOK, Stacks, NEW t \in Threads, stack[t] # <<>>,
         NEW T \in SUBSET ((Keys \cup {nil}) \X Instances), Continue(t, ReleaseAll(T)),
         NEW n, n = Depth(t) - 1
  PROVE  /\ Settled(t, n)
         /\ Own(t, n + 1)' = T /\ \A i \in Nat : i > n + 1 => Own(t, i)' = {}
         /\ \A i \in Nat : i > n => \A o \in Instances : ~Deals(t, i, o)'
         /\ \A i \in Nat : i > n /\ i <= Depth(t)' => stack'[t][i].at = "release"
<1>1. PICK c : c = ReleaseAll(T)
  OBVIOUS
<1>2. PICK m \in {0, 1} : /\ c \in Seq(CallType) /\ Len(c) = m /\ (m = 0 <=> T = {})
                          /\ m = 1 => c[1] = Releases(T)
  <2>1. CASE T = {}
    <3>1. c = <<>> /\ c \in Seq(CallType)
      BY <1>1, <2>1, ReleaseAllTyped
    <3>2. Len(c) = 0
      BY <3>1
    <3> QED
      BY <2>1, <3>1, <3>2
  <2>2. CASE T # {}
    <3>1. c = <<Releases(T)>> /\ c \in Seq(CallType)
      BY <1>1, <2>2, ReleaseAllTyped
    <3>2. Len(c) = 1 /\ c[1] = Releases(T)
      BY <3>1
    <3> QED
      BY <2>2, <3>1, <3>2
  <2> QED
    BY <2>1, <2>2
<1>3. /\ Kept(t, n) /\ Depth(t) = n + 1 /\ Len(stack'[t]) = n + m
      /\ \A j \in 1..m : stack'[t][n + j] = c[j]
  BY <1>1, <1>2, Continues
<1>4. n \in Nat /\ DOMAIN stack'[t] = 1..(n + m) /\ Depth(t)' = n + m
  BY <1>3 DEF Kept, Depth
<1>5. ASSUME NEW i \in Nat, i > n, i <= n + m
      PROVE  m = 1 /\ i = n + 1 /\ stack'[t][i] = Releases(T) /\ T # {}
  <2>1. m = 1 /\ i = n + 1
    BY <1>2, <1>4, <1>5
  <2> QED
    BY <2>1, <1>2, <1>3
<1>6. /\ Releases(T).at = "release" /\ Releases(T).todo = T /\ Releases(T) \in CallType
      /\ Releases(T).obj = nil
  BY ReleasesTyped
<1>7. Settled(t, n)
  <2>1. ASSUME NEW i \in Nat, i > n, i <= Depth(t)'
        PROVE  /\ Arguments(stack'[t][i]) /\ stack'[t][i].at \notin ActiveLabels
               /\ i < Depth(t)' => stack'[t][i].at \in BelowLabels
    <3>1. stack'[t][i] = Releases(T) /\ T # {}
      BY <2>1, <1>4, <1>5
    <3> QED
      BY <3>1, <1>6 DEF Arguments, ActiveLabels, BelowLabels
  <2> QED
    BY <2>1, <1>3, <1>4, Settles
<1>8. Own(t, n + 1)' = T
  <2>1. CASE m = 1
    <3>1. n + 1 \in DOMAIN stack'[t] /\ stack'[t][n + 1] = Releases(T)
      BY <1>4, <2>1, <1>5
    <3> QED
      BY <3>1, OwnsReleases DEF Own
  <2>2. CASE m = 0
    <3>1. n + 1 \notin DOMAIN stack'[t]
      BY <1>4, <2>2
    <3> QED
      BY <3>1, <1>2, <2>2 DEF Own
  <2> QED
    BY <2>1, <2>2
<1>9. ASSUME NEW i \in Nat, i > n + 1 PROVE Own(t, i)' = {}
  <2>1. i > Depth(t)'
    BY <1>2, <1>4, <1>9
  <2> QED
    BY <2>1, <1>3, Beyond
<1>10. ASSUME NEW i \in Nat, i > n, NEW o \in Instances PROVE ~Deals(t, i, o)'
  <2>1. CASE i <= n + m
    <3>1. stack'[t][i].at = "release"
      BY <1>5, <1>6, <1>10, <2>1
    <3> QED
      BY <3>1 DEF Deals, DeallocLabels
  <2>2. CASE i > n + m
    BY <1>3, <1>4, <2>2, Beyond
  <2> QED
    BY <1>4, <1>2, <2>1, <2>2
<1> QED
  BY <1>4, <1>5, <1>6, <1>7, <1>8, <1>9, <1>10

LEMMA Changes ==
  ASSUME RefsTypeOK, Stacks, NEW t \in Threads, stack[t] # <<>>, NEW c \in CallType,
         c.at \in {"destruct", "remove", "free"}, Arguments(c),
         NEW T \in SUBSET ((Keys \cup {nil}) \X Instances), Continue(t, <<c>> \o ReleaseAll(T)),
         NEW n, n = Depth(t) - 1
  PROVE  /\ Settled(t, n)
         /\ Own(t, n + 1)' = {} /\ Own(t, n + 2)' = T
         /\ \A i \in Nat : i > n + 2 => Own(t, i)' = {}
         /\ \A o \in Instances : Deals(t, n + 1, o)' <=> c.obj = o
         /\ \A i \in Nat : i > n + 1 => \A o \in Instances : ~Deals(t, i, o)'
         /\ stack'[t][n + 1] = c
         /\ \A i \in Nat : i > n + 1 /\ i <= Depth(t)' => stack'[t][i].at = "release"
<1>1. PICK f : f = ReleaseAll(T)
  OBVIOUS
<1>2. PICK m \in {0, 1} : /\ f \in Seq(CallType) /\ Len(f) = m /\ (m = 0 <=> T = {})
                          /\ m = 1 => f[1] = Releases(T)
  <2>1. CASE T = {}
    <3>1. f = <<>> /\ f \in Seq(CallType)
      BY <1>1, <2>1, ReleaseAllTyped
    <3>2. Len(f) = 0
      BY <3>1
    <3> QED
      BY <2>1, <3>1, <3>2
  <2>2. CASE T # {}
    <3>1. f = <<Releases(T)>> /\ f \in Seq(CallType)
      BY <1>1, <2>2, ReleaseAllTyped
    <3>2. Len(f) = 1 /\ f[1] = Releases(T)
      BY <3>1
    <3> QED
      BY <2>2, <3>1, <3>2
  <2> QED
    BY <2>1, <2>2
<1>3. PICK g : g = <<c>> \o f
  OBVIOUS
<1>4. g \in Seq(CallType) /\ Len(g) = m + 1 /\ g[1] = c /\ (m = 1 => g[2] = f[1])
  <2>1. PICK h \in Seq(CallType) : h = <<c>> /\ Len(h) = 1 /\ h[1] = c
    <3>1. <<c>> \in Seq(CallType) /\ Len(<<c>>) = 1 /\ <<c>>[1] = c
      OBVIOUS
    <3> QED
      BY <3>1
  <2>2. g = h \o f
    BY <1>3, <2>1
  <2>3. g \in Seq(CallType) /\ Len(g) = m + 1
    <3>1. h \o f \in Seq(CallType) /\ Len(h \o f) = Len(h) + Len(f)
      BY <2>1, <1>2
    <3> QED
      BY <3>1, <2>1, <2>2, <1>2
  <2>4. \A i \in 1..(Len(h) + Len(f)) : g[i] = IF i <= Len(h) THEN h[i] ELSE f[i - Len(h)]
    BY <2>1, <2>2, <1>2
  <2> QED
    BY <2>1, <2>3, <2>4, <1>2
<1>5. /\ Kept(t, n) /\ Depth(t) = n + 1 /\ Len(stack'[t]) = n + (m + 1)
      /\ \A j \in 1..(m + 1) : stack'[t][n + j] = g[j]
  <2>1. g \in Seq(CallType) /\ Continue(t, g)
    BY <1>1, <1>3, <1>4
  <2>2. /\ Kept(t, n) /\ Depth(t) = n + 1 /\ Len(stack'[t]) = n + Len(g)
        /\ \A j \in 1..Len(g) : stack'[t][n + j] = g[j]
    BY <2>1, Continues
  <2> QED
    BY <2>2, <1>4
<1>6. n \in Nat /\ DOMAIN stack'[t] = 1..(n + m + 1) /\ Depth(t)' = n + m + 1
  <2>1. PICK b : b = Len(stack'[t])
    OBVIOUS
  <2>2. n \in Nat /\ DOMAIN stack'[t] = 1..b /\ Depth(t)' = b
    BY <2>1, <1>5 DEF Kept, Depth
  <2>3. b = n + m + 1
    <3>1. b = n + (m + 1)
      BY <2>1, <1>5
    <3> QED
      BY <3>1, <2>2, <1>2
  <2> QED
    BY <2>2, <2>3
<1>7. stack'[t][n + 1] = c
  BY <1>4, <1>5
<1>8. ASSUME NEW i \in Nat, i > n + 1, i <= n + m + 1
      PROVE  m = 1 /\ i = n + 2 /\ stack'[t][i] = Releases(T) /\ T # {}
  <2>1. m = 1 /\ i = n + 2
    BY <1>2, <1>6, <1>8
  <2>2. stack'[t][n + 2] = g[2]
    BY <2>1, <1>5
  <2> QED
    BY <2>1, <2>2, <1>2, <1>4
<1>9. /\ Releases(T).at = "release" /\ Releases(T).todo = T /\ Releases(T) \in CallType
      /\ Releases(T).obj = nil
  BY ReleasesTyped
<1>10. Settled(t, n)
  <2>1. ASSUME NEW i \in Nat, i > n, i <= Depth(t)'
        PROVE  /\ Arguments(stack'[t][i]) /\ stack'[t][i].at \notin ActiveLabels
               /\ i < Depth(t)' => stack'[t][i].at \in BelowLabels
    <3>1. CASE i = n + 1
      BY <1>7, <3>1 DEF ActiveLabels, BelowLabels
    <3>2. CASE i > n + 1
      <4>1. stack'[t][i] = Releases(T) /\ T # {}
        BY <2>1, <1>6, <1>8, <3>2
      <4> QED
        BY <4>1, <1>9 DEF Arguments, ActiveLabels, BelowLabels
    <3> QED
      BY <1>6, <2>1, <3>1, <3>2
  <2> QED
    BY <2>1, <1>5, <1>6, Settles
<1>11. Own(t, n + 1)' = {}
  <2>1. Owns(c) = {}
    BY OwnsNothing
  <2>2. n + 1 \in DOMAIN stack'[t]
    BY <1>6, <1>2
  <2> QED
    BY <1>7, <2>1, <2>2 DEF Own
<1>12. Own(t, n + 2)' = T
  <2>1. CASE m = 1
    <3>1. n + 2 \in DOMAIN stack'[t] /\ stack'[t][n + 2] = Releases(T)
      BY <1>6, <2>1, <1>8
    <3> QED
      BY <3>1, OwnsReleases DEF Own
  <2>2. CASE m = 0
    <3>1. n + 2 \notin DOMAIN stack'[t]
      BY <1>6, <2>2
    <3> QED
      BY <3>1, <1>2, <2>2 DEF Own
  <2> QED
    BY <2>1, <2>2
<1>13. ASSUME NEW i \in Nat, i > n + 2 PROVE Own(t, i)' = {}
  <2>1. i > Depth(t)'
    BY <1>2, <1>6, <1>13
  <2> QED
    BY <2>1, <1>5, Beyond
<1>14. ASSUME NEW i \in Nat, i > n + 1, NEW o \in Instances PROVE ~Deals(t, i, o)'
  <2>1. CASE i <= n + m + 1
    <3>1. stack'[t][i].at = "release"
      BY <1>8, <1>9, <1>14, <2>1
    <3> QED
      BY <3>1 DEF Deals, DeallocLabels
  <2>2. CASE i > n + m + 1
    BY <1>5, <1>6, <2>2, Beyond
  <2> QED
    BY <1>6, <1>2, <2>1, <2>2
<1>15. ASSUME NEW o \in Instances PROVE Deals(t, n + 1, o)' <=> c.obj = o
  <2>1. n + 1 \in DOMAIN stack'[t]
    BY <1>6, <1>2
  <2> QED
    BY <2>1, <1>7 DEF Deals, DeallocLabels
<1> QED
  BY <1>6, <1>7, <1>8, <1>9, <1>10, <1>11, <1>12, <1>13, <1>14, <1>15

LEMMA DeallocTyped ==
  ASSUME NEW o \in Instances
  PROVE  /\ Dealloc(o) \in CallType /\ Dealloc(o).at = "dealloc" /\ Dealloc(o).obj = o
         /\ Dealloc(o).todo = {} /\ Arguments(Dealloc(o)) /\ Owns(Dealloc(o)) = {}
BY DEF Dealloc, Call, CallType, Labels, Policies, Arguments, Owns

LEMMA Deallocates ==
  ASSUME RefsTypeOK, Stacks, NEW t \in Threads, stack[t] # <<>>, NEW o \in Instances,
         NEW T \in SUBSET ((Keys \cup {nil}) \X Instances),
         Continue(t, ReleaseAll(T) \o <<Dealloc(o)>>), NEW n, n = Depth(t) - 1
  PROVE  /\ Settled(t, n)
         /\ Own(t, n + 1)' = T /\ \A i \in Nat : i > n + 1 => Own(t, i)' = {}
         /\ \A i \in Nat : i > n /\ i <= Depth(t)' => stack'[t][i].at \in {"release", "dealloc"}
         /\ \E p \in Nat : /\ p > n
                           /\ \A q \in Instances : Deals(t, p, q)' <=> q = o
                           /\ \A i \in Nat : i > n /\ i # p => \A q \in Instances : ~Deals(t, i, q)'
<1>1. PICK f : f = ReleaseAll(T)
  OBVIOUS
<1>2. PICK m \in {0, 1} : /\ f \in Seq(CallType) /\ Len(f) = m /\ (m = 0 <=> T = {})
                          /\ m = 1 => f[1] = Releases(T)
  <2>1. CASE T = {}
    <3>1. f = <<>> /\ f \in Seq(CallType)
      BY <1>1, <2>1, ReleaseAllTyped
    <3>2. Len(f) = 0
      BY <3>1
    <3> QED
      BY <2>1, <3>1, <3>2
  <2>2. CASE T # {}
    <3>1. f = <<Releases(T)>> /\ f \in Seq(CallType)
      BY <1>1, <2>2, ReleaseAllTyped
    <3>2. Len(f) = 1 /\ f[1] = Releases(T)
      BY <3>1
    <3> QED
      BY <2>2, <3>1, <3>2
  <2> QED
    BY <2>1, <2>2
<1>3. PICK d \in CallType : /\ d = Dealloc(o) /\ d.at = "dealloc" /\ d.obj = o
                            /\ Arguments(d) /\ Owns(d) = {}
  BY DeallocTyped
<1>4. PICK g : g = f \o <<d>>
  OBVIOUS
<1>5. g \in Seq(CallType) /\ Len(g) = m + 1 /\ g[m + 1] = d /\ (m = 1 => g[1] = Releases(T))
  <2>1. PICK h \in Seq(CallType) : h = <<d>> /\ Len(h) = 1 /\ h[1] = d
    <3>1. <<d>> \in Seq(CallType) /\ Len(<<d>>) = 1 /\ <<d>>[1] = d
      OBVIOUS
    <3> QED
      BY <3>1
  <2>2. g = f \o h
    BY <1>4, <2>1
  <2>3. g \in Seq(CallType) /\ Len(g) = m + 1
    <3>1. f \o h \in Seq(CallType) /\ Len(f \o h) = Len(f) + Len(h)
      BY <2>1, <1>2
    <3> QED
      BY <3>1, <2>1, <2>2, <1>2
  <2>4. \A i \in 1..(Len(f) + Len(h)) : g[i] = IF i <= Len(f) THEN f[i] ELSE h[i - Len(f)]
    BY <2>1, <2>2, <1>2
  <2> QED
    BY <2>1, <2>3, <2>4, <1>2
<1>6. /\ Kept(t, n) /\ Depth(t) = n + 1 /\ Len(stack'[t]) = n + (m + 1)
      /\ \A j \in 1..(m + 1) : stack'[t][n + j] = g[j]
  <2>1. g \in Seq(CallType) /\ Continue(t, g)
    BY <1>1, <1>3, <1>4, <1>5
  <2>2. /\ Kept(t, n) /\ Depth(t) = n + 1 /\ Len(stack'[t]) = n + Len(g)
        /\ \A j \in 1..Len(g) : stack'[t][n + j] = g[j]
    BY <2>1, Continues
  <2> QED
    BY <2>2, <1>5
<1>7. n \in Nat /\ DOMAIN stack'[t] = 1..(n + m + 1) /\ Depth(t)' = n + m + 1
  <2>1. PICK b : b = Len(stack'[t])
    OBVIOUS
  <2>2. n \in Nat /\ DOMAIN stack'[t] = 1..b /\ Depth(t)' = b
    BY <2>1, <1>6 DEF Kept, Depth
  <2>3. b = n + m + 1
    <3>1. b = n + (m + 1)
      BY <2>1, <1>6
    <3> QED
      BY <3>1, <2>2, <1>2
  <2> QED
    BY <2>2, <2>3
<1>8. PICK p \in Nat : p = n + m + 1 /\ p = n + (m + 1) /\ p > n
  BY <1>7, <1>2
<1>9. stack'[t][p] = d
  <2>1. m + 1 \in 1..(m + 1)
    BY <1>2
  <2> QED
    BY <2>1, <1>5, <1>6, <1>8
<1>10. ASSUME NEW i \in Nat, i > n, i < p
       PROVE  m = 1 /\ i = n + 1 /\ stack'[t][i] = Releases(T) /\ T # {}
  <2>1. m = 1 /\ i = n + 1
    BY <1>2, <1>7, <1>8, <1>10
  <2>2. stack'[t][n + 1] = g[1]
    BY <2>1, <1>6
  <2> QED
    BY <2>1, <2>2, <1>2, <1>5
<1>11. /\ Releases(T).at = "release" /\ Releases(T).todo = T /\ Releases(T) \in CallType
       /\ Releases(T).obj = nil
  BY ReleasesTyped
<1>12. ASSUME NEW i \in Nat, i > n, i <= Depth(t)'
       PROVE  (stack'[t][i] = d /\ i = p) \/ (stack'[t][i] = Releases(T) /\ i < p /\ T # {})
  <2>1. i <= p
    BY <1>12, <1>7, <1>8
  <2>2. CASE i = p
    BY <2>2, <1>9
  <2>3. CASE i < p
    BY <2>3, <1>10, <1>12
  <2> QED
    BY <2>1, <2>2, <2>3, <1>8
<1>13. Settled(t, n)
  <2>1. ASSUME NEW i \in Nat, i > n, i <= Depth(t)'
        PROVE  /\ Arguments(stack'[t][i]) /\ stack'[t][i].at \notin ActiveLabels
               /\ i < Depth(t)' => stack'[t][i].at \in BelowLabels
    <3>1. CASE stack'[t][i] = d /\ i = p
      <4>1. ~(i < Depth(t)')
        BY <3>1, <1>7, <1>8
      <4> QED
        BY <3>1, <4>1, <1>3 DEF ActiveLabels
    <3>2. CASE stack'[t][i] = Releases(T) /\ T # {}
      BY <3>2, <1>11 DEF Arguments, ActiveLabels, BelowLabels
    <3> QED
      BY <2>1, <3>1, <3>2, <1>12
  <2> QED
    BY <2>1, <1>6, <1>7, Settles
<1>14. Own(t, n + 1)' = T
  <2>1. CASE m = 1
    <3>1. n + 1 \in DOMAIN stack'[t]
      BY <1>7, <2>1
    <3>2. n + 1 \in Nat /\ n + 1 > n /\ n + 1 < p
      BY <1>7, <1>8, <2>1
    <3>3. stack'[t][n + 1] = Releases(T)
      BY <3>2, <1>10
    <3> QED
      BY <3>1, <3>3, OwnsReleases DEF Own
  <2>2. CASE m = 0
    <3>1. n + 1 \in DOMAIN stack'[t] /\ n + 1 = p
      BY <1>7, <1>8, <2>2
    <3> QED
      BY <3>1, <1>2, <1>3, <1>9, <2>2 DEF Own
  <2> QED
    BY <2>1, <2>2
<1>15. ASSUME NEW i \in Nat, i > n + 1 PROVE Own(t, i)' = {}
  <2>1. CASE i > Depth(t)'
    BY <2>1, <1>6, Beyond
  <2>2. CASE i <= Depth(t)'
    <3>1. i = p /\ i \in DOMAIN stack'[t]
      BY <1>2, <1>7, <1>8, <1>15, <2>2
    <3> QED
      BY <3>1, <1>3, <1>9 DEF Own
  <2> QED
    BY <2>1, <2>2, <1>7, <1>2
<1>16. ASSUME NEW i \in Nat, i > n, i # p, NEW q \in Instances PROVE ~Deals(t, i, q)'
  <2>1. CASE i < p
    <3>1. stack'[t][i].at = "release"
      BY <1>10, <1>11, <1>16, <2>1
    <3> QED
      BY <3>1 DEF Deals, DeallocLabels
  <2>2. CASE i > p
    <3>1. i > Depth(t)'
      BY <2>2, <1>7, <1>8
    <3> QED
      BY <3>1, <1>6, Beyond
  <2> QED
    BY <1>8, <1>16, <2>1, <2>2
<1>17. ASSUME NEW q \in Instances PROVE Deals(t, p, q)' <=> q = o
  <2>1. p \in DOMAIN stack'[t]
    BY <1>7, <1>8
  <2> QED
    BY <2>1, <1>3, <1>9 DEF Deals, DeallocLabels
<1>18. \A i \in Nat : i > n /\ i <= Depth(t)' => stack'[t][i].at \in {"release", "dealloc"}
  BY <1>3, <1>11, <1>12
<1> QED
  BY <1>8, <1>13, <1>14, <1>15, <1>16, <1>17, <1>18

(* How calls begin                                                         *)

(* The innermost call of t is now c, at place p, a setter or getter.       *)
Begun(t, n, p, c) ==
  /\ n \in Nat /\ p \in Nat /\ p > n /\ Kept(t, n) /\ (n = 0 \/ n < Depth(t))
  /\ p = Depth(t)' /\ p \in DOMAIN stack'[t] /\ stack'[t] # <<>> /\ Top(t)' = c
  /\ Own(t, p) = {} /\ Own(t, p)' = Owns(c)
  /\ \A i \in Nat : i > n /\ i # p => Own(t, i)' = Own(t, i)
  /\ \A i \in Nat : i > n => \A o \in Instances : (Deals(t, i, o)' <=> Deals(t, i, o))
  /\ \A i \in Nat : i > n /\ i <= p => stack'[t][i].at \in ActiveLabels \cup {"destruct"}
  /\ Stacks' /\ Guards(t)'

LEMMA Begins ==
  ASSUME RefsTypeOK, Stacks, NEW t \in Threads, NEW o \in Instances, Runs(t), MayUse(t, o),
         NEW c \in CallType, c.obj = o, c.at \in ActiveLabels, Arguments(c),
         Begin(t, c), held' = held
  PROVE  \E n, p \in Nat : Begun(t, n, p, c)
<1>1. CASE stack[t] = <<>>
  <2>1. stack' = [stack EXCEPT ![t] = <<c>>] /\ held[t][o] > 0
    BY <1>1 DEF Begin, MayUse, Holds, At
  <2>2. Kept(t, 0) /\ Depth(t) = 0 /\ Len(stack'[t]) = 1 /\ stack'[t][1] = c
    BY <1>1, <2>1, Starts
  <2>3. DOMAIN stack'[t] = 1..1 /\ Depth(t)' = 1
    BY <2>2 DEF Kept, Depth
  <2>4. stack'[t] # <<>> /\ Top(t)' = c
    BY <2>2, <2>3 DEF Top, Last
  <2>5. \A i \in Nat : i > 0 => Own(t, i) = {} /\ \A q : ~Deals(t, i, q)
    BY <2>2, Beyond
  <2>6. \A i \in Nat : i > 1 => Own(t, i)' = {} /\ \A q : ~Deals(t, i, q)'
    BY <2>2, <2>3, Beyond
  <2>7. Own(t, 1)' = Owns(c) /\ \A q : ~Deals(t, 1, q)'
    BY <2>2, <2>3 DEF Own, Deals, ActiveLabels, DeallocLabels
  <2>8. ASSUME NEW i \in Nat, i > 0, i <= Depth(t)'
        PROVE  i = 1 /\ stack'[t][i] = c
    BY <2>8, <2>2, <2>3
  <2>9. Stacks'
    <3>1. ASSUME NEW i \in Nat, i > 0, i <= Depth(t)'
          PROVE  /\ Arguments(stack'[t][i])
                 /\ i < Depth(t)' => stack'[t][i].at \in BelowLabels
      BY <3>1, <2>3, <2>8
    <3> QED
      BY <3>1, <2>2, StacksNext
  <2>10. Guards(t)'
    BY <2>1, <2>4 DEF Guards
  <2>11. \A i \in Nat : i > 0 => \A q \in Instances : (Deals(t, i, q)' <=> Deals(t, i, q))
    <3>1. \A i \in Nat : i > 0 => i = 1 \/ i > 1
      OBVIOUS
    <3> QED
      BY <3>1, <2>5, <2>6, <2>7
  <2>12. \A i \in Nat : i > 0 /\ i # 1 => Own(t, i)' = Own(t, i)
    <3>1. \A i \in Nat : i > 0 /\ i # 1 => i > 1
      OBVIOUS
    <3> QED
      BY <3>1, <2>5, <2>6
  <2>13. \A i \in Nat : i > 0 /\ i <= 1 => stack'[t][i].at \in ActiveLabels \cup {"destruct"}
    BY <2>3, <2>8
  <2>14. Begun(t, 0, 1, c)
    BY <2>2, <2>3, <2>4, <2>5, <2>7, <2>9, <2>10, <2>11, <2>12, <2>13 DEF Begun
  <2> QED
    BY <2>14
<1>2. CASE stack[t] # <<>>
  <2>1. At(t, "dealloc") /\ Top(t).at = "dealloc"
    BY <1>2 DEF Runs, At
  <2>2. PICK n : n = Depth(t) - 1
    OBVIOUS
  <2>3. PICK b \in CallType : b = Top(t) /\ Arguments(b) /\ b = stack[t][Depth(t)]
                              /\ Depth(t) \in DOMAIN stack[t] /\ Depth(t) \in Nat
    BY <1>2, StackTypes DEF Stacks
  <2>4. PICK d \in CallType : /\ d = [b EXCEPT !.at = "destruct"] /\ d.at = "destruct"
                              /\ d.obj = b.obj /\ d.todo = b.todo
    <3>1. "destruct" \in Labels
      BY DEF Labels
    <3> QED
      BY ZenonT(60), <2>3, <3>1, Relabelled
  <2>5. Arguments(d) /\ b.at = "dealloc"
    BY <2>1, <2>3, <2>4 DEF Arguments
  <2>6. PICK g : g = <<d, c>>
    OBVIOUS
  <2>7. g \in Seq(CallType) /\ Len(g) = 2 /\ g[1] = d /\ g[2] = c /\ Continue(t, g)
    <3>1. <<d, c>> \in Seq(CallType) /\ Len(<<d, c>>) = 2 /\ <<d, c>>[1] = d /\ <<d, c>>[2] = c
      OBVIOUS
    <3>2. Continue(t, <<d, c>>)
      BY <1>2, <2>3, <2>4 DEF Begin
    <3> QED
      BY <3>1, <3>2, <2>6
  <2>8. /\ Kept(t, n) /\ Depth(t) = n + 1 /\ Len(stack'[t]) = n + 2
        /\ stack'[t][n + 1] = d /\ stack'[t][n + 2] = c
    <3>1. /\ Kept(t, n) /\ Depth(t) = n + 1 /\ Len(stack'[t]) = n + Len(g)
          /\ \A j \in 1..Len(g) : stack'[t][n + j] = g[j]
      <4>1. g \in Seq(CallType) /\ Continue(t, g)
        BY <2>7
      <4> QED
        BY <1>2, <2>2, <4>1, Continues
    <3>2. 1 \in 1..Len(g) /\ 2 \in 1..Len(g)
      BY <2>7
    <3> QED
      BY <3>1, <3>2, <2>7
  <2>9. n \in Nat /\ DOMAIN stack'[t] = 1..(n + 2) /\ Depth(t)' = n + 2
    BY <2>8 DEF Kept, Depth
  <2>10. stack'[t] # <<>> /\ Top(t)' = c
    <3>1. n + 2 \in DOMAIN stack'[t]
      BY <2>9
    <3>2. stack'[t] # <<>>
      BY <3>1
    <3> QED
      BY <3>2, <2>8 DEF Top, Last
  <2>11. \A i \in Nat : i > n + 1 => Own(t, i) = {} /\ \A q : ~Deals(t, i, q)
    BY <2>8, Beyond
  <2>12. \A i \in Nat : i > n + 2 => Own(t, i)' = {} /\ \A q : ~Deals(t, i, q)'
    BY <2>8, <2>9, Beyond
  <2>13. Own(t, n + 2)' = Owns(c) /\ \A q : ~Deals(t, n + 2, q)'
    <3>1. n + 2 \in DOMAIN stack'[t]
      BY <2>9
    <3> QED
      BY <3>1, <2>8 DEF Own, Deals, ActiveLabels, DeallocLabels
  <2>14. Own(t, n + 1)' = {} /\ Own(t, n + 1) = {}
    <3>1. n + 1 \in DOMAIN stack'[t] /\ n + 1 \in DOMAIN stack[t]
      BY <2>3, <2>8, <2>9
    <3>2. Owns(d) = {} /\ Owns(b) = {}
      BY <2>3, <2>4, <2>5, OwnsNothing
    <3> QED
      BY <3>1, <3>2, <2>3, <2>8 DEF Own
  <2>15. \A q : (Deals(t, n + 1, q)' <=> Deals(t, n + 1, q))
    <3>1. n + 1 \in DOMAIN stack'[t] /\ n + 1 \in DOMAIN stack[t]
      BY <2>3, <2>8, <2>9
    <3> QED
      BY <3>1, <2>3, <2>4, <2>5, <2>8 DEF Deals, DeallocLabels
  <2>16. ASSUME NEW i \in Nat, i > n, i <= n + 2
         PROVE  (i = n + 1 /\ stack'[t][i] = d) \/ (i = n + 2 /\ stack'[t][i] = c)
    BY <2>16, <2>8, <2>9
  <2>17. Stacks'
    <3>1. ASSUME NEW i \in Nat, i > n, i <= Depth(t)'
          PROVE  /\ Arguments(stack'[t][i])
                 /\ i < Depth(t)' => stack'[t][i].at \in BelowLabels
      <4>1. CASE i = n + 1 /\ stack'[t][i] = d
        BY <4>1, <2>4, <2>5 DEF BelowLabels
      <4>2. CASE i = n + 2 /\ stack'[t][i] = c
        BY <4>2, <2>9
      <4> QED
        BY <3>1, <4>1, <4>2, <2>9, <2>16
    <3>2. n < Depth(t)
      BY <2>8, <2>9
    <3> QED
      BY <3>1, <3>2, <2>8, StacksNext
  <2>18. Guards(t)'
    <3>1. held[t][o] > 0 \/ b.obj = o
      BY <2>3 DEF MayUse, Holds
    <3>2. Depth(t)' - 1 = n + 1 /\ Depth(t)' >= 2
      BY <2>9
    <3>3. stack'[t][Depth(t)' - 1].obj = b.obj /\ stack'[t][Depth(t)' - 1].at = "destruct"
      BY <3>2, <2>4, <2>8
    <3> QED
      BY <3>1, <3>2, <3>3, <2>10 DEF Guards
  <2>19. \A i \in Nat : i > n => \A q \in Instances : (Deals(t, i, q)' <=> Deals(t, i, q))
    <3>1. \A i \in Nat : i > n => i = n + 1 \/ i = n + 2 \/ i > n + 2
      BY <2>9
    <3>2. \A i \in Nat : i = n + 2 \/ i > n + 2 => i > n + 1
      BY <2>9
    <3> QED
      BY <3>1, <3>2, <2>11, <2>12, <2>13, <2>15
  <2>20. \A i \in Nat : i > n /\ i # n + 2 => Own(t, i)' = Own(t, i)
    <3>1. \A i \in Nat : i > n /\ i # n + 2 => i = n + 1 \/ i > n + 2
      BY <2>9
    <3>2. \A i \in Nat : i > n + 2 => i > n + 1
      BY <2>9
    <3> QED
      BY <3>1, <3>2, <2>11, <2>12, <2>14
  <2>21. \A i \in Nat : i > n /\ i <= n + 2 => stack'[t][i].at \in ActiveLabels \cup {"destruct"}
    BY <2>4, <2>16
  <2>22. PICK p \in Nat : p = n + 2 /\ p > n /\ p > n + 1 /\ p \in DOMAIN stack'[t] /\ n < Depth(t)
    BY <2>8, <2>9
  <2>23. Begun(t, n, p, c)
    BY <2>8, <2>9, <2>10, <2>11, <2>13, <2>17, <2>18, <2>19, <2>20, <2>21, <2>22 DEF Begun
  <2> QED
    BY <2>9, <2>22, <2>23
<1> QED
  BY <1>1, <1>2

LEMMA BegunMeans ==
  ASSUME RefsTypeOK, Progresses, NEW t \in Threads, NEW n, NEW p, NEW c, Begun(t, n, p, c)
  PROVE  /\ OwnElsewhere(t, p)
         /\ RefsTypeOK' => \A q \in Instances : Deallocations(q)' = Deallocations(q)
         /\ UNCHANGED <<slot, flag, tables>> => Progresses'
<1>1. /\ n \in Nat /\ p \in Nat /\ Kept(t, n) /\ p = Depth(t)'
  BY DEF Begun
<1>2. OwnElsewhere(t, p)
  <2>1. \A i \in Nat : i > n /\ i # p => Own(t, i)' = Own(t, i)
    BY DEF Begun
  <2> QED
    BY <1>1, <2>1, OwnOneChanges
<1>3. ASSUME RefsTypeOK', NEW q \in Instances PROVE Deallocations(q)' = Deallocations(q)
  <2>1. \A i \in Nat : i > n => \A o \in Instances : (Deals(t, i, o)' <=> Deals(t, i, o))
    BY DEF Begun
  <2>2. \A u \in Threads : \A i \in Nat : (Deals(u, i, q)' <=> Deals(u, i, q))
    BY <1>1, <2>1, DealsNoneChanges
  <2> QED
    BY <1>3, <2>2, DeallocationsSame
<1>4. ASSUME UNCHANGED <<slot, flag, tables>> PROVE Progresses'
  <2>1. ASSUME NEW d, Progress(d) PROVE Progress(d)'
    BY <1>4, <2>1, ProgressSame
  <2>2. ASSUME NEW i \in Nat, i > n, i <= Depth(t)', NEW d \in CallType, d = stack'[t][i]
        PROVE  Progress(d)'
    <3>1. d.at \in ActiveLabels \cup {"destruct"}
      BY <2>2, <1>1 DEF Begun
    <3> QED
      BY <3>1 DEF Progress, ActiveLabels
  <2> QED
    BY <1>1, <2>1, <2>2, ProgressesNext
<1> QED
  BY <1>2, <1>3, <1>4

(* Counts and references change alike.                                     *)
LEMMA Balanced ==
  ASSUME RefsTypeOK, NEW q \in Instances, Counted(q),
         NEW h \in Int, NEW c \in Int, NEW a \in Int, NEW s \in Int,
         /\ IsFiniteSet(HeldRefs(q)')
         /\ Cardinality(HeldRefs(q)') = Cardinality(HeldRefs(q)) + h,
         /\ IsFiniteSet(CallRefs(q)')
         /\ Cardinality(CallRefs(q)') = Cardinality(CallRefs(q)) + c,
         /\ IsFiniteSet(AssocRefs(q)')
         /\ Cardinality(AssocRefs(q)') = Cardinality(AssocRefs(q)) + a,
         /\ IsFiniteSet(SlotRefs(q)')
         /\ Cardinality(SlotRefs(q)') = Cardinality(SlotRefs(q)) + s,
         count'[q] = count[q] + (h + c + a + s)
  PROVE  Counted(q)'
<1>1. PICK hh, cc, aa, ss : /\ hh = Cardinality(HeldRefs(q)) /\ cc = Cardinality(CallRefs(q))
                            /\ aa = Cardinality(AssocRefs(q)) /\ ss = Cardinality(SlotRefs(q))
  OBVIOUS
<1>2. hh \in Nat /\ cc \in Nat /\ aa \in Nat /\ ss \in Nat
  BY <1>1, Finite
<1>3. count[q] = hh + cc + aa + ss
  BY <1>1 DEF Counted
<1>4. (hh + cc + aa + ss) + (h + c + a + s) = (hh + h) + (cc + c) + (aa + a) + (ss + s)
  BY <1>2
<1>5. count'[q] = (hh + h) + (cc + c) + (aa + a) + (ss + s)
  BY <1>3, <1>4
<1>6. count'[q] = Cardinality(HeldRefs(q)') + Cardinality(CallRefs(q)')
                  + Cardinality(AssocRefs(q)') + Cardinality(SlotRefs(q)')
  BY <1>1, <1>5
<1> QED
  BY <1>6 DEF Counted

LEMMA HeldStay ==
  ASSUME NEW q \in Instances, Counted(q), RefsTypeOK, held' = held
  PROVE  /\ IsFiniteSet(HeldRefs(q)')
         /\ Cardinality(HeldRefs(q)') = Cardinality(HeldRefs(q)) + 0
<1>1. HeldRefs(q)' = HeldRefs(q)
  BY DEF HeldRefs
<1>2. IsFiniteSet(HeldRefs(q)) /\ Cardinality(HeldRefs(q)) \in Nat
  BY Finite DEF Counted
<1> QED
  BY <1>1, <1>2

LEMMA AssocsStay ==
  ASSUME NEW q \in Instances, Counted(q), RefsTypeOK, assoc' = assoc
  PROVE  /\ IsFiniteSet(AssocRefs(q)')
         /\ Cardinality(AssocRefs(q)') = Cardinality(AssocRefs(q)) + 0
<1>1. AssocRefs(q)' = AssocRefs(q)
  BY DEF AssocRefs, Owned
<1>2. IsFiniteSet(AssocRefs(q)) /\ Cardinality(AssocRefs(q)) \in Nat
  BY Finite DEF Counted
<1> QED
  BY <1>1, <1>2

LEMMA SlotsStay ==
  ASSUME NEW q \in Instances, Counted(q), RefsTypeOK, slot' = slot
  PROVE  /\ IsFiniteSet(SlotRefs(q)')
         /\ Cardinality(SlotRefs(q)') = Cardinality(SlotRefs(q)) + 0
<1>1. SlotRefs(q)' = SlotRefs(q)
  BY DEF SlotRefs
<1>2. IsFiniteSet(SlotRefs(q)) /\ Cardinality(SlotRefs(q)) \in Nat
  BY Finite DEF Counted
<1> QED
  BY <1>1, <1>2

LEMMA CallsStay ==
  ASSUME NEW q \in Instances, Counted(q), RefsTypeOK, CallRefs(q)' = CallRefs(q)
  PROVE  /\ IsFiniteSet(CallRefs(q)')
         /\ Cardinality(CallRefs(q)') = Cardinality(CallRefs(q)) + 0
<1>1. IsFiniteSet(CallRefs(q)) /\ Cardinality(CallRefs(q)) \in Nat
  BY Finite DEF Counted
<1> QED
  BY <1>1

LEMMA MemorySame ==
  ASSUME NEW q \in Instances, Memory(q), UNCHANGED <<alive, slot, tables, flag, assoc>>,
         count'[q] > 0 => count[q] > 0
  PROVE  Memory(q)'
BY DEF Memory

(* Objects that a thread finds are there.                                  *)
LEMMA LockOwners ==
  ASSUME Parameters, NEW t \in Threads, Locks(t), NEW o \in Instances
  PROVE  /\ assocLock = NoThread => ~At(t, "getassoc")
         /\ slotLock[o] = NoThread => ~(At(t, "getslot") /\ Top(t).obj = o)
         /\ Runs(t) => assocLock # t /\ slotLock[o] # t
<1>1. t # NoThread
  BY DEF Parameters
<1>2. Runs(t) => ~At(t, "getassoc") /\ ~At(t, "getslot")
  BY DEF Runs, At
<1> QED
  BY <1>1, <1>2 DEF Locks

LEMMA GuardObjects ==
  ASSUME RefsTypeOK, Stacks, NEW u \in Threads, Depth(u) # 0
  PROVE  Top(u).obj \in Instances \cup {nil} /\ (Top(u).at \in ActiveLabels => Top(u).obj \in Instances)
<1>1. stack[u] # <<>> /\ Depth(u) \in DOMAIN stack[u] /\ Top(u) = stack[u][Depth(u)]
      /\ stack[u][Depth(u)] \in CallType
  BY StackTypes
<1>2. Arguments(Top(u))
  BY <1>1 DEF Stacks
<1> QED
  BY <1>1, <1>2 DEF CallType, Arguments, ActiveLabels

LEMMA SetterBegins ==
  ASSUME Parameters, RefsIInv, NEW t \in Threads, NEW o \in Instances, Runs(t), MayUse(t, o),
         NEW c \in CallType, c.obj = o, c.at \in {"swap", "swapslot"}, Arguments(c), Begin(t, c),
         NEW w \in Instances \cup {nil}, Owns(c) = Present(w), w # nil => held[t][w] > 0, Retain(w),
         UNCHANGED <<alive, held, associations, properties>>
  PROVE  RefsIInv'
<1> USE DEF associations, properties
<1>1. RefsTypeOK /\ Stacks /\ Progresses
  BY DEF RefsIInv
<1>2. \A q \in Instances : Counted(q) /\ Memory(q) /\ Once(q)
  BY DEF RefsIInv
<1>3. \A u \in Threads : Guards(u) /\ Locks(u)
  BY DEF RefsIInv
<1>4. PICK n \in Nat, p \in Nat : Begun(t, n, p, c)
  BY <1>1, Begins DEF ActiveLabels
<1>5. nil \notin Instances
  BY DEF Parameters
<1>6. /\ count' \in [Instances -> Nat]
      /\ \A q \in Instances : count'[q] = count[q] + One(w = q)
  <2>1. CASE w = nil
    BY <1>1, <1>5, <2>1 DEF Retain, One, RefsTypeOK
  <2>2. CASE w # nil
    BY <1>1, <1>5, <2>2 DEF Retain, One, RefsTypeOK
  <2> QED
    BY <2>1, <2>2
<1>7. RefsTypeOK'
  <2>1. stack' \in [Threads -> Seq(CallType)]
    BY <1>4 DEF Begun, Kept
  <2> QED
    BY <1>1, <1>6, <2>1 DEF RefsTypeOK
<1>8. Stacks' /\ Guards(t)' /\ Kept(t, n)
  BY <1>4 DEF Begun
<1>9. /\ OwnElsewhere(t, p) /\ Progresses'
      /\ \A q \in Instances : Deallocations(q)' = Deallocations(q)
  BY <1>1, <1>4, <1>7, BegunMeans
<1>10. \A u \in Threads : Guards(u)'
  <2>1. ASSUME NEW u \in Threads, u # t PROVE Guards(u)'
    <3>1. Depth(u) # 0 => Top(u).obj \in Instances \cup {nil}
      BY <1>1, GuardObjects
    <3> QED
      BY <1>1, <1>3, <1>8, <2>1, <3>1, GuardsNext
  <2> QED
    BY <1>8, <2>1
<1>11. \A u \in Threads : Locks(u)'
  <2>1. ASSUME NEW u \in Threads, u # t PROVE Locks(u)'
    BY <1>3, <1>8, <2>1, LocksNext
  <2>2. Locks(t)'
    <3>1. assocLock' # t /\ \A q \in Instances : slotLock'[q] # t
      BY <1>3, LockOwners
    <3>2. ~At(t, "getassoc")' /\ ~At(t, "getslot")'
      BY <1>4 DEF Begun, At
    <3> QED
      BY <3>1, <3>2, LocksQuiet
  <2> QED
    BY <2>1, <2>2
<1>12. ASSUME NEW q \in Instances PROVE Counted(q)' /\ Memory(q)' /\ Once(q)'
  <2>1. count[q] \in Nat /\ count'[q] = count[q] + One(w = q)
    BY <1>1, <1>6 DEF RefsTypeOK
  <2>2. w = q => count[q] > 0
    BY <1>1, <1>2, <1>5, HeldIsReferred
  <2>3. Once(q)'
    <3>1. count'[q] = 0 <=> count[q] = 0
      BY <2>1, <2>2 DEF One
    <3> QED
      BY <1>2, <1>9, <3>1, OnceSame
  <2>4. Memory(q)'
    <3>1. count'[q] > 0 => count[q] > 0
      BY <2>1, <2>2 DEF One
    <3> QED
      BY <1>2, <3>1, MemorySame
  <2>5. Counted(q)'
    <3>1. Own(t, p) = {} /\ Own(t, p)' = Present(w)
      BY <1>4 DEF Begun
    <3>2. Own(t, p) = Present(nil)
      BY <3>1 DEF Present
    <3>3. IsFiniteSet(CallRefs(q))
      BY <1>2 DEF Counted
    <3>4. /\ IsFiniteSet(CallRefs(q)') /\ Cardinality(CallRefs(q)') \in Nat
          /\ Cardinality(CallRefs(q)) \in Nat
          /\ Cardinality(CallRefs(q)') = Cardinality(CallRefs(q)) - One(nil = q) + One(w = q)
      BY <1>1, <1>5, <1>7, <1>9, <3>1, <3>2, <3>3, CallCount
    <3>5. PICK d \in {0, 1} : d = One(w = q) /\ One(nil = q) = 0
      BY <1>5 DEF One
    <3>6. Cardinality(CallRefs(q)') = Cardinality(CallRefs(q)) + d
      BY <3>4, <3>5
    <3>7. count'[q] = count[q] + (0 + d + 0 + 0)
      BY <2>1, <3>5
    <3>8. /\ IsFiniteSet(HeldRefs(q)')
          /\ Cardinality(HeldRefs(q)') = Cardinality(HeldRefs(q)) + 0
      BY <1>1, <1>2, HeldStay
    <3>9. /\ IsFiniteSet(AssocRefs(q)')
          /\ Cardinality(AssocRefs(q)') = Cardinality(AssocRefs(q)) + 0
      BY <1>1, <1>2, AssocsStay
    <3>10. /\ IsFiniteSet(SlotRefs(q)')
           /\ Cardinality(SlotRefs(q)') = Cardinality(SlotRefs(q)) + 0
      BY <1>1, <1>2, SlotsStay
    <3> QED
      BY <1>1, <1>2, <3>4, <3>6, <3>7, <3>8, <3>9, <3>10, Balanced
  <2> QED
    BY <2>3, <2>4, <2>5
<1> QED
  BY <1>7, <1>8, <1>9, <1>10, <1>11, <1>12 DEF RefsIInv

-----------------------------------------------------------------------------
(* Setters and getters                                                     *)

LEMMA SetAssociationKeeps ==
  ASSUME Parameters, RefsIInv, NEW t \in Threads, NEW o \in Instances, NEW k \in Keys,
         NEW v \in Instances \cup {nil}, NEW policy \in Policies, SetAssociation(t, o, k, v, policy)
  PROVE  RefsIInv'
<1>1. PICK c \in CallType :
        /\ c = Call("swap", o, k, v, policy) /\ c.at = "swap" /\ c.obj = o /\ c.key = k /\ c.val = v
        /\ c.policy = policy /\ c.todo = {}
  <2>1. "swap" \in Labels
    BY DEF Labels
  <2> QED
    BY <2>1, CallTyped
<1>2. Arguments(c)
  BY <1>1 DEF Arguments
<1>3. PICK w \in Instances \cup {nil} : w = IF policy = "retain" THEN v ELSE nil
  OBVIOUS
<1>4. Owns(c) = Present(w)
  <2>1. Owns(c) = IF policy = "retain" THEN Present(v) ELSE {}
    BY <1>1, <1>2, OwnsValue
  <2> QED
    BY <1>3, <2>1 DEF Present
<1>5. w # nil => held[t][w] > 0
  BY <1>3 DEF SetAssociation, MayPass, Holds
<1>6. Retain(w)
  <2>1. CASE policy = "retain"
    BY <1>3, <2>1 DEF SetAssociation
  <2>2. CASE policy # "retain"
    BY <1>3, <2>2 DEF SetAssociation, Retain
  <2> QED
    BY <2>1, <2>2
<1>7. /\ Runs(t) /\ MayUse(t, o) /\ Begin(t, c)
      /\ UNCHANGED <<alive, held, associations, properties>>
  BY <1>1 DEF SetAssociation
<1> QED
  BY <1>1, <1>2, <1>4, <1>5, <1>6, <1>7, SetterBegins

LEMMA SetPropertyKeeps ==
  ASSUME Parameters, RefsIInv, NEW t \in Threads, NEW o \in Instances, NEW v \in Instances \cup {nil},
         SetProperty(t, o, v)
  PROVE  RefsIInv'
<1>1. PICK c \in CallType :
        /\ c = Call("swapslot", o, nil, v, "retain") /\ c.at = "swapslot" /\ c.obj = o /\ c.val = v
        /\ c.policy = "retain" /\ c.todo = {}
  <2>1. "swapslot" \in Labels /\ "retain" \in Policies
    BY DEF Labels, Policies
  <2> QED
    BY <2>1, CallTyped
<1>2. Arguments(c)
  BY <1>1 DEF Arguments
<1>3. Owns(c) = Present(v)
  BY <1>1, <1>2, OwnsValue
<1>4. v # nil => held[t][v] > 0
  BY DEF SetProperty, MayPass, Holds
<1>5. /\ Runs(t) /\ MayUse(t, o) /\ Begin(t, c) /\ Retain(v)
      /\ UNCHANGED <<alive, held, associations, properties>>
  BY <1>1 DEF SetProperty
<1> QED
  BY <1>1, <1>2, <1>3, <1>4, <1>5, SetterBegins

(* A getter takes a lock, and changes nothing else.                        *)
LEMMA GetterBegins ==
  ASSUME Parameters, RefsIInv, NEW t \in Threads, NEW o \in Instances, Runs(t), MayUse(t, o),
         NEW c \in CallType, c.obj = o, c.at \in {"getassoc", "getslot"}, Arguments(c), Begin(t, c),
         UNCHANGED <<objects, flag, tables, assoc, slot>>,
         assocLock' \in Threads \cup {NoThread}, slotLock' \in [Instances -> Threads \cup {NoThread}],
         \A u \in Threads : u # t =>
           (assocLock' = u <=> assocLock = u) /\ \A q \in Instances : (slotLock'[q] = u <=> slotLock[q] = u),
         Locks(t)'
  PROVE  RefsIInv'
<1> USE DEF objects
<1>1. RefsTypeOK /\ Stacks /\ Progresses
  BY DEF RefsIInv
<1>2. \A q \in Instances : Counted(q) /\ Memory(q) /\ Once(q)
  BY DEF RefsIInv
<1>3. \A u \in Threads : Guards(u) /\ Locks(u)
  BY DEF RefsIInv
<1>4. PICK n \in Nat, p \in Nat : Begun(t, n, p, c)
  BY <1>1, Begins DEF ActiveLabels
<1>5. RefsTypeOK'
  <2>1. stack' \in [Threads -> Seq(CallType)]
    BY <1>4 DEF Begun, Kept
  <2> QED
    BY <1>1, <2>1 DEF RefsTypeOK
<1>6. Stacks' /\ Guards(t)' /\ Kept(t, n)
  BY <1>4 DEF Begun
<1>7. /\ OwnElsewhere(t, p) /\ Progresses'
      /\ \A q \in Instances : Deallocations(q)' = Deallocations(q)
  BY <1>1, <1>4, <1>5, BegunMeans
<1>8. \A u \in Threads : Guards(u)'
  <2>1. ASSUME NEW u \in Threads, u # t PROVE Guards(u)'
    <3>1. Depth(u) # 0 => Top(u).obj \in Instances \cup {nil}
      BY <1>1, GuardObjects
    <3> QED
      BY <1>1, <1>3, <1>6, <2>1, <3>1, GuardsNext
  <2> QED
    BY <1>6, <2>1
<1>9. \A u \in Threads : Locks(u)'
  <2>1. ASSUME NEW u \in Threads, u # t PROVE Locks(u)'
    BY <1>3, <1>6, <2>1, LocksNext
  <2> QED
    BY <2>1
<1>10. \A q \in Instances : CallRefs(q)' = CallRefs(q)
  <2>1. Own(t, p)' = Own(t, p)
    <3>1. Owns(c) = {}
      BY OwnsNothing
    <3> QED
      BY <1>4, <3>1 DEF Begun
  <2>2. \A u \in Threads : \A i \in Nat : Own(u, i)' = Own(u, i)
    BY <1>7, <2>1 DEF OwnElsewhere
  <2> QED
    BY <1>1, <1>5, <2>2, CallRefsSame
<1>11. ASSUME NEW q \in Instances PROVE Counted(q)' /\ Memory(q)' /\ Once(q)'
  <2>1. count'[q] = count[q] /\ count[q] \in Nat
    BY <1>1 DEF RefsTypeOK
  <2>2. Once(q)'
    BY <1>2, <1>7, <2>1, OnceSame
  <2>3. Memory(q)'
    BY <1>2, <2>1, MemorySame
  <2>4. Counted(q)'
    <3>1. HeldRefs(q)' = HeldRefs(q) /\ AssocRefs(q)' = AssocRefs(q) /\ SlotRefs(q)' = SlotRefs(q)
      BY DEF HeldRefs, AssocRefs, SlotRefs, Owned
    <3> QED
      BY <1>2, <1>10, <2>1, <3>1 DEF Counted
  <2> QED
    BY <2>2, <2>3, <2>4
<1> QED
  BY <1>5, <1>6, <1>7, <1>8, <1>9, <1>11 DEF RefsIInv

LEMMA GetAssociationKeeps ==
  ASSUME Parameters, RefsIInv, NEW t \in Threads, NEW o \in Instances, NEW k \in Keys, GetAssociation(t, o, k)
  PROVE  RefsIInv'
<1>1. RefsTypeOK /\ Stacks /\ \A u \in Threads : Locks(u)
  BY DEF RefsIInv
<1>2. PICK v \in Instances : v = assoc[o][k].val /\ Owned(assoc[o][k]) = v
  <2>1. assoc[o][k] \in EntryType /\ Owned(assoc[o][k]) # nil
    BY <1>1 DEF RefsTypeOK, GetAssociation
  <2> QED
    BY <2>1 DEF Owned, EntryType
<1>3. PICK c \in CallType :
        /\ c = Call("getassoc", o, k, v, "retain") /\ c.at = "getassoc" /\ c.obj = o /\ c.key = k
        /\ c.val = v /\ c.policy = "retain" /\ c.todo = {}
  <2>1. "getassoc" \in Labels /\ "retain" \in Policies
    BY DEF Labels, Policies
  <2> QED
    BY <2>1, CallTyped
<1>4. Arguments(c)
  BY <1>3 DEF Arguments
<1>5. /\ Runs(t) /\ MayUse(t, o) /\ assocLock = NoThread /\ assocLock' = t /\ Begin(t, c)
      /\ UNCHANGED <<objects, flag, tables, assoc, slot, slotLock>>
  BY <1>2, <1>3 DEF GetAssociation, properties
<1>6. PICK n \in Nat, p \in Nat : Begun(t, n, p, c)
  <2>1. held' = held
    BY <1>5 DEF objects
  <2> QED
    BY <1>1, <1>3, <1>4, <1>5, <2>1, Begins DEF ActiveLabels
<1>7. Locks(t)'
  <2>1. Top(t)' = c /\ At(t, "getassoc")' /\ ~At(t, "getslot")'
    BY <1>3, <1>6 DEF Begun, At
  <2>2. \A q \in Instances : slotLock'[q] # t
    BY <1>1, <1>5, LockOwners
  <2>3. assoc'[c.obj][c.key] = assoc[o][k]
    BY SMTT(60), <1>3, <1>5
  <2>4. (Owned(assoc[Top(t).obj][Top(t).key]) = Top(t).val)'
    BY <1>2, <1>3, <2>1, <2>3 DEF Owned
  <2> QED
    BY <1>5, <2>1, <2>2, <2>4 DEF Locks
<1>8. \A u \in Threads : u # t =>
        (assocLock' = u <=> assocLock = u) /\ \A q \in Instances : (slotLock'[q] = u <=> slotLock[q] = u)
  BY <1>5 DEF Parameters
<1>9. assocLock' \in Threads \cup {NoThread} /\ slotLock' \in [Instances -> Threads \cup {NoThread}]
  BY <1>1, <1>5 DEF RefsTypeOK
<1> QED
  BY <1>3, <1>4, <1>5, <1>7, <1>8, <1>9, GetterBegins

LEMMA GetPropertyKeeps ==
  ASSUME Parameters, RefsIInv, NEW t \in Threads, NEW o \in Instances, GetProperty(t, o)
  PROVE  RefsIInv'
<1>1. RefsTypeOK /\ Stacks /\ \A u \in Threads : Locks(u)
  BY DEF RefsIInv
<1>2. PICK v \in Instances : v = slot[o]
  BY <1>1 DEF RefsTypeOK, GetProperty
<1>3. PICK c \in CallType :
        /\ c = Call("getslot", o, nil, v, "retain") /\ c.at = "getslot" /\ c.obj = o
        /\ c.val = v /\ c.policy = "retain" /\ c.todo = {}
  <2>1. "getslot" \in Labels /\ "retain" \in Policies
    BY DEF Labels, Policies
  <2> QED
    BY <2>1, CallTyped
<1>4. Arguments(c)
  BY <1>3 DEF Arguments
<1>5. /\ Runs(t) /\ MayUse(t, o) /\ slotLock[o] = NoThread /\ slotLock' = [slotLock EXCEPT ![o] = t]
      /\ Begin(t, c) /\ UNCHANGED <<objects, flag, tables, assoc, slot, assocLock>>
  BY <1>2, <1>3 DEF GetProperty, associations
<1>6. PICK n \in Nat, p \in Nat : Begun(t, n, p, c)
  <2>1. held' = held
    BY <1>5 DEF objects
  <2> QED
    BY <1>1, <1>3, <1>4, <1>5, <2>1, Begins DEF ActiveLabels
<1>7. slotLock'[o] = t /\ \A q \in Instances : q # o => slotLock'[q] = slotLock[q]
  BY <1>1, <1>5 DEF RefsTypeOK
<1>8. Locks(t)'
  <2>1. Top(t)' = c /\ At(t, "getslot")' /\ ~At(t, "getassoc")'
    BY <1>3, <1>6 DEF Begun, At
  <2>2. assocLock' # t /\ \A q \in Instances : slotLock[q] # t
    BY <1>1, <1>5, LockOwners
  <2>3. \A q \in Instances : slotLock'[q] = t <=> c.obj = q
    BY <1>3, <1>7, <2>2
  <2>4. (slot[Top(t).obj] = Top(t).val)'
    BY <1>2, <1>3, <1>5, <2>1
  <2> QED
    BY <2>1, <2>2, <2>3, <2>4 DEF Locks
<1>9. \A u \in Threads : u # t =>
        (assocLock' = u <=> assocLock = u) /\ \A q \in Instances : (slotLock'[q] = u <=> slotLock[q] = u)
  BY <1>5, <1>7 DEF Parameters
<1>10. assocLock' \in Threads \cup {NoThread} /\ slotLock' \in [Instances -> Threads \cup {NoThread}]
  BY <1>1, <1>5 DEF RefsTypeOK
<1> QED
  BY <1>3, <1>4, <1>5, <1>8, <1>9, <1>10, GetterBegins

(* A setter or getter has gone on to release T.                            *)
LEMMA GoneMeans ==
  ASSUME RefsTypeOK, Stacks, NEW t \in Threads, stack[t] # <<>>, Top(t).at \notin DeallocLabels,
         NEW n, Settled(t, n),
         \A i \in Nat : i > n + 1 => Own(t, i)' = {},
         \A i \in Nat : i > n => \A o \in Instances : ~Deals(t, i, o)'
  PROVE  /\ OwnElsewhere(t, n + 1) /\ Own(t, n + 1) = Owns(Top(t))
         /\ RefsTypeOK' => \A q \in Instances : Deallocations(q)' = Deallocations(q)
<1>1. n \in Nat /\ Kept(t, n) /\ Depth(t) = n + 1
  BY DEF Settled
<1>2. n + 1 \in DOMAIN stack[t] /\ Top(t) = stack[t][n + 1]
  BY <1>1, StackTypes
<1>3. \A i \in Nat : i > n + 1 => Own(t, i) = {} /\ \A q : ~Deals(t, i, q)
  BY <1>1, Beyond
<1>4. \A q : ~Deals(t, n + 1, q)
  BY <1>2 DEF Deals
<1>5. \A i \in Nat : i > n => i = n + 1 \/ i > n + 1
  BY <1>1
<1>6. OwnElsewhere(t, n + 1)
  <2>1. \A i \in Nat : i > n /\ i # n + 1 => Own(t, i)' = Own(t, i)
    BY <1>3, <1>5
  <2>2. n + 1 \in Nat
    BY <1>1
  <2> QED
    BY <1>1, <2>1, <2>2, OwnOneChanges
<1>7. ASSUME RefsTypeOK', NEW q \in Instances PROVE Deallocations(q)' = Deallocations(q)
  <2>1. \A i \in Nat : i > n => \A o \in Instances : (Deals(t, i, o)' <=> Deals(t, i, o))
    BY <1>3, <1>4, <1>5
  <2>2. \A u \in Threads : \A i \in Nat : (Deals(u, i, q)' <=> Deals(u, i, q))
    BY <1>1, <2>1, DealsNoneChanges
  <2> QED
    BY <1>7, <2>2, DeallocationsSame
<1>8. Own(t, n + 1) = Owns(Top(t))
  BY <1>2 DEF Own
<1> QED
  BY <1>6, <1>7, <1>8

LEMMA GetterEnds ==
  ASSUME Parameters, RefsIInv, NEW t \in Threads, stack[t] # <<>>, Top(t).at \in {"getassoc", "getslot"},
         NEW v \in Instances, count[v] > 0, Continue(t, <<>>),
         count' = [count EXCEPT ![v] = @ + 1], held' = [held EXCEPT ![t][v] = @ + 1],
         UNCHANGED <<alive, flag, tables, assoc, slot>>,
         assocLock' \in Threads \cup {NoThread}, slotLock' \in [Instances -> Threads \cup {NoThread}],
         \A u \in Threads : u # t =>
           (assocLock' = u <=> assocLock = u) /\ \A q \in Instances : (slotLock'[q] = u <=> slotLock[q] = u),
         assocLock' # t, \A q \in Instances : slotLock'[q] # t
  PROVE  RefsIInv'
<1>1. RefsTypeOK /\ Stacks /\ Progresses
  BY DEF RefsIInv
<1>2. \A q \in Instances : Counted(q) /\ Memory(q) /\ Once(q)
  BY DEF RefsIInv
<1>3. \A u \in Threads : Guards(u) /\ Locks(u)
  BY DEF RefsIInv
<1>4. PICK n : n = Depth(t) - 1
  OBVIOUS
<1>5. /\ Settled(t, n)
      /\ Own(t, n + 1)' = {} /\ \A i \in Nat : i > n + 1 => Own(t, i)' = {}
      /\ \A i \in Nat : i > n => \A o \in Instances : ~Deals(t, i, o)'
      /\ \A i \in Nat : i > n /\ i <= Depth(t)' => stack'[t][i].at = "release"
  <2>1. PICK T \in SUBSET ((Keys \cup {nil}) \X Instances) : T = {} /\ ReleaseAll(T) = <<>>
    BY ReleaseAllTyped
  <2>2. Continue(t, ReleaseAll(T))
    BY <2>1
  <2> QED
    BY <1>1, <1>4, <2>1, <2>2, Goes
<1>6. /\ Stacks' /\ Guards(t)' /\ Kept(t, n) /\ ~At(t, "getassoc")' /\ ~At(t, "getslot")' /\ n \in Nat
  BY <1>5 DEF Settled
<1>7. PICK c \in Nat : c = count[v] /\ c > 0
  BY <1>1 DEF RefsTypeOK
<1>8. /\ count' \in [Instances -> Nat] /\ count'[v] = c + 1
      /\ \A q \in Instances : q # v => count'[q] = count[q]
  BY <1>1, <1>7 DEF RefsTypeOK
<1>9. /\ held' \in [Threads -> [Instances -> Nat]]
      /\ \A u \in Threads : u # t => held'[u] = held[u]
  BY <1>1 DEF RefsTypeOK
<1>10. RefsTypeOK'
  <2>1. stack' \in [Threads -> Seq(CallType)]
    BY <1>6 DEF Kept
  <2> QED
    BY <1>1, <1>8, <1>9, <2>1 DEF RefsTypeOK
<1>11. /\ OwnElsewhere(t, n + 1) /\ Own(t, n + 1) = Owns(Top(t))
       /\ \A q \in Instances : Deallocations(q)' = Deallocations(q)
  BY <1>1, <1>5, <1>10, GoneMeans DEF DeallocLabels
<1>12. Progresses'
  <2>1. ASSUME NEW d, Progress(d) PROVE Progress(d)'
    BY <2>1, ProgressSame
  <2>2. ASSUME NEW i \in Nat, i > n, i <= Depth(t)', NEW d \in CallType, d = stack'[t][i]
        PROVE  Progress(d)'
    <3>1. d.at = "release"
      BY <1>5, <2>2
    <3> QED
      BY <3>1 DEF Progress
  <2> QED
    BY <1>1, <1>6, <2>1, <2>2, ProgressesNext
<1>13. \A u \in Threads : Guards(u)'
  <2>1. ASSUME NEW u \in Threads, u # t PROVE Guards(u)'
    <3>1. Depth(u) # 0 => Top(u).obj \in Instances \cup {nil}
      BY <1>1, GuardObjects
    <3>2. held'[u] = held[u]
      BY <1>9, <2>1
    <3> QED
      BY <1>1, <1>3, <1>6, <2>1, <3>1, <3>2, GuardsNext
  <2> QED
    BY <1>6, <2>1
<1>14. \A u \in Threads : Locks(u)'
  <2>1. ASSUME NEW u \in Threads, u # t PROVE Locks(u)'
    BY <1>3, <1>6, <2>1, LocksNext
  <2>2. Locks(t)'
    BY <1>6, LocksQuiet
  <2> QED
    BY <2>1, <2>2
<1>15. \A q \in Instances : CallRefs(q)' = CallRefs(q)
  <2>1. Own(t, n + 1)' = Own(t, n + 1)
    <3>1. Top(t) \in CallType /\ Arguments(Top(t))
      BY <1>1, StackTypes DEF Stacks
    <3>2. Owns(Top(t)) = {}
      BY <3>1, OwnsNothing
    <3> QED
      BY <1>5, <1>11, <3>2
  <2>2. \A u \in Threads : \A i \in Nat : Own(u, i)' = Own(u, i)
    BY <1>11, <2>1 DEF OwnElsewhere
  <2> QED
    BY <1>1, <1>10, <2>2, CallRefsSame
<1>16. ASSUME NEW q \in Instances PROVE Counted(q)' /\ Memory(q)' /\ Once(q)'
  <2>1. count[q] \in Nat /\ count'[q] = count[q] + One(q = v) /\ (q = v => count[q] > 0)
    <3>1. count[q] \in Nat
      BY <1>1 DEF RefsTypeOK
    <3>2. CASE q = v
      BY <1>7, <1>8, <3>2 DEF One
    <3>3. CASE q # v
      BY <1>8, <3>1, <3>3 DEF One
    <3> QED
      BY <3>1, <3>2, <3>3
  <2>2. Once(q)'
    <3>1. count'[q] = 0 <=> count[q] = 0
      BY <2>1 DEF One
    <3> QED
      BY <1>2, <1>11, <3>1, OnceSame
  <2>3. Memory(q)'
    <3>1. count'[q] > 0 => count[q] > 0
      BY <2>1 DEF One
    <3> QED
      BY <1>2, <3>1, MemorySame
  <2>4. Counted(q)'
    <3>1. PICK d \in {0, 1} : d = One(q = v)
      BY DEF One
    <3>2. IsFiniteSet(HeldRefs(q))
      BY <1>2 DEF Counted
    <3>3. /\ IsFiniteSet(HeldRefs(q)')
          /\ Cardinality(HeldRefs(q)') = Cardinality(HeldRefs(q)) + d
      <4>1. /\ IsFiniteSet(HeldRefs(q)')
            /\ Cardinality(HeldRefs(q)') = Cardinality(HeldRefs(q)) + One(q = v)
        <5>1. HoldsMore(t, v)
          BY DEF HoldsMore
        <5> QED
          BY <1>1, <3>2, <5>1, HeldMore
      <4> QED
        BY <3>1, <4>1
    <3>4. count'[q] = count[q] + (d + 0 + 0 + 0)
      BY <2>1, <3>1
    <3>5. /\ IsFiniteSet(CallRefs(q)')
          /\ Cardinality(CallRefs(q)') = Cardinality(CallRefs(q)) + 0
      BY <1>1, <1>2, <1>15, CallsStay
    <3>6. /\ IsFiniteSet(AssocRefs(q)')
          /\ Cardinality(AssocRefs(q)') = Cardinality(AssocRefs(q)) + 0
      BY <1>1, <1>2, AssocsStay
    <3>7. /\ IsFiniteSet(SlotRefs(q)')
           /\ Cardinality(SlotRefs(q)') = Cardinality(SlotRefs(q)) + 0
      BY <1>1, <1>2, SlotsStay
    <3> QED
      BY <1>1, <1>2, <3>3, <3>4, <3>5, <3>6, <3>7, Balanced
  <2> QED
    BY <2>2, <2>3, <2>4
<1> QED
  BY <1>6, <1>10, <1>12, <1>13, <1>14, <1>16 DEF RefsIInv

LEMMA RetainAssociationKeeps ==
  ASSUME Parameters, RefsIInv, NEW t \in Threads, RetainAssociation(t)
  PROVE  RefsIInv'
<1>1. RefsTypeOK /\ Stacks /\ Locks(t) /\ \A q \in Instances : Counted(q)
  BY DEF RefsIInv
<1>2. stack[t] # <<>> /\ Top(t).at = "getassoc" /\ At(t, "getassoc")
  BY DEF RetainAssociation, At
<1>3. PICK v \in Instances, o \in Instances, k \in Keys :
        v = Top(t).val /\ o = Top(t).obj /\ k = Top(t).key
  BY <1>1, <1>2, StackTypes DEF Stacks, Arguments
<1>4. count[v] > 0
  <2>1. Owned(assoc[o][k]) = v
    BY <1>1, <1>2, <1>3 DEF Locks
  <2> QED
    BY <1>1, <2>1, AssocIsReferred
<1>5. assocLock = t /\ ~At(t, "getslot")
  BY <1>1, <1>2 DEF Locks, At
<1>6. \A q \in Instances : slotLock[q] # t
  BY <1>1, <1>5 DEF Locks
<1>7. /\ count' = [count EXCEPT ![v] = @ + 1] /\ held' = [held EXCEPT ![t][v] = @ + 1]
      /\ assocLock' = NoThread /\ Continue(t, <<>>)
      /\ UNCHANGED <<alive, flag, tables, assoc, slot, slotLock>>
  BY <1>3 DEF RetainAssociation, Retain, Parameters, properties
<1>8. slotLock' \in [Instances -> Threads \cup {NoThread}]
  BY <1>1, <1>7 DEF RefsTypeOK
<1> QED
  BY <1>2, <1>4, <1>5, <1>6, <1>7, <1>8, GetterEnds DEF Parameters

LEMMA RetainPropertyKeeps ==
  ASSUME Parameters, RefsIInv, NEW t \in Threads, RetainProperty(t)
  PROVE  RefsIInv'
<1>1. RefsTypeOK /\ Stacks /\ Locks(t) /\ \A q \in Instances : Counted(q)
  BY DEF RefsIInv
<1>2. stack[t] # <<>> /\ Top(t).at = "getslot" /\ At(t, "getslot")
  BY DEF RetainProperty, At
<1>3. PICK v \in Instances, o \in Instances : v = Top(t).val /\ o = Top(t).obj
  BY <1>1, <1>2, StackTypes DEF Stacks, Arguments
<1>4. count[v] > 0
  <2>1. slot[o] = v
    BY <1>1, <1>2, <1>3 DEF Locks
  <2> QED
    BY <1>1, <2>1, SlotIsReferred
<1>5. /\ assocLock # t /\ \A q \in Instances : slotLock[q] = t <=> o = q
  BY <1>1, <1>2, <1>3 DEF Locks, At
<1>6. /\ count' = [count EXCEPT ![v] = @ + 1] /\ held' = [held EXCEPT ![t][v] = @ + 1]
      /\ slotLock' = [slotLock EXCEPT ![o] = NoThread] /\ Continue(t, <<>>)
      /\ UNCHANGED <<alive, flag, tables, assoc, slot, assocLock>>
  BY <1>3 DEF RetainProperty, Retain, Parameters, associations
<1>7. slotLock' \in [Instances -> Threads \cup {NoThread}] /\ assocLock' \in Threads \cup {NoThread}
  BY <1>1, <1>6 DEF RefsTypeOK
<1>8. slotLock'[o] = NoThread /\ \A q \in Instances : q # o => slotLock'[q] = slotLock[q]
  BY <1>1, <1>6 DEF RefsTypeOK
<1>9. NoThread \notin Threads
  BY DEF Parameters
<1>10. \A q \in Instances : slotLock'[q] # t
  BY <1>5, <1>8, <1>9
<1>11. \A u \in Threads : u # t =>
         (assocLock' = u <=> assocLock = u) /\ \A q \in Instances : (slotLock'[q] = u <=> slotLock[q] = u)
  BY <1>5, <1>6, <1>8, <1>9
<1> QED
  BY <1>2, <1>4, <1>5, <1>6, <1>7, <1>10, <1>11, GetterEnds

(* The object a setter or getter is about is not being deallocated, except *)
(* by the -dealloc method that called.                                     *)
LEMMA UserAlone ==
  ASSUME RefsTypeOK, Stacks, NEW t \in Threads, Guards(t), stack[t] # <<>>, Top(t).at \in ActiveLabels,
         NEW o \in Instances, o = Top(t).obj, Counted(o), Memory(o), Once(o)
  PROVE  /\ o \in alive
         /\ \A u \in Threads : \A i \in DOMAIN stack[u] : stack[u][i].obj = o =>
              stack[u][i].at \notin {"remove", "free"}
<1>1. Depth(t) # 0 /\ Depth(t) \in Nat /\ DOMAIN stack[t] = 1..Depth(t)
  BY StackTypes
<1>2. CASE held[t][o] > 0
  <2>1. count[o] > 0
    BY <1>2, HeldIsReferred
  <2>2. o \in alive
    BY <2>1 DEF Memory
  <2>3. ASSUME NEW u \in Threads, NEW i \in DOMAIN stack[u], stack[u][i].obj = o,
               stack[u][i].at \in {"remove", "free"}
        PROVE  FALSE
    <3>1. Deals(u, i, o) /\ i \in Nat
      BY <2>3, Domains DEF Deals, DeallocLabels
    <3>2. count[o] = 0
      BY <3>1, TwoDeallocations
    <3> QED
      BY <2>1, <3>2
  <2> QED
    BY <2>2, <2>3
<1>3. CASE /\ Depth(t) >= 2
           /\ stack[t][Depth(t) - 1].at = "destruct" /\ stack[t][Depth(t) - 1].obj = o
  <2>1. PICK j \in Nat : j = Depth(t) - 1 /\ j \in DOMAIN stack[t]
    BY <1>1, <1>3
  <2>2. Deals(t, j, o)
    BY <1>3, <2>1 DEF Deals, DeallocLabels
  <2>3. /\ o \in alive
        /\ \A u \in Threads : \A i \in Nat : Deals(u, i, o) => u = t /\ i = j
    BY <2>1, <2>2, TwoDeallocations
  <2>4. ASSUME NEW u \in Threads, NEW i \in DOMAIN stack[u], stack[u][i].obj = o,
               stack[u][i].at \in {"remove", "free"}
        PROVE  FALSE
    <3>1. Deals(u, i, o) /\ i \in Nat
      BY <2>4, Domains DEF Deals, DeallocLabels
    <3>2. u = t /\ i = j
      BY <2>3, <3>1
    <3> QED
      BY <1>3, <2>1, <2>4, <3>2
  <2> QED
    BY <2>3, <2>4
<1> QED
  BY <1>1, <1>2, <1>3 DEF Guards

(* A call that is not of a deallocation has gone on to release T.          *)
LEMMA GoesOn ==
  ASSUME RefsTypeOK, Stacks, NEW t \in Threads, stack[t] # <<>>, Top(t).at \notin DeallocLabels,
         NEW T \in SUBSET ((Keys \cup {nil}) \X Instances), Continue(t, ReleaseAll(T)),
         NEW n, n = Depth(t) - 1
  PROVE  /\ Settled(t, n) /\ Kept(t, n) /\ n \in Nat
         /\ OwnElsewhere(t, n + 1) /\ Own(t, n + 1) = Owns(Top(t)) /\ Own(t, n + 1)' = T
         /\ RefsTypeOK' => \A q \in Instances : Deallocations(q)' = Deallocations(q)
         /\ \A i \in Nat : i > n /\ i <= Depth(t)' => stack'[t][i].at = "release"
<1>1. /\ Settled(t, n)
      /\ Own(t, n + 1)' = T /\ \A i \in Nat : i > n + 1 => Own(t, i)' = {}
      /\ \A i \in Nat : i > n => \A o \in Instances : ~Deals(t, i, o)'
      /\ \A i \in Nat : i > n /\ i <= Depth(t)' => stack'[t][i].at = "release"
  BY Goes
<1>2. /\ OwnElsewhere(t, n + 1) /\ Own(t, n + 1) = Owns(Top(t))
      /\ RefsTypeOK' => \A q \in Instances : Deallocations(q)' = Deallocations(q)
  BY <1>1, GoneMeans
<1>3. Kept(t, n) /\ n \in Nat
  BY <1>1 DEF Settled
<1> QED
  BY <1>1, <1>2, <1>3

(* What is done to an object that is not being freed leaves the progress   *)
(* of deallocations alone.                                                 *)
LEMMA ProgressNear ==
  ASSUME RefsTypeOK, Stacks, Progresses, NEW t \in Threads, NEW n, Kept(t, n), NEW o \in Instances,
         \A u \in Threads : \A i \in DOMAIN stack[u] : stack[u][i].obj = o /\ ~(u = t /\ i > n) =>
           stack[u][i].at \notin {"remove", "free"},
         \A q \in Instances : q # o =>
           slot'[q] = slot[q] /\ flag'[q] = flag[q] /\ (q \in tables' <=> q \in tables),
         \A i \in Nat : i > n /\ i <= Depth(t)' =>
           \A c \in CallType : c = stack'[t][i] => Progress(c)'
  PROVE  Progresses'
<1>1. ASSUME NEW u \in Threads, NEW i \in DOMAIN stack[u], ~(u = t /\ i > n),
             NEW c \in CallType, c = stack[u][i], Progress(c)
      PROVE  Progress(c)'
  <2>1. CASE c.at \in {"remove", "free"}
    <3>1. c.obj \in Instances /\ c.obj # o
      BY <1>1, <2>1 DEF Stacks, Arguments
    <3>2. slot'[c.obj] = slot[c.obj] /\ flag'[c.obj] = flag[c.obj] /\ (c.obj \in tables' <=> c.obj \in tables)
      BY <3>1
    <3> QED
      BY <1>1, <3>2 DEF Progress
  <2>2. CASE c.at \notin {"remove", "free"}
    BY <2>2 DEF Progress
  <2> QED
    BY <2>1, <2>2
<1> QED
  BY <1>1, ProgressesNext

LEMMA SwapKeeps ==
  ASSUME Parameters, RefsIInv, NEW t \in Threads, Swap(t)
  PROVE  RefsIInv'
<1>1. RefsTypeOK /\ Stacks /\ Progresses
  BY DEF RefsIInv
<1>2. \A q \in Instances : Counted(q) /\ Memory(q) /\ Once(q)
  BY DEF RefsIInv
<1>3. \A u \in Threads : Guards(u) /\ Locks(u)
  BY DEF RefsIInv
<1>4. nil \notin Instances /\ NoThread \notin Threads
  BY DEF Parameters
<1>5. stack[t] # <<>> /\ Top(t).at = "swap" /\ assocLock = NoThread
  BY DEF Swap, At
<1>6. PICK c \in CallType : c = Top(t) /\ Arguments(c) /\ c.at = "swap" /\ c.obj \in Instances /\ c.key \in Keys
  BY <1>1, <1>5, StackTypes DEF Stacks, Arguments
<1>7. PICK o \in Instances, k \in Keys, v \in Instances \cup {nil}, policy \in Policies :
        o = c.obj /\ k = c.key /\ v = c.val /\ policy = c.policy
  BY <1>6 DEF CallType
<1>8. PICK e \in EntryType : e = IF v # nil THEN [policy |-> policy, val |-> v] ELSE NoEntry
  <2>1. [policy |-> policy, val |-> v] \in EntryType /\ NoEntry \in EntryType
    BY DEF EntryType, NoEntry, Policies
  <2> QED
    BY <2>1
<1>9. PICK w \in Instances \cup {nil} : w = Owned(e)
  BY DEF EntryType, Owned
<1>10. PICK x \in Instances \cup {nil} : x = Owned(assoc[o][k])
  BY <1>1 DEF EntryType, Owned, RefsTypeOK
<1>11. Owns(c) = Present(w)
  <2>1. Owns(c) = IF policy = "retain" THEN Present(v) ELSE {}
    BY <1>6, <1>7, OwnsValue
  <2>2. CASE v = nil
    BY <1>8, <1>9, <2>1, <2>2 DEF Present, Owned, NoEntry
  <2>3. CASE v # nil
    BY <1>8, <1>9, <2>1, <2>3 DEF Present, Owned
  <2> QED
    BY <2>2, <2>3
<1>12. /\ Continue(t, ReleaseAll(Present(x)))
       /\ assoc' = [assoc EXCEPT ![o][k] = e]
       /\ UNCHANGED <<objects, assocLock, properties>>
  <2>1. CASE v = nil
    BY <1>6, <1>7, <1>8, <1>10, <2>1 DEF Swap
  <2>2. CASE v # nil
    BY <1>6, <1>7, <1>8, <1>10, <2>2 DEF Swap
  <2> QED
    BY <2>1, <2>2
<1>13. \/ /\ v # nil /\ tables' = tables \cup {o}
          /\ flag' = IF o \in tables THEN flag ELSE [flag EXCEPT ![o] = TRUE]
       \/ v = nil /\ e = NoEntry /\ tables' = tables /\ flag' = flag
  BY <1>6, <1>7, <1>8 DEF Swap
<1>14. UNCHANGED <<alive, count, held, slot, slotLock>>
  BY <1>12 DEF objects, properties
<1>15. PICK n : n = Depth(t) - 1
  OBVIOUS
<1>16. PICK T \in SUBSET ((Keys \cup {nil}) \X Instances) : T = Present(x)
  BY PresentTyped
<1>17. /\ Settled(t, n) /\ Kept(t, n) /\ n \in Nat
       /\ OwnElsewhere(t, n + 1) /\ Own(t, n + 1) = Owns(Top(t)) /\ Own(t, n + 1)' = T
       /\ RefsTypeOK' => \A q \in Instances : Deallocations(q)' = Deallocations(q)
       /\ \A i \in Nat : i > n /\ i <= Depth(t)' => stack'[t][i].at = "release"
  <2>1. Continue(t, ReleaseAll(T)) /\ Top(t).at \notin DeallocLabels
    BY <1>5, <1>12, <1>16 DEF DeallocLabels
  <2> QED
    BY <1>1, <1>5, <1>15, <2>1, GoesOn
<1>18. Stacks' /\ Guards(t)' /\ ~At(t, "getassoc")' /\ ~At(t, "getslot")'
  BY <1>17 DEF Settled
<1>19. /\ assoc' \in [Instances -> [Keys -> EntryType]] /\ assoc'[o][k] = e
       /\ \A q \in Instances : q # o => assoc'[q] = assoc[q]
       /\ \A j \in Keys : j # k => assoc'[o][j] = assoc[o][j]
  BY <1>1, <1>12 DEF RefsTypeOK
<1>20. /\ flag' \in [Instances -> BOOLEAN] /\ tables' \subseteq Instances
       /\ \A q \in Instances : q # o => flag'[q] = flag[q] /\ (q \in tables' <=> q \in tables)
  BY <1>1, <1>13 DEF RefsTypeOK
<1>21. RefsTypeOK'
  <2>1. stack' \in [Threads -> Seq(CallType)]
    BY <1>17 DEF Kept
  <2> QED
    BY <1>1, <1>12, <1>14, <1>19, <1>20, <2>1 DEF RefsTypeOK
<1>22. /\ o \in alive
       /\ \A u \in Threads : \A i \in DOMAIN stack[u] : stack[u][i].obj = o =>
            stack[u][i].at \notin {"remove", "free"}
  BY <1>1, <1>2, <1>3, <1>5, <1>6, <1>7, UserAlone DEF ActiveLabels
<1>23. Progresses'
  <2>1. ASSUME NEW i \in Nat, i > n, i <= Depth(t)', NEW d \in CallType, d = stack'[t][i]
        PROVE  Progress(d)'
    <3>1. d.at = "release"
      BY <1>17, <2>1
    <3> QED
      BY <3>1 DEF Progress
  <2>2. \A q \in Instances : q # o =>
          slot'[q] = slot[q] /\ flag'[q] = flag[q] /\ (q \in tables' <=> q \in tables)
    BY <1>14, <1>20
  <2> QED
    BY <1>1, <1>17, <1>22, <2>1, <2>2, ProgressNear
<1>24. \A u \in Threads : Guards(u)'
  <2>1. ASSUME NEW u \in Threads, u # t PROVE Guards(u)'
    <3>1. Depth(u) # 0 => Top(u).obj \in Instances \cup {nil}
      BY <1>1, GuardObjects
    <3> QED
      BY <1>1, <1>3, <1>14, <1>17, <2>1, <3>1, GuardsNext
  <2> QED
    BY <1>18, <2>1
<1>25. \A u \in Threads : Locks(u)'
  <2>1. ASSUME NEW u \in Threads, u # t PROVE Locks(u)'
    <3>1. ~At(u, "getassoc")
      BY <1>3, <1>4, <1>5 DEF Locks
    <3> QED
      BY <1>3, <1>12, <1>14, <1>17, <2>1, <3>1, LocksNext
  <2>2. Locks(t)'
    <3>1. assocLock' # t /\ \A q \in Instances : slotLock'[q] # t
      <4>1. ~At(t, "getassoc") /\ ~At(t, "getslot")
        BY <1>5 DEF At
      <4> QED
        BY <1>3, <1>12, <1>14, <4>1 DEF Locks
    <3> QED
      BY <1>18, <3>1, LocksQuiet
  <2> QED
    BY <2>1, <2>2
<1>26. ASSUME NEW q \in Instances PROVE Counted(q)' /\ Memory(q)' /\ Once(q)'
  <2>1. Once(q)'
    <3>1. Deallocations(q)' = Deallocations(q)
      BY <1>17, <1>21
    <3> QED
      BY <1>2, <1>14, <3>1, OnceSame
  <2>2. Memory(q)'
    <3>1. CASE q # o
      BY <1>2, <1>14, <1>19, <1>20, <3>1 DEF Memory
    <3>2. CASE q = o
      <4>1. CASE v # nil
        <5>1. o \in tables' /\ flag'[o]
          <6>1. CASE o \in tables
            BY <1>2, <1>13, <4>1, <6>1 DEF Memory
          <6>2. CASE o \notin tables
            BY <1>1, <1>13, <4>1, <6>2 DEF RefsTypeOK
          <6> QED
            BY <6>1, <6>2
        <5> QED
          BY <1>2, <1>14, <1>22, <3>2, <5>1 DEF Memory
      <4>2. CASE v = nil
        <5>1. o \notin tables => \A j \in Keys : assoc'[o][j] = NoEntry
          BY <1>2, <1>13, <1>19, <4>2 DEF Memory
        <5> QED
          BY <1>2, <1>13, <1>14, <1>22, <3>2, <4>2, <5>1 DEF Memory
      <4> QED
        BY <4>1, <4>2
    <3> QED
      BY <3>1, <3>2
  <2>3. Counted(q)'
    <3>1. IsFiniteSet(CallRefs(q)) /\ IsFiniteSet(AssocRefs(q))
      BY <1>2 DEF Counted
    <3>2. /\ IsFiniteSet(CallRefs(q)') /\ Cardinality(CallRefs(q)') \in Nat
          /\ Cardinality(CallRefs(q)) \in Nat
          /\ Cardinality(CallRefs(q)') = Cardinality(CallRefs(q)) - One(w = q) + One(x = q)
      <4>1. /\ n + 1 \in Nat /\ Own(t, n + 1) = Present(w) /\ Own(t, n + 1)' = Present(x)
        BY <1>6, <1>11, <1>16, <1>17
      <4> QED
        BY <1>1, <1>4, <1>17, <1>21, <3>1, <4>1, CallCount
    <3>3. /\ IsFiniteSet(AssocRefs(q)') /\ Cardinality(AssocRefs(q)') \in Nat
          /\ Cardinality(AssocRefs(q)) \in Nat
          /\ Cardinality(AssocRefs(q)')
               = Cardinality(AssocRefs(q)) - One(Owned(assoc[o][k]) = q) + One(Owned(e) = q)
      <4>1. Associates(o, k, e)
        BY <1>12 DEF Associates
      <4> QED
        BY <1>1, <3>1, <4>1, AssocCount
    <3>4. PICK a \in {0, 1}, b \in {0, 1} : /\ a = One(w = q) /\ b = One(x = q)
                                            /\ b = One(Owned(assoc[o][k]) = q) /\ a = One(Owned(e) = q)
      BY <1>9, <1>10 DEF One
    <3>5. PICK d \in Int, f \in Int : d = b - a /\ f = a - b
      OBVIOUS
    <3>6. Cardinality(CallRefs(q)') = Cardinality(CallRefs(q)) + d
      BY <3>2, <3>4, <3>5
    <3>7. Cardinality(AssocRefs(q)') = Cardinality(AssocRefs(q)) + f
      BY <3>3, <3>4, <3>5
    <3>8. count'[q] = count[q] + (0 + d + f + 0)
      <4>1. 0 + d + f + 0 = 0
        BY <3>5
      <4>2. count[q] \in Nat /\ count'[q] = count[q]
        BY <1>1, <1>14 DEF RefsTypeOK
      <4> QED
        BY <4>1, <4>2
    <3>9. /\ IsFiniteSet(HeldRefs(q)')
          /\ Cardinality(HeldRefs(q)') = Cardinality(HeldRefs(q)) + 0
      BY <1>1, <1>2, <1>14, HeldStay
    <3>10. /\ IsFiniteSet(SlotRefs(q)')
           /\ Cardinality(SlotRefs(q)') = Cardinality(SlotRefs(q)) + 0
      BY <1>1, <1>2, <1>14, SlotsStay
    <3> QED
      BY <1>1, <1>2, <3>2, <3>3, <3>6, <3>7, <3>8, <3>9, <3>10, Balanced
  <2> QED
    BY <2>1, <2>2, <2>3
<1> QED
  BY <1>18, <1>21, <1>23, <1>24, <1>25, <1>26 DEF RefsIInv

LEMMA SwapSlotKeeps ==
  ASSUME Parameters, RefsIInv, NEW t \in Threads, SwapSlot(t)
  PROVE  RefsIInv'
<1>1. RefsTypeOK /\ Stacks /\ Progresses
  BY DEF RefsIInv
<1>2. \A q \in Instances : Counted(q) /\ Memory(q) /\ Once(q)
  BY DEF RefsIInv
<1>3. \A u \in Threads : Guards(u) /\ Locks(u)
  BY DEF RefsIInv
<1>4. nil \notin Instances /\ NoThread \notin Threads
  BY DEF Parameters
<1>5. stack[t] # <<>> /\ Top(t).at = "swapslot" /\ slotLock[Top(t).obj] = NoThread
  BY DEF SwapSlot, At
<1>6. PICK c \in CallType : /\ c = Top(t) /\ Arguments(c) /\ c.at = "swapslot" /\ c.obj \in Instances
                            /\ c.policy = "retain"
  BY <1>1, <1>5, StackTypes DEF Stacks, Arguments
<1>7. PICK o \in Instances, w \in Instances \cup {nil} : o = c.obj /\ w = c.val
  BY <1>6 DEF CallType
<1>8. PICK x \in Instances \cup {nil} : x = slot[o]
  BY <1>1 DEF RefsTypeOK
<1>9. Owns(c) = Present(w)
  BY <1>6, <1>7, OwnsValue
<1>10. /\ Continue(t, ReleaseAll(Present(x))) /\ Stores(o, w)
       /\ UNCHANGED <<objects, associations, slotLock>>
  BY <1>6, <1>7, <1>8 DEF SwapSlot, Stores
<1>11. UNCHANGED <<alive, count, held, flag, tables, assoc, assocLock, slotLock>>
  BY <1>10 DEF objects, associations
<1>12. PICK n : n = Depth(t) - 1
  OBVIOUS
<1>13. PICK T \in SUBSET ((Keys \cup {nil}) \X Instances) : T = Present(x)
  BY PresentTyped
<1>14. /\ Settled(t, n) /\ Kept(t, n) /\ n \in Nat
       /\ OwnElsewhere(t, n + 1) /\ Own(t, n + 1) = Owns(Top(t)) /\ Own(t, n + 1)' = T
       /\ RefsTypeOK' => \A q \in Instances : Deallocations(q)' = Deallocations(q)
       /\ \A i \in Nat : i > n /\ i <= Depth(t)' => stack'[t][i].at = "release"
  <2>1. Continue(t, ReleaseAll(T)) /\ Top(t).at \notin DeallocLabels
    BY <1>5, <1>10, <1>13 DEF DeallocLabels
  <2> QED
    BY <1>1, <1>5, <1>12, <2>1, GoesOn
<1>15. Stacks' /\ Guards(t)' /\ ~At(t, "getassoc")' /\ ~At(t, "getslot")'
  BY <1>14 DEF Settled
<1>16. /\ slot' \in [Instances -> Instances \cup {nil}] /\ slot'[o] = w
       /\ \A q \in Instances : q # o => slot'[q] = slot[q]
  BY <1>1, <1>10 DEF RefsTypeOK, Stores
<1>17. RefsTypeOK'
  <2>1. stack' \in [Threads -> Seq(CallType)]
    BY <1>14 DEF Kept
  <2> QED
    BY <1>1, <1>11, <1>16, <2>1 DEF RefsTypeOK
<1>18. /\ o \in alive
       /\ \A u \in Threads : \A i \in DOMAIN stack[u] : stack[u][i].obj = o =>
            stack[u][i].at \notin {"remove", "free"}
  BY <1>1, <1>2, <1>3, <1>5, <1>6, <1>7, UserAlone DEF ActiveLabels
<1>19. Progresses'
  <2>1. ASSUME NEW i \in Nat, i > n, i <= Depth(t)', NEW d \in CallType, d = stack'[t][i]
        PROVE  Progress(d)'
    <3>1. d.at = "release"
      BY <1>14, <2>1
    <3> QED
      BY <3>1 DEF Progress
  <2>2. \A q \in Instances : q # o =>
          slot'[q] = slot[q] /\ flag'[q] = flag[q] /\ (q \in tables' <=> q \in tables)
    BY <1>11, <1>16
  <2> QED
    BY <1>1, <1>14, <1>18, <2>1, <2>2, ProgressNear
<1>20. \A u \in Threads : Guards(u)'
  <2>1. ASSUME NEW u \in Threads, u # t PROVE Guards(u)'
    <3>1. Depth(u) # 0 => Top(u).obj \in Instances \cup {nil}
      BY <1>1, GuardObjects
    <3> QED
      BY <1>1, <1>3, <1>11, <1>14, <2>1, <3>1, GuardsNext
  <2> QED
    BY <1>15, <2>1
<1>21. \A u \in Threads : Locks(u)'
  <2>1. ASSUME NEW u \in Threads, u # t PROVE Locks(u)'
    <3>1. At(u, "getslot") => slot'[Top(u).obj] = slot[Top(u).obj]
      <4>1. ASSUME At(u, "getslot") PROVE Top(u).obj \in Instances
        <5>1. Depth(u) # 0 /\ Top(u).at \in ActiveLabels
          BY <1>1, <4>1, StackTypes DEF At, ActiveLabels
        <5> QED
          BY <1>1, <5>1, GuardObjects
      <4>2. At(u, "getslot") => Top(u).obj # o
        BY <1>3, <1>4, <1>5, <1>6, <1>7 DEF Locks
      <4> QED
        BY <1>16, <4>1, <4>2
    <3> QED
      BY <1>3, <1>11, <1>14, <2>1, <3>1, LocksNext
  <2>2. Locks(t)'
    <3>1. assocLock' # t /\ \A q \in Instances : slotLock'[q] # t
      <4>1. ~At(t, "getassoc") /\ ~At(t, "getslot")
        BY <1>5 DEF At
      <4> QED
        BY <1>3, <1>11, <4>1 DEF Locks
    <3> QED
      BY <1>15, <3>1, LocksQuiet
  <2> QED
    BY <2>1, <2>2
<1>22. ASSUME NEW q \in Instances PROVE Counted(q)' /\ Memory(q)' /\ Once(q)'
  <2>1. Once(q)'
    <3>1. Deallocations(q)' = Deallocations(q)
      BY <1>14, <1>17
    <3> QED
      BY <1>2, <1>11, <3>1, OnceSame
  <2>2. Memory(q)'
    <3>1. CASE q # o
      BY <1>2, <1>11, <1>16, <3>1 DEF Memory
    <3>2. CASE q = o
      BY <1>2, <1>11, <1>18, <3>2 DEF Memory
    <3> QED
      BY <3>1, <3>2
  <2>3. Counted(q)'
    <3>1. IsFiniteSet(CallRefs(q)) /\ IsFiniteSet(SlotRefs(q))
      BY <1>2 DEF Counted
    <3>2. /\ IsFiniteSet(CallRefs(q)') /\ Cardinality(CallRefs(q)') \in Nat
          /\ Cardinality(CallRefs(q)) \in Nat
          /\ Cardinality(CallRefs(q)') = Cardinality(CallRefs(q)) - One(w = q) + One(x = q)
      <4>1. /\ n + 1 \in Nat /\ Own(t, n + 1) = Present(w) /\ Own(t, n + 1)' = Present(x)
        BY <1>6, <1>9, <1>13, <1>14
      <4> QED
        BY <1>1, <1>4, <1>14, <1>17, <3>1, <4>1, CallCount
    <3>3. /\ IsFiniteSet(SlotRefs(q)') /\ Cardinality(SlotRefs(q)') \in Nat
          /\ Cardinality(SlotRefs(q)) \in Nat
          /\ Cardinality(SlotRefs(q)')
               = Cardinality(SlotRefs(q)) - One(slot[o] = q) + One(w = q)
      BY <1>1, <1>10, <3>1, SlotCount
    <3>4. PICK a \in {0, 1}, b \in {0, 1} : /\ a = One(w = q) /\ b = One(x = q)
                                            /\ b = One(slot[o] = q)
      BY <1>8 DEF One
    <3>5. PICK d \in Int, f \in Int : d = b - a /\ f = a - b
      OBVIOUS
    <3>6. Cardinality(CallRefs(q)') = Cardinality(CallRefs(q)) + d
      BY <3>2, <3>4, <3>5
    <3>7. Cardinality(SlotRefs(q)') = Cardinality(SlotRefs(q)) + f
      BY <3>3, <3>4, <3>5
    <3>8. count'[q] = count[q] + (0 + d + 0 + f)
      <4>1. 0 + d + 0 + f = 0
        BY <3>5
      <4>2. count[q] \in Nat /\ count'[q] = count[q]
        BY <1>1, <1>11 DEF RefsTypeOK
      <4> QED
        BY <4>1, <4>2
    <3>9. /\ IsFiniteSet(HeldRefs(q)')
          /\ Cardinality(HeldRefs(q)') = Cardinality(HeldRefs(q)) + 0
      BY <1>1, <1>2, <1>11, HeldStay
    <3>10. /\ IsFiniteSet(AssocRefs(q)')
           /\ Cardinality(AssocRefs(q)') = Cardinality(AssocRefs(q)) + 0
      BY <1>1, <1>2, <1>11, AssocsStay
    <3> QED
      BY <1>1, <1>2, <3>2, <3>3, <3>6, <3>7, <3>8, <3>9, <3>10, Balanced
  <2> QED
    BY <2>1, <2>2, <2>3
<1> QED
  BY <1>15, <1>17, <1>19, <1>20, <1>21, <1>22 DEF RefsIInv

-----------------------------------------------------------------------------
(* The references that the program owns                                    *)

(* A thread owns one more, to a new object or to one it is given.          *)
LEMMA HoldingMore ==
  ASSUME Parameters, RefsIInv, NEW t \in Threads, NEW v \in Instances, HoldsMore(t, v),
         count' = [count EXCEPT ![v] = @ + 1], alive' = alive \cup {v},
         (v \in alive /\ count[v] > 0) \/ (v \notin alive /\ count[v] = 0),
         UNCHANGED <<associations, properties, stack>>
  PROVE  RefsIInv'
<1> USE DEF associations, properties
<1>1. RefsTypeOK /\ Stacks /\ Progresses
  BY DEF RefsIInv
<1>2. \A q \in Instances : Counted(q) /\ Memory(q) /\ Once(q)
  BY DEF RefsIInv
<1>3. \A u \in Threads : Guards(u) /\ Locks(u)
  BY DEF RefsIInv
<1>4. PICK c \in Nat : c = count[v]
  BY <1>1 DEF RefsTypeOK
<1>5. /\ count' \in [Instances -> Nat] /\ count'[v] = c + 1
      /\ \A q \in Instances : q # v => count'[q] = count[q]
  BY <1>1, <1>4 DEF RefsTypeOK
<1>6. PICK h \in Nat : h = held[t][v]
  BY <1>1 DEF RefsTypeOK
<1>7. /\ held' \in [Threads -> [Instances -> Nat]] /\ held'[t][v] = h + 1
      /\ \A u \in Threads : \A q \in Instances : ~(u = t /\ q = v) => held'[u][q] = held[u][q]
  BY <1>1, <1>6 DEF RefsTypeOK, HoldsMore
<1>8. RefsTypeOK'
  BY <1>1, <1>5, <1>7 DEF RefsTypeOK
<1>9. Stacks' /\ Progresses'
  BY <1>1 DEF Stacks, Depth, Progresses, Progress
<1>10. ASSUME NEW u \in Threads PROVE Guards(u)' /\ Locks(u)'
  <2>1. Depth(u) # 0 /\ Top(u).at \in ActiveLabels => Top(u).obj \in Instances
    BY <1>1, GuardObjects
  <2>2. \A q \in Instances : held[u][q] > 0 => held'[u][q] > 0
    <3>1. h + 1 > 0
      BY <1>6
    <3> QED
      BY <1>7, <3>1
  <2>3. Guards(u)'
    BY <1>3, <2>1, <2>2 DEF Guards, Depth, Top
  <2>4. Locks(u)'
    BY <1>3 DEF Locks, At, Top, Owned
  <2> QED
    BY <2>3, <2>4
<1>11. ASSUME NEW q \in Instances PROVE Counted(q)' /\ Memory(q)' /\ Once(q)'
  <2>1. count[q] \in Nat /\ count'[q] = count[q] + One(q = v)
    <3>1. count[q] \in Nat
      BY <1>1 DEF RefsTypeOK
    <3>2. CASE q = v
      BY <1>4, <1>5, <3>2 DEF One
    <3>3. CASE q # v
      BY <1>5, <3>1, <3>3 DEF One
    <3> QED
      BY <3>1, <3>2, <3>3
  <2>2. Deallocations(q)' = Deallocations(q) /\ CallRefs(q)' = CallRefs(q)
    BY DEF Deallocations, DeallocCalls, CallRefs, RefsOfCall
  <2>3. Once(q)'
    <3>1. CASE q = v
      <4>1. Deallocations(q) = {}
        BY <1>2, <3>1 DEF Once
      <4>2. count'[q] # 0
        BY <1>4, <1>5, <3>1
      <4> QED
        BY <2>2, <4>1, <4>2 DEF Once
    <3>2. CASE q # v
      BY <1>2, <1>5, <2>2, <3>2, OnceSame
    <3> QED
      BY <3>1, <3>2
  <2>4. Memory(q)'
    <3>1. CASE q = v
      BY <1>2, <3>1 DEF Memory
    <3>2. CASE q # v
      BY <1>2, <1>5, <3>2 DEF Memory
    <3> QED
      BY <3>1, <3>2
  <2>5. Counted(q)'
    <3>1. PICK d \in {0, 1} : d = One(q = v)
      BY DEF One
    <3>2. IsFiniteSet(HeldRefs(q))
      BY <1>2 DEF Counted
    <3>3. /\ IsFiniteSet(HeldRefs(q)')
          /\ Cardinality(HeldRefs(q)') = Cardinality(HeldRefs(q)) + d
      <4>1. /\ IsFiniteSet(HeldRefs(q)')
            /\ Cardinality(HeldRefs(q)') = Cardinality(HeldRefs(q)) + One(q = v)
        BY <1>1, <3>2, HeldMore
      <4> QED
        BY <3>1, <4>1
    <3>4. count'[q] = count[q] + (d + 0 + 0 + 0)
      BY <2>1, <3>1
    <3>5. /\ IsFiniteSet(CallRefs(q)')
          /\ Cardinality(CallRefs(q)') = Cardinality(CallRefs(q)) + 0
      BY <1>1, <1>2, <2>2, CallsStay
    <3>6. /\ IsFiniteSet(AssocRefs(q)')
          /\ Cardinality(AssocRefs(q)') = Cardinality(AssocRefs(q)) + 0
      BY <1>1, <1>2, AssocsStay
    <3>7. /\ IsFiniteSet(SlotRefs(q)')
          /\ Cardinality(SlotRefs(q)') = Cardinality(SlotRefs(q)) + 0
      BY <1>1, <1>2, SlotsStay
    <3> QED
      BY <1>1, <1>2, <3>3, <3>4, <3>5, <3>6, <3>7, Balanced
  <2> QED
    BY <2>3, <2>4, <2>5
<1> QED
  BY <1>8, <1>9, <1>10, <1>11 DEF RefsIInv

LEMMA AllocKeeps ==
  ASSUME Parameters, RefsIInv, NEW t \in Threads, NEW o \in Instances, Alloc(t, o)
  PROVE  RefsIInv'
<1>1. RefsTypeOK /\ Counted(o) /\ Memory(o)
  BY DEF RefsIInv
<1>2. count[o] = 0
  <2>1. count[o] \in Nat
    BY <1>1 DEF RefsTypeOK
  <2> QED
    BY <1>1, <2>1 DEF Memory, Alloc
<1>3. held[t][o] = 0
  <2>1. held[t][o] \in Nat
    BY <1>1 DEF RefsTypeOK
  <2> QED
    BY <1>1, <1>2, <2>1, HeldIsReferred
<1>4. HoldsMore(t, o)
  BY <1>1, <1>3 DEF Alloc, HoldsMore, RefsTypeOK
<1>5. count' = [count EXCEPT ![o] = @ + 1]
  BY <1>1, <1>2 DEF Alloc, RefsTypeOK
<1> QED
  BY <1>2, <1>4, <1>5, HoldingMore DEF Alloc

LEMMA GiveKeeps ==
  ASSUME Parameters, RefsIInv, NEW t \in Threads, NEW u \in Threads, NEW o \in Instances, Give(t, u, o)
  PROVE  RefsIInv'
<1>1. RefsTypeOK /\ Counted(o) /\ Memory(o)
  BY DEF RefsIInv
<1>2. count[o] > 0
  BY <1>1, HeldIsReferred DEF Give, Holds
<1>3. o \in alive
  BY <1>1, <1>2 DEF Memory
<1>4. HoldsMore(u, o)
  BY DEF Give, HoldsMore
<1>5. count' = [count EXCEPT ![o] = @ + 1]
  BY DEF Give, Retain, Parameters
<1>6. alive' = alive \cup {o} /\ UNCHANGED <<associations, properties, stack>>
  BY <1>3 DEF Give
<1> QED
  BY <1>2, <1>3, <1>4, <1>5, <1>6, HoldingMore

LEMMA DropKeeps ==
  ASSUME Parameters, RefsIInv, NEW t \in Threads, NEW o \in Instances, Drop(t, o)
  PROVE  RefsIInv'
<1>1. RefsTypeOK /\ Stacks /\ Progresses
  BY DEF RefsIInv
<1>2. \A q \in Instances : Counted(q) /\ Memory(q) /\ Once(q)
  BY DEF RefsIInv
<1>3. \A u \in Threads : Guards(u) /\ Locks(u)
  BY DEF RefsIInv
<1>4. nil \notin Instances /\ o # nil
  BY DEF Parameters
<1>5. /\ stack[t] = <<>> /\ held[t][o] > 0 /\ HoldsLess(t, o)
      /\ UNCHANGED <<alive, count, flag, tables, assoc, assocLock, slot, slotLock>>
  BY DEF Drop, Holds, HoldsLess, associations, properties
<1>6. PICK T \in SUBSET ((Keys \cup {nil}) \X Instances) : T = Present(o)
  BY PresentTyped
<1>7. PICK c \in CallType : /\ c = Releases(T) /\ c.at = "release" /\ c.todo = T /\ Owns(c) = T
  BY ReleasesTyped, OwnsReleases
<1>8. stack' = [stack EXCEPT ![t] = <<c>>] /\ T # {}
  BY <1>4, <1>6, <1>7 DEF Drop, Present
<1>9. Kept(t, 0) /\ Depth(t) = 0 /\ Len(stack'[t]) = 1 /\ stack'[t][1] = c
  BY <1>1, <1>5, <1>8, Starts
<1>10. DOMAIN stack'[t] = 1..1 /\ Depth(t)' = 1
  BY <1>9 DEF Kept, Depth
<1>11. Top(t)' = c
  BY <1>9, <1>10 DEF Top, Last
<1>12. ASSUME NEW i \in Nat, i > 0, i <= Depth(t)'
       PROVE  i = 1 /\ stack'[t][i] = c
  BY <1>12, <1>9, <1>10
<1>13. Stacks'
  <2>1. ASSUME NEW i \in Nat, i > 0, i <= Depth(t)'
        PROVE  /\ Arguments(stack'[t][i])
               /\ i < Depth(t)' => stack'[t][i].at \in BelowLabels
    <3>1. Arguments(c)
      BY <1>7, <1>8 DEF Arguments
    <3> QED
      BY <2>1, <3>1, <1>10, <1>12
  <2> QED
    BY <1>1, <1>9, <2>1, StacksNext
<1>14. held' \in [Threads -> [Instances -> Nat]] /\ \A u \in Threads : u # t => held'[u] = held[u]
  <2>1. PICK h \in Nat : h = held[t][o] /\ h > 0
    BY <1>1, <1>5 DEF RefsTypeOK
  <2>2. h - 1 \in Nat
    BY <2>1
  <2> QED
    BY <1>1, <1>5, <2>1, <2>2 DEF RefsTypeOK, HoldsLess
<1>15. RefsTypeOK'
  <2>1. stack' \in [Threads -> Seq(CallType)]
    BY <1>9 DEF Kept
  <2> QED
    BY <1>1, <1>5, <1>14, <2>1 DEF RefsTypeOK
<1>16. \A i \in Nat : i > 0 => Own(t, i) = {} /\ \A q : ~Deals(t, i, q)
  BY <1>1, <1>9, Beyond
<1>17. \A i \in Nat : i > 1 => Own(t, i)' = {} /\ \A q : ~Deals(t, i, q)'
  BY <1>1, <1>9, <1>10, Beyond
<1>18. Own(t, 1)' = T /\ \A q : ~Deals(t, 1, q)'
  BY <1>7, <1>9, <1>10 DEF Own, Deals, DeallocLabels
<1>19. OwnElsewhere(t, 1)
  <2>1. \A i \in Nat : i > 0 /\ i # 1 => Own(t, i)' = Own(t, i)
    <3>1. \A i \in Nat : i > 0 /\ i # 1 => i > 1
      OBVIOUS
    <3> QED
      BY <3>1, <1>16, <1>17
  <2> QED
    BY <1>1, <1>9, <2>1, OwnOneChanges
<1>20. \A q \in Instances : Deallocations(q)' = Deallocations(q)
  <2>1. \A i \in Nat : i > 0 => \A q \in Instances : (Deals(t, i, q)' <=> Deals(t, i, q))
    <3>1. \A i \in Nat : i > 0 => i = 1 \/ i > 1
      OBVIOUS
    <3> QED
      BY <3>1, <1>16, <1>17, <1>18
  <2>2. ASSUME NEW q \in Instances PROVE Deallocations(q)' = Deallocations(q)
    <3>1. \A u \in Threads : \A i \in Nat : (Deals(u, i, q)' <=> Deals(u, i, q))
      BY <1>1, <1>9, <2>1, DealsNoneChanges
    <3> QED
      BY <1>1, <1>15, <3>1, DeallocationsSame
  <2> QED
    BY <2>2
<1>21. Progresses'
  <2>1. ASSUME NEW d, Progress(d) PROVE Progress(d)'
    BY <1>5, <2>1, ProgressSame
  <2>2. ASSUME NEW i \in Nat, i > 0, i <= Depth(t)', NEW d \in CallType, d = stack'[t][i]
        PROVE  Progress(d)'
    <3>1. d.at = "release"
      BY <1>7, <1>12, <2>2
    <3> QED
      BY <3>1 DEF Progress
  <2> QED
    BY <1>1, <1>9, <2>1, <2>2, ProgressesNext
<1>22. \A u \in Threads : Guards(u)'
  <2>1. ASSUME NEW u \in Threads, u # t PROVE Guards(u)'
    <3>1. Depth(u) # 0 => Top(u).obj \in Instances \cup {nil}
      BY <1>1, GuardObjects
    <3>2. held'[u] = held[u]
      BY <1>14, <2>1
    <3> QED
      BY <1>1, <1>3, <1>9, <2>1, <3>1, <3>2, GuardsNext
  <2>2. Guards(t)'
    BY <1>7, <1>11, GuardsQuiet DEF ActiveLabels
  <2> QED
    BY <2>1, <2>2
<1>23. \A u \in Threads : Locks(u)'
  <2>1. ASSUME NEW u \in Threads, u # t PROVE Locks(u)'
    BY <1>3, <1>5, <1>9, <2>1, LocksNext
  <2>2. Locks(t)'
    <3>1. ~At(t, "getassoc")' /\ ~At(t, "getslot")'
      BY <1>7, <1>11 DEF At
    <3>2. assocLock' # t /\ \A q \in Instances : slotLock'[q] # t
      <4>1. ~At(t, "getassoc") /\ ~At(t, "getslot")
        BY <1>5 DEF At
      <4> QED
        BY <1>3, <1>5, <4>1 DEF Locks
    <3> QED
      BY <3>1, <3>2, LocksQuiet
  <2> QED
    BY <2>1, <2>2
<1>24. ASSUME NEW q \in Instances PROVE Counted(q)' /\ Memory(q)' /\ Once(q)'
  <2>1. count[q] \in Nat /\ count'[q] = count[q]
    BY <1>1, <1>5 DEF RefsTypeOK
  <2>2. Once(q)'
    BY <1>2, <1>5, <1>20, <2>1, OnceSame
  <2>3. Memory(q)'
    BY <1>2, <1>5, <2>1, MemorySame
  <2>4. Counted(q)'
    <3>1. IsFiniteSet(CallRefs(q)) /\ IsFiniteSet(HeldRefs(q))
      BY <1>2 DEF Counted
    <3>2. /\ IsFiniteSet(CallRefs(q)') /\ Cardinality(CallRefs(q)') \in Nat
          /\ Cardinality(CallRefs(q)) \in Nat
          /\ Cardinality(CallRefs(q)') = Cardinality(CallRefs(q)) - One(nil = q) + One(o = q)
      <4>1. Own(t, 1) = Present(nil) /\ Own(t, 1)' = Present(o)
        BY <1>6, <1>16, <1>18 DEF Present
      <4> QED
        BY <1>1, <1>4, <1>15, <1>19, <3>1, <4>1, CallCount
    <3>3. /\ IsFiniteSet(HeldRefs(q)') /\ Cardinality(HeldRefs(q)') \in Nat
          /\ Cardinality(HeldRefs(q)) \in Nat
          /\ Cardinality(HeldRefs(q)') = Cardinality(HeldRefs(q)) - One(q = o)
      BY <1>1, <1>5, <3>1, HeldLess
    <3>4. PICK d \in {0, 1} : d = One(o = q) /\ d = One(q = o) /\ One(nil = q) = 0
      BY <1>4 DEF One
    <3>5. PICK f \in Int : f = 0 - d
      OBVIOUS
    <3>6. Cardinality(CallRefs(q)') = Cardinality(CallRefs(q)) + d
      BY <3>2, <3>4
    <3>7. Cardinality(HeldRefs(q)') = Cardinality(HeldRefs(q)) + f
      BY <3>3, <3>4, <3>5
    <3>8. count'[q] = count[q] + (f + d + 0 + 0)
      BY <2>1, <3>5
    <3>9. /\ IsFiniteSet(AssocRefs(q)')
          /\ Cardinality(AssocRefs(q)') = Cardinality(AssocRefs(q)) + 0
      BY <1>1, <1>2, <1>5, AssocsStay
    <3>10. /\ IsFiniteSet(SlotRefs(q)')
           /\ Cardinality(SlotRefs(q)') = Cardinality(SlotRefs(q)) + 0
      BY <1>1, <1>2, <1>5, SlotsStay
    <3> QED
      BY <1>1, <1>2, <3>2, <3>3, <3>6, <3>7, <3>8, <3>9, <3>10, Balanced
  <2> QED
    BY <2>2, <2>3, <2>4
<1> QED
  BY <1>13, <1>15, <1>21, <1>22, <1>23, <1>24 DEF RefsIInv

-----------------------------------------------------------------------------
(* Deallocations                                                           *)

(* A deallocation has gone on to c, and to release T.                      *)
LEMMA ChangesMeans ==
  ASSUME RefsTypeOK, Stacks, NEW t \in Threads, stack[t] # <<>>,
         Top(t).at \in DeallocLabels, NEW c \in CallType, c.obj = Top(t).obj,
         c.at \in {"destruct", "remove", "free"}, Arguments(c),
         NEW T \in SUBSET ((Keys \cup {nil}) \X Instances), Continue(t, <<c>> \o ReleaseAll(T)),
         NEW n, n = Depth(t) - 1
  PROVE  /\ Settled(t, n) /\ Kept(t, n) /\ n \in Nat
         /\ OwnElsewhere(t, n + 2) /\ Own(t, n + 2) = {} /\ Own(t, n + 2)' = T
         /\ RefsTypeOK' => \A q \in Instances : Deallocations(q)' = Deallocations(q)
         /\ \A i \in Nat : i > n /\ i <= Depth(t)' =>
              stack'[t][i] = c \/ stack'[t][i].at = "release"
<1>1. /\ Settled(t, n)
      /\ Own(t, n + 1)' = {} /\ Own(t, n + 2)' = T
      /\ \A i \in Nat : i > n + 2 => Own(t, i)' = {}
      /\ \A o \in Instances : Deals(t, n + 1, o)' <=> c.obj = o
      /\ \A i \in Nat : i > n + 1 => \A o \in Instances : ~Deals(t, i, o)'
      /\ stack'[t][n + 1] = c
      /\ \A i \in Nat : i > n + 1 /\ i <= Depth(t)' => stack'[t][i].at = "release"
  BY Changes
<1>2. n \in Nat /\ Kept(t, n) /\ Depth(t) = n + 1
  BY <1>1 DEF Settled
<1>3. n + 1 \in DOMAIN stack[t] /\ Top(t) = stack[t][n + 1] /\ Top(t) \in CallType
  BY <1>2, StackTypes
<1>4. \A i \in Nat : i > n + 1 => Own(t, i) = {} /\ \A q : ~Deals(t, i, q)
  BY <1>2, Beyond
<1>5. Own(t, n + 1) = {}
  <2>1. Arguments(Top(t)) /\ Top(t).at \notin {"release", "swap", "swapslot"}
    BY <1>3 DEF Stacks, DeallocLabels
  <2>2. Owns(Top(t)) = {}
    BY <1>3, <2>1, OwnsNothing
  <2> QED
    BY <1>3, <2>2 DEF Own
<1>6. \A q \in Instances : Deals(t, n + 1, q) <=> c.obj = q
  BY <1>3 DEF Deals
<1>7. \A i \in Nat : i > n => i = n + 1 \/ i > n + 1
  BY <1>2
<1>8. \A i \in Nat : i > n + 1 => i = n + 2 \/ i > n + 2
  BY <1>2
<1>9. n + 2 \in Nat /\ n + 2 > n + 1
  BY <1>2
<1>10. OwnElsewhere(t, n + 2)
  <2>1. \A i \in Nat : i > n /\ i # n + 2 => Own(t, i)' = Own(t, i)
    BY <1>1, <1>4, <1>5, <1>7, <1>8
  <2> QED
    BY <1>2, <1>9, <2>1, OwnOneChanges
<1>11. ASSUME RefsTypeOK', NEW q \in Instances PROVE Deallocations(q)' = Deallocations(q)
  <2>1. \A i \in Nat : i > n => \A o \in Instances : (Deals(t, i, o)' <=> Deals(t, i, o))
    BY <1>1, <1>4, <1>6, <1>7
  <2>2. \A u \in Threads : \A i \in Nat : (Deals(u, i, q)' <=> Deals(u, i, q))
    BY <1>2, <2>1, DealsNoneChanges
  <2> QED
    BY <1>11, <2>2, DeallocationsSame
<1>12. \A i \in Nat : i > n /\ i <= Depth(t)' =>
         stack'[t][i] = c \/ stack'[t][i].at = "release"
  BY <1>1, <1>7
<1>13. Own(t, n + 2) = {}
  BY <1>4, <1>9
<1> QED
  BY <1>1, <1>2, <1>10, <1>11, <1>12, <1>13

LEMMA EndDeallocKeeps ==
  ASSUME Parameters, RefsIInv, NEW t \in Threads, EndDealloc(t)
  PROVE  RefsIInv'
<1>1. RefsTypeOK /\ Stacks /\ Progresses
  BY DEF RefsIInv
<1>2. \A q \in Instances : Counted(q) /\ Memory(q) /\ Once(q)
  BY DEF RefsIInv
<1>3. \A u \in Threads : Guards(u) /\ Locks(u)
  BY DEF RefsIInv
<1>4. stack[t] # <<>> /\ Top(t).at = "dealloc"
  BY DEF EndDealloc, At
<1>5. PICK b \in CallType : b = Top(t) /\ Arguments(b) /\ b.at = "dealloc"
  BY <1>1, <1>4, StackTypes DEF Stacks
<1>6. PICK c \in CallType : /\ c = [b EXCEPT !.at = "destruct"] /\ c.at = "destruct"
                            /\ c.obj = b.obj /\ c.todo = b.todo
  <2>1. "destruct" \in Labels
    BY DEF Labels
  <2> QED
    BY <1>5, <2>1, Relabelled
<1>7. Arguments(c)
  BY <1>5, <1>6 DEF Arguments
<1>8. PICK T \in SUBSET ((Keys \cup {nil}) \X Instances) : T = {} /\ ReleaseAll(T) = <<>>
  BY ReleaseAllTyped
<1>9. Continue(t, <<c>> \o ReleaseAll(T))
  <2>1. <<c>> \o <<>> = <<c>>
    OBVIOUS
  <2> QED
    BY <1>5, <1>6, <1>8, <2>1 DEF EndDealloc
<1>10. UNCHANGED <<alive, count, held, flag, tables, assoc, assocLock, slot, slotLock>>
  BY DEF EndDealloc, objects, associations, properties
<1>11. PICK n : n = Depth(t) - 1
  OBVIOUS
<1>12. /\ Settled(t, n) /\ Kept(t, n) /\ n \in Nat
       /\ OwnElsewhere(t, n + 2) /\ Own(t, n + 2) = {} /\ Own(t, n + 2)' = T
       /\ RefsTypeOK' => \A q \in Instances : Deallocations(q)' = Deallocations(q)
       /\ \A i \in Nat : i > n /\ i <= Depth(t)' =>
            stack'[t][i] = c \/ stack'[t][i].at = "release"
  <2>1. Top(t).at \in DeallocLabels /\ c.obj = Top(t).obj /\ c.at \in {"destruct", "remove", "free"}
    BY <1>4, <1>5, <1>6 DEF DeallocLabels
  <2> QED
    BY <1>1, <1>4, <1>7, <1>9, <1>11, <2>1, ChangesMeans
<1>13. Stacks' /\ Guards(t)' /\ ~At(t, "getassoc")' /\ ~At(t, "getslot")'
  BY <1>12 DEF Settled
<1>14. RefsTypeOK'
  <2>1. stack' \in [Threads -> Seq(CallType)]
    BY <1>12 DEF Kept
  <2> QED
    BY <1>1, <1>10, <2>1 DEF RefsTypeOK
<1>15. Progresses'
  <2>1. ASSUME NEW d, Progress(d) PROVE Progress(d)'
    BY <1>10, <2>1, ProgressSame
  <2>2. ASSUME NEW i \in Nat, i > n, i <= Depth(t)', NEW d \in CallType, d = stack'[t][i]
        PROVE  Progress(d)'
    <3>1. d.at \in {"destruct", "release"}
      BY <1>6, <1>12, <2>2
    <3> QED
      BY <3>1 DEF Progress
  <2> QED
    BY <1>1, <1>12, <2>1, <2>2, ProgressesNext
<1>16. \A u \in Threads : Guards(u)'
  <2>1. ASSUME NEW u \in Threads, u # t PROVE Guards(u)'
    <3>1. Depth(u) # 0 => Top(u).obj \in Instances \cup {nil}
      BY <1>1, GuardObjects
    <3> QED
      BY <1>1, <1>3, <1>10, <1>12, <2>1, <3>1, GuardsNext
  <2> QED
    BY <1>13, <2>1
<1>17. \A u \in Threads : Locks(u)'
  <2>1. ASSUME NEW u \in Threads, u # t PROVE Locks(u)'
    BY <1>3, <1>10, <1>12, <2>1, LocksNext
  <2>2. Locks(t)'
    <3>1. assocLock' # t /\ \A q \in Instances : slotLock'[q] # t
      <4>1. ~At(t, "getassoc") /\ ~At(t, "getslot")
        BY <1>4 DEF At
      <4> QED
        BY <1>3, <1>10, <4>1 DEF Locks
    <3> QED
      BY <1>13, <3>1, LocksQuiet
  <2> QED
    BY <2>1, <2>2
<1>18. \A q \in Instances : CallRefs(q)' = CallRefs(q)
  <2>1. \A u \in Threads : \A i \in Nat : Own(u, i)' = Own(u, i)
    BY <1>8, <1>12 DEF OwnElsewhere
  <2> QED
    BY <1>1, <1>14, <2>1, CallRefsSame
<1>19. ASSUME NEW q \in Instances PROVE Counted(q)' /\ Memory(q)' /\ Once(q)'
  <2>1. count'[q] = count[q]
    BY <1>10
  <2>2. Once(q)'
    BY <1>2, <1>10, <1>12, <1>14, OnceSame
  <2>3. Memory(q)'
    BY <1>2, <1>10, MemorySame
  <2>4. Counted(q)'
    <3>1. HeldRefs(q)' = HeldRefs(q) /\ AssocRefs(q)' = AssocRefs(q) /\ SlotRefs(q)' = SlotRefs(q)
      BY <1>10 DEF HeldRefs, AssocRefs, SlotRefs, Owned
    <3> QED
      BY <1>2, <1>18, <2>1, <3>1 DEF Counted
  <2> QED
    BY <2>2, <2>3, <2>4
<1> QED
  BY <1>13, <1>14, <1>15, <1>16, <1>17, <1>19 DEF RefsIInv

LEMMA DestructKeeps ==
  ASSUME Parameters, RefsIInv, NEW t \in Threads, Destruct(t)
  PROVE  RefsIInv'
<1>1. RefsTypeOK /\ Stacks /\ Progresses
  BY DEF RefsIInv
<1>2. \A q \in Instances : Counted(q) /\ Memory(q) /\ Once(q)
  BY DEF RefsIInv
<1>3. \A u \in Threads : Guards(u) /\ Locks(u)
  BY DEF RefsIInv
<1>4. stack[t] # <<>> /\ Top(t).at = "destruct" /\ nil \notin Instances
  BY DEF Destruct, At, Parameters
<1>5. PICK b \in CallType : /\ b = Top(t) /\ Arguments(b) /\ b.at = "destruct" /\ b.obj \in Instances
  BY <1>1, <1>4, StackTypes DEF Stacks, Arguments
<1>6. PICK o \in Instances, f \in BOOLEAN : o = b.obj /\ f = flag[o]
  BY <1>1, <1>5 DEF RefsTypeOK
<1>7. PICK c \in CallType : /\ c = [b EXCEPT !.at = "remove", !.flag = f] /\ c.at = "remove"
                            /\ c.obj = b.obj /\ c.todo = b.todo /\ c.flag = f
  <2>1. [b EXCEPT !.at = "remove", !.flag = f] \in CallType
    BY <1>5, <1>6 DEF CallType, Labels
  <2> QED
    BY <1>5, <2>1 DEF CallType
<1>8. Arguments(c)
  BY <1>5, <1>7 DEF Arguments
<1>9. PICK x \in Instances \cup {nil} : x = slot[o]
  BY <1>1 DEF RefsTypeOK
<1>10. PICK T \in SUBSET ((Keys \cup {nil}) \X Instances) : T = Present(x)
  BY PresentTyped
<1>11. Continue(t, <<c>> \o ReleaseAll(T)) /\ Stores(o, nil)
  BY <1>5, <1>6, <1>7, <1>9, <1>10 DEF Destruct, Stores
<1>12. UNCHANGED <<alive, count, held, flag, tables, assoc, assocLock, slotLock>>
  BY DEF Destruct, objects, associations
<1>13. PICK n : n = Depth(t) - 1
  OBVIOUS
<1>14. /\ Settled(t, n) /\ Kept(t, n) /\ n \in Nat
       /\ OwnElsewhere(t, n + 2) /\ Own(t, n + 2) = {} /\ Own(t, n + 2)' = T
       /\ RefsTypeOK' => \A q \in Instances : Deallocations(q)' = Deallocations(q)
       /\ \A i \in Nat : i > n /\ i <= Depth(t)' =>
            stack'[t][i] = c \/ stack'[t][i].at = "release"
  <2>1. Top(t).at \in DeallocLabels /\ c.obj = Top(t).obj /\ c.at \in {"destruct", "remove", "free"}
    BY <1>4, <1>5, <1>7 DEF DeallocLabels
  <2> QED
    BY <1>1, <1>4, <1>8, <1>11, <1>13, <2>1, ChangesMeans
<1>15. Stacks' /\ Guards(t)' /\ ~At(t, "getassoc")' /\ ~At(t, "getslot")'
  BY <1>14 DEF Settled
<1>16. /\ slot' \in [Instances -> Instances \cup {nil}] /\ slot'[o] = nil
       /\ \A q \in Instances : q # o => slot'[q] = slot[q]
  BY <1>1, <1>11 DEF RefsTypeOK, Stores
<1>17. RefsTypeOK'
  <2>1. stack' \in [Threads -> Seq(CallType)]
    BY <1>14 DEF Kept
  <2> QED
    BY <1>1, <1>12, <1>16, <2>1 DEF RefsTypeOK
(* No other call is about an object that is being destructed.              *)
<1>18. /\ o \in alive /\ count[o] = 0
       /\ \A v \in Threads : \A j \in Nat : Deals(v, j, o) => v = t /\ j = n + 1
  <2>1. n + 1 \in DOMAIN stack[t] /\ stack[t][n + 1] = b /\ n + 1 \in Nat
    BY <1>1, <1>4, <1>5, <1>14, StackTypes DEF Settled
  <2>2. Deals(t, n + 1, o)
    BY <1>5, <1>6, <2>1 DEF Deals, DeallocLabels
  <2> QED
    BY <1>1, <1>2, <2>1, <2>2, TwoDeallocations
<1>19. Progresses'
  <2>1. ASSUME NEW u \in Threads, NEW i \in DOMAIN stack[u], ~(u = t /\ i > n),
               NEW d \in CallType, d = stack[u][i], Progress(d)
        PROVE  Progress(d)'
    <3>1. d.at \in {"remove", "free"} => d.obj \in Instances
      BY <1>1, <2>1 DEF Stacks, Arguments
    <3> QED
      BY <1>12, <1>16, <2>1, <3>1 DEF Progress
  <2>2. ASSUME NEW i \in Nat, i > n, i <= Depth(t)', NEW d \in CallType, d = stack'[t][i]
        PROVE  Progress(d)'
    <3>1. d = c \/ d.at = "release"
      BY <1>14, <2>2
    <3>2. slot'[c.obj] = nil /\ c.flag = flag'[c.obj]
      BY <1>5, <1>6, <1>7, <1>12, <1>16
    <3> QED
      BY <1>7, <3>1, <3>2 DEF Progress
  <2> QED
    BY <1>1, <1>14, <2>1, <2>2, ProgressesNext
<1>20. \A u \in Threads : Guards(u)'
  <2>1. ASSUME NEW u \in Threads, u # t PROVE Guards(u)'
    <3>1. Depth(u) # 0 => Top(u).obj \in Instances \cup {nil}
      BY <1>1, GuardObjects
    <3> QED
      BY <1>1, <1>3, <1>12, <1>14, <2>1, <3>1, GuardsNext
  <2> QED
    BY <1>15, <2>1
<1>21. \A u \in Threads : Locks(u)'
  <2>1. ASSUME NEW u \in Threads, u # t PROVE Locks(u)'
    <3>1. ASSUME At(u, "getslot") PROVE slot'[Top(u).obj] = slot[Top(u).obj]
      <4>1. Depth(u) # 0 /\ Depth(u) \in Nat /\ DOMAIN stack[u] = 1..Depth(u) /\ Top(u).at \in ActiveLabels
        BY <1>1, <3>1, StackTypes DEF At, ActiveLabels
      <4>2. Top(u).obj \in Instances
        BY <1>1, <4>1, GuardObjects
      <4>3. Top(u).obj # o
        <5>1. SUFFICES ASSUME Top(u).obj = o PROVE FALSE
          OBVIOUS
        <5>2. CASE held[u][o] > 0
          BY <1>1, <1>2, <1>18, <5>2, HeldIsReferred
        <5>3. CASE /\ Depth(u) >= 2
                   /\ stack[u][Depth(u) - 1].at = "destruct" /\ stack[u][Depth(u) - 1].obj = o
          <6>1. PICK j \in Nat : j = Depth(u) - 1 /\ j \in DOMAIN stack[u]
            BY <4>1, <5>3
          <6>2. Deals(u, j, o)
            BY <5>3, <6>1 DEF Deals, DeallocLabels
          <6> QED
            BY <1>18, <2>1, <6>2
        <5> QED
          BY <1>3, <4>1, <5>1, <5>2, <5>3 DEF Guards
      <4> QED
        BY <1>16, <4>2, <4>3
    <3> QED
      BY <1>3, <1>12, <1>14, <2>1, <3>1, LocksNext
  <2>2. Locks(t)'
    <3>1. assocLock' # t /\ \A q \in Instances : slotLock'[q] # t
      <4>1. ~At(t, "getassoc") /\ ~At(t, "getslot")
        BY <1>4 DEF At
      <4> QED
        BY <1>3, <1>12, <4>1 DEF Locks
    <3> QED
      BY <1>15, <3>1, LocksQuiet
  <2> QED
    BY <2>1, <2>2
<1>22. ASSUME NEW q \in Instances PROVE Counted(q)' /\ Memory(q)' /\ Once(q)'
  <2>1. Once(q)'
    <3>1. Deallocations(q)' = Deallocations(q)
      BY <1>14, <1>17
    <3> QED
      BY <1>2, <1>12, <3>1, OnceSame
  <2>2. Memory(q)'
    BY <1>2, <1>12, <1>16, <1>18 DEF Memory
  <2>3. Counted(q)'
    <3>1. IsFiniteSet(CallRefs(q)) /\ IsFiniteSet(SlotRefs(q))
      BY <1>2 DEF Counted
    <3>2. /\ IsFiniteSet(CallRefs(q)') /\ Cardinality(CallRefs(q)') \in Nat
          /\ Cardinality(CallRefs(q)) \in Nat
          /\ Cardinality(CallRefs(q)') = Cardinality(CallRefs(q)) - One(nil = q) + One(x = q)
      <4>1. n + 2 \in Nat /\ Own(t, n + 2) = Present(nil) /\ Own(t, n + 2)' = Present(x)
        BY <1>10, <1>14 DEF Present
      <4>2. nil \in Instances \cup {nil}
        OBVIOUS
      <4> QED
        BY <1>1, <1>4, <1>14, <1>17, <3>1, <4>1, <4>2, CallCount
    <3>3. /\ IsFiniteSet(SlotRefs(q)') /\ Cardinality(SlotRefs(q)') \in Nat
          /\ Cardinality(SlotRefs(q)) \in Nat
          /\ Cardinality(SlotRefs(q)')
               = Cardinality(SlotRefs(q)) - One(slot[o] = q) + One(nil = q)
      BY <1>1, <1>11, <3>1, SlotCount
    <3>4. PICK d \in {0, 1} : d = One(x = q) /\ d = One(slot[o] = q) /\ One(nil = q) = 0
      BY <1>4, <1>9 DEF One
    <3>5. PICK g \in Int : g = 0 - d
      OBVIOUS
    <3>6. Cardinality(CallRefs(q)') = Cardinality(CallRefs(q)) + d
      BY <3>2, <3>4
    <3>7. Cardinality(SlotRefs(q)') = Cardinality(SlotRefs(q)) + g
      BY <3>3, <3>4, <3>5
    <3>8. count'[q] = count[q] + (0 + d + 0 + g)
      <4>1. 0 + d + 0 + g = 0
        BY <3>5
      <4>2. count[q] \in Nat /\ count'[q] = count[q]
        BY <1>1, <1>12 DEF RefsTypeOK
      <4> QED
        BY <4>1, <4>2
    <3>9. /\ IsFiniteSet(HeldRefs(q)')
          /\ Cardinality(HeldRefs(q)') = Cardinality(HeldRefs(q)) + 0
      BY <1>1, <1>2, <1>12, HeldStay
    <3>10. /\ IsFiniteSet(AssocRefs(q)')
           /\ Cardinality(AssocRefs(q)') = Cardinality(AssocRefs(q)) + 0
      BY <1>1, <1>2, <1>12, AssocsStay
    <3> QED
      BY <1>1, <1>2, <3>2, <3>3, <3>6, <3>7, <3>8, <3>9, <3>10, Balanced
  <2> QED
    BY <2>1, <2>2, <2>3
<1> QED
  BY <1>15, <1>17, <1>19, <1>20, <1>21, <1>22 DEF RefsIInv

LEMMA RemoveAssociationsKeeps ==
  ASSUME Parameters, RefsIInv, NEW t \in Threads, RemoveAssociations(t)
  PROVE  RefsIInv'
<1>1. RefsTypeOK /\ Stacks /\ Progresses
  BY DEF RefsIInv
<1>2. \A q \in Instances : Counted(q) /\ Memory(q) /\ Once(q)
  BY DEF RefsIInv
<1>3. \A u \in Threads : Guards(u) /\ Locks(u)
  BY DEF RefsIInv
<1>4. stack[t] # <<>> /\ Top(t).at = "remove" /\ nil \notin Instances /\ NoThread \notin Threads
  BY DEF RemoveAssociations, At, Parameters
<1>5. PICK b \in CallType : /\ b = Top(t) /\ Arguments(b) /\ b.at = "remove" /\ b.obj \in Instances
                            /\ Progress(b)
  BY <1>1, <1>4, StackTypes DEF Stacks, Progresses, Arguments
<1>6. PICK o \in Instances : o = b.obj /\ slot[o] = nil /\ b.flag = flag[o]
  BY <1>5 DEF Progress
<1>7. PICK c \in CallType : /\ c = [b EXCEPT !.at = "free"] /\ c.at = "free"
                            /\ c.obj = b.obj /\ c.todo = b.todo
  <2>1. "free" \in Labels
    BY DEF Labels
  <2> QED
    BY <1>5, <2>1, Relabelled
<1>8. Arguments(c)
  BY <1>5, <1>7 DEF Arguments
<1>9. PICK T \in SUBSET ((Keys \cup {nil}) \X Instances) : T = OwnedBy(o)
  <2>1. \A k \in Keys : Owned(assoc[o][k]) # nil => assoc[o][k].val \in Instances
    BY <1>1 DEF RefsTypeOK, EntryType, Owned
  <2>2. OwnedBy(o) \subseteq (Keys \cup {nil}) \X Instances
    BY <2>1 DEF OwnedBy
  <2> QED
    BY <2>2
<1>10. /\ Continue(t, <<c>> \o ReleaseAll(T)) /\ Clears(o) /\ tables' = tables \ {o}
       /\ assocLock = NoThread \/ assoc' = assoc
  <2>1. CASE b.flag
    BY <1>5, <1>6, <1>7, <1>9, <2>1 DEF RemoveAssociations, Clears
  <2>2. CASE ~b.flag
    <3>1. o \notin tables
      BY <1>2, <1>6, <2>2 DEF Memory
    <3>2. \A k \in Keys : assoc[o][k] = NoEntry
      BY <1>2, <3>1 DEF Memory
    <3>3. OwnedBy(o) = {}
      BY <3>2 DEF OwnedBy, Owned, NoEntry
    <3>4. ReleaseAll(T) = <<>>
      BY <1>9, <3>3, ReleaseAllTyped
    <3>5. <<c>> \o <<>> = <<c>>
      OBVIOUS
    <3>6. /\ Continue(t, <<c>>) /\ tables' = tables /\ assoc' = assoc
      BY <1>5, <1>6, <1>7, <2>2 DEF RemoveAssociations
    <3>7. assoc[o] = [k \in Keys |-> NoEntry]
      BY <1>1, <3>2 DEF RefsTypeOK
    <3>8. Clears(o)
      BY <1>1, <3>6, <3>7 DEF RefsTypeOK, Clears
    <3> QED
      BY <3>1, <3>4, <3>5, <3>6, <3>8
  <2> QED
    BY <2>1, <2>2
<1>11. UNCHANGED <<alive, count, held, flag, assocLock, slot, slotLock>>
  BY DEF RemoveAssociations, objects, properties
<1>12. PICK n : n = Depth(t) - 1
  OBVIOUS
<1>13. /\ Settled(t, n) /\ Kept(t, n) /\ n \in Nat
       /\ OwnElsewhere(t, n + 2) /\ Own(t, n + 2) = {} /\ Own(t, n + 2)' = T
       /\ RefsTypeOK' => \A q \in Instances : Deallocations(q)' = Deallocations(q)
       /\ \A i \in Nat : i > n /\ i <= Depth(t)' =>
            stack'[t][i] = c \/ stack'[t][i].at = "release"
  <2>1. Top(t).at \in DeallocLabels /\ c.obj = Top(t).obj /\ c.at \in {"destruct", "remove", "free"}
    BY <1>4, <1>5, <1>7 DEF DeallocLabels
  <2> QED
    BY <1>1, <1>4, <1>8, <1>10, <1>12, <2>1, ChangesMeans
<1>14. Stacks' /\ Guards(t)' /\ ~At(t, "getassoc")' /\ ~At(t, "getslot")'
  BY <1>13 DEF Settled
<1>15. /\ assoc' \in [Instances -> [Keys -> EntryType]]
       /\ \A k \in Keys : assoc'[o][k] = NoEntry
       /\ \A q \in Instances : q # o => assoc'[q] = assoc[q]
  <2>1. NoEntry \in EntryType
    BY DEF NoEntry, EntryType, Policies
  <2>2. [k \in Keys |-> NoEntry] \in [Keys -> EntryType]
    BY <2>1
  <2> QED
    BY <1>1, <1>10, <2>2 DEF RefsTypeOK, Clears
<1>16. RefsTypeOK'
  <2>1. stack' \in [Threads -> Seq(CallType)]
    BY <1>13 DEF Kept
  <2> QED
    BY <1>1, <1>10, <1>11, <1>15, <2>1 DEF RefsTypeOK
<1>17. Progresses'
  <2>1. ASSUME NEW d, Progress(d) PROVE Progress(d)'
    BY <1>10, <1>11, <2>1 DEF Progress
  <2>2. ASSUME NEW i \in Nat, i > n, i <= Depth(t)', NEW d \in CallType, d = stack'[t][i]
        PROVE  Progress(d)'
    <3>1. d = c \/ d.at = "release"
      BY <1>13, <2>2
    <3>2. slot'[c.obj] = nil /\ c.obj \notin tables'
      BY <1>6, <1>7, <1>10, <1>11
    <3> QED
      BY <1>7, <3>1, <3>2 DEF Progress
  <2> QED
    BY <1>1, <1>13, <2>1, <2>2, ProgressesNext
<1>18. \A u \in Threads : Guards(u)'
  <2>1. ASSUME NEW u \in Threads, u # t PROVE Guards(u)'
    <3>1. Depth(u) # 0 => Top(u).obj \in Instances \cup {nil}
      BY <1>1, GuardObjects
    <3> QED
      BY <1>1, <1>3, <1>11, <1>13, <2>1, <3>1, GuardsNext
  <2> QED
    BY <1>14, <2>1
<1>19. \A u \in Threads : Locks(u)'
  <2>1. ASSUME NEW u \in Threads, u # t PROVE Locks(u)'
    <3>1. At(u, "getassoc") => assoc' = assoc
      BY <1>3, <1>4, <1>10 DEF Locks
    <3> QED
      BY <1>3, <1>11, <1>13, <2>1, <3>1, LocksNext
  <2>2. Locks(t)'
    <3>1. assocLock' # t /\ \A q \in Instances : slotLock'[q] # t
      <4>1. ~At(t, "getassoc") /\ ~At(t, "getslot")
        BY <1>4 DEF At
      <4> QED
        BY <1>3, <1>11, <4>1 DEF Locks
    <3> QED
      BY <1>14, <3>1, LocksQuiet
  <2> QED
    BY <2>1, <2>2
<1>20. ASSUME NEW q \in Instances PROVE Counted(q)' /\ Memory(q)' /\ Once(q)'
  <2>1. Once(q)'
    <3>1. Deallocations(q)' = Deallocations(q)
      BY <1>13, <1>16
    <3> QED
      BY <1>2, <1>11, <3>1, OnceSame
  <2>2. Memory(q)'
    <3>1. CASE q = o
      BY <1>2, <1>10, <1>11, <1>15, <3>1 DEF Memory
    <3>2. CASE q # o
      BY <1>2, <1>10, <1>11, <1>15, <3>2 DEF Memory
    <3> QED
      BY <3>1, <3>2
  <2>3. Counted(q)'
    <3>1. IsFiniteSet(CallRefs(q)) /\ IsFiniteSet(AssocRefs(q))
      BY <1>2 DEF Counted
    <3>2. /\ IsFiniteSet(CallRefs(q)') /\ Cardinality(CallRefs(q)') \in Nat
          /\ Cardinality(CallRefs(q)) \in Nat
          /\ IsFiniteSet(AssocRefs(q)') /\ Cardinality(AssocRefs(q)') \in Nat
          /\ Cardinality(AssocRefs(q)) \in Nat
          /\ Cardinality(CallRefs(q)') + Cardinality(AssocRefs(q)')
               = Cardinality(CallRefs(q)) + Cardinality(AssocRefs(q))
      <4>1. n + 2 \in Nat /\ Own(t, n + 2)' = OwnedBy(o)
        BY <1>9, <1>13
      <4> QED
        BY <1>1, <1>4, <1>10, <1>13, <1>16, <3>1, <4>1, RemoveCount
    <3>3. PICK w \in Nat, x \in Nat, y \in Nat, z \in Nat :
            /\ w = Cardinality(CallRefs(q)) /\ x = Cardinality(CallRefs(q)')
            /\ y = Cardinality(AssocRefs(q)) /\ z = Cardinality(AssocRefs(q)')
      BY <3>2
    <3>4. x + z = w + y
      BY <3>2, <3>3
    <3>5. PICK d \in Int, g \in Int : d = x - w /\ g = z - y
      OBVIOUS
    <3>6. x = w + d /\ z = y + g /\ 0 + d + g + 0 = 0
      BY <3>4, <3>5
    <3>7. Cardinality(CallRefs(q)') = Cardinality(CallRefs(q)) + d
          /\ Cardinality(AssocRefs(q)') = Cardinality(AssocRefs(q)) + g
      BY <3>3, <3>6
    <3>8. count'[q] = count[q] + (0 + d + g + 0)
      <4>1. count[q] \in Nat /\ count'[q] = count[q]
        BY <1>1, <1>11 DEF RefsTypeOK
      <4> QED
        BY <3>6, <4>1
    <3>9. /\ IsFiniteSet(HeldRefs(q)')
          /\ Cardinality(HeldRefs(q)') = Cardinality(HeldRefs(q)) + 0
      BY <1>1, <1>2, <1>11, HeldStay
    <3>10. /\ IsFiniteSet(SlotRefs(q)')
           /\ Cardinality(SlotRefs(q)') = Cardinality(SlotRefs(q)) + 0
      BY <1>1, <1>2, <1>11, SlotsStay
    <3> QED
      BY <1>1, <1>2, <3>2, <3>7, <3>8, <3>9, <3>10, Balanced
  <2> QED
    BY <2>1, <2>2, <2>3
<1> QED
  BY <1>14, <1>16, <1>17, <1>18, <1>19, <1>20 DEF RefsIInv

LEMMA FreeKeeps ==
  ASSUME Parameters, RefsIInv, NEW t \in Threads, Free(t)
  PROVE  RefsIInv'
<1>1. RefsTypeOK /\ Stacks /\ Progresses
  BY DEF RefsIInv
<1>2. \A q \in Instances : Counted(q) /\ Memory(q) /\ Once(q)
  BY DEF RefsIInv
<1>3. \A u \in Threads : Guards(u) /\ Locks(u)
  BY DEF RefsIInv
<1>4. stack[t] # <<>> /\ Top(t).at = "free"
  BY DEF Free, At
<1>5. PICK b \in CallType : /\ b = Top(t) /\ Arguments(b) /\ b.at = "free" /\ b.obj \in Instances
                            /\ Progress(b)
  BY <1>1, <1>4, StackTypes DEF Stacks, Progresses, Arguments
<1>6. PICK o \in Instances : o = b.obj /\ slot[o] = nil /\ o \notin tables
  BY <1>5 DEF Progress
<1>7. /\ alive' = alive \ {o} /\ flag' = [flag EXCEPT ![o] = FALSE] /\ Continue(t, <<>>)
      /\ UNCHANGED <<count, held, tables, assoc, assocLock, slot, slotLock>>
  BY <1>5, <1>6 DEF Free, properties
<1>8. PICK n : n = Depth(t) - 1
  OBVIOUS
<1>9. /\ Settled(t, n)
      /\ Own(t, n + 1)' = {} /\ \A i \in Nat : i > n + 1 => Own(t, i)' = {}
      /\ \A i \in Nat : i > n => \A q \in Instances : ~Deals(t, i, q)'
      /\ \A i \in Nat : i > n /\ i <= Depth(t)' => stack'[t][i].at = "release"
  <2>1. PICK T \in SUBSET ((Keys \cup {nil}) \X Instances) : T = {} /\ ReleaseAll(T) = <<>>
    BY ReleaseAllTyped
  <2>2. Continue(t, ReleaseAll(T))
    BY <1>7, <2>1
  <2> QED
    BY <1>1, <1>4, <1>8, <2>1, <2>2, Goes
<1>10. /\ Stacks' /\ Guards(t)' /\ Kept(t, n) /\ ~At(t, "getassoc")' /\ ~At(t, "getslot")'
       /\ n \in Nat /\ Depth(t) = n + 1
  BY <1>9 DEF Settled
<1>11. flag' \in [Instances -> BOOLEAN] /\ ~flag'[o] /\ \A q \in Instances : q # o => flag'[q] = flag[q]
  BY <1>1, <1>7 DEF RefsTypeOK
<1>12. RefsTypeOK'
  <2>1. stack' \in [Threads -> Seq(CallType)]
    BY <1>10 DEF Kept
  <2> QED
    BY <1>1, <1>7, <1>11, <2>1 DEF RefsTypeOK
<1>13. n + 1 \in DOMAIN stack[t] /\ stack[t][n + 1] = b /\ n + 1 \in Nat
  BY <1>1, <1>4, <1>5, <1>10, StackTypes
<1>14. \A i \in Nat : i > n + 1 => Own(t, i) = {} /\ \A q : ~Deals(t, i, q)
  BY <1>1, <1>10, Beyond
<1>15. Own(t, n + 1) = {} /\ \A q : Deals(t, n + 1, q) <=> o = q
  <2>1. Owns(b) = {}
    BY <1>5, OwnsNothing
  <2> QED
    BY <1>5, <1>6, <1>13, <2>1 DEF Own, Deals, DeallocLabels
<1>16. \A i \in Nat : i > n => i = n + 1 \/ i > n + 1
  BY <1>10
<1>17. /\ o \in alive /\ count[o] = 0 /\ Deallocations(o) = {<<t, n + 1>>}
       /\ \A u \in Threads : \A j \in Nat : Deals(u, j, o) => u = t /\ j = n + 1
  <2>1. Deals(t, n + 1, o)
    BY <1>15
  <2> QED
    BY <1>1, <1>2, <1>13, <2>1, TwoDeallocations
<1>18. DealsElsewhere(t, n + 1)
  <2>1. \A i \in Nat : i > n /\ i # n + 1 => \A q \in Instances : (Deals(t, i, q)' <=> Deals(t, i, q))
    BY <1>9, <1>14, <1>16
  <2> QED
    BY <1>1, <1>10, <1>13, <2>1, DealsOneChanges
<1>19. Progresses'
  <2>1. ASSUME NEW u \in Threads, NEW i \in DOMAIN stack[u], ~(u = t /\ i > n),
               NEW d \in CallType, d = stack[u][i], Progress(d)
        PROVE  Progress(d)'
    <3>1. CASE d.at = "remove"
      <4>1. d.obj \in Instances
        BY <1>1, <2>1, <3>1 DEF Stacks, Arguments
      <4>2. d.obj # o
        <5>1. SUFFICES ASSUME d.obj = o PROVE FALSE
          OBVIOUS
        <5>2. Deals(u, i, o) /\ i \in Nat
          BY <1>1, <2>1, <3>1, <5>1, Domains DEF Deals, DeallocLabels
        <5>3. u = t /\ i = n + 1
          BY <1>17, <5>2
        <5>4. n + 1 > n
          BY <1>10
        <5> QED
          BY <2>1, <5>3, <5>4
      <4> QED
        BY <1>7, <1>11, <2>1, <3>1, <4>1, <4>2 DEF Progress
    <3>2. CASE d.at # "remove"
      BY <1>7, <2>1, <3>2 DEF Progress
    <3> QED
      BY <3>1, <3>2
  <2>2. ASSUME NEW i \in Nat, i > n, i <= Depth(t)', NEW d \in CallType, d = stack'[t][i]
        PROVE  Progress(d)'
    <3>1. d.at = "release"
      BY <1>9, <2>2
    <3> QED
      BY <3>1 DEF Progress
  <2> QED
    BY <1>1, <1>10, <2>1, <2>2, ProgressesNext
<1>20. \A u \in Threads : Guards(u)'
  <2>1. ASSUME NEW u \in Threads, u # t PROVE Guards(u)'
    <3>1. Depth(u) # 0 => Top(u).obj \in Instances \cup {nil}
      BY <1>1, GuardObjects
    <3> QED
      BY <1>1, <1>3, <1>7, <1>10, <2>1, <3>1, GuardsNext
  <2> QED
    BY <1>10, <2>1
<1>21. \A u \in Threads : Locks(u)'
  <2>1. ASSUME NEW u \in Threads, u # t PROVE Locks(u)'
    BY <1>3, <1>7, <1>10, <2>1, LocksNext
  <2>2. Locks(t)'
    <3>1. assocLock' # t /\ \A q \in Instances : slotLock'[q] # t
      <4>1. ~At(t, "getassoc") /\ ~At(t, "getslot")
        BY <1>4 DEF At
      <4> QED
        BY <1>3, <1>7, <4>1 DEF Locks
    <3> QED
      BY <1>10, <3>1, LocksQuiet
  <2> QED
    BY <2>1, <2>2
<1>22. \A q \in Instances : CallRefs(q)' = CallRefs(q)
  <2>1. \A i \in Nat : i > n => Own(t, i)' = Own(t, i)
    BY <1>9, <1>14, <1>15, <1>16
  <2>2. \A u \in Threads : \A i \in Nat : Own(u, i)' = Own(u, i)
    BY <1>1, <1>10, <2>1, OwnNoneChanges
  <2> QED
    BY <1>1, <1>12, <2>2, CallRefsSame
<1>23. ASSUME NEW q \in Instances PROVE Counted(q)' /\ Memory(q)' /\ Once(q)'
  <2>1. count'[q] = count[q]
    BY <1>7
  <2>2. Once(q)'
    <3>1. Deallocations(q)'
            = (Deallocations(q) \ {<<t, n + 1>>})
              \cup (IF Deals(t, n + 1, q)' THEN {<<t, n + 1>>} ELSE {})
      BY <1>1, <1>12, <1>13, <1>18, DeallocationsToggle
    <3>2. ~Deals(t, n + 1, q)'
      <4>1. n + 1 > n
        BY <1>10
      <4> QED
        BY <1>9, <1>13, <4>1
    <3>3. CASE q = o
      <4>1. Deallocations(q)' = {}
        BY <1>17, <3>1, <3>2, <3>3
      <4>2. q \notin alive'
        BY <1>7, <3>3
      <4> QED
        BY <4>1, <4>2 DEF Once
    <3>4. CASE q # o
      <4>1. <<t, n + 1>> \notin Deallocations(q)
        <5>1. SUFFICES ASSUME <<t, n + 1>> \in Deallocations(q) PROVE FALSE
          OBVIOUS
        <5>2. PICK u, i : u \in Threads /\ i \in DOMAIN stack[u] /\ Deals(u, i, q) /\ <<t, n + 1>> = <<u, i>>
          BY <5>1, InDeallocations
        <5>3. Deals(t, n + 1, q)
          BY <5>2
        <5> QED
          BY <1>15, <3>4, <5>3
      <4>2. Deallocations(q)' = Deallocations(q)
        BY <3>1, <3>2, <4>1
      <4>3. q \in alive' <=> q \in alive
        BY <1>7, <3>4
      <4> QED
        BY <1>2, <2>1, <4>2, <4>3, OnceSame
    <3> QED
      BY <3>3, <3>4
  <2>3. Memory(q)'
    <3>1. CASE q = o
      <4>1. ~(count'[q] > 0)
        BY <1>17, <2>1, <3>1
      <4> QED
        BY <1>2, <1>6, <1>7, <1>11, <3>1, <4>1 DEF Memory
    <3>2. CASE q # o
      BY <1>2, <1>7, <1>11, <3>2 DEF Memory
    <3> QED
      BY <3>1, <3>2
  <2>4. Counted(q)'
    <3>1. HeldRefs(q)' = HeldRefs(q) /\ AssocRefs(q)' = AssocRefs(q) /\ SlotRefs(q)' = SlotRefs(q)
      BY <1>7 DEF HeldRefs, AssocRefs, SlotRefs, Owned
    <3> QED
      BY <1>2, <1>22, <2>1, <3>1 DEF Counted
  <2> QED
    BY <2>2, <2>3, <2>4
<1> QED
  BY <1>10, <1>12, <1>19, <1>20, <1>21, <1>23 DEF RefsIInv

(* A call has released e; all is well if deallocations are.                *)
LEMMA Released ==
  ASSUME Parameters, RefsIInv, NEW t \in Threads, stack[t] # <<>>, Top(t).at = "release",
         NEW n, Settled(t, n), NEW e \in Top(t).todo, Own(t, n + 1)' = Top(t).todo \ {e},
         \A i \in Nat : i > n + 1 => Own(t, i)' = {},
         \A i \in Nat : i > n /\ i <= Depth(t)' => stack'[t][i].at \in {"release", "dealloc"},
         count' = [count EXCEPT ![e[2]] = @ - 1],
         UNCHANGED <<alive, held, associations, properties>>,
         RefsTypeOK' => \A q \in Instances : Once(q)'
  PROVE  RefsIInv'
<1>1. RefsTypeOK /\ Stacks /\ Progresses
  BY DEF RefsIInv
<1>2. \A q \in Instances : Counted(q) /\ Memory(q)
  BY DEF RefsIInv
<1>3. \A u \in Threads : Guards(u) /\ Locks(u)
  BY DEF RefsIInv
<1>4. UNCHANGED <<alive, held, flag, tables, assoc, assocLock, slot, slotLock>>
  BY DEF associations, properties
<1>5. /\ Stacks' /\ Guards(t)' /\ Kept(t, n) /\ ~At(t, "getassoc")' /\ ~At(t, "getslot")'
      /\ n \in Nat /\ Depth(t) = n + 1
  BY DEF Settled
<1>6. n + 1 \in DOMAIN stack[t] /\ stack[t][n + 1] = Top(t) /\ n + 1 \in Nat /\ Top(t) \in CallType
  BY <1>1, <1>5, StackTypes
<1>7. PICK o \in Instances : o = e[2]
  BY <1>6 DEF CallType
<1>8. Own(t, n + 1) = Top(t).todo
  BY <1>6 DEF Own, Owns
<1>9. PICK c \in Nat : c = count[o] /\ c > 0
  <2>1. count[o] \in Nat
    BY <1>1 DEF RefsTypeOK
  <2>2. count[o] > 0
    BY <1>1, <1>2, <1>7, <1>8, CallIsReferred
  <2> QED
    BY <2>1, <2>2
<1>10. c - 1 \in Nat
  BY <1>9
<1>11. /\ count' \in [Instances -> Nat] /\ count'[o] = c - 1
       /\ \A q \in Instances : q # o => count'[q] = count[q]
  BY <1>1, <1>7, <1>9, <1>10 DEF RefsTypeOK
<1>12. RefsTypeOK'
  <2>1. stack' \in [Threads -> Seq(CallType)]
    BY <1>5 DEF Kept
  <2> QED
    BY <1>1, <1>4, <1>11, <2>1 DEF RefsTypeOK
<1>13. OwnElsewhere(t, n + 1)
  <2>1. \A i \in Nat : i > n + 1 => Own(t, i) = {}
    BY <1>1, <1>5, Beyond
  <2>2. \A i \in Nat : i > n /\ i # n + 1 => i > n + 1
    BY <1>5
  <2>3. \A i \in Nat : i > n /\ i # n + 1 => Own(t, i)' = Own(t, i)
    BY <2>1, <2>2
  <2> QED
    BY <1>1, <1>5, <1>6, <2>3, OwnOneChanges
<1>14. Progresses'
  <2>1. ASSUME NEW d, Progress(d) PROVE Progress(d)'
    BY <1>4, <2>1, ProgressSame
  <2>2. ASSUME NEW i \in Nat, i > n, i <= Depth(t)', NEW d \in CallType, d = stack'[t][i]
        PROVE  Progress(d)'
    <3>1. d.at \in {"release", "dealloc"}
      BY <2>2
    <3> QED
      BY <3>1 DEF Progress
  <2> QED
    BY <1>1, <1>5, <2>1, <2>2, ProgressesNext
<1>15. \A u \in Threads : Guards(u)'
  <2>1. ASSUME NEW u \in Threads, u # t PROVE Guards(u)'
    <3>1. Depth(u) # 0 => Top(u).obj \in Instances \cup {nil}
      BY <1>1, GuardObjects
    <3> QED
      BY <1>1, <1>3, <1>4, <1>5, <2>1, <3>1, GuardsNext
  <2> QED
    BY <1>5, <2>1
<1>16. \A u \in Threads : Locks(u)'
  <2>1. ASSUME NEW u \in Threads, u # t PROVE Locks(u)'
    BY <1>3, <1>4, <1>5, <2>1, LocksNext
  <2>2. Locks(t)'
    <3>1. assocLock' # t /\ \A q \in Instances : slotLock'[q] # t
      <4>1. ~At(t, "getassoc") /\ ~At(t, "getslot")
        BY DEF At
      <4> QED
        BY <1>3, <1>4, <4>1 DEF Locks
    <3> QED
      BY <1>5, <3>1, LocksQuiet
  <2> QED
    BY <2>1, <2>2
<1>17. ASSUME NEW q \in Instances PROVE Counted(q)' /\ Memory(q)'
  <2>1. PICK d \in {0, 1} : d = One(e[2] = q)
    BY DEF One
  <2>2. count[q] \in Nat /\ count'[q] = count[q] - d
    <3>1. count[q] \in Nat
      BY <1>1 DEF RefsTypeOK
    <3>2. CASE q = o
      BY <1>7, <1>9, <1>11, <2>1, <3>2 DEF One
    <3>3. CASE q # o
      BY <1>7, <1>11, <2>1, <3>1, <3>3 DEF One
    <3> QED
      BY <3>1, <3>2, <3>3
  <2>3. Memory(q)'
    <3>1. count'[q] > 0 => count[q] > 0
      BY <2>2
    <3> QED
      BY <1>2, <1>4, <3>1, MemorySame
  <2>4. Counted(q)'
    <3>1. IsFiniteSet(CallRefs(q))
      BY <1>2 DEF Counted
    <3>2. /\ IsFiniteSet(CallRefs(q)') /\ Cardinality(CallRefs(q)') \in Nat
          /\ Cardinality(CallRefs(q)) \in Nat
          /\ Cardinality(CallRefs(q)') = Cardinality(CallRefs(q)) - One(e[2] = q)
      <4>1. e \in Own(t, n + 1) /\ Own(t, n + 1)' = Own(t, n + 1) \ {e}
        BY <1>8
      <4> QED
        BY <1>1, <1>6, <1>12, <1>13, <3>1, <4>1, ReleaseCount
    <3>3. PICK f \in Int : f = 0 - d
      OBVIOUS
    <3>4. Cardinality(CallRefs(q)') = Cardinality(CallRefs(q)) + f
      BY <2>1, <3>2, <3>3
    <3>5. count'[q] = count[q] + (0 + f + 0 + 0)
      BY <2>2, <3>3
    <3>6. /\ IsFiniteSet(HeldRefs(q)')
          /\ Cardinality(HeldRefs(q)') = Cardinality(HeldRefs(q)) + 0
      BY <1>1, <1>2, <1>4, HeldStay
    <3>7. /\ IsFiniteSet(AssocRefs(q)')
          /\ Cardinality(AssocRefs(q)') = Cardinality(AssocRefs(q)) + 0
      BY <1>1, <1>2, <1>4, AssocsStay
    <3>8. /\ IsFiniteSet(SlotRefs(q)')
          /\ Cardinality(SlotRefs(q)') = Cardinality(SlotRefs(q)) + 0
      BY <1>1, <1>2, <1>4, SlotsStay
    <3> QED
      BY <1>1, <1>2, <3>2, <3>4, <3>5, <3>6, <3>7, <3>8, Balanced
  <2> QED
    BY <2>3, <2>4
<1> QED
  BY <1>5, <1>12, <1>14, <1>15, <1>16, <1>17 DEF RefsIInv

LEMMA ReleaseKeeps ==
  ASSUME Parameters, RefsIInv, NEW t \in Threads, Release(t)
  PROVE  RefsIInv'
<1>1. RefsTypeOK /\ Stacks /\ \A q \in Instances : Counted(q) /\ Memory(q) /\ Once(q)
  BY DEF RefsIInv
<1>2. stack[t] # <<>> /\ Top(t).at = "release" /\ Top(t).at \notin DeallocLabels
  BY DEF Release, At, DeallocLabels
<1>3. PICK b \in CallType : b = Top(t) /\ Depth(t) \in DOMAIN stack[t] /\ Depth(t) \in Nat
                            /\ stack[t][Depth(t)] = b
  BY <1>1, <1>2, StackTypes
<1>4. PICK e \in b.todo :
        /\ count' = [count EXCEPT ![e[2]] = @ - 1]
        /\ Continue(t, ReleaseAll(b.todo \ {e})
                       \o (IF count[e[2]] = 1 THEN <<Dealloc(e[2])>> ELSE <<>>))
  BY <1>3 DEF Release
<1>5. UNCHANGED <<alive, held, associations, properties>>
  BY DEF Release
<1>6. PICK o \in Instances : o = e[2]
  BY <1>3 DEF CallType
<1>7. PICK T \in SUBSET ((Keys \cup {nil}) \X Instances) : T = b.todo \ {e}
  BY <1>3 DEF CallType
<1>8. PICK n : n = Depth(t) - 1
  OBVIOUS
<1>9. e \in Own(t, Depth(t))
  BY <1>2, <1>3 DEF Own, Owns
<1>10. PICK c \in Nat : c = count[o] /\ c > 0
  <2>1. count[o] \in Nat
    BY <1>1 DEF RefsTypeOK
  <2>2. count[o] > 0
    BY <1>1, <1>6, <1>9, CallIsReferred
  <2> QED
    BY <2>1, <2>2
<1>11. count'[o] = c - 1 /\ \A q \in Instances : q # o => count'[q] = count[q]
  BY <1>1, <1>4, <1>6, <1>10 DEF RefsTypeOK
<1>12. o \in alive /\ Deallocations(o) = {}
  BY <1>1, <1>10 DEF Memory, Once
<1>13. CASE c # 1
  <2>1. Continue(t, ReleaseAll(T))
    <3>1. ReleaseAll(T) \in Seq(CallType)
      BY ReleaseAllTyped
    <3>2. ReleaseAll(T) \o <<>> = ReleaseAll(T)
      BY <3>1
    <3> QED
      BY <1>4, <1>6, <1>7, <1>10, <1>13, <3>2
  <2>2. /\ Settled(t, n) /\ Own(t, n + 1)' = T
        /\ \A i \in Nat : i > n + 1 => Own(t, i)' = {}
        /\ \A i \in Nat : i > n /\ i <= Depth(t)' => stack'[t][i].at = "release"
    BY <1>1, <1>2, <1>8, <2>1, Goes
  <2>3. RefsTypeOK' => \A q \in Instances : Deallocations(q)' = Deallocations(q)
    BY <1>1, <1>2, <1>8, <2>1, GoesOn
  <2>4. ASSUME RefsTypeOK', NEW q \in Instances PROVE Once(q)'
    <3>1. Deallocations(q)' = Deallocations(q)
      BY <2>3, <2>4
    <3>2. (count'[q] = 0) <=> (count[q] = 0)
      <4>1. CASE q = o
        BY <1>10, <1>11, <1>13, <4>1
      <4>2. CASE q # o
        BY <1>11, <4>2
      <4> QED
        BY <4>1, <4>2
    <3> QED
      BY <1>1, <1>5, <3>1, <3>2, OnceSame
  <2> QED
    BY <1>2, <1>3, <1>4, <1>5, <1>7, <2>2, <2>4, Released
<1>14. CASE c = 1
  <2>1. Continue(t, ReleaseAll(T) \o <<Dealloc(o)>>)
    BY <1>4, <1>6, <1>7, <1>10, <1>14
  <2>2. /\ Settled(t, n) /\ Own(t, n + 1)' = T
        /\ \A i \in Nat : i > n + 1 => Own(t, i)' = {}
        /\ \A i \in Nat : i > n /\ i <= Depth(t)' => stack'[t][i].at \in {"release", "dealloc"}
    BY <1>1, <1>2, <1>8, <2>1, Deallocates
  <2>3. PICK p \in Nat : /\ p > n /\ \A q \in Instances : Deals(t, p, q)' <=> q = o
                         /\ \A i \in Nat : i > n /\ i # p => \A q \in Instances : ~Deals(t, i, q)'
    BY <1>1, <1>2, <1>8, <2>1, Deallocates
  <2>4. n \in Nat /\ Kept(t, n) /\ Depth(t) = n + 1
    BY <2>2 DEF Settled
  <2>5. \A i \in Nat : i > n => \A q : ~Deals(t, i, q)
    <3>1. \A i \in Nat : i > n + 1 => \A q : ~Deals(t, i, q)
      BY <1>1, <2>4, Beyond
    <3>2. \A q : ~Deals(t, n + 1, q)
      BY <1>2, <1>3, <2>4 DEF Deals
    <3>3. \A i \in Nat : i > n => i = n + 1 \/ i > n + 1
      BY <2>4
    <3> QED
      BY <3>1, <3>2, <3>3
  <2>6. DealsElsewhere(t, p)
    <3>1. \A i \in Nat : i > n /\ i # p => \A q \in Instances : (Deals(t, i, q)' <=> Deals(t, i, q))
      BY <2>3, <2>5
    <3> QED
      BY <1>1, <2>4, <3>1, DealsOneChanges
  <2>7. ASSUME RefsTypeOK', NEW q \in Instances PROVE Once(q)'
    <3>1. Deallocations(q)'
            = (Deallocations(q) \ {<<t, p>>}) \cup (IF Deals(t, p, q)' THEN {<<t, p>>} ELSE {})
      BY <1>1, <2>6, <2>7, DeallocationsToggle
    <3>2. CASE q = o
      <4>1. Deallocations(q)' = {<<t, p>>}
        BY <1>12, <2>3, <3>1, <3>2
      <4>2. q \in alive' /\ count'[q] = 0
        BY <1>5, <1>10, <1>11, <1>12, <1>14, <3>2
      <4> QED
        BY <4>1, <4>2 DEF Once
    <3>3. CASE q # o
      <4>1. <<t, p>> \notin Deallocations(q)
        <5>1. SUFFICES ASSUME <<t, p>> \in Deallocations(q) PROVE FALSE
          OBVIOUS
        <5>2. PICK u, i : u \in Threads /\ i \in DOMAIN stack[u] /\ Deals(u, i, q) /\ <<t, p>> = <<u, i>>
          BY <5>1, InDeallocations
        <5>3. Deals(t, p, q)
          BY <5>2
        <5> QED
          BY <2>3, <2>5, <5>3
      <4>2. Deallocations(q)' = Deallocations(q)
        BY <2>3, <3>1, <3>3, <4>1
      <4>3. count'[q] = count[q]
        BY <1>11, <3>3
      <4> QED
        BY <1>1, <1>5, <4>2, <4>3, OnceSame
    <3> QED
      BY <3>2, <3>3
  <2> QED
    BY <1>2, <1>3, <1>4, <1>5, <1>7, <2>2, <2>7, Released
<1> QED
  BY <1>13, <1>14

-----------------------------------------------------------------------------
(* The invariant                                                           *)

LEMMA NoReferences ==
  ASSUME Parameters, RefsInit, NEW o \in Instances
  PROVE  /\ HeldRefs(o) = {} /\ CallRefs(o) = {} /\ AssocRefs(o) = {} /\ SlotRefs(o) = {}
         /\ Deallocations(o) = {}
<1>1. \A t \in Threads : DOMAIN stack[t] = {}
  BY DEF RefsInit
<1>2. CallRefs(o) = {} /\ Deallocations(o) = {}
  BY <1>1, InCallRefs, InDeallocations
<1>3. HeldRefs(o) = {}
  <2>1. \A t \in Threads : held[t][o] = 0
    BY DEF RefsInit
  <2>2. 1..0 = {}
    OBVIOUS
  <2> QED
    BY <2>1, <2>2, InHeldRefs
<1>4. AssocRefs(o) = {} /\ SlotRefs(o) = {}
  BY DEF RefsInit, AssocRefs, SlotRefs, Owned, NoEntry, Parameters
<1> QED
  BY <1>2, <1>3, <1>4

LEMMA ReferencesBegin ==
  ASSUME Parameters, RefsInit
  PROVE  RefsIInv
<1>1. RefsTypeOK
  <2>1. NoEntry \in EntryType
    BY DEF NoEntry, EntryType, Policies
  <2>2. <<>> \in Seq(CallType)
    OBVIOUS
  <2> QED
    BY <2>1, <2>2 DEF RefsInit, RefsTypeOK
<1>2. \A t \in Threads : stack[t] = <<>> /\ DOMAIN stack[t] = {} /\ Depth(t) = 0
  BY DEF RefsInit, Depth
<1>3. Stacks /\ Progresses
  BY <1>2 DEF Stacks, Progresses
<1>4. \A t \in Threads : Guards(t) /\ Locks(t)
  BY <1>2 DEF Guards, Locks, At, RefsInit, Parameters
<1>5. ASSUME NEW o \in Instances PROVE Counted(o) /\ Memory(o) /\ Once(o)
  <2>1. IsFiniteSet({}) /\ Cardinality({}) = 0
    BY FS_EmptySet
  <2>2. count[o] = 0 /\ o \notin alive
    BY DEF RefsInit
  <2>3. Counted(o)
    BY <2>1, <2>2, NoReferences DEF Counted
  <2>4. Once(o)
    BY <2>2, NoReferences DEF Once
  <2>5. Memory(o)
    BY <2>2 DEF Memory, RefsInit
  <2> QED
    BY <2>3, <2>4, <2>5
<1> QED
  BY <1>1, <1>3, <1>4, <1>5 DEF RefsIInv

LEMMA StuttersKeep ==
  ASSUME RefsIInv, UNCHANGED refsVars
  PROVE  RefsIInv'
<1>1. /\ alive' = alive /\ count' = count /\ held' = held
      /\ flag' = flag /\ tables' = tables /\ assoc' = assoc /\ assocLock' = assocLock
      /\ slot' = slot /\ slotLock' = slotLock /\ stack' = stack
  BY DEF refsVars, objects, associations, properties
<1>2. RefsTypeOK'
  BY <1>1 DEF RefsIInv, RefsTypeOK
<1>3. Stacks'
  BY <1>1 DEF RefsIInv, Stacks, Depth
<1>4. Progresses'
  BY <1>1 DEF RefsIInv, Progresses, Progress
<1>5. ASSUME NEW t \in Threads PROVE Guards(t)' /\ Locks(t)'
  <2>1. Depth(t)' = Depth(t) /\ Top(t)' = Top(t)
    BY <1>1 DEF Depth, Top
  <2>2. \A label : At(t, label)' <=> At(t, label)
    BY <1>1, <2>1 DEF At
  <2>3. Guards(t) /\ Locks(t)
    BY DEF RefsIInv
  <2>4. Guards(t)'
    BY <1>1, <2>1, <2>3 DEF Guards
  <2>5. Locks(t)'
    BY <1>1, <2>1, <2>2, <2>3 DEF Locks
  <2> QED
    BY <2>4, <2>5
<1>6. ASSUME NEW o \in Instances PROVE Counted(o)' /\ Memory(o)' /\ Once(o)'
  <2>1. HeldRefs(o)' = HeldRefs(o) /\ AssocRefs(o)' = AssocRefs(o) /\ SlotRefs(o)' = SlotRefs(o)
    BY <1>1 DEF HeldRefs, AssocRefs, SlotRefs
  <2>2. CallRefs(o)' = CallRefs(o)
    BY <1>1 DEF CallRefs, RefsOfCall
  <2>3. Deallocations(o)' = Deallocations(o)
    BY <1>1 DEF Deallocations, DeallocCalls
  <2>4. Counted(o) /\ Memory(o) /\ Once(o)
    BY DEF RefsIInv
  <2>5. Counted(o)'
    BY <1>1, <2>1, <2>2, <2>4 DEF Counted
  <2>6. Memory(o)'
    BY <1>1, <2>4 DEF Memory
  <2>7. Once(o)'
    BY <1>1, <2>3, <2>4 DEF Once
  <2> QED
    BY <2>5, <2>6, <2>7
<1> QED
  BY <1>2, <1>3, <1>4, <1>5, <1>6 DEF RefsIInv

LEMMA ReferencesKeep ==
  ASSUME Parameters, RefsIInv, [RefsNext]_refsVars
  PROVE  RefsIInv'
<1>1. CASE UNCHANGED refsVars
  BY <1>1, StuttersKeep
<1>2. CASE RefsNext
  <2>1. PICK t \in Threads : Step(t) \/ Program(t)
    BY <1>2 DEF RefsNext
  <2>2. CASE Step(t)
    BY <2>2, SwapKeeps, RetainAssociationKeeps, SwapSlotKeeps, RetainPropertyKeeps, ReleaseKeeps,
       EndDeallocKeeps, DestructKeeps, RemoveAssociationsKeeps, FreeKeeps DEF Step
  <2>3. CASE \E o \in Instances : Alloc(t, o) \/ Drop(t, o) \/ (\E u \in Threads : Give(t, u, o))
    BY <2>3, AllocKeeps, DropKeeps, GiveKeeps
  <2>4. CASE \E a \in Associable :
               \/ GetAssociation(t, a[1], a[2])
               \/ \E v \in {a[3], nil}, policy \in Policies : SetAssociation(t, a[1], a[2], v, policy)
    <3>1. PICK a \in Associable :
               \/ GetAssociation(t, a[1], a[2])
               \/ \E v \in {a[3], nil}, policy \in Policies : SetAssociation(t, a[1], a[2], v, policy)
      BY <2>4
    <3>2. PICK o \in Instances, k \in Keys : o = a[1] /\ k = a[2] /\ a[3] \in Instances
      BY DEF Parameters, Keys
    <3>3. CASE GetAssociation(t, o, k)
      BY <3>3, GetAssociationKeeps
    <3>4. CASE \E v \in {a[3], nil}, policy \in Policies : SetAssociation(t, o, k, v, policy)
      <4>1. PICK v \in Instances \cup {nil}, policy \in Policies : SetAssociation(t, o, k, v, policy)
        BY <3>2, <3>4
      <4> QED
        BY <4>1, SetAssociationKeeps
    <3> QED
      BY <3>1, <3>2, <3>3, <3>4
  <2>5. CASE \E p \in Properties :
               GetProperty(t, p[1]) \/ (\E v \in {p[2], nil} : SetProperty(t, p[1], v))
    <3>1. PICK p \in Properties :
               GetProperty(t, p[1]) \/ (\E v \in {p[2], nil} : SetProperty(t, p[1], v))
      BY <2>5
    <3>2. PICK o \in Instances, w \in Instances : o = p[1] /\ w = p[2]
      BY DEF Parameters
    <3>3. CASE GetProperty(t, o)
      BY <3>3, GetPropertyKeeps
    <3>4. CASE \E v \in {w, nil} : SetProperty(t, o, v)
      <4>1. PICK v \in Instances \cup {nil} : SetProperty(t, o, v)
        BY <3>4
      <4> QED
        BY <4>1, SetPropertyKeeps
    <3> QED
      BY <3>1, <3>2, <3>3, <3>4
  <2> QED
    BY <2>1, <2>2, <2>3, <2>4, <2>5 DEF Program
<1> QED
  BY <1>1, <1>2

LEMMA ReferencesInvariant ==
  ASSUME Parameters
  PROVE  RefsSpec => []RefsIInv
<1>1. RefsInit => RefsIInv
  BY ReferencesBegin
<1>2. RefsIInv /\ [RefsNext]_refsVars => RefsIInv'
  BY ReferencesKeep
<1> QED
  BY <1>1, <1>2, PTL DEF RefsSpec

-----------------------------------------------------------------------------

LEMMA CountsFollow ==
  ASSUME RefsIInv
  PROVE  CountsSound
<1>1. RefsTypeOK /\ \A o \in Instances : Counted(o) /\ Once(o)
  BY DEF RefsIInv
<1>2. CountsExplained
  BY <1>1 DEF Counted, CountsExplained
<1>3. ASSUME NEW o \in Instances
      PROVE  Cardinality(Deallocations(o)) = IF o \in alive /\ count[o] = 0 THEN 1 ELSE 0
  <2>1. CASE o \in alive /\ count[o] = 0
    <3>1. PICK d : Deallocations(o) = {d}
      BY <1>1, <2>1 DEF Once
    <3>2. Cardinality({d}) = 1
      BY FS_Singleton
    <3> QED
      BY <2>1, <3>1, <3>2
  <2>2. CASE ~(o \in alive /\ count[o] = 0)
    <3>1. Deallocations(o) = {}
      BY <1>1, <2>2 DEF Once
    <3>2. Cardinality({}) = 0
      BY FS_EmptySet
    <3> QED
      BY <2>2, <3>1, <3>2
  <2> QED
    BY <2>1, <2>2
<1> QED
  BY <1>1, <1>2, <1>3 DEF CountsSound, DeallocatedByOne

LEMMA GettersFollow ==
  ASSUME RefsIInv
  PROVE  GettersFindLiving
<1>1. RefsTypeOK /\ Stacks /\ \A o \in Instances : Counted(o) /\ Memory(o)
  BY DEF RefsIInv
<1> SUFFICES ASSUME NEW t \in Threads, At(t, "getassoc") \/ At(t, "getslot")
             PROVE  Top(t).val \in alive /\ count[Top(t).val] > 0
  BY DEF GettersFindLiving
<1>2. Locks(t)
  BY DEF RefsIInv
<1>3. PICK c \in CallType : c = Top(t) /\ Arguments(c)
  BY <1>1, StackTypes DEF Stacks, At
<1>4. PICK v \in Instances, o \in Instances : v = c.val /\ o = c.obj /\ (c.at = "getassoc" => c.key \in Keys)
  BY <1>3 DEF Arguments, At
<1>5. count[v] > 0
  <2>1. CASE At(t, "getassoc")
    <3>1. PICK k \in Keys : k = c.key
      BY <1>3, <1>4, <2>1 DEF At
    <3>2. Owned(assoc[o][k]) = v
      BY <1>2, <1>3, <1>4, <2>1, <3>1 DEF Locks
    <3> QED
      BY <1>1, <3>2, AssocIsReferred
  <2>2. CASE At(t, "getslot")
    <3>1. slot[o] = v
      BY <1>2, <1>3, <1>4, <2>2 DEF Locks
    <3> QED
      BY <1>1, <3>1, SlotIsReferred
  <2> QED
    BY <2>1, <2>2
<1>6. v \in alive
  BY <1>1, <1>5 DEF Memory
<1> QED
  BY <1>3, <1>4, <1>5, <1>6

LEMMA AssociationsFollow ==
  ASSUME RefsIInv
  PROVE  AssociationsEndWithObject
<1>1. tables \subseteq Instances /\ \A o \in Instances : Memory(o)
  BY DEF RefsIInv, RefsTypeOK
<1> QED
  BY <1>1 DEF Memory, AssociationsEndWithObject

(* References are counted, and the object goes with the last of them: the  *)
(* counts that setters, getters, releases and deallocations of all threads *)
(* leave are those of the references there are.                            *)
THEOREM ReferencesCounted ==
  ASSUME Parameters
  PROVE  RefsSpec => []CountsSound
<1>1. RefsIInv => CountsSound
  BY CountsFollow
<1> QED
  BY <1>1, ReferencesInvariant, PTL

(* A value that a getter has read, and is about to retain, still has a     *)
(* reference.                                                              *)
THEOREM GettersNeverLate ==
  ASSUME Parameters
  PROVE  RefsSpec => []GettersFindLiving
<1>1. RefsIInv => GettersFindLiving
  BY GettersFollow
<1> QED
  BY <1>1, ReferencesInvariant, PTL

(* Associations go with their object.                                      *)
THEOREM AssociationsEnd ==
  ASSUME Parameters
  PROVE  RefsSpec => []AssociationsEndWithObject
<1>1. RefsIInv => AssociationsEndWithObject
  BY AssociationsFollow
<1> QED
  BY <1>1, ReferencesInvariant, PTL
=============================================================================
