-------------------------- MODULE AutoreleasePool --------------------------
(***************************************************************************)
(* The autorelease pools of one thread (class AutoreleasePoolPage in       *)
(* NSObject.mm): a stack of entries cut into pages of equal size.          *)
(*                                                                         *)
(* The stack is private to its thread, so what interleaves is re-entrance: *)
(* each object that a pop releases may run a -dealloc that autoreleases    *)
(* objects, pushes pools and pops them, and may leave some of them pushed, *)
(* while the loop of releaseUntil holds on to its page and its stop.  One  *)
(* step is one call of the client, one turn of that loop, or its end.      *)
(***************************************************************************)
EXTENDS Integers, Sequences, SequencesExt

CONSTANTS Objects,               \* the objects that are autoreleased
          POOL_BOUNDARY,         \* the entry that begins a pool
          Capacity,              \* entries in a page, from begin() to end()
          MaxEntries,            \* bound on the entries of all pages
          MaxCalls               \* bound on open pools and nested pops

ASSUME PoolAssumption ==
  /\ Capacity \in Nat /\ Capacity >= 2
  /\ POOL_BOUNDARY \notin Objects

VARIABLES pages,    \* the pages, the coldest first, each a sequence of entries
          tls,      \* the thread's hot page, or one of the two values below
          calls,    \* open pools and pops in progress, the outermost first
          exiting,  \* is calls[1] the pop that tls_dealloc makes?
          DebugPoolAllocation,   \* OBJC_DEBUG_POOL_ALLOCATION
          DebugMissingPools      \* OBJC_DEBUG_MISSING_POOLS

(* The environment is read once, when the runtime starts.                  *)
modes == <<DebugPoolAllocation, DebugMissingPools>>
NormalMode == ~DebugPoolAllocation /\ ~DebugMissingPools

vars == <<pages, tls, calls, exiting, modes>>

Nil == 0
EMPTY_POOL_PLACEHOLDER == -1

-----------------------------------------------------------------------------
(* Pages.  A page is known by its depth and ends at its `next`.            *)

Full(p) == Len(pages[p]) = Capacity
LessThanHalfFull(p) == Len(pages[p]) < Capacity \div 2

HotPage == IF tls = EMPTY_POOL_PLACEHOLDER THEN Nil ELSE tls

(* The page, if there is one, and all its children are freed.              *)
Kill(p) == pages' = IF p > Len(pages) THEN pages ELSE SubSeq(pages, 1, p - 1)

-----------------------------------------------------------------------------
(* Adding an entry                                                         *)

(* Add e to page p of ps and make p the hot page.                          *)
Add(ps, p, e) ==
  /\ pages' = [ps EXCEPT ![p] = Append(@, e)]
  /\ tls' = p

(* Mutant: an empty child is left where it is and a page is added after it.*)
AutoreleaseFullPage_NoReuse(e) == Add(Append(pages, <<>>), Len(pages) + 1, e)

(* "Step to the next non-full page, adding a new page if necessary."       *)
AutoreleaseFullPage(e) ==
  LET rest == {p \in HotPage + 1 .. Len(pages) : ~Full(p)}
  IN IF rest # {}
     THEN Add(pages, CHOOSE p \in rest : \A q \in rest : p <= q, e)
     ELSE Add(Append(pages, <<>>), Len(pages) + 1, e)

(* Mutant: the placeholder's boundary is forgotten.                        *)
AutoreleaseNoPage_NoBoundary(e) ==
  IF e = POOL_BOUNDARY /\ tls = Nil /\ ~DebugPoolAllocation
  THEN tls' = EMPTY_POOL_PLACEHOLDER /\ UNCHANGED pages
  ELSE Add(<< <<>> >>, 1, e)

(* No pool, or one that is only a placeholder and gets its boundary now.   *)
AutoreleaseNoPage(e) ==
  \/ /\ tls = EMPTY_POOL_PLACEHOLDER
     /\ Add(<< <<POOL_BOUNDARY>> >>, 1, e)
  \/ /\ tls = Nil /\ e # POOL_BOUNDARY /\ DebugMissingPools
     /\ UNCHANGED <<pages, tls>>
  \/ /\ tls = Nil /\ e = POOL_BOUNDARY /\ ~DebugPoolAllocation
     /\ tls' = EMPTY_POOL_PLACEHOLDER
     /\ UNCHANGED pages
  \/ /\ tls = Nil
     /\ IF e = POOL_BOUNDARY THEN DebugPoolAllocation ELSE ~DebugMissingPools
     /\ Add(<< <<>> >>, 1, e)

AutoreleaseFast(e) ==
  \/ /\ HotPage # Nil /\ ~Full(HotPage)
     /\ Add(pages, HotPage, e)
  \/ /\ HotPage # Nil /\ Full(HotPage)
     /\ AutoreleaseFullPage(e)
  \/ /\ HotPage = Nil
     /\ AutoreleaseNoPage(e)

AutoreleaseNewPage(e) ==
  \/ HotPage # Nil /\ AutoreleaseFullPage(e)
  \/ HotPage = Nil /\ AutoreleaseNoPage(e)

-----------------------------------------------------------------------------
(* The client.  It runs outside any pop, or in the -dealloc of an object   *)
(* that a pop has released.  A pool's token is the place of its boundary;  *)
(* the placeholder's token has page Nil.                                   *)

Scope(p, k, s) == [page |-> p, at |-> k, state |-> s]

ClientRuns == calls # <<>> => Last(calls).state # "popping"

(* contents[n] is what the n coldest pages hold, as one stack.             *)
Contents ==
  LET contents[n \in 0..Len(pages)] ==
        IF n = 0 THEN <<>> ELSE contents[n - 1] \o pages[n]
  IN contents

HasRoom == Len(Contents[Len(pages)]) < MaxEntries

Push ==
  /\ ClientRuns
  /\ HasRoom /\ Len(calls) < MaxCalls
  /\ IF DebugPoolAllocation THEN AutoreleaseNewPage(POOL_BOUNDARY)
     ELSE AutoreleaseFast(POOL_BOUNDARY)
  /\ calls' = Append(calls,
                IF tls' = EMPTY_POOL_PLACEHOLDER THEN Scope(Nil, 0, "open")
                ELSE Scope(tls', Len(pages'[tls']) - 1, "open"))
  /\ UNCHANGED exiting

Autorelease(o) ==
  /\ ClientRuns
  /\ HasRoom
  /\ AutoreleaseFast(o)
  /\ UNCHANGED <<calls, exiting>>

(* pop's test of the token; if it fails the process is halted by badPop.   *)
ValidToken(p, k) ==
  /\ p \in DOMAIN pages /\ k + 1 \in DOMAIN pages[p]
  /\ pages[p][k + 1] # POOL_BOUNDARY => k = 0 /\ p = 1

(* pop begins.  Pools pushed later and not popped go with this one.        *)
Pop(i) ==
  /\ ClientRuns
  /\ \A j \in i..Len(calls) : calls[j].state = "open"
  /\ \/ /\ calls[i].page = Nil /\ HotPage = Nil
        /\ tls' = Nil
        /\ calls' = SubSeq(calls, 1, i - 1)
     \/ /\ calls[i].page = Nil /\ HotPage # Nil
        /\ calls' = Append(SubSeq(calls, 1, i - 1), Scope(1, 0, "popping"))
        /\ UNCHANGED tls
     \/ /\ calls[i].page # Nil /\ ValidToken(calls[i].page, calls[i].at)
        /\ calls' = Append(SubSeq(calls, 1, i - 1),
                           Scope(calls[i].page, calls[i].at, "popping"))
        /\ UNCHANGED tls
  /\ UNCHANGED <<pages, exiting>>

(* tls_dealloc                                                             *)
ThreadExit ==
  /\ tls # Nil
  /\ \A i \in DOMAIN calls : calls[i].state = "open"
  /\ \/ /\ tls = EMPTY_POOL_PLACEHOLDER
        /\ calls' = <<>> /\ tls' = Nil
        /\ UNCHANGED <<pages, exiting>>
     \/ /\ tls # EMPTY_POOL_PLACEHOLDER /\ pages[1] # <<>>
        /\ calls' = <<Scope(1, 0, "popping")>> /\ exiting' = TRUE
        /\ UNCHANGED <<pages, tls>>
     \/ /\ tls # EMPTY_POOL_PLACEHOLDER /\ pages[1] = <<>>
        /\ IF DebugMissingPools \/ DebugPoolAllocation
           THEN UNCHANGED pages ELSE Kill(1)
        /\ calls' = <<>> /\ tls' = Nil
        /\ UNCHANGED exiting

-----------------------------------------------------------------------------
(* releaseUntil                                                            *)

Releasing == calls # <<>> /\ Last(calls).state = "popping"

(* this->next != stop                                                      *)
NotDone == Len(pages[Last(calls).page]) # Last(calls).at

(* Mutant: the loop stays on its own page.                                 *)
HottestNonempty_This == Last(calls).page

(* "I think this `while` can be `if`, but I can't prove it": the page that *)
(* the inner loop finds is the hottest one that is not empty.              *)
HottestNonempty ==
  CHOOSE p \in 1..tls : pages[p] # <<>> /\ \A q \in p + 1 .. tls : pages[q] = <<>>

(* Mutant: the entry is read but stays in the page.                        *)
ReleaseOne_KeepsEntry ==
  /\ Releasing /\ NotDone
  /\ tls' = HottestNonempty
  /\ calls' = IF Last(pages[tls']) = POOL_BOUNDARY THEN calls
              ELSE [calls EXCEPT ![Len(calls)].state = "releasing"]
  /\ UNCHANGED <<pages, exiting>>

ReleaseOne ==
  /\ Releasing /\ NotDone
  /\ LET p == HottestNonempty
     IN /\ pages' = [pages EXCEPT ![p] = Front(@)]
        /\ tls' = p
        /\ calls' = IF Last(pages[p]) = POOL_BOUNDARY THEN calls
                    ELSE [calls EXCEPT ![Len(calls)].state = "releasing"]
  /\ UNCHANGED exiting

(* The -dealloc of the object released last returns.                       *)
Return(i) ==
  /\ calls[i].state = "releasing"
  /\ \A j \in i + 1 .. Len(calls) : calls[j].state = "open"
  /\ calls' = Append(SubSeq(calls, 1, i - 1),
                     [calls[i] EXCEPT !.state = "popping"])
  /\ UNCHANGED <<pages, tls, exiting>>

(* What pop does after releaseUntil: the debugging modes free an empty     *)
(* page, the normal mode keeps at most one empty child.                    *)
PopEnds ==
  /\ Releasing /\ ~NotDone /\ ~(exiting /\ Len(calls) = 1)
  /\ LET p == Last(calls).page
     IN \/ /\ DebugPoolAllocation /\ pages[p] = <<>>
           /\ Kill(p) /\ tls' = p - 1
        \/ /\ ~DebugPoolAllocation /\ DebugMissingPools /\ pages[p] = <<>> /\ p = 1
           /\ Kill(p) /\ tls' = Nil
        \/ /\ pages[p] = <<>> => ~DebugPoolAllocation /\ ~(DebugMissingPools /\ p = 1)
           /\ Kill(IF LessThanHalfFull(p) THEN p + 1 ELSE p + 2)
           /\ tls' = p
  /\ calls' = Front(calls)
  /\ UNCHANGED exiting

(* Mutant: tls_dealloc leaves the pages.                                   *)
ExitEnds_KeepsPages ==
  /\ Releasing /\ ~NotDone /\ exiting /\ Len(calls) = 1
  /\ tls' = Nil /\ calls' = <<>> /\ exiting' = FALSE
  /\ UNCHANGED pages

(* The end of tls_dealloc: pop has killed the pages or tls_dealloc does.   *)
ExitEnds ==
  /\ Releasing /\ ~NotDone /\ exiting /\ Len(calls) = 1
  /\ Kill(1)
  /\ tls' = Nil /\ calls' = <<>> /\ exiting' = FALSE

-----------------------------------------------------------------------------

Init ==
  /\ pages = <<>>
  /\ tls = Nil
  /\ calls = <<>>
  /\ exiting = FALSE
  /\ DebugPoolAllocation \in BOOLEAN
  /\ DebugMissingPools \in BOOLEAN

Client ==
  /\ UNCHANGED modes
  /\ \/ Push
     \/ \E o \in Objects : Autorelease(o)
     \/ \E i \in DOMAIN calls : Pop(i)
     \/ ThreadExit

Run ==
  /\ UNCHANGED modes
  /\ \/ ReleaseOne
     \/ PopEnds
     \/ ExitEnds
     \/ \E i \in DOMAIN calls : Return(i)

Next == Client \/ Run

Spec == Init /\ [][Next]_vars
FairSpec == Spec /\ WF_vars(Run)

-----------------------------------------------------------------------------
(* Properties                                                              *)

(* Pages hold at most Capacity entries, and tokens name pages that exist.  *)
TypeOK ==
  /\ pages \in Seq(Seq(Objects \cup {POOL_BOUNDARY}))
  /\ \A p \in DOMAIN pages : Len(pages[p]) <= Capacity
  /\ tls \in DOMAIN pages \cup {Nil, EMPTY_POOL_PLACEHOLDER}
  /\ calls \in Seq([page : Nat, at : 0..Capacity,
                   state : {"open", "popping", "releasing"}])
  /\ \A i \in DOMAIN calls : calls[i].page \in DOMAIN pages \cup {Nil}
  /\ exiting \in BOOLEAN

(* The fixme of releaseUntil, which is right in the normal mode: the page  *)
(* before an empty hot page is never empty itself while there is something *)
(* left to release, so that the inner loop runs at most once.              *)
IfSuffices ==
  NormalMode /\ Releasing /\ NotDone =>
    \/ pages[tls] # <<>>
    \/ tls > 1 /\ pages[tls - 1] # <<>>

(* The token of a pool that has not been popped leads to its boundary,     *)
(* whatever pools were pushed, popped, abandoned and freed meanwhile: pop  *)
(* never calls badPop for it.                                              *)
TokensValid ==
  \A i \in DOMAIN calls : calls[i].state = "open" =>
    IF calls[i].page = Nil
    THEN tls # EMPTY_POOL_PLACEHOLDER => pages # <<>> /\ pages[1][1] = POOL_BOUNDARY
    ELSE /\ ValidToken(calls[i].page, calls[i].at)
         /\ pages[calls[i].page][calls[i].at + 1] = POOL_BOUNDARY

(* "we expect any children to be completely empty": when releaseUntil has  *)
(* reached its stop, no younger page holds anything.                       *)
ChildrenEmpty ==
  Releasing /\ ~NotDone =>
    \A p \in Last(calls).page + 1 .. Len(pages) : pages[p] = <<>>

(* pop's "we expect any children to be completely empty", in the mode      *)
(* programs run in: kill throws nothing away that was not released.        *)
ChildrenEmptyNormally == NormalMode => ChildrenEmpty

(* "stored in TLS when exactly one pool is pushed and it has never         *)
(* contained any objects"; and no page outlives its thread's pools.        *)
PlaceholderMeaning ==
  /\ tls = EMPTY_POOL_PLACEHOLDER => calls = <<Scope(Nil, 0, "open")>>
  /\ tls \in {Nil, EMPTY_POOL_PLACEHOLDER} => pages = <<>>

(* Pages hold what they have room for, none is thrown away that is not     *)
(* empty, and the placeholder stands for what it should.                   *)
PagesSound == TypeOK /\ ChildrenEmptyNormally /\ PlaceholderMeaning

(* What the pages hold, coldest first, and how high this stack was when    *)
(* each call's pool was pushed.                                            *)
Stacked == IF tls = EMPTY_POOL_PLACEHOLDER THEN <<POOL_BOUNDARY>> ELSE Contents[Len(pages)]
Height(c) == IF c.page = Nil THEN 0 ELSE Len(Contents[c.page - 1]) + c.at
Scopes == [i \in DOMAIN calls |-> [height |-> Height(calls[i]), state |-> calls[i].state]]

Stack == INSTANCE PoolStack WITH stack <- Stacked, calls <- Scopes

PagePerPoolOnly == DebugPoolAllocation /\ ~DebugMissingPools

(* The pages implement one stack: what is released is what was autoreleased*)
(* last, and a pop ends exactly where its pool began.  With one debugging  *)
(* mode alone that is not so: see ChildrenEmpty.                           *)
StackSpec == Stack!Init /\ [][PagePerPoolOnly \/ Stack!Next]_(Stack!stackVars)

(* Once nobody adds to the pools, every pop in progress ends, and so does  *)
(* the thread's exit.                                                      *)
PopsEnd ==
  <>[][~Client]_vars => <>[](\A i \in DOMAIN calls : calls[i].state = "open")

=============================================================================
