------------------------------ MODULE SyncProof ------------------------------
(***************************************************************************)
(* Theorems about Sync, for every finite set of threads, every set of      *)
(* objects and any depth of nesting.                                       *)
(*                                                                         *)
(* The invariant IInv of SyncInv holds initially and is kept by every      *)
(* action.  The caches are dealt with once, in the lemmas that say what    *)
(* their operations do to the set of items of a thread; the actions are    *)
(* then about items, mutexes and counts only.                              *)
(***************************************************************************)
EXTENDS SyncInv, FiniteSetTheorems, SequenceTheorems, TLAPS

-----------------------------------------------------------------------------
(* Sequences                                                               *)

(* The element at i is replaced by the last one, whose place is given up.  *)
LEMMA FillGap ==
  ASSUME NEW S, NEW s \in Seq(S), NEW i \in DOMAIN s,
         NEW r, r = Front([s EXCEPT ![i] = Last(s)])
  PROVE  /\ r \in Seq(S)
         /\ Len(s) \in Nat \ {0} /\ i \in 1..Len(s)
         /\ DOMAIN s = 1..Len(s)
         /\ DOMAIN r = 1..Len(s) - 1
         /\ \A j \in 1..Len(s) - 1 : r[j] = IF j = i THEN s[Len(s)] ELSE s[j]
<1> DEFINE e == [s EXCEPT ![i] = Last(s)]
<1>1. DOMAIN s = 1..Len(s) /\ Len(s) \in Nat \ {0} /\ i \in 1..Len(s)
  BY LenProperties
<1>2. s[Len(s)] \in S
  BY <1>1, ElementOfSeq
<1>3. /\ e \in Seq(S) /\ Len(e) = Len(s)
      /\ \A j \in 1..Len(s) : e[j] = IF j = i THEN s[Len(s)] ELSE s[j]
  BY <1>1, <1>2, ExceptSeq DEF Last
<1>4. Len(s) - 1 \in 0..Len(e)
  BY <1>1, <1>3
<1>5. \A j \in 1..Len(s) - 1 : e[j] \in S
  BY <1>1, <1>3, ElementOfSeq
<1>6. /\ Front(e) \in Seq(S)
      /\ Len(Front(e)) = Len(s) - 1
      /\ \A j \in 1..Len(s) - 1 : Front(e)[j] = IF j = i THEN s[Len(s)] ELSE s[j]
  <2> HIDE DEF e
  <2> QED BY <1>1, <1>3, <1>4, <1>5, SubSeqProperties DEF Front
<1>7. DOMAIN Front(e) = 1..Len(s) - 1
  BY <1>6, LenProperties
<1>8. r = Front(e)
  OBVIOUS
<1>9. /\ r \in Seq(S)
      /\ DOMAIN r = 1..Len(s) - 1
      /\ \A j \in 1..Len(s) - 1 : r[j] = IF j = i THEN s[Len(s)] ELSE s[j]
  <2> HIDE DEF e
  <2> QED BY <1>6, <1>7, <1>8
<1> QED
  BY <1>1, <1>9

(* A longer sequence.                                                      *)
LEMMA Appended ==
  ASSUME NEW S, NEW s \in Seq(S), NEW e \in S
  PROVE  /\ Append(s, e) \in Seq(S)
         /\ Len(s) \in Nat /\ Len(Append(s, e)) = Len(s) + 1
         /\ DOMAIN s = 1..Len(s) /\ DOMAIN Append(s, e) = 1..Len(s) + 1
         /\ \A i \in 1..Len(s) : Append(s, e)[i] = s[i]
         /\ Append(s, e)[Len(s) + 1] = e
BY AppendProperties, LenProperties

-----------------------------------------------------------------------------
(* Caches                                                                  *)

(* A thread has no two items for a SyncData.                               *)
LEMMA ItemFacts ==
  ASSUME Types, Distinct, NEW t \in Threads
  PROVE  /\ Items(t) \subseteq CacheItems
         /\ \A x, y \in Items(t) : x.data = y.data => x = y
         /\ fast[t] # EmptyItem <=> fast[t].data # Nil
         /\ Cached(t) = {x.data : x \in Items(t)}
<1>1. \A i \in DOMAIN list[t] : list[t][i] \in CacheItems
  BY ElementOfSeq, LenProperties DEF Types
<1>2. fast[t] \in CacheItems \/ fast[t] = EmptyItem
  BY DEF Types
<1>3. fast[t] # EmptyItem <=> fast[t].data # Nil
  BY <1>2 DEF CacheItems, EmptyItem, Nil
<1>4. Items(t) \subseteq CacheItems
  BY <1>1, <1>2 DEF Items
<1>5. ASSUME NEW x \in Items(t), NEW y \in Items(t), x.data = y.data
      PROVE  x = y
  BY <1>5 DEF Items, Distinct
<1>6. Cached(t) = {x.data : x \in Items(t)}
  BY <1>3 DEF Cached, Items
<1> QED
  BY <1>3, <1>4, <1>5, <1>6

(* Who caches what is not changed by a step that leaves the caches alone.  *)
LEMMA ItemsFrame ==
  ASSUME UNCHANGED caches, NEW t \in Threads
  PROVE  Items(t)' = Items(t)
BY DEF caches, Items

(* An object that is found in the caches is entered once more there.       *)
LEMMA AcquireItem ==
  ASSUME Types, Distinct, NEW t \in Threads, NEW o \in Objects, AcquireCached(t, o)
  PROVE  /\ fast' \in [Threads -> CacheItems \cup {EmptyItem}]
         /\ list' \in [Threads -> Seq(CacheItems)]
         /\ Distinct'
         /\ \A u \in Threads \ {t} : Items(u)' = Items(u)
         /\ UNCHANGED data
         /\ \E x \in Items(t) :
              /\ data[x.data].object = o
              /\ Items(t)' = (Items(t) \ {x}) \cup {[x EXCEPT !.lockCount = @ + 1]}
              /\ GoOn(t, "lock", x.data)
<1>0. /\ \A i \in DOMAIN list[t] : list[t][i] \in CacheItems
      /\ fast[t] # EmptyItem <=> fast[t].data # Nil
      /\ fast[t] # EmptyItem => fast[t] \in CacheItems
  BY ItemFacts, ElementOfSeq, LenProperties DEF Types
<1>1. CASE FastHit(t, o) /\ fast' = [fast EXCEPT ![t].lockCount = @ + 1]
           /\ GoOn(t, "lock", fast[t].data) /\ UNCHANGED list
  <2> DEFINE x == fast[t]
             y == [x EXCEPT !.lockCount = @ + 1]
  <2>1. x \in CacheItems /\ x # EmptyItem /\ y \in CacheItems /\ y.data = x.data /\ y # EmptyItem
    BY <1>0, <1>1 DEF FastHit, CacheItems, EmptyItem, Nil
  <2>2. fast' = [fast EXCEPT ![t] = y]
    BY <1>1
  <2>3. fast'[t] = y /\ \A u \in Threads \ {t} : fast'[u] = fast[u]
    BY <2>2 DEF Types
  <2>4. fast' \in [Threads -> CacheItems \cup {EmptyItem}]
    BY <2>1, <2>2 DEF Types
  <2>5. Distinct'
    BY <1>1, <2>1, <2>3 DEF Distinct
  <2>6. \A u \in Threads \ {t} : Items(u)' = Items(u)
    BY <1>1, <2>3 DEF Items
  <2>7. Items(t) = {list[t][i] : i \in DOMAIN list[t]} \cup {x}
        /\ Items(t)' = {list[t][i] : i \in DOMAIN list[t]} \cup {y}
    BY <1>1, <2>1, <2>3 DEF Items
  <2>8. \A i \in DOMAIN list[t] : list[t][i] # x
    BY DEF Distinct
  <2>9. Items(t)' = (Items(t) \ {x}) \cup {y}
    BY <2>7, <2>8
  <2> QED
    BY <1>1, <2>4, <2>5, <2>6, <2>7, <2>9 DEF AcquireCached, FastHit, Types
<1>2. ASSUME NEW i \in DOMAIN list[t], ListHit(t, o, i),
             list' = [list EXCEPT ![t][i].lockCount = @ + 1],
             GoOn(t, "lock", list[t][i].data), UNCHANGED fast
      PROVE  /\ fast' \in [Threads -> CacheItems \cup {EmptyItem}]
             /\ list' \in [Threads -> Seq(CacheItems)]
             /\ Distinct'
             /\ \A u \in Threads \ {t} : Items(u)' = Items(u)
             /\ UNCHANGED data
             /\ \E x \in Items(t) :
                  /\ data[x.data].object = o
                  /\ Items(t)' = (Items(t) \ {x}) \cup {[x EXCEPT !.lockCount = @ + 1]}
                  /\ GoOn(t, "lock", x.data)
  <2> DEFINE x == list[t][i]
             y == [x EXCEPT !.lockCount = @ + 1]
             l == [list[t] EXCEPT ![i] = y]
  <2>1. x \in CacheItems /\ y \in CacheItems /\ y.data = x.data
    BY <1>0 DEF CacheItems
  <2>2. list' = [list EXCEPT ![t] = l]
    BY <1>2
  <2>3. /\ list[t] \in Seq(CacheItems) /\ DOMAIN list[t] = 1..Len(list[t])
        /\ i \in 1..Len(list[t])
    BY LenProperties DEF Types
  <2>4. /\ l \in Seq(CacheItems) /\ DOMAIN l = DOMAIN list[t]
        /\ \A j \in DOMAIN list[t] : l[j] = IF j = i THEN y ELSE list[t][j]
    BY <2>1, <2>3, ExceptSeq, LenProperties
  <2> HIDE DEF l
  <2>5. list'[t] = l /\ \A u \in Threads \ {t} : list'[u] = list[u]
    BY <2>2 DEF Types
  <2>6. list' \in [Threads -> Seq(CacheItems)]
    BY <2>2, <2>4 DEF Types
  <2>7. Distinct'
    BY <1>2, <2>1, <2>4, <2>5 DEF Distinct
  <2>8. \A u \in Threads \ {t} : Items(u)' = Items(u)
    BY <1>2, <2>5 DEF Items
  <2>9. Items(t)' = (Items(t) \ {x}) \cup {y}
    <3>1. {l[j] : j \in DOMAIN l} = ({list[t][j] : j \in DOMAIN list[t]} \ {x}) \cup {y}
      BY <2>4 DEF Distinct
    <3>2. x \notin {fast[t]}
      BY DEF Distinct
    <3> QED
      BY <1>2, <2>5, <3>1, <3>2 DEF Items
  <2>10. x \in Items(t) /\ data[x.data].object = o
    BY <1>2 DEF Items, ListHit
  <2> QED
    BY <1>2, <2>6, <2>7, <2>8, <2>9, <2>10 DEF AcquireCached, Types
<1> QED
  BY <1>1, <1>2 DEF AcquireCached

(* An exit takes one off the item of its object; with the last one the item*)
(* leaves the cache and the thread is uncounted.                           *)
LEMMA ReleaseItem ==
  ASSUME Types, Distinct, NEW t \in Threads, NEW o \in Objects, ReleaseCached(t, o)
  PROVE  /\ fast' \in [Threads -> CacheItems \cup {EmptyItem}]
         /\ list' \in [Threads -> Seq(CacheItems)]
         /\ Distinct'
         /\ \A u \in Threads \ {t} : Items(u)' = Items(u)
         /\ \E x \in Items(t) :
              /\ data[x.data].object = o
              /\ GoOn(t, "unlock", x.data)
              /\ \/ /\ x.lockCount = 1
                    /\ Items(t)' = Items(t) \ {x}
                    /\ Uncount(x.data)
                 \/ /\ x.lockCount > 1
                    /\ Items(t)' = (Items(t) \ {x}) \cup {[x EXCEPT !.lockCount = @ - 1]}
                    /\ UNCHANGED data
<1>0. /\ \A i \in DOMAIN list[t] : list[t][i] \in CacheItems
      /\ fast[t] # EmptyItem <=> fast[t].data # Nil
      /\ fast[t] # EmptyItem => fast[t] \in CacheItems
  BY ItemFacts, ElementOfSeq, LenProperties DEF Types
<1>1. ASSUME FastHit(t, o),
             IF fast[t].lockCount = 1
             THEN fast' = [fast EXCEPT ![t] = EmptyItem] /\ Uncount(fast[t].data)
             ELSE fast' = [fast EXCEPT ![t].lockCount = @ - 1] /\ UNCHANGED data,
             GoOn(t, "unlock", fast[t].data), UNCHANGED list
      PROVE  /\ fast' \in [Threads -> CacheItems \cup {EmptyItem}]
             /\ list' \in [Threads -> Seq(CacheItems)]
             /\ Distinct'
             /\ \A u \in Threads \ {t} : Items(u)' = Items(u)
             /\ \E x \in Items(t) :
                  /\ data[x.data].object = o
                  /\ GoOn(t, "unlock", x.data)
                  /\ \/ /\ x.lockCount = 1
                        /\ Items(t)' = Items(t) \ {x}
                        /\ Uncount(x.data)
                     \/ /\ x.lockCount > 1
                        /\ Items(t)' = (Items(t) \ {x}) \cup {[x EXCEPT !.lockCount = @ - 1]}
                        /\ UNCHANGED data
  <2> DEFINE x == fast[t]
             y == IF x.lockCount = 1 THEN EmptyItem ELSE [x EXCEPT !.lockCount = @ - 1]
  <2>1. x \in CacheItems /\ x # EmptyItem
    BY <1>0, <1>1 DEF FastHit
  <2>2. fast' = [fast EXCEPT ![t] = y]
    <3>1. CASE x.lockCount = 1
      BY <1>1, <3>1
    <3>2. CASE x.lockCount # 1
      BY <1>1, <3>2
    <3> QED
      BY <3>1, <3>2
  <2>3. fast'[t] = y /\ \A u \in Threads \ {t} : fast'[u] = fast[u]
    BY <2>2 DEF Types
  <2>4. /\ y \in CacheItems \cup {EmptyItem}
        /\ x.lockCount # 1 => y # EmptyItem /\ y.data = x.data /\ x.lockCount > 1
        /\ x.lockCount = 1 => y = EmptyItem /\ y.data = Nil
    BY <2>1 DEF CacheItems, EmptyItem, Nil
  <2>5. fast' \in [Threads -> CacheItems \cup {EmptyItem}]
    BY <2>2, <2>4 DEF Types
  <2>6. \A i \in DOMAIN list[t] : list[t][i].data # Nil
    BY <1>0 DEF CacheItems
  <2> HIDE DEF y
  <2>7. Distinct'
    BY <1>1, <2>3, <2>4, <2>6 DEF Distinct
  <2>8. \A u \in Threads \ {t} : Items(u)' = Items(u)
    BY <1>1, <2>3 DEF Items
  <2>9. /\ Items(t) = {list[t][i] : i \in DOMAIN list[t]} \cup {x}
        /\ Items(t)' = {list[t][i] : i \in DOMAIN list[t]} \cup ({y} \ {EmptyItem})
    BY <1>1, <2>1, <2>3 DEF Items
  <2>10. \A i \in DOMAIN list[t] : list[t][i] # x
    BY DEF Distinct
  <2>11. Items(t)' = (Items(t) \ {x}) \cup ({y} \ {EmptyItem})
    BY <2>9, <2>10
  <2>12. x \in Items(t) /\ data[x.data].object = o
    BY <1>1, <2>9 DEF FastHit
  <2>13. CASE x.lockCount = 1
    BY <1>1, <2>4, <2>5, <2>7, <2>8, <2>11, <2>12, <2>13 DEF Types
  <2>14. CASE x.lockCount # 1
    <3>1. y = [x EXCEPT !.lockCount = @ - 1]
      BY <2>14 DEF y
    <3>2. {y} \ {EmptyItem} = {[x EXCEPT !.lockCount = @ - 1]}
      BY <2>4, <2>14, <3>1
    <3> HIDE DEF x
    <3>3. Items(t)' = (Items(t) \ {x}) \cup {[x EXCEPT !.lockCount = @ - 1]}
      BY <2>11, <3>2
    <3>4. x.lockCount > 1 /\ UNCHANGED data /\ GoOn(t, "unlock", x.data)
      BY <1>1, <2>4, <2>14 DEF x
    <3> QED
      BY <3>3, <3>4, <2>12, <1>1, <2>4, <2>5, <2>7, <2>8, <2>11, <2>12, <2>14, <3>1 DEF Types
  <2> QED
    BY <2>13, <2>14
<1>2. ASSUME NEW i \in DOMAIN list[t], ListHit(t, o, i),
             IF list[t][i].lockCount = 1
             THEN /\ list' = [list EXCEPT ![t] = Front([@ EXCEPT ![i] = Last(list[t])])]
                  /\ Uncount(list[t][i].data)
             ELSE list' = [list EXCEPT ![t][i].lockCount = @ - 1] /\ UNCHANGED data,
             GoOn(t, "unlock", list[t][i].data), UNCHANGED fast
      PROVE  /\ fast' \in [Threads -> CacheItems \cup {EmptyItem}]
             /\ list' \in [Threads -> Seq(CacheItems)]
             /\ Distinct'
             /\ \A u \in Threads \ {t} : Items(u)' = Items(u)
             /\ \E x \in Items(t) :
                  /\ data[x.data].object = o
                  /\ GoOn(t, "unlock", x.data)
                  /\ \/ /\ x.lockCount = 1
                        /\ Items(t)' = Items(t) \ {x}
                        /\ Uncount(x.data)
                     \/ /\ x.lockCount > 1
                        /\ Items(t)' = (Items(t) \ {x}) \cup {[x EXCEPT !.lockCount = @ - 1]}
                        /\ UNCHANGED data
  <2> DEFINE x == list[t][i]
             s == list[t]
             g == Front([s EXCEPT ![i] = Last(s)])
             y == [x EXCEPT !.lockCount = @ - 1]
             l == [s EXCEPT ![i] = y]
  <2>1. /\ s \in Seq(CacheItems) /\ DOMAIN s = 1..Len(s) /\ Len(s) \in Nat
        /\ i \in 1..Len(s) /\ x \in CacheItems
    BY <1>0, LenProperties DEF Types
  <2>2. list' = [list EXCEPT ![t] = IF x.lockCount = 1 THEN g ELSE l]
    <3>1. CASE x.lockCount = 1
      BY <1>2, <3>1
    <3>2. CASE x.lockCount # 1
      BY <1>2, <3>2
    <3> QED
      BY <3>1, <3>2
  <2>3. x \in Items(t) /\ data[x.data].object = o
    BY <1>2 DEF Items, ListHit
  <2>4. \A j \in DOMAIN s : (s[j] = x <=> j = i) /\ s[j].data # fast[t].data
    BY DEF Distinct
  <2>5. CASE x.lockCount = 1
    <3>1. /\ g \in Seq(CacheItems) /\ DOMAIN g = 1..Len(s) - 1
          /\ \A j \in 1..Len(s) - 1 : g[j] = IF j = i THEN s[Len(s)] ELSE s[j]
      BY <2>1, FillGap
    <3> HIDE DEF g
    <3>2. list'[t] = g /\ \A u \in Threads \ {t} : list'[u] = list[u]
      BY <2>2, <2>5 DEF Types
    <3>3. list' \in [Threads -> Seq(CacheItems)]
      BY <2>2, <2>5, <3>1 DEF Types
    <3>4. \A j \in DOMAIN g : \E k \in DOMAIN s \ {i} : g[j] = s[k]
      <4> TAKE j \in DOMAIN g
      <4>1. CASE j = i
        <5>1. Len(s) \in DOMAIN s \ {i} /\ g[j] = s[Len(s)]
          BY <2>1, <3>1, <4>1
        <5> QED
          BY <5>1
      <4>2. CASE j # i
        <5>1. j \in DOMAIN s \ {i} /\ g[j] = s[j]
          BY <2>1, <3>1, <4>2
        <5> QED
          BY <5>1
      <4> QED
        BY <4>1, <4>2
    <3>5. \A k \in DOMAIN s \ {i} : \E j \in DOMAIN g : g[j] = s[k]
      <4> TAKE k \in DOMAIN s \ {i}
      <4>1. CASE k = Len(s)
        <5>1. i \in DOMAIN g /\ g[i] = s[k]
          BY <2>1, <3>1, <4>1
        <5> QED
          BY <5>1
      <4>2. CASE k # Len(s)
        <5>1. k \in DOMAIN g /\ g[k] = s[k]
          BY <2>1, <3>1, <4>2
        <5> QED
          BY <5>1
      <4> QED
        BY <4>1, <4>2
    <3>6. {g[j] : j \in DOMAIN g} = {s[k] : k \in DOMAIN s} \ {x}
      BY <2>1, <2>4, <3>4, <3>5
    <3>7. Items(t)' = Items(t) \ {x}
      <4>1. /\ Items(t)' = {g[j] : j \in DOMAIN g} \cup ({fast[t]} \ {EmptyItem})
            /\ Items(t) = {s[k] : k \in DOMAIN s} \cup ({fast[t]} \ {EmptyItem})
        BY <1>2, <3>2 DEF Items
      <4>2. fast[t] # x
        BY <2>1, <2>4
      <4> QED
        BY <3>6, <4>1, <4>2
    <3>8. Distinct'
      <4>0. \A j, k \in DOMAIN s : s[j].data = s[k].data => j = k
        BY DEF Distinct
      <4>1. \A j, k \in DOMAIN g : g[j].data = g[k].data => j = k
        <5> HIDE DEF s
        <5> TAKE j, k \in DOMAIN g
        <5> DEFINE jj == IF j = i THEN Len(s) ELSE j
                   kk == IF k = i THEN Len(s) ELSE k
        <5>1. jj \in DOMAIN s /\ kk \in DOMAIN s /\ g[j] = s[jj] /\ g[k] = s[kk]
          BY <2>1, <3>1
        <5>2. jj = kk => j = k
          BY <2>1, <3>1
        <5> HIDE DEF jj, kk
        <5> QED
          BY <4>0, <5>1, <5>2
      <4>2. \A j \in DOMAIN g : g[j].data # fast[t].data
        BY <2>4, <3>4
      <4> QED
        BY <1>2, <3>2, <4>1, <4>2 DEF Distinct
    <3>9. \A u \in Threads \ {t} : Items(u)' = Items(u)
      BY <1>2, <3>2 DEF Items
    <3> QED
      BY <1>2, <2>3, <2>5, <3>3, <3>7, <3>8, <3>9 DEF Types
  <2>6. CASE x.lockCount # 1
    <3>1. y \in CacheItems /\ y.data = x.data /\ x.lockCount > 1
      <4>1. x \in CacheItems /\ x.lockCount # 1
        BY <2>1, <2>6
      <4> HIDE DEF x
      <4> QED
        BY <4>1 DEF CacheItems
    <3>2. /\ l \in Seq(CacheItems) /\ DOMAIN l = DOMAIN s
          /\ \A j \in DOMAIN s : l[j] = IF j = i THEN y ELSE s[j]
      BY <2>1, <3>1, ExceptSeq, LenProperties
    <3> HIDE DEF l
    <3>3. list'[t] = l /\ \A u \in Threads \ {t} : list'[u] = list[u]
      BY <2>2, <2>6 DEF Types
    <3>4. list' \in [Threads -> Seq(CacheItems)]
      BY <2>2, <2>6, <3>2 DEF Types
    <3>5. {l[j] : j \in DOMAIN l} = ({s[k] : k \in DOMAIN s} \ {x}) \cup {y}
      BY <2>4, <3>2
    <3>6. Items(t)' = (Items(t) \ {x}) \cup {y}
      BY <1>2, <2>4, <3>3, <3>5 DEF Items
    <3>7. Distinct'
      <4>1. \A j \in DOMAIN l : l[j].data = s[j].data
        BY <3>1, <3>2
      <4>2. /\ \A j \in DOMAIN l : l[j].data # fast[t].data
            /\ \A j, k \in DOMAIN l : l[j].data = l[k].data => j = k
        BY <3>2, <4>1 DEF Distinct
      <4> QED
        BY <1>2, <4>2, <3>3 DEF Distinct
    <3>8. \A u \in Threads \ {t} : Items(u)' = Items(u)
      BY <1>2, <3>3 DEF Items
    <3>9. UNCHANGED data /\ fast' \in [Threads -> CacheItems \cup {EmptyItem}]
      BY <1>2, <2>6 DEF Types
    <3>10. GoOn(t, "unlock", x.data)
      BY <1>2
    <3> HIDE DEF x
    <3> QED
      BY <2>3, <3>1, <3>4, <3>6, <3>7, <3>8, <3>9, <3>10
  <2> QED
    BY <2>5, <2>6
<1> QED
  BY <1>1, <1>2 DEF ReleaseCached

(* A SyncData that a call has found goes to a free place of the caches.    *)
LEMMA SaveItem ==
  ASSUME Types, Distinct, NEW t \in Threads, Save(t), p[t] # Nil,
         \A x \in Items(t) : x.data # p[t]
  PROVE  /\ fast' \in [Threads -> CacheItems \cup {EmptyItem}]
         /\ list' \in [Threads -> Seq(CacheItems)]
         /\ Distinct'
         /\ \A u \in Threads \ {t} : Items(u)' = Items(u)
         /\ Items(t)' = Items(t) \cup {SyncCacheItem(p[t])}
<1> DEFINE y == SyncCacheItem(p[t])
<1>0. y \in CacheItems /\ y # EmptyItem /\ y.data = p[t]
  BY DEF SyncCacheItem, CacheItems, EmptyItem, Nil, Types
<1>1. /\ \A i \in DOMAIN list[t] : list[t][i].data # p[t]
      /\ fast[t] # EmptyItem => fast[t].data # p[t]
  BY DEF Items
<1> HIDE DEF y
<1>2. CASE fast[t] = EmptyItem /\ fast' = [fast EXCEPT ![t] = y] /\ UNCHANGED list
  <2>1. fast'[t] = y /\ \A u \in Threads \ {t} : fast'[u] = fast[u]
    BY <1>2 DEF Types
  <2>2. Distinct'
    BY <1>0, <1>1, <1>2, <2>1 DEF Distinct
  <2>3. /\ \A u \in Threads \ {t} : Items(u)' = Items(u)
        /\ Items(t)' = Items(t) \cup {y}
    BY <1>0, <1>2, <2>1 DEF Items
  <2> QED
    BY <1>0, <1>2, <2>2, <2>3 DEF y, Types
<1>3. CASE fast[t] # EmptyItem /\ list' = [list EXCEPT ![t] = Append(@, y)] /\ UNCHANGED fast
  <2> DEFINE l == Append(list[t], y)
  <2>1. /\ l \in Seq(CacheItems) /\ Len(list[t]) \in Nat
        /\ DOMAIN list[t] = 1..Len(list[t]) /\ DOMAIN l = 1..Len(list[t]) + 1
        /\ \A i \in 1..Len(list[t]) : l[i] = list[t][i]
        /\ l[Len(list[t]) + 1] = y
    BY <1>0, Appended DEF Types
  <2> HIDE DEF l
  <2>2. list'[t] = l /\ \A u \in Threads \ {t} : list'[u] = list[u]
    BY <1>3 DEF l, Types
  <2>3. list' \in [Threads -> Seq(CacheItems)]
    BY <1>3, <2>1 DEF l, Types
  <2>4. {l[i] : i \in DOMAIN l} = {list[t][i] : i \in DOMAIN list[t]} \cup {y}
    BY <2>1
  <2>5. /\ \A u \in Threads \ {t} : Items(u)' = Items(u)
        /\ Items(t)' = Items(t) \cup {y}
    <3>1. fast'[t] = fast[t] /\ list'[t] = l
      BY <1>3, <2>2
    <3>2. Items(t)' = {l[i] : i \in DOMAIN l} \cup ({fast[t]} \ {EmptyItem})
      BY <3>1 DEF Items
    <3> QED
      BY <1>3, <2>2, <2>4, <3>2 DEF Items
  <2>6. Distinct'
    BY <1>0, <1>1, <1>3, <2>1, <2>2 DEF Distinct
  <2> QED
    BY <1>3, <2>3, <2>5, <2>6 DEF y, Types
<1> QED
  BY <1>2, <1>3 DEF Save, y

-----------------------------------------------------------------------------
(* SyncDatas and their users                                               *)

(* A SyncData is changed in place.                                         *)
LEMMA DataExcept ==
  ASSUME Types, NEW d \in DOMAIN data, NEW e \in SyncDatas,
         data' = [data EXCEPT ![d] = e]
  PROVE  /\ data' \in Seq(SyncDatas)
         /\ Len(data') = Len(data) /\ DOMAIN data' = DOMAIN data
         /\ data'[d] = e
         /\ \A c \in DOMAIN data : c # d => data'[c] = data[c]
<1>1. DOMAIN data = 1..Len(data) /\ Len(data) \in Nat
  BY LenProperties DEF Types
<1>2. /\ data' \in Seq(SyncDatas) /\ Len(data') = Len(data)
      /\ \A c \in 1..Len(data) : data'[c] = IF c = d THEN e ELSE data[c]
  BY <1>1, ExceptSeq DEF Types
<1> QED
  BY <1>1, <1>2, LenProperties

(* The SyncDatas as a whole.                                               *)
LEMMA DataFacts ==
  ASSUME Types
  PROVE  /\ Len(data) \in Nat /\ DOMAIN data = 1..Len(data) /\ DOMAIN stray = DOMAIN data
         /\ \A d \in DOMAIN data : data[d] \in SyncDatas /\ stray[d] \in Nat
BY LenProperties, ElementOfSeq DEF Types

(* The users of a SyncData in terms of items; they are finitely many.      *)
LEMMA UsersFacts ==
  ASSUME Types, Distinct
  PROVE  \A d \in Nat :
               /\ \A t \in Threads :
                    t \in Users(d) <=> \/ \E x \in Items(t) : x.data = d
                                       \/ pc[t] = "save" /\ p[t] = d
               /\ Users(d) \subseteq Threads
               /\ IsFiniteSet(Users(d)) /\ Cardinality(Users(d)) \in Nat
               /\ Cardinality(Users(d)) = 0 <=> Users(d) = {}
<1> TAKE d \in Nat
<1>1. \A t \in Threads : d \in Cached(t) <=> \E x \in Items(t) : x.data = d
  BY ItemFacts
<1>2. Users(d) \subseteq Threads
  BY DEF Users
<1>3. IsFiniteSet(Users(d))
  BY <1>2, FS_Subset, SyncAssumption
<1> QED
  BY <1>1, <1>2, <1>3, FS_CardinalityType, FS_EmptySet DEF Users

(* The same after a step.                                                  *)
LEMMA UsersFactsNext ==
  ASSUME Types', Distinct'
  PROVE  \A d \in Nat :
               /\ \A t \in Threads :
                    t \in Users(d)' <=> \/ \E x \in Items(t)' : x.data = d
                                        \/ pc'[t] = "save" /\ p'[t] = d
               /\ Users(d)' \subseteq Threads
<1> TAKE d \in Nat
<1>1. \A t \in Threads : Cached(t)' = {x.data : x \in Items(t)'}
  <2> TAKE t \in Threads
  <2>1. fast'[t] \in CacheItems \/ fast'[t] = EmptyItem
    BY DEF Types
  <2>2. fast'[t] # EmptyItem <=> fast'[t].data # Nil
    BY <2>1 DEF CacheItems, EmptyItem, Nil
  <2> QED
    BY <2>2 DEF Cached, Items
<1> QED
  BY <1>1 DEF Users

(* Who uses what does not change.                                          *)
LEMMA SameUsers ==
  ASSUME Types, Distinct, Types', Distinct',
         \A u \in Threads : \A d \in Nat :
           /\ (\E x \in Items(u)' : x.data = d) <=> (\E x \in Items(u) : x.data = d)
           /\ (pc'[u] = "save" /\ p'[u] = d) <=> (pc[u] = "save" /\ p[u] = d)
  PROVE  \A d \in Nat : Users(d)' = Users(d)
<1> TAKE d \in Nat
<1>1. \A u \in Threads : u \in Users(d)' <=> u \in Users(d)
  BY UsersFacts, UsersFactsNext
<1>2. Users(d)' \subseteq Threads /\ Users(d) \subseteq Threads
  BY UsersFacts, UsersFactsNext
<1> QED
  BY <1>1, <1>2

(* Nothing that is u's own changes.                                        *)
Spared(u) ==
  /\ pc'[u] = pc[u] /\ p'[u] = p[u] /\ object'[u] = object[u]
  /\ firstUnused'[u] = firstUnused[u] /\ entered'[u] = entered[u]
  /\ Items(u)' = Items(u)

LEMMA UsersKept ==
  ASSUME Types, Distinct, Types', Distinct', NEW u \in Threads, Spared(u), NEW d \in Nat
  PROVE  u \in Users(d)' <=> u \in Users(d)
BY UsersFacts, UsersFactsNext DEF Spared

(* A SyncData that is used is not unused.                                  *)
LEMMA UsedIsCounted ==
  ASSUME IInv, NEW d \in DOMAIN data, NEW t \in Users(d)
  PROVE  data[d].threadCount \in Nat \ {0}
<1>1. Cardinality(Users(d)) \in Nat \ {0}
  <2>1. Types /\ Distinct
    BY DEF IInv
  <2>2. d \in Nat
    BY <2>1, DataFacts
  <2>3. IsFiniteSet(Users(d)) /\ Users(d) # {}
    BY <2>1, <2>2, UsersFacts
  <2> QED
    BY <2>3, FS_CardinalityType, FS_EmptySet
<1>2. stray[d] \in Nat
  BY DataFacts DEF IInv
<1> QED
  BY <1>1, <1>2 DEF IInv, ThreadCountExplained

-----------------------------------------------------------------------------
(* What a step of one thread leaves to the others                          *)

(* The SyncDatas that u uses keep their objects, and a walk in progress    *)
(* sees no object come and nothing unused become used.                     *)
DataSpares(u) ==
  /\ DOMAIN data \subseteq DOMAIN data'
  /\ \A x \in Items(u) : data'[x.data].object = data[x.data].object
  /\ pc[u] = "save" => data'[p[u]].object = data[p[u]].object
  /\ pc[u] = "walk" =>
       /\ DOMAIN data' = DOMAIN data
       /\ \A d \in DOMAIN data : /\ data'[d].object = data[d].object
                                 /\ data[d].threadCount = 0 => data'[d].threadCount = 0

LEMMA SparedKeeps ==
  ASSUME Types, NEW u \in Threads, LocalsOf(u), ItemsOf(u), Spared(u), DataSpares(u)
  PROVE  /\ LocalsOf(u)' /\ ItemsOf(u)'
         /\ \A d \in DOMAIN data : Inside(u, d)' = Inside(u, d)
<1>1. DOMAIN data = 1..Len(data) /\ p[u] \in 0..Len(data) /\ firstUnused[u] \in 0..Len(data)
  BY DataFacts DEF Types
<1>2. pc[u] \in {"save", "lock"} => data'[p[u]].object = data[p[u]].object
  BY DEF LocalsOf, DataSpares
<1>3. LocalsOf(u)'
  <2>1. pc'[u] \in {"list", "walk", "save"} => \A x \in Items(u)' : data'[x.data].object # object'[u]
    BY DEF LocalsOf, Spared, DataSpares
  <2>2. pc'[u] = "walk" =>
          /\ \A d \in DOMAIN data' : d > p'[u] => data'[d].object # object'[u]
          /\ firstUnused'[u] # Nil => data'[firstUnused'[u]].threadCount = 0
    <3> SUFFICES ASSUME pc[u] = "walk"
                 PROVE  /\ \A d \in DOMAIN data' : d > p[u] => data'[d].object # object[u]
                        /\ firstUnused[u] # Nil => data'[firstUnused[u]].threadCount = 0
      BY DEF Spared
    <3>1. firstUnused[u] # Nil => firstUnused[u] \in DOMAIN data
      BY <1>1 DEF Nil
    <3>2. /\ \A d \in DOMAIN data : d > p[u] => data[d].object # object[u]
          /\ firstUnused[u] # Nil => data[firstUnused[u]].threadCount = 0
      BY DEF LocalsOf
    <3>3. /\ DOMAIN data' = DOMAIN data
          /\ \A d \in DOMAIN data : data'[d].object = data[d].object
          /\ \A d \in DOMAIN data : data[d].threadCount = 0 => data'[d].threadCount = 0
      BY DEF DataSpares
    <3> QED
      BY <3>1, <3>2, <3>3
  <2>3. pc'[u] \in {"save", "lock"} => data'[p'[u]].object = object'[u]
    BY <1>2 DEF LocalsOf, Spared
  <2>4. /\ pc'[u] # "client" => object'[u] \in Objects
        /\ pc'[u] \in {"save", "lock", "unlock"} => p'[u] # Nil
        /\ pc'[u] = "lock" => \E x \in Items(u)' : x.data = p'[u]
    BY DEF LocalsOf, Spared
  <2> QED
    BY <2>1, <2>2, <2>3, <2>4 DEF LocalsOf
<1>4. \A d : Locking(u, d)' = Locking(u, d)
  BY DEF Locking, Spared
<1>5. \A d : Unlocking(u, d)' = Unlocking(u, d)
  BY DEF Unlocking, Spared
<1>6. ItemsOf(u)'
  BY <1>4 DEF ItemsOf, Spared, DataSpares
<1>7. \A d \in DOMAIN data : Inside(u, d)' = Inside(u, d)
  BY <1>5 DEF Inside, Spared, DataSpares
<1> QED
  BY <1>3, <1>6, <1>7

(* A thread with an item uses its SyncData, and so does one that is about  *)
(* to save it.                                                             *)
LEMMA UsesItems ==
  ASSUME IInv, NEW u \in Threads
  PROVE  /\ \A x \in Items(u) : /\ x \in CacheItems /\ x.data \in DOMAIN data
                                /\ data[x.data].threadCount \in Nat \ {0}
         /\ pc[u] = "save" => /\ p[u] \in DOMAIN data
                              /\ data[p[u]].threadCount \in Nat \ {0}
<1>1. Types /\ Distinct /\ ItemsOf(u) /\ LocalsOf(u)
  BY DEF IInv
<1>2. \A x \in Items(u) : x \in CacheItems /\ x.data \in DOMAIN data /\ u \in Users(x.data)
  <2> TAKE x \in Items(u)
  <2>1. x \in CacheItems /\ x.data \in DOMAIN data /\ x.data \in Nat
    BY <1>1, ItemFacts, DataFacts DEF ItemsOf
  <2> QED
    BY <1>1, <2>1, UsersFacts
<1>3. pc[u] = "save" => p[u] \in DOMAIN data /\ u \in Users(p[u])
  <2>1. pc[u] = "save" => p[u] \in DOMAIN data /\ p[u] \in Nat
    BY <1>1, DataFacts DEF LocalsOf, Types, Nil
  <2> QED
    BY <1>1, <2>1, UsersFacts
<1> QED
  BY <1>2, <1>3, UsedIsCounted

(* One that touches nothing but the owner, the depth or, down from a count *)
(* above zero, the count.                                                  *)
LEMMA SmallChangeSpares ==
  ASSUME IInv, NEW d \in DOMAIN data, NEW e \in SyncDatas,
         e.object = data[d].object,
         data[d].threadCount = 0 => e.threadCount = 0,
         data' = [data EXCEPT ![d] = e]
  PROVE  \A u \in Threads : DataSpares(u)
<1> TAKE u \in Threads
<1>1. Types
  BY DEF IInv
<1>2. DOMAIN data' = DOMAIN data /\ \A c \in DOMAIN data : c # d => data'[c] = data[c]
  BY <1>1, DataExcept
<1>3. data'[d] = e
  BY <1>1, DataExcept
<1> QED
  BY <1>2, <1>3, UsesItems DEF DataSpares

(* What is said of all threads, when only one of them does something.      *)
LEMMA ThreadsTogether ==
  ASSUME IInv, Types', NEW t \in Threads,
         \A u \in Threads \ {t} : Spared(u) /\ DataSpares(u),
         LocalsOf(t)', ItemsOf(t)'
  PROVE  /\ \A u \in Threads : LocalsOf(u)' /\ ItemsOf(u)'
         /\ \A u \in Threads \ {t}, d \in DOMAIN data : Inside(u, d)' = Inside(u, d)
BY SparedKeeps DEF IInv

(* The mutexes agree with the items as long as neither changes.            *)
LEMMA MutexesKept ==
  ASSUME IInv, DOMAIN data' = DOMAIN data,
         \A d \in DOMAIN data : data'[d].owner = data[d].owner /\ data'[d].depth = data[d].depth,
         \A u \in Threads, d \in DOMAIN data : Inside(u, d)' = Inside(u, d)
  PROVE  Mutexes'
BY DEF IInv, Mutexes

(* An object has one SyncData, so other items are those of other objects.  *)
LEMMA OtherItems ==
  ASSUME IInv, NEW t \in Threads, NEW x \in Items(t), NEW z \in Items(t), z # x
  PROVE  z.data # x.data /\ data[z.data].object # data[x.data].object
<1>1. z.data # x.data
  BY ItemFacts DEF IInv
<1>2. z.data \in DOMAIN data /\ x.data \in DOMAIN data
  BY DEF IInv, ItemsOf
<1> QED
  BY <1>1, <1>2 DEF IInv, OneLockPerObject

-----------------------------------------------------------------------------
(* The calls                                                               *)

LEMMA EnterHitKeeps ==
  ASSUME IInv, NEW t \in Threads, NEW o \in Objects, SyncEnter(t, o), AcquireCached(t, o)
  PROVE  IInv'
<1>0. Types /\ Distinct /\ pc[t] = "client" /\ LocalsOf(t) /\ ItemsOf(t)
  BY DEF IInv, SyncEnter
<1>1. /\ fast' \in [Threads -> CacheItems \cup {EmptyItem}]
      /\ list' \in [Threads -> Seq(CacheItems)]
      /\ Distinct'
      /\ \A u \in Threads \ {t} : Items(u)' = Items(u)
      /\ UNCHANGED data
  BY <1>0, AcquireItem
<1>2. PICK x \in Items(t) :
        /\ data[x.data].object = o
        /\ Items(t)' = (Items(t) \ {x}) \cup {[x EXCEPT !.lockCount = @ + 1]}
        /\ GoOn(t, "lock", x.data)
  BY <1>0, AcquireItem
<1> DEFINE y == [x EXCEPT !.lockCount = @ + 1]
<1>3. /\ x \in CacheItems /\ y.data = x.data /\ y.lockCount = x.lockCount + 1
      /\ x.data \in DOMAIN data /\ x.data \in 1..Len(data)
      /\ \A z \in Items(t) : z.data = x.data => z = x
  BY <1>0, <1>2, ItemFacts, DataFacts DEF CacheItems, ItemsOf
<1> HIDE DEF y
<1>4. /\ pc' = [pc EXCEPT ![t] = "lock"] /\ p' = [p EXCEPT ![t] = x.data]
      /\ object' = [object EXCEPT ![t] = o] /\ why' = [why EXCEPT ![t] = "ACQUIRE"]
      /\ UNCHANGED <<lockp, firstUnused, entered, stray>>
      /\ Items(t)' = (Items(t) \ {x}) \cup {y}
  BY <1>2 DEF SyncEnter, GoOn, y
<1>5. Types'
  <2>1. p' \in [Threads -> 0..Len(data)]
    BY <1>0, <1>3, <1>4, DataFacts DEF Types
  <2>2. /\ pc' \in [Threads -> Labels] /\ object' \in [Threads -> Objects \cup {Nil}]
        /\ why' \in [Threads -> {"ACQUIRE", "RELEASE"}]
    BY <1>0, <1>4 DEF Types, Labels
  <2> QED
    BY <1>0, <1>1, <1>4, <2>1, <2>2 DEF Types
<1>6. /\ pc'[t] = "lock" /\ p'[t] = x.data /\ object'[t] = o /\ entered'[t] = entered[t]
      /\ \A u \in Threads \ {t} : Spared(u)
  BY <1>0, <1>1, <1>4 DEF Types, Spared
<1>7. SpinLock'
  BY <1>0, <1>4, <1>6 DEF IInv, SpinLock, Spared
<1>8. \A d : \A u \in Threads :
        (\E z \in Items(u)' : z.data = d) <=> (\E z \in Items(u) : z.data = d)
  BY <1>1, <1>3, <1>4
<1>9. LocalsOf(t)'
  BY <1>0, <1>1, <1>2, <1>3, <1>4, <1>6 DEF LocalsOf, Nil, CacheItems
<1>10. ItemsOf(t)'
  <2>1. \A d : Locking(t, d) = 0 /\ Locking(t, d)' = IF d = x.data THEN 1 ELSE 0
    BY <1>0, <1>6 DEF Locking
  <2>2. /\ x.lockCount = entered[t][o] + 0
        /\ \A z \in Items(t) : z.lockCount = entered[t][data[z.data].object] + 0
    BY <1>0, <1>2, <2>1 DEF ItemsOf
  <2>3. entered[t][o] \in Nat
    BY <1>0 DEF Types
  <2>4. y.lockCount = entered'[t][data'[y.data].object] + Locking(t, y.data)'
    BY <1>1, <1>2, <1>3, <1>6, <2>1, <2>2, <2>3
  <2>5. \A z \in Items(t) \ {x} : z.lockCount = entered'[t][data'[z.data].object] + Locking(t, z.data)'
    BY <1>1, <1>3, <1>6, <2>1, <2>2
  <2> QED
    BY <1>0, <1>1, <1>3, <1>4, <1>6, <1>8, <2>4, <2>5 DEF ItemsOf
<1>11. \A u \in Threads : DataSpares(u)
  BY <1>1 DEF DataSpares
<1>12. Mutexes'
  <2>1. \A d \in DOMAIN data, u \in Threads : Inside(u, d)' = Inside(u, d)
    BY <1>0, <1>1, <1>4, <1>6, <1>8 DEF Inside, Unlocking, Spared
  <2> QED
    BY <1>1, <2>1 DEF IInv, Mutexes
<1>13. OneLockPerObject'
  BY <1>1 DEF IInv, OneLockPerObject
<1>14. ThreadCountExplained'
  <2>1. \A u \in Threads : \A d \in Nat :
          (pc'[u] = "save" /\ p'[u] = d) <=> (pc[u] = "save" /\ p[u] = d)
    BY <1>0, <1>6 DEF Spared
  <2>2. \A d \in Nat : Users(d)' = Users(d)
    BY <1>0, <1>1, <1>5, <1>8, <2>1, SameUsers
  <2> QED
    BY <1>0, <1>1, <1>4, <2>2, DataFacts DEF IInv, ThreadCountExplained
<1> QED
  BY <1>1, <1>5, <1>6, <1>7, <1>9, <1>10, <1>11, <1>12, <1>13, <1>14, ThreadsTogether DEF IInv

(* A miss means that no item is the object's.                              *)
LEMMA MissFacts ==
  ASSUME IInv, NEW t \in Threads, NEW o \in Objects, Miss(t, o)
  PROVE  /\ \A x \in Items(t) : data[x.data].object # o
         /\ entered[t][o] = 0
<1>1. Types /\ Distinct /\ ItemsOf(t) /\ OneLockPerObject
  BY DEF IInv
<1>2. ASSUME NEW x \in Items(t), data[x.data].object = o
      PROVE  FALSE
  <2>1. x # fast[t]
    BY <1>1, <1>2, ItemFacts DEF Miss, FastHit, Items, CacheItems, EmptyItem, Nil
  <2>2. PICK i \in DOMAIN list[t] : x = list[t][i]
    BY <2>1 DEF Items
  <2>3. DOMAIN list[t] = 1..Len(list[t]) /\ Len(list[t]) \in Nat
    BY <1>1, LenProperties DEF Types
  <2>4. ASSUME NEW j \in 1..i - 1
        PROVE  data[list[t][j].data].object # o
    <3>1. j \in DOMAIN list[t] /\ j # i
      BY <2>2, <2>3
    <3>2. list[t][j] \in Items(t) /\ list[t][j].data # x.data
      BY <1>1, <2>2, <3>1 DEF Items, Distinct
    <3> QED
      BY <1>1, <1>2, <3>2 DEF ItemsOf, OneLockPerObject
  <2> QED
    BY <1>2, <2>2, <2>4 DEF Miss, ListHit
<1>3. entered[t][o] = 0
  <2>1. entered[t][o] \in Nat
    BY <1>1 DEF Types
  <2>2. ~(entered[t][o] > 0)
    BY <1>1, <1>2 DEF ItemsOf
  <2> QED
    BY <2>1, <2>2
<1> QED
  BY <1>2, <1>3

LEMMA MissKeeps ==
  ASSUME IInv, NEW t \in Threads, NEW o \in Objects, NEW w \in {"ACQUIRE", "RELEASE"},
         pc[t] = "client", Miss(t, o), GoList(t),
         object' = [object EXCEPT ![t] = o], why' = [why EXCEPT ![t] = w],
         UNCHANGED <<lockp, firstUnused, entered, stray>>
  PROVE  IInv'
<1>0. Types /\ Distinct /\ LocalsOf(t) /\ ItemsOf(t)
  BY DEF IInv
<1>1. /\ pc' = [pc EXCEPT ![t] = "list"] /\ UNCHANGED <<data, fast, list, p>>
  BY DEF GoList
<1>2. \A u \in Threads : Items(u)' = Items(u)
  BY <1>1 DEF Items
<1>3. Types'
  BY <1>0, <1>1 DEF Types, Labels
<1>4. /\ pc'[t] = "list" /\ object'[t] = o /\ p'[t] = p[t] /\ entered'[t] = entered[t]
      /\ \A u \in Threads \ {t} : Spared(u)
  BY <1>0, <1>1, <1>2 DEF Types, Spared
<1>5. Distinct' /\ OneLockPerObject'
  BY <1>1 DEF IInv, Distinct, OneLockPerObject
<1>6. SpinLock'
  BY <1>4 DEF IInv, SpinLock, Spared
<1>7. LocalsOf(t)'
  BY <1>1, <1>2, <1>4, MissFacts DEF LocalsOf
<1>8. ItemsOf(t)'
  <2>1. \A d : Locking(t, d)' = Locking(t, d)
    BY <1>4 DEF Locking
  <2> QED
    BY <1>0, <1>1, <1>2, <1>4, <2>1 DEF ItemsOf
<1>9. \A u \in Threads : DataSpares(u)
  BY <1>1 DEF DataSpares
<1>10. Mutexes'
  <2>1. \A d \in DOMAIN data : Inside(t, d)' = Inside(t, d)
    BY <1>1, <1>2, <1>4 DEF Inside, Unlocking
  <2> QED
    BY <1>1, <1>3, <1>4, <1>7, <1>8, <1>9, <2>1, ThreadsTogether, MutexesKept
<1>11. ThreadCountExplained'
  <2>1. \A u \in Threads : \A d \in Nat :
          (pc'[u] = "save" /\ p'[u] = d) <=> (pc[u] = "save" /\ p[u] = d)
    BY <1>4 DEF Spared
  <2>2. \A d \in Nat : Users(d)' = Users(d)
    BY <1>0, <1>2, <1>3, <1>5, <2>1, SameUsers
  <2> QED
    BY <1>0, <1>1, <2>2, DataFacts DEF IInv, ThreadCountExplained
<1> QED
  BY <1>3, <1>4, <1>5, <1>6, <1>7, <1>8, <1>9, <1>10, <1>11, ThreadsTogether DEF IInv

LEMMA ExitHitKeeps ==
  ASSUME IInv, NEW t \in Threads, NEW o \in Objects, SyncExit(t, o), ReleaseCached(t, o)
  PROVE  IInv'
<1>0. Types /\ Distinct /\ pc[t] = "client" /\ LocalsOf(t) /\ ItemsOf(t)
  BY DEF IInv, SyncExit
<1>1. /\ fast' \in [Threads -> CacheItems \cup {EmptyItem}]
      /\ list' \in [Threads -> Seq(CacheItems)]
      /\ Distinct'
      /\ \A u \in Threads \ {t} : Items(u)' = Items(u)
  BY <1>0, ReleaseItem
<1>2. PICK x \in Items(t) :
        /\ data[x.data].object = o
        /\ GoOn(t, "unlock", x.data)
        /\ \/ /\ x.lockCount = 1
              /\ Items(t)' = Items(t) \ {x}
              /\ Uncount(x.data)
           \/ /\ x.lockCount > 1
              /\ Items(t)' = (Items(t) \ {x}) \cup {[x EXCEPT !.lockCount = @ - 1]}
              /\ UNCHANGED data
  BY <1>0, ReleaseItem
<1> DEFINE y == [x EXCEPT !.lockCount = @ - 1]
           e == [data[x.data] EXCEPT !.threadCount = @ - 1]
<1>3. /\ x \in CacheItems /\ y.data = x.data /\ y.lockCount = x.lockCount - 1
      /\ x.data \in DOMAIN data /\ x.data \in 1..Len(data) /\ x.data # Nil
      /\ data[x.data].threadCount \in Nat \ {0} /\ data[x.data] \in SyncDatas
  BY <1>0, <1>2, UsesItems, DataFacts DEF CacheItems
<1>4. /\ e \in SyncDatas /\ e.object = o
      /\ e.owner = data[x.data].owner /\ e.depth = data[x.data].depth
      /\ e.threadCount = data[x.data].threadCount - 1
  BY <1>2, <1>3 DEF SyncDatas
<1>5. \/ /\ x.lockCount = 1 /\ Items(t)' = Items(t) \ {x}
         /\ data' = [data EXCEPT ![x.data] = e]
      \/ /\ x.lockCount > 1 /\ Items(t)' = (Items(t) \ {x}) \cup {y}
         /\ UNCHANGED data
  BY <1>2 DEF Uncount
<1> HIDE DEF y, e
<1>6. DOMAIN data' = DOMAIN data /\ \A d \in DOMAIN data : data'[d].object = data[d].object
  BY <1>0, <1>2, <1>3, <1>4, <1>5, DataExcept
<1>61. \A d \in DOMAIN data : data'[d].owner = data[d].owner /\ data'[d].depth = data[d].depth
  BY <1>0, <1>2, <1>3, <1>4, <1>5, DataExcept
<1>62. Len(data') = Len(data) /\ data' \in Seq(SyncDatas)
  <2>1. CASE UNCHANGED data
    BY <1>0, <2>1 DEF Types
  <2> QED
    BY <1>0, <1>3, <1>4, <1>5, <2>1, DataExcept
<1>63. /\ \A d \in DOMAIN data : ~(d = x.data /\ x.lockCount = 1) => data'[d].threadCount = data[d].threadCount
       /\ x.lockCount = 1 => data'[x.data].threadCount = data[x.data].threadCount - 1
  BY <1>0, <1>2, <1>3, <1>4, <1>5, DataExcept
<1>7. \A u \in Threads : DataSpares(u)
  BY <1>3, <1>4, <1>5, <1>2, SmallChangeSpares DEF DataSpares
<1>8. /\ pc' = [pc EXCEPT ![t] = "unlock"] /\ p' = [p EXCEPT ![t] = x.data]
      /\ object' = [object EXCEPT ![t] = o] /\ why' = [why EXCEPT ![t] = "RELEASE"]
      /\ entered' = [entered EXCEPT ![t][o] = IF @ > 0 THEN @ - 1 ELSE 0]
      /\ UNCHANGED <<lockp, firstUnused, stray>>
  BY <1>2 DEF SyncExit, GoOn
<1>9. \A d : Locking(t, d) = 0
  BY <1>0 DEF Locking
<1>10. entered[t][o] = x.lockCount /\ x.lockCount \in Nat \ {0} /\ entered[t][o] \in Nat
  <2>1. x.lockCount = entered[t][o] + 0
    BY <1>0, <1>2, <1>9 DEF ItemsOf
  <2>2. entered[t][o] \in Nat
    BY <1>0 DEF Types
  <2> QED
    BY <1>3, <2>1, <2>2 DEF CacheItems
<1>11. /\ entered' \in [Threads -> [Objects -> Nat]]
       /\ entered'[t][o] = x.lockCount - 1
       /\ \A q \in Objects : q # o => entered'[t][q] = entered[t][q]
       /\ \A u \in Threads \ {t} : entered'[u] = entered[u]
  BY <1>0, <1>8, <1>10 DEF Types
<1>12. /\ pc'[t] = "unlock" /\ p'[t] = x.data /\ object'[t] = o
       /\ \A u \in Threads \ {t} : Spared(u)
  BY <1>0, <1>1, <1>8, <1>11 DEF Types, Spared
<1>13. Types'
  <2>1. p' \in [Threads -> 0..Len(data)]
    BY <1>0, <1>3, <1>8, DataFacts DEF Types
  <2>2. /\ pc' \in [Threads -> Labels] /\ object' \in [Threads -> Objects \cup {Nil}]
        /\ why' \in [Threads -> {"ACQUIRE", "RELEASE"}]
    BY <1>0, <1>8 DEF Types, Labels
  <2> QED
    BY <1>0, <1>1, <1>62, <1>8, <1>11, <2>1, <2>2 DEF Types
<1>14. SpinLock'
  BY <1>0, <1>8, <1>12 DEF IInv, SpinLock, Spared
<1>15. \A z \in Items(t) \ {x} : data[z.data].object # o /\ z.data # x.data
  BY <1>2, OtherItems
<1>16. LocalsOf(t)'
  BY <1>3, <1>12 DEF LocalsOf
<1>17. /\ Items(t) \ {x} \subseteq Items(t)' /\ Items(t)' \subseteq (Items(t) \ {x}) \cup {y}
       /\ y \in Items(t)' <=> x.lockCount > 1
       /\ \A z \in Items(t)' : z.data = x.data => z = y
  <2>1. y # x /\ y \notin Items(t) \ {x}
    BY <1>3, <1>10, <1>15
  <2> QED
    BY <1>3, <1>5, <1>10, <1>15, <2>1
<1>18. ItemsOf(t)'
  <2>1. \A d : Locking(t, d)' = 0
    BY <1>12 DEF Locking
  <2>2. \A z \in Items(t) \ {x} : /\ z.data \in DOMAIN data /\ data[z.data].object \in Objects
                                  /\ z.lockCount = entered[t][data[z.data].object] + 0
    BY <1>0, <1>9, DataFacts DEF ItemsOf, SyncDatas
  <2>3. \A z \in Items(t) \ {x} : z.lockCount = entered'[t][data'[z.data].object] + 0
    BY <1>6, <1>11, <1>15, <2>2
  <2>4. y.lockCount = entered'[t][data'[y.data].object] + 0
    BY <1>2, <1>3, <1>6, <1>10, <1>11
  <2>5. \A q \in Objects : entered'[t][q] > 0 => \E z \in Items(t)' : data'[z.data].object = q
    <3> SUFFICES ASSUME NEW q \in Objects, entered'[t][q] > 0
                 PROVE  \E z \in Items(t)' : data'[z.data].object = q
      OBVIOUS
    <3>1. CASE q = o
      BY <1>2, <1>3, <1>6, <1>10, <1>11, <1>17, <3>1
    <3>2. CASE q # o
      BY <1>0, <1>2, <1>6, <1>11, <1>17, <3>2 DEF ItemsOf
    <3> QED
      BY <3>1, <3>2
  <2> QED
    BY <1>3, <1>6, <1>17, <2>1, <2>2, <2>3, <2>4, <2>5 DEF ItemsOf
<1>19. Mutexes'
  <2>1. \A d \in DOMAIN data : Inside(t, d)' = Inside(t, d)
    <3> TAKE d \in DOMAIN data
    <3>1. Unlocking(t, d) = 0 /\ Unlocking(t, d)' = IF d = x.data THEN 1 ELSE 0
      BY <1>0, <1>12 DEF Unlocking
    <3>2. CASE d = x.data
      <4>1. \E z \in Items(t) : z.data = d
        BY <3>2
      <4>2. Inside(t, d) = x.lockCount
        BY <1>2, <1>10, <3>1, <3>2, <4>1 DEF Inside
      <4>3. (\E z \in Items(t)' : z.data = d) <=> x.lockCount > 1
        BY <1>3, <1>17, <3>2
      <4>4. entered'[t][data'[d].object] = x.lockCount - 1
        BY <1>2, <1>3, <1>6, <1>11, <3>2
      <4> QED
        BY <1>10, <3>1, <3>2, <4>2, <4>3, <4>4 DEF Inside
    <3>3. CASE d # x.data
      <4>1. (\E z \in Items(t)' : z.data = d) <=> (\E z \in Items(t) : z.data = d)
        BY <1>3, <1>17, <3>3
      <4>2. data[d].object \in Objects /\ data[d].object # o
        BY <1>0, <1>2, <1>3, <3>3, DataFacts DEF IInv, OneLockPerObject, SyncDatas
      <4>3. entered'[t][data'[d].object] = entered[t][data[d].object]
        BY <1>6, <1>11, <4>2
      <4> QED
        BY <3>1, <3>3, <4>1, <4>3 DEF Inside
    <3> QED
      BY <3>2, <3>3
  <2> QED
    BY <1>6, <1>61, <1>7, <1>12, <1>13, <1>16, <1>18, <2>1, ThreadsTogether, MutexesKept
<1>20. OneLockPerObject'
  BY <1>6 DEF IInv, OneLockPerObject
<1>21. ThreadCountExplained'
  <2> SUFFICES ASSUME NEW d \in DOMAIN data
               PROVE  data'[d].threadCount = Cardinality(Users(d)') + stray[d]
    BY <1>6, <1>8 DEF ThreadCountExplained
  <2>1. d \in Nat /\ stray[d] \in Nat /\ data[d].threadCount = Cardinality(Users(d)) + stray[d]
    BY <1>0, DataFacts DEF IInv, ThreadCountExplained
  <2>2. \A u \in Threads \ {t} : u \in Users(d)' <=> u \in Users(d)
    BY <1>0, <1>1, <1>12, <1>13, <2>1, UsersKept
  <2>3. t \in Users(d)' <=> \E z \in Items(t)' : z.data = d
    BY <1>1, <1>12, <1>13, <2>1, UsersFactsNext
  <2>4. t \in Users(d) <=> \E z \in Items(t) : z.data = d
    BY <1>0, <2>1, UsersFacts
  <2>5. Users(d)' \subseteq Threads /\ Users(d) \subseteq Threads /\ IsFiniteSet(Users(d))
    BY <1>0, <1>1, <1>13, <2>1, UsersFacts, UsersFactsNext
  <2>6. CASE d = x.data /\ x.lockCount = 1
    <3>1. Users(d)' = Users(d) \ {t} /\ t \in Users(d)
      BY <1>3, <1>17, <2>2, <2>3, <2>4, <2>5, <2>6
    <3>2. Cardinality(Users(d)') = Cardinality(Users(d)) - 1 /\ Cardinality(Users(d)) \in Nat
      BY <2>5, <3>1, FS_RemoveElement, FS_CardinalityType
    <3> QED
      BY <1>63, <2>1, <2>6, <3>2
  <2>7. CASE ~(d = x.data /\ x.lockCount = 1)
    <3>1. (\E z \in Items(t)' : z.data = d) <=> (\E z \in Items(t) : z.data = d)
      BY <1>3, <1>10, <1>17, <2>7
    <3>2. Users(d)' = Users(d)
      BY <2>2, <2>3, <2>4, <2>5, <3>1
    <3> QED
      BY <1>63, <2>1, <2>7, <3>2
  <2> QED
    BY <2>6, <2>7
<1> QED
  BY <1>1, <1>7, <1>12, <1>13, <1>14, <1>16, <1>18, <1>19, <1>20, <1>21, ThreadsTogether DEF IInv

-----------------------------------------------------------------------------
(* The list                                                                *)

LEMMA LockListKeeps ==
  ASSUME IInv, NEW t \in Threads, LockList(t)
  PROVE  IInv'
<1>0. /\ Types /\ Distinct /\ pc[t] = "list" /\ LocalsOf(t) /\ ItemsOf(t)
      /\ lockp = NoThread /\ lockp' = t
      /\ pc' = [pc EXCEPT ![t] = "walk"] /\ p' = [p EXCEPT ![t] = Len(data)]
      /\ firstUnused' = [firstUnused EXCEPT ![t] = Nil]
      /\ UNCHANGED <<data, fast, list, why, object, entered, stray>>
  BY DEF IInv, LockList, caches
<1>1. Len(data) \in Nat /\ DOMAIN data = 1..Len(data)
  BY <1>0, DataFacts
<1>2. \A u \in Threads : Items(u)' = Items(u)
  BY <1>0 DEF Items
<1>3. Types'
  BY <1>0, <1>1 DEF Types, Labels, Nil
<1>4. /\ pc'[t] = "walk" /\ p'[t] = Len(data) /\ firstUnused'[t] = Nil
      /\ \A u \in Threads \ {t} : Spared(u)
  BY <1>0, <1>2 DEF Types, Spared
<1>5. Distinct' /\ OneLockPerObject'
  BY <1>0 DEF IInv, Distinct, OneLockPerObject
<1>6. SpinLock'
  BY <1>0, <1>4, SyncAssumption DEF IInv, SpinLock, Spared
<1>7. LocalsOf(t)'
  <2>1. \A d \in DOMAIN data : ~(d > Len(data))
    BY <1>1
  <2> QED
    BY <1>0, <1>2, <1>4, <2>1 DEF LocalsOf
<1>8. ItemsOf(t)'
  <2>1. \A d : Locking(t, d)' = Locking(t, d)
    BY <1>0, <1>4 DEF Locking
  <2> QED
    BY <1>0, <1>2, <2>1 DEF ItemsOf
<1>9. \A u \in Threads : DataSpares(u)
  BY <1>0 DEF DataSpares
<1>10. Mutexes'
  <2>1. \A d \in DOMAIN data : Inside(t, d)' = Inside(t, d)
    BY <1>0, <1>2, <1>4 DEF Inside, Unlocking
  <2> QED
    BY <1>0, <1>3, <1>4, <1>7, <1>8, <1>9, <2>1, ThreadsTogether, MutexesKept
<1>11. ThreadCountExplained'
  <2>1. \A u \in Threads : \A d \in Nat :
          (pc'[u] = "save" /\ p'[u] = d) <=> (pc[u] = "save" /\ p[u] = d)
    BY <1>0, <1>4 DEF Spared
  <2>2. \A d \in Nat : Users(d)' = Users(d)
    BY <1>0, <1>2, <1>3, <1>5, <2>1, SameUsers
  <2> QED
    BY <1>0, <1>1, <2>2 DEF IInv, ThreadCountExplained
<1> QED
  BY <1>3, <1>4, <1>5, <1>6, <1>7, <1>8, <1>9, <1>10, <1>11, ThreadsTogether DEF IInv

(* While one thread walks no other does.                                   *)
LEMMA WalksAlone ==
  ASSUME IInv, NEW t \in Threads, pc[t] = "walk"
  PROVE  /\ lockp = t
         /\ \A u \in Threads \ {t} : pc[u] # "walk"
BY DEF IInv, SpinLock

LEMMA WalkOnKeeps ==
  ASSUME IInv, NEW t \in Threads, WalkOn(t)
  PROVE  IInv'
<1>0. /\ Types /\ Distinct /\ pc[t] = "walk" /\ LocalsOf(t) /\ ItemsOf(t)
      /\ p[t] # Nil /\ data[p[t]].object # object[t]
      /\ p' = [p EXCEPT ![t] = @ - 1]
      /\ firstUnused' = [firstUnused EXCEPT ![t] =
                           IF @ = Nil /\ data[p[t]].threadCount = 0 THEN p[t] ELSE @]
      /\ UNCHANGED <<data, lockp, fast, list, pc, why, object, entered, stray>>
  BY DEF IInv, WalkOn, caches
<1>1. /\ Len(data) \in Nat /\ DOMAIN data = 1..Len(data)
      /\ p[t] \in 1..Len(data) /\ p[t] - 1 \in 0..Len(data)
      /\ firstUnused[t] \in 0..Len(data)
  BY <1>0, DataFacts DEF Types, Nil
<1>2. \A u \in Threads : Items(u)' = Items(u)
  BY <1>0 DEF Items
<1>3. Types'
  <2>1. p' \in [Threads -> 0..Len(data)] /\ firstUnused' \in [Threads -> 0..Len(data)]
    BY <1>0, <1>1 DEF Types
  <2> QED
    BY <1>0, <2>1 DEF Types
<1>4. /\ p'[t] = p[t] - 1
      /\ firstUnused'[t] \in {firstUnused[t], p[t]}
      /\ firstUnused'[t] # firstUnused[t] => data[p[t]].threadCount = 0
      /\ \A u \in Threads \ {t} : Spared(u)
  BY <1>0, <1>2 DEF Types, Spared
<1>5. Distinct' /\ OneLockPerObject' /\ SpinLock'
  BY <1>0 DEF IInv, Distinct, OneLockPerObject, SpinLock
<1>6. LocalsOf(t)'
  <2>1. \A d \in DOMAIN data : d > p[t] - 1 => data[d].object # object[t]
    <3> SUFFICES ASSUME NEW d \in DOMAIN data, d > p[t] - 1
                 PROVE  data[d].object # object[t]
      OBVIOUS
    <3>1. d = p[t] \/ d > p[t]
      BY <1>1
    <3> QED
      BY <1>0, <3>1 DEF LocalsOf
  <2>2. firstUnused'[t] # Nil => data[firstUnused'[t]].threadCount = 0
    BY <1>0, <1>4 DEF LocalsOf
  <2> QED
    BY <1>0, <1>2, <1>4, <2>1, <2>2 DEF LocalsOf
<1>7. ItemsOf(t)'
  <2>1. \A d : Locking(t, d)' = Locking(t, d)
    BY <1>0 DEF Locking
  <2> QED
    BY <1>0, <1>2, <2>1 DEF ItemsOf
<1>8. \A u \in Threads : DataSpares(u)
  BY <1>0 DEF DataSpares
<1>9. Mutexes'
  <2>1. \A d \in DOMAIN data : Inside(t, d)' = Inside(t, d)
    BY <1>0, <1>2 DEF Inside, Unlocking
  <2> QED
    BY <1>0, <1>3, <1>4, <1>6, <1>7, <1>8, <2>1, ThreadsTogether, MutexesKept
<1>10. ThreadCountExplained'
  <2>1. \A u \in Threads : \A d \in Nat :
          (pc'[u] = "save" /\ p'[u] = d) <=> (pc[u] = "save" /\ p[u] = d)
    BY <1>0, <1>4 DEF Spared
  <2>2. \A d \in Nat : Users(d)' = Users(d)
    BY <1>0, <1>2, <1>3, <1>5, <2>1, SameUsers
  <2> QED
    BY <1>0, <1>1, <2>2 DEF IInv, ThreadCountExplained
<1> QED
  BY <1>3, <1>4, <1>5, <1>6, <1>7, <1>8, <1>9, <1>10, ThreadsTogether DEF IInv

(* A walk that ends unlocks the list, and no other is in progress.         *)
LEMMA WalkEnds ==
  ASSUME IInv, NEW t \in Threads, pc[t] = "walk", lockp' = NoThread,
         pc'[t] # "walk", \A u \in Threads \ {t} : Spared(u)
  PROVE  SpinLock'
BY WalksAlone, SyncAssumption DEF SpinLock, Spared

(* What the end of a walk leaves to the others, when it hands out d.       *)
LEMMA HandingOutSpares ==
  ASSUME IInv, NEW t \in Threads, pc[t] = "walk", NEW d \in DOMAIN data, NEW e \in SyncDatas,
         e.object = data[d].object \/ data[d].threadCount = 0,
         data' = [data EXCEPT ![d] = e]
  PROVE  \A u \in Threads \ {t} : DataSpares(u)
<1> TAKE u \in Threads \ {t}
<1>1. /\ DOMAIN data' = DOMAIN data /\ data'[d] = e
      /\ \A c \in DOMAIN data : c # d => data'[c] = data[c]
  <2>1. Types
    BY DEF IInv
  <2> QED
    BY <2>1, DataExcept
<1>2. \A x \in Items(u) : data'[x.data].object = data[x.data].object
  BY <1>1, UsesItems
<1>3. pc[u] = "save" => data'[p[u]].object = data[p[u]].object
  BY <1>1, UsesItems
<1> QED
  BY <1>1, <1>2, <1>3, WalksAlone DEF DataSpares

(* A SyncData is found: one more user, or a stray exit that is counted as  *)
(* one.                                                                    *)
LEMMA FoundKeeps ==
  ASSUME IInv, NEW t \in Threads, Found(t)
  PROVE  IInv'
<1> DEFINE d == p[t]
           e == [data[d] EXCEPT !.threadCount = @ + 1]
<1>0. /\ Types /\ Distinct /\ pc[t] = "walk" /\ LocalsOf(t) /\ ItemsOf(t)
      /\ d # Nil /\ data[d].object = object[t]
      /\ data' = [data EXCEPT ![d] = e] /\ lockp' = NoThread
      /\ UNCHANGED <<fast, list, entered>>
  BY DEF IInv, Found, caches
<1>1. /\ Len(data) \in Nat /\ DOMAIN data = 1..Len(data) /\ d \in DOMAIN data /\ d \in Nat
      /\ data[d] \in SyncDatas /\ stray[d] \in Nat
  BY <1>0, DataFacts DEF Types, Nil
<1>2. /\ e \in SyncDatas /\ e.object = data[d].object
      /\ e.owner = data[d].owner /\ e.depth = data[d].depth
      /\ e.threadCount = data[d].threadCount + 1 /\ data[d].threadCount \in Nat
  BY <1>1 DEF SyncDatas
<1> HIDE DEF e
<1>3. DOMAIN data' = DOMAIN data /\ \A c \in DOMAIN data : data'[c].object = data[c].object
  BY <1>0, <1>1, <1>2, DataExcept
<1>4. \A c \in DOMAIN data : data'[c].owner = data[c].owner /\ data'[c].depth = data[c].depth
  BY <1>0, <1>1, <1>2, DataExcept
<1>5. /\ data' \in Seq(SyncDatas) /\ Len(data') = Len(data)
      /\ data'[d].threadCount = data[d].threadCount + 1
      /\ \A c \in DOMAIN data : c # d => data'[c].threadCount = data[c].threadCount
  BY <1>0, <1>1, <1>2, DataExcept
<1>6. \A u \in Threads : Items(u)' = Items(u)
  BY <1>0 DEF Items
<1>7. Distinct' /\ OneLockPerObject'
  BY <1>0, <1>3 DEF IInv, Distinct, OneLockPerObject
<1>8. \A u \in Threads \ {t} : DataSpares(u)
  BY <1>0, <1>1, <1>2, HandingOutSpares
<1>9. \A c \in DOMAIN data : data[c].threadCount = Cardinality(Users(c)) + stray[c]
  BY DEF IInv, ThreadCountExplained
<1>10. \A x \in Items(t) : x.data # d
  BY <1>0 DEF LocalsOf
<1>11. CASE why[t] = "ACQUIRE" /\ GoSave(t, d) /\ UNCHANGED stray
  <2>1. /\ pc' = [pc EXCEPT ![t] = "save"] /\ p' = [p EXCEPT ![t] = d]
        /\ firstUnused' = [firstUnused EXCEPT ![t] = Nil]
        /\ UNCHANGED <<why, object, stray>>
    BY <1>11 DEF GoSave, GoOn
  <2>2. Types'
    <3>1. p' \in [Threads -> 0..Len(data)] /\ firstUnused' \in [Threads -> 0..Len(data)]
      BY <1>0, <1>1, <2>1 DEF Types, Nil
    <3> QED
      BY <1>0, <1>5, <2>1, <3>1 DEF Types, Labels
  <2>3. /\ pc'[t] = "save" /\ p'[t] = d /\ object'[t] = object[t] /\ entered'[t] = entered[t]
        /\ \A u \in Threads \ {t} : Spared(u)
    BY <1>0, <1>6, <2>1 DEF Types, Spared
  <2>4. SpinLock'
    BY <1>0, <2>3, WalkEnds
  <2>5. LocalsOf(t)'
    <3>1. \A x \in Items(t) : data'[x.data].object # object[t]
      BY <1>0, <1>3 DEF LocalsOf, ItemsOf
    <3> QED
      BY <1>0, <1>1, <1>3, <1>6, <2>3, <3>1 DEF LocalsOf
  <2>6. ItemsOf(t)'
    <3>1. \A c : Locking(t, c)' = Locking(t, c)
      BY <1>0, <2>3 DEF Locking
    <3> QED
      BY <1>3, <1>6, <1>0, <2>3, <3>1 DEF ItemsOf
  <2>7. Mutexes'
    <3>1. \A c \in DOMAIN data : Inside(t, c)' = Inside(t, c)
      BY <1>0, <1>3, <1>6, <2>3 DEF Inside, Unlocking
    <3> QED
      BY <1>3, <1>4, <1>8, <2>2, <2>3, <2>5, <2>6, <3>1, ThreadsTogether, MutexesKept
  <2>8. ThreadCountExplained'
    <3> SUFFICES ASSUME NEW c \in DOMAIN data
                 PROVE  data'[c].threadCount = Cardinality(Users(c)') + stray[c]
      BY <1>3, <2>1 DEF ThreadCountExplained
    <3>1. c \in Nat
      BY <1>1
    <3>2. \A u \in Threads \ {t} : u \in Users(c)' <=> u \in Users(c)
      BY <1>0, <1>7, <2>2, <2>3, <3>1, UsersKept
    <3>3. /\ Users(c)' \subseteq Threads /\ Users(c) \subseteq Threads /\ IsFiniteSet(Users(c))
          /\ Cardinality(Users(c)) \in Nat
      BY <1>0, <1>7, <2>2, <3>1, UsersFacts, UsersFactsNext
    <3>4. CASE c = d
      <4>1. t \notin Users(c) /\ t \in Users(c)'
        BY <1>0, <1>7, <1>10, <2>2, <2>3, <3>1, <3>4, UsersFacts, UsersFactsNext
      <4>2. Users(c)' = Users(c) \cup {t}
        BY <3>2, <3>3, <4>1
      <4>3. Cardinality(Users(c)') = Cardinality(Users(c)) + 1
        BY <3>3, <4>1, <4>2, FS_AddElement
      <4>4. /\ data[c].threadCount = Cardinality(Users(c)) + stray[c] /\ stray[c] \in Nat
            /\ data'[c].threadCount = data[c].threadCount + 1
        BY <1>1, <1>5, <1>9, <3>4
      <4> QED
        BY <3>3, <4>3, <4>4
    <3>5. CASE c # d
      <4>1. t \in Users(c)' <=> t \in Users(c)
        BY <1>0, <1>6, <1>7, <2>2, <2>3, <3>1, <3>5, UsersFacts, UsersFactsNext
      <4>2. Users(c)' = Users(c)
        BY <3>2, <3>3, <4>1
      <4> QED
        BY <1>5, <1>9, <3>5, <4>2
    <3> QED
      BY <3>4, <3>5
  <2> QED
    BY <1>7, <1>8, <2>2, <2>3, <2>4, <2>5, <2>6, <2>7, <2>8, ThreadsTogether DEF IInv
<1>12. CASE why[t] = "RELEASE" /\ Return(t) /\ stray' = [stray EXCEPT ![d] = @ + 1]
  <2>1. /\ pc' = [pc EXCEPT ![t] = "client"] /\ why' = [why EXCEPT ![t] = "ACQUIRE"]
        /\ object' = [object EXCEPT ![t] = Nil] /\ p' = [p EXCEPT ![t] = Nil]
        /\ firstUnused' = [firstUnused EXCEPT ![t] = Nil]
    BY <1>12 DEF Return
  <2>2. /\ stray' \in Seq(Nat) /\ Len(stray') = Len(stray) /\ DOMAIN stray' = DOMAIN stray
        /\ \A c \in DOMAIN data : stray'[c] = IF c = d THEN stray[d] + 1 ELSE stray[c]
    <3>1. stray \in Seq(Nat) /\ stray[d] + 1 \in Nat /\ Len(stray) = Len(data)
      BY <1>0, <1>1 DEF Types
    <3> QED
      BY <1>1, <1>12, <3>1, ExceptSeq, LenProperties
  <2>3. Types'
    <3>1. p' \in [Threads -> 0..Len(data)] /\ firstUnused' \in [Threads -> 0..Len(data)]
      BY <1>0, <1>1, <2>1 DEF Types, Nil
    <3>2. /\ pc' \in [Threads -> Labels] /\ object' \in [Threads -> Objects \cup {Nil}]
          /\ why' \in [Threads -> {"ACQUIRE", "RELEASE"}]
      BY <1>0, <2>1 DEF Types, Labels
    <3> QED
      BY <1>0, <1>5, <2>2, <3>1, <3>2 DEF Types
  <2>4. /\ pc'[t] = "client" /\ entered'[t] = entered[t]
        /\ \A u \in Threads \ {t} : Spared(u)
    BY <1>0, <1>6, <2>1 DEF Types, Spared
  <2>5. SpinLock'
    BY <1>0, <2>4, WalkEnds
  <2>6. LocalsOf(t)'
    BY <2>4 DEF LocalsOf
  <2>7. ItemsOf(t)'
    <3>1. \A c : Locking(t, c)' = Locking(t, c)
      BY <1>0, <2>4 DEF Locking
    <3> QED
      BY <1>3, <1>6, <1>0, <2>4, <3>1 DEF ItemsOf
  <2>8. Mutexes'
    <3>1. \A c \in DOMAIN data : Inside(t, c)' = Inside(t, c)
      BY <1>0, <1>3, <1>6, <2>4 DEF Inside, Unlocking
    <3> QED
      BY <1>3, <1>4, <1>8, <2>3, <2>4, <2>6, <2>7, <3>1, ThreadsTogether, MutexesKept
  <2>9. ThreadCountExplained'
    <3>1. \A u \in Threads : \A c \in Nat :
            (pc'[u] = "save" /\ p'[u] = c) <=> (pc[u] = "save" /\ p[u] = c)
      BY <1>0, <2>4 DEF Spared
    <3>2. \A c \in Nat : Users(c)' = Users(c)
      BY <1>0, <1>6, <1>7, <2>3, <3>1, SameUsers
    <3>3. \A c \in DOMAIN data : c \in Nat /\ Cardinality(Users(c)) \in Nat
      BY <1>0, <1>1, UsersFacts
    <3>4. \A c \in DOMAIN data : data'[c].threadCount = Cardinality(Users(c)) + stray'[c]
      <4> TAKE c \in DOMAIN data
      <4>1. /\ data[c].threadCount = Cardinality(Users(c)) + stray[c] /\ stray[c] \in Nat
            /\ Cardinality(Users(c)) \in Nat
        BY <1>0, <1>9, <3>3, DataFacts
      <4>2. CASE c = d
        <5>1. data'[c].threadCount = data[c].threadCount + 1 /\ stray'[c] = stray[c] + 1
          BY <1>5, <2>2, <4>2
        <5> QED
          BY <4>1, <5>1
      <4>3. CASE c # d
        BY <1>5, <2>2, <4>1, <4>3
      <4> QED
        BY <4>2, <4>3
    <3> QED
      BY <1>3, <3>2, <3>3, <3>4 DEF ThreadCountExplained
  <2> QED
    BY <1>7, <1>8, <2>3, <2>4, <2>5, <2>6, <2>7, <2>8, <2>9, ThreadsTogether DEF IInv
<1> QED
  BY <1>11, <1>12 DEF Found

(* No SyncData is the object's: a stray exit, an unused SyncData that is   *)
(* given to the object, or a new one.                                      *)
LEMMA StrayExitKeeps ==
  ASSUME IInv, NEW t \in Threads, pc[t] = "walk", Return(t), lockp' = NoThread,
         UNCHANGED <<data, fast, list, entered, stray>>
  PROVE  IInv'
<1>0. /\ Types /\ Distinct /\ LocalsOf(t) /\ ItemsOf(t)
      /\ pc' = [pc EXCEPT ![t] = "client"] /\ why' = [why EXCEPT ![t] = "ACQUIRE"]
      /\ object' = [object EXCEPT ![t] = Nil] /\ p' = [p EXCEPT ![t] = Nil]
      /\ firstUnused' = [firstUnused EXCEPT ![t] = Nil]
  BY DEF IInv, Return
<1>1. Len(data) \in Nat /\ DOMAIN data = 1..Len(data)
  BY <1>0, DataFacts
<1>2. \A u \in Threads : Items(u)' = Items(u)
  BY DEF Items
<1>3. Types'
  <2>1. p' \in [Threads -> 0..Len(data)] /\ firstUnused' \in [Threads -> 0..Len(data)]
    BY <1>0, <1>1 DEF Types, Nil
  <2>2. /\ pc' \in [Threads -> Labels] /\ object' \in [Threads -> Objects \cup {Nil}]
        /\ why' \in [Threads -> {"ACQUIRE", "RELEASE"}]
    BY <1>0 DEF Types, Labels
  <2> QED
    BY <1>0, <2>1, <2>2 DEF Types
<1>4. /\ pc'[t] = "client" /\ entered'[t] = entered[t]
      /\ \A u \in Threads \ {t} : Spared(u)
  BY <1>0, <1>2 DEF Types, Spared
<1>5. Distinct' /\ OneLockPerObject'
  BY DEF IInv, Distinct, OneLockPerObject
<1>6. SpinLock'
  BY <1>0, <1>4, WalkEnds
<1>7. LocalsOf(t)'
  BY <1>4 DEF LocalsOf
<1>8. ItemsOf(t)'
  <2>1. \A d : Locking(t, d)' = Locking(t, d)
    BY <1>0, <1>4 DEF Locking
  <2> QED
    BY <1>0, <1>2, <2>1 DEF ItemsOf
<1>9. \A u \in Threads : DataSpares(u)
  BY DEF DataSpares
<1>10. Mutexes'
  <2>1. \A d \in DOMAIN data : Inside(t, d)' = Inside(t, d)
    BY <1>0, <1>2, <1>4 DEF Inside, Unlocking
  <2> QED
    BY <1>0, <1>3, <1>4, <1>7, <1>8, <1>9, <2>1, ThreadsTogether, MutexesKept
<1>11. ThreadCountExplained'
  <2>1. \A u \in Threads : \A d \in Nat :
          (pc'[u] = "save" /\ p'[u] = d) <=> (pc[u] = "save" /\ p[u] = d)
    BY <1>0, <1>4 DEF Spared
  <2>2. \A d \in Nat : Users(d)' = Users(d)
    BY <1>0, <1>2, <1>3, <1>5, <2>1, SameUsers
  <2> QED
    BY <1>0, <1>1, <2>2 DEF IInv, ThreadCountExplained
<1> QED
  BY <1>3, <1>4, <1>5, <1>6, <1>7, <1>8, <1>9, <1>10, <1>11, ThreadsTogether DEF IInv

LEMMA ReuseKeeps ==
  ASSUME IInv, NEW t \in Threads, pc[t] = "walk", p[t] = Nil, firstUnused[t] # Nil,
         data' = [data EXCEPT ![firstUnused[t]].object = object[t],
                              ![firstUnused[t]].threadCount = 1],
         GoSave(t, firstUnused[t]), lockp' = NoThread,
         UNCHANGED <<fast, list, entered, stray>>
  PROVE  IInv'
<1> DEFINE d == firstUnused[t]
           e == [data[d] EXCEPT !.object = object[t], !.threadCount = 1]
<1>0. /\ Types /\ Distinct /\ LocalsOf(t) /\ ItemsOf(t)
      /\ pc' = [pc EXCEPT ![t] = "save"] /\ p' = [p EXCEPT ![t] = d]
      /\ firstUnused' = [firstUnused EXCEPT ![t] = Nil]
      /\ UNCHANGED <<why, object>>
  BY DEF IInv, GoSave, GoOn
<1>1. /\ Len(data) \in Nat /\ DOMAIN data = 1..Len(data) /\ d \in DOMAIN data /\ d \in Nat
      /\ data[d] \in SyncDatas /\ stray[d] \in Nat
  BY <1>0, DataFacts DEF Types, Nil
<1>2. /\ object[t] \in Objects /\ data[d].threadCount = 0
      /\ \A c \in DOMAIN data : data[c].object # object[t]
  <2>1. \A c \in DOMAIN data : c > p[t]
    BY <1>1 DEF Nil
  <2> QED
    BY <1>0, <2>1 DEF LocalsOf
<1>3. data' = [data EXCEPT ![d] = e]
  BY <1>0, <1>1 DEF Types
<1>4. /\ e \in SyncDatas /\ e.object = object[t] /\ e.threadCount = 1
      /\ e.owner = data[d].owner /\ e.depth = data[d].depth
  BY <1>1, <1>2 DEF SyncDatas
<1> HIDE DEF e
<1>5. /\ DOMAIN data' = DOMAIN data /\ data'[d].object = object[t]
      /\ \A c \in DOMAIN data : c # d => data'[c].object = data[c].object
  BY <1>0, <1>1, <1>3, <1>4, DataExcept
<1>6. \A c \in DOMAIN data : data'[c].owner = data[c].owner /\ data'[c].depth = data[c].depth
  BY <1>0, <1>1, <1>3, <1>4, DataExcept
<1>7. /\ data' \in Seq(SyncDatas) /\ Len(data') = Len(data)
      /\ data'[d].threadCount = 1
      /\ \A c \in DOMAIN data : c # d => data'[c].threadCount = data[c].threadCount
  BY <1>0, <1>1, <1>3, <1>4, DataExcept
<1>8. \A u \in Threads : Items(u)' = Items(u)
  BY DEF Items
<1>9. Distinct' /\ OneLockPerObject'
  BY <1>2, <1>5 DEF IInv, Distinct, OneLockPerObject
<1>10. \A u \in Threads \ {t} : DataSpares(u)
  <2> HIDE DEF d
  <2> QED BY <1>1, <1>2, <1>3, <1>4, HandingOutSpares
<1>11. /\ \A c \in DOMAIN data : data[c].threadCount = Cardinality(Users(c)) + stray[c]
       /\ Users(d) = {} /\ stray[d] = 0
  <2>1. \A c \in DOMAIN data : data[c].threadCount = Cardinality(Users(c)) + stray[c]
    BY DEF IInv, ThreadCountExplained
  <2>2. Cardinality(Users(d)) \in Nat /\ (Cardinality(Users(d)) = 0 <=> Users(d) = {})
    BY <1>0, <1>1, UsersFacts
  <2>3. Cardinality(Users(d)) + stray[d] = 0
    BY <1>1, <1>2, <2>1
  <2> QED
    BY <1>1, <2>1, <2>2, <2>3
<1>12. \A u \in Threads : \A x \in Items(u) : x.data # d /\ x.data \in DOMAIN data
  BY <1>2, UsesItems
<1>13. Types'
  <2>1. p' \in [Threads -> 0..Len(data)] /\ firstUnused' \in [Threads -> 0..Len(data)]
    BY <1>0, <1>1 DEF Types, Nil
  <2> QED
    BY <1>0, <1>7, <2>1 DEF Types, Labels
<1>14. /\ pc'[t] = "save" /\ p'[t] = d /\ object'[t] = object[t] /\ entered'[t] = entered[t]
       /\ \A u \in Threads \ {t} : Spared(u)
  BY <1>0, <1>8 DEF Types, Spared
<1>15. SpinLock'
  BY <1>14, WalkEnds
<1>16. LocalsOf(t)'
  <2>1. \A x \in Items(t) : data'[x.data].object # object[t]
    BY <1>2, <1>5, <1>12
  <2> QED
    BY <1>2, <1>5, <1>8, <1>14, <2>1 DEF LocalsOf
<1>17. \A x \in Items(t) : data'[x.data].object = data[x.data].object
  BY <1>5, <1>12
<1>18. ItemsOf(t)'
  <2>1. \A c : Locking(t, c)' = Locking(t, c)
    BY <1>14 DEF Locking
  <2> QED
    BY <1>0, <1>5, <1>8, <1>14, <1>17, <2>1 DEF ItemsOf
<1>19. Mutexes'
  <2>1. \A c \in DOMAIN data : Inside(t, c)' = Inside(t, c)
    BY <1>8, <1>14, <1>17 DEF Inside, Unlocking
  <2> QED
    BY <1>5, <1>6, <1>10, <1>13, <1>14, <1>16, <1>18, <2>1, ThreadsTogether, MutexesKept
<1>20. ThreadCountExplained'
  <2> SUFFICES ASSUME NEW c \in DOMAIN data
               PROVE  data'[c].threadCount = Cardinality(Users(c)') + stray[c]
    BY <1>5 DEF ThreadCountExplained
  <2>1. c \in Nat
    BY <1>1
  <2>2. \A u \in Threads \ {t} : u \in Users(c)' <=> u \in Users(c)
    BY <1>0, <1>9, <1>13, <1>14, <2>1, UsersKept
  <2>3. Users(c)' \subseteq Threads /\ Users(c) \subseteq Threads
    BY <1>0, <1>9, <1>13, <2>1, UsersFacts, UsersFactsNext
  <2>4. CASE c = d
    <3>1. t \in Users(c)'
      BY <1>9, <1>13, <1>14, <2>1, <2>4, UsersFactsNext
    <3>2. Users(c)' = {t}
      BY <1>11, <2>2, <2>3, <2>4, <3>1
    <3>3. Cardinality(Users(c)') = 1
      BY <3>2, FS_Singleton
    <3> QED
      BY <1>7, <1>11, <2>4, <3>3
  <2>5. CASE c # d
    <3>1. t \in Users(c)' <=> t \in Users(c)
      BY <1>0, <1>8, <1>9, <1>13, <1>14, <2>1, <2>5, UsersFacts, UsersFactsNext
    <3>2. Users(c)' = Users(c)
      BY <2>2, <2>3, <3>1
    <3> QED
      BY <1>7, <1>11, <2>5, <3>2
  <2> QED
    BY <2>4, <2>5
<1> QED
  BY <1>9, <1>10, <1>13, <1>14, <1>15, <1>16, <1>18, <1>19, <1>20, ThreadsTogether DEF IInv

LEMMA NewSyncDataKeeps ==
  ASSUME IInv, NEW t \in Threads, pc[t] = "walk", p[t] = Nil,
         data' = Append(data, SyncData(object[t])), stray' = Append(stray, 0),
         GoSave(t, Len(data) + 1), lockp' = NoThread,
         UNCHANGED <<fast, list, entered>>
  PROVE  IInv'
<1>d. PICK d : d = Len(data) + 1
  OBVIOUS
<1> DEFINE e == SyncData(object[t])
<1>0. /\ Types /\ Distinct /\ LocalsOf(t) /\ ItemsOf(t)
      /\ pc' = [pc EXCEPT ![t] = "save"] /\ p' = [p EXCEPT ![t] = d]
      /\ firstUnused' = [firstUnused EXCEPT ![t] = Nil]
      /\ UNCHANGED <<why, object>>
  BY <1>d DEF IInv, GoSave, GoOn
<1>1. /\ Len(data) \in Nat /\ DOMAIN data = 1..Len(data) /\ DOMAIN stray = DOMAIN data
      /\ d \in Nat /\ d # Nil /\ d \notin DOMAIN data
  BY <1>d, <1>0, DataFacts DEF Nil
<1>2. object[t] \in Objects /\ \A c \in DOMAIN data : data[c].object # object[t]
  <2>1. \A c \in DOMAIN data : c > p[t]
    BY <1>1 DEF Nil
  <2> QED
    BY <1>0, <2>1 DEF LocalsOf
<1>3. /\ e \in SyncDatas /\ e.object = object[t] /\ e.threadCount = 1
      /\ e.owner = NoThread /\ e.depth = 0
  BY <1>2 DEF SyncDatas, SyncData
<1> HIDE DEF e
<1>4. /\ data' \in Seq(SyncDatas) /\ Len(data') = d /\ DOMAIN data' = DOMAIN data \cup {d}
      /\ \A c \in DOMAIN data : data'[c] = data[c]
      /\ data'[d] = e
  <2>1. /\ data' \in Seq(SyncDatas) /\ Len(data') = d /\ DOMAIN data' = 1..d
        /\ \A c \in 1..Len(data) : data'[c] = data[c]
        /\ data'[d] = e
    BY <1>d, <1>0, <1>3, Appended DEF Types, e
  <2> QED
    BY <1>1, <2>1
<1>5. /\ stray' \in Seq(Nat) /\ Len(stray') = d
      /\ \A c \in DOMAIN data : stray'[c] = stray[c]
      /\ stray'[d] = 0
  <2>1. stray \in Seq(Nat) /\ Len(stray) = Len(data)
    BY <1>0 DEF Types
  <2> QED
    BY <1>d, <1>1, <2>1, Appended
<1>6. \A u \in Threads : Items(u)' = Items(u)
  BY DEF Items
<1>7. Distinct' /\ OneLockPerObject'
  BY <1>2, <1>3, <1>4 DEF IInv, Distinct, OneLockPerObject
<1>8. \A u \in Threads : \A x \in Items(u) : x.data \in DOMAIN data /\ x.data # d
  BY <1>1, UsesItems
<1>9. \A u \in Threads \ {t} : DataSpares(u)
  <2> TAKE u \in Threads \ {t}
  <2>1. pc[u] # "walk"
    BY WalksAlone
  <2> QED
    BY <1>4, <1>8, <2>1, UsesItems DEF DataSpares
<1>10. Types'
  <2>1. p' \in [Threads -> 0..d] /\ firstUnused' \in [Threads -> 0..d]
    BY <1>d, <1>0, <1>1 DEF Types, Nil
  <2> QED
    BY <1>0, <1>4, <1>5, <2>1 DEF Types, Labels
<1>11. /\ pc'[t] = "save" /\ p'[t] = d /\ object'[t] = object[t] /\ entered'[t] = entered[t]
       /\ \A u \in Threads \ {t} : Spared(u)
  BY <1>0, <1>6 DEF Types, Spared
<1>12. SpinLock'
  BY <1>11, WalkEnds
<1>13. LocalsOf(t)'
  <2>1. \A x \in Items(t) : data'[x.data].object # object[t]
    BY <1>2, <1>4, <1>8
  <2> QED
    BY <1>1, <1>2, <1>3, <1>4, <1>6, <1>11, <2>1 DEF LocalsOf
<1>14. ItemsOf(t)'
  <2>1. \A c : Locking(t, c)' = Locking(t, c)
    BY <1>11 DEF Locking
  <2>2. \A x \in Items(t) : x.data \in DOMAIN data' /\ data'[x.data].object = data[x.data].object
    BY <1>4, <1>8
  <2> QED
    BY <1>0, <1>6, <1>11, <2>1, <2>2 DEF ItemsOf
<1>15. Mutexes'
  <2>1. \A u \in Threads, c \in DOMAIN data : Inside(u, c)' = Inside(u, c)
    <3>1. \A c \in DOMAIN data : Inside(t, c)' = Inside(t, c)
      BY <1>4, <1>6, <1>8, <1>11 DEF Inside, Unlocking
    <3> QED
      BY <1>9, <1>10, <1>11, <1>13, <1>14, <3>1, ThreadsTogether
  <2>2. \A u \in Threads : Inside(u, d)' = 0
    <3> TAKE u \in Threads
    <3>1. Unlocking(u, d)' = 0
      <4>1. CASE u = t
        BY <1>11, <4>1 DEF Unlocking
      <4>2. CASE u # t
        <5>1. p'[u] = p[u] /\ p[u] \in 0..Len(data)
          BY <1>0, <1>11, <4>2 DEF Spared, Types
        <5> QED
          BY <1>d, <1>1, <5>1 DEF Unlocking
      <4> QED
        BY <4>1, <4>2
    <3>2. ~\E x \in Items(u)' : x.data = d
      BY <1>6, <1>8
    <3> QED
      BY <3>1, <3>2 DEF Inside
  <2>3. \A c \in DOMAIN data : /\ data'[c].owner = NoThread <=> data'[c].depth = 0
                               /\ \A u \in Threads : /\ data'[c].owner = u <=> Inside(u, c)' > 0
                                                     /\ data'[c].owner = u => data'[c].depth = Inside(u, c)'
    BY <1>4, <2>1 DEF IInv, Mutexes
  <2>4. /\ data'[d].owner = NoThread /\ data'[d].depth = 0
        /\ \A u \in Threads : data'[d].owner # u /\ ~(Inside(u, d)' > 0)
    BY <1>3, <1>4, <2>2, SyncAssumption
  <2> QED
    BY <1>4, <2>3, <2>4 DEF Mutexes
<1>16. ThreadCountExplained'
  <2> SUFFICES ASSUME NEW c \in DOMAIN data \cup {d}
               PROVE  data'[c].threadCount = Cardinality(Users(c)') + stray'[c]
    BY <1>4 DEF ThreadCountExplained
  <2>1. c \in Nat
    BY <1>1
  <2>2. \A u \in Threads \ {t} : u \in Users(c)' <=> u \in Users(c)
    BY <1>0, <1>7, <1>10, <1>11, <2>1, UsersKept
  <2>3. Users(c)' \subseteq Threads /\ Users(c) \subseteq Threads
    BY <1>0, <1>7, <1>10, <2>1, UsersFacts, UsersFactsNext
  <2>4. CASE c = d
    <3>1. t \in Users(c)'
      BY <1>7, <1>10, <1>11, <2>1, <2>4, UsersFactsNext
    <3>2. \A u \in Threads : p[u] # d
      BY <1>d, <1>0, <1>1 DEF Types
    <3>3. Users(c) = {}
      BY <1>0, <1>8, <2>1, <2>3, <2>4, <3>2, UsersFacts
    <3>4. Users(c)' = {t}
      BY <2>2, <2>3, <3>1, <3>3
    <3>5. Cardinality(Users(c)') = 1
      BY <3>4, FS_Singleton
    <3> QED
      BY <1>3, <1>4, <1>5, <2>4, <3>5
  <2>5. CASE c # d
    <3>1. t \in Users(c)' <=> \E x \in Items(t)' : x.data = c
      BY <1>7, <1>10, <1>11, <2>1, <2>5, UsersFactsNext
    <3>2. t \in Users(c) <=> \E x \in Items(t) : x.data = c
      BY <1>0, <2>1, UsersFacts
    <3>3. \A u \in Threads : u \in Users(c)' <=> u \in Users(c)
      BY <1>6, <2>2, <3>1, <3>2
    <3>4. Users(c)' = Users(c)
      BY <2>3, <3>3
    <3> QED
      BY <1>4, <1>5, <2>5, <3>4 DEF IInv, ThreadCountExplained
  <2> QED
    BY <2>4, <2>5
<1> QED
  BY <1>7, <1>9, <1>10, <1>11, <1>12, <1>13, <1>14, <1>15, <1>16, ThreadsTogether DEF IInv

LEMMA NotFoundKeeps ==
  ASSUME IInv, NEW t \in Threads, NotFound(t)
  PROVE  IInv'
BY StrayExitKeeps, ReuseKeeps, NewSyncDataKeeps DEF NotFound, caches

LEMMA SaveKeeps ==
  ASSUME IInv, NEW t \in Threads, Save(t)
  PROVE  IInv'
<1>0. /\ Types /\ Distinct /\ pc[t] = "save" /\ LocalsOf(t) /\ ItemsOf(t)
      /\ pc' = [pc EXCEPT ![t] = "lock"]
      /\ UNCHANGED <<data, lockp, why, object, p, firstUnused, entered, stray>>
  BY DEF IInv, Save
<1>1. PICK d \in Nat \ {Nil} : d = p[t]
  BY <1>0 DEF LocalsOf, Types
<1>2. /\ d \in DOMAIN data /\ data[d].object = object[t] /\ object[t] \in Objects
      /\ \A x \in Items(t) : data[x.data].object # object[t] /\ x.data # d
  BY <1>0, <1>1, DataFacts DEF LocalsOf, Types, Nil
<1>y. PICK y : y = SyncCacheItem(p[t])
  OBVIOUS
<1>3. /\ fast' \in [Threads -> CacheItems \cup {EmptyItem}]
      /\ list' \in [Threads -> Seq(CacheItems)]
      /\ Distinct'
      /\ \A u \in Threads \ {t} : Items(u)' = Items(u)
      /\ Items(t)' = Items(t) \cup {y}
  BY <1>0, <1>1, <1>2, <1>y, SaveItem
<1>4. y.data = d /\ y.lockCount = 1
  BY <1>1, <1>y DEF SyncCacheItem
<1>5. Types'
  BY <1>0, <1>3 DEF Types, Labels
<1>6. /\ pc'[t] = "lock" /\ p'[t] = d /\ object'[t] = object[t] /\ entered'[t] = entered[t]
      /\ \A u \in Threads \ {t} : Spared(u)
  BY <1>0, <1>1, <1>3 DEF Types, Spared
<1>7. SpinLock' /\ OneLockPerObject'
  BY <1>0, <1>6 DEF IInv, SpinLock, Spared, OneLockPerObject
<1>8. LocalsOf(t)'
  BY <1>0, <1>1, <1>2, <1>3, <1>4, <1>6 DEF LocalsOf
<1>9. entered[t][object[t]] = 0
  <2>1. entered[t][object[t]] \in Nat
    BY <1>0, <1>2 DEF Types
  <2>2. ~(entered[t][object[t]] > 0)
    BY <1>0, <1>2 DEF ItemsOf
  <2> QED
    BY <2>1, <2>2
<1>10. ItemsOf(t)'
  <2>1. \A c : Locking(t, c) = 0 /\ Locking(t, c)' = IF c = d THEN 1 ELSE 0
    BY <1>0, <1>6 DEF Locking
  <2>2. \A x \in Items(t) : /\ x.data \in DOMAIN data
                            /\ x.lockCount = entered[t][data[x.data].object] + Locking(t, x.data)'
    BY <1>0, <1>2, <2>1 DEF ItemsOf
  <2>3. y.lockCount = entered[t][data[y.data].object] + Locking(t, y.data)'
    <3>1. entered[t][data[y.data].object] = 0 /\ Locking(t, y.data)' = 1
      BY <1>2, <1>4, <1>9, <2>1
    <3> QED
      BY <1>4, <3>1
  <2>4. \A o \in Objects : entered[t][o] > 0 => \E x \in Items(t) : data[x.data].object = o
    BY <1>0 DEF ItemsOf
  <2>5. \A x \in Items(t)' : /\ x.data \in DOMAIN data
                             /\ x.lockCount = entered[t][data[x.data].object] + Locking(t, x.data)'
    BY <1>2, <1>3, <1>4, <2>2, <2>3
  <2>6. \A o \in Objects : entered[t][o] > 0 => \E x \in Items(t)' : data[x.data].object = o
    BY <1>3, <2>4
  <2> QED
    BY <1>0, <1>6, <2>5, <2>6 DEF ItemsOf
<1>11. \A u \in Threads : DataSpares(u)
  BY <1>0 DEF DataSpares
<1>12. Mutexes'
  <2>1. \A c \in DOMAIN data : Inside(t, c)' = Inside(t, c)
    <3> TAKE c \in DOMAIN data
    <3>1. Unlocking(t, c) = 0 /\ Unlocking(t, c)' = 0
      BY <1>0, <1>6 DEF Unlocking
    <3>2. CASE c = d
      <4>1. entered'[t][data'[c].object] = 0
        BY <1>0, <1>2, <1>9, <3>2
      <4>2. ~\E x \in Items(t) : x.data = c
        BY <1>2, <3>2
      <4> QED
        BY <3>1, <4>1, <4>2 DEF Inside
    <3>3. CASE c # d
      <4>1. (\E x \in Items(t)' : x.data = c) <=> (\E x \in Items(t) : x.data = c)
        BY <1>3, <1>4, <3>3
      <4> QED
        BY <1>0, <3>1, <4>1 DEF Inside
    <3> QED
      BY <3>2, <3>3
  <2> QED
    BY <1>0, <1>5, <1>6, <1>8, <1>10, <1>11, <2>1, ThreadsTogether, MutexesKept
<1>13. ThreadCountExplained'
  <2>1. \A c \in Nat : Users(c)' = Users(c)
    <3> TAKE c \in Nat
    <3>1. \A u \in Threads \ {t} : u \in Users(c)' <=> u \in Users(c)
      BY <1>0, <1>3, <1>5, <1>6, UsersKept
    <3>2. t \in Users(c)' <=> \E x \in Items(t)' : x.data = c
      BY <1>3, <1>5, <1>6, UsersFactsNext
    <3>3. t \in Users(c) <=> (\E x \in Items(t) : x.data = c) \/ c = d
      BY <1>0, <1>1, UsersFacts
    <3>4. \A u \in Threads : u \in Users(c)' <=> u \in Users(c)
      BY <1>3, <1>4, <3>1, <3>2, <3>3
    <3>5. Users(c)' \subseteq Threads /\ Users(c) \subseteq Threads
      BY <1>0, <1>3, <1>5, UsersFacts, UsersFactsNext
    <3> QED
      BY <3>4, <3>5
  <2> QED
    BY <1>0, <2>1, DataFacts DEF IInv, ThreadCountExplained
<1> QED
  BY <1>3, <1>5, <1>6, <1>7, <1>8, <1>10, <1>11, <1>12, <1>13, ThreadsTogether DEF IInv

-----------------------------------------------------------------------------
(* The mutexes                                                             *)

(* The count of a thread's nesting follows the mutex that it takes.        *)
LEMMA MutexLockKeeps ==
  ASSUME IInv, NEW t \in Threads, MutexLock(t)
  PROVE  IInv'
<1>0. /\ Types /\ Distinct /\ pc[t] = "lock" /\ LocalsOf(t) /\ ItemsOf(t)
      /\ data[p[t]].owner \in {t, NoThread}
      /\ data' = [data EXCEPT ![p[t]].owner = t, ![p[t]].depth = @ + 1]
      /\ entered' = [entered EXCEPT ![t][object[t]] = @ + 1]
      /\ pc' = [pc EXCEPT ![t] = "client"] /\ why' = [why EXCEPT ![t] = "ACQUIRE"]
      /\ object' = [object EXCEPT ![t] = Nil] /\ p' = [p EXCEPT ![t] = Nil]
      /\ firstUnused' = [firstUnused EXCEPT ![t] = Nil]
      /\ UNCHANGED <<lockp, fast, list, stray>>
  BY DEF IInv, MutexLock, Return, caches
<1>1. PICK d \in Nat \ {Nil} : d = p[t]
  BY <1>0 DEF LocalsOf, Types
<1>o. PICK o \in Objects : o = object[t]
  BY <1>0 DEF LocalsOf
<1>2. PICK x \in Items(t) : x.data = d
  BY <1>0, <1>1 DEF LocalsOf
<1> DEFINE e == [data[d] EXCEPT !.owner = t, !.depth = data[d].depth + 1]
<1>3. /\ d \in DOMAIN data /\ data[d].object = o /\ data[d] \in SyncDatas
      /\ data[d].owner \in {t, NoThread}
  BY <1>0, <1>1, <1>o, DataFacts DEF LocalsOf, Types, Nil
<1>4. data' = [data EXCEPT ![d] = e]
  BY <1>0, <1>1, <1>3 DEF Types
<1>5. /\ e \in SyncDatas /\ e.object = o /\ e.owner = t /\ e.depth = data[d].depth + 1
      /\ e.threadCount = data[d].threadCount
  <2>1. data[d].depth + 1 \in Nat
    BY <1>3 DEF SyncDatas
  <2>2. PICK r \in SyncDatas, n \in Nat : r = data[d] /\ n = data[d].depth + 1
    BY <1>3, <2>1
  <2>3. e = [r EXCEPT !.owner = t, !.depth = n]
    BY <2>2
  <2>4. /\ e \in SyncDatas /\ e.owner = t /\ e.depth = n
        /\ e.object = r.object /\ e.threadCount = r.threadCount
    <3> HIDE DEF e
    <3> QED
      BY <2>3 DEF SyncDatas
  <2> QED
    BY <1>3, <2>2, <2>4
<1> HIDE DEF e
<1>6. DOMAIN data' = DOMAIN data /\ \A c \in DOMAIN data : data'[c].object = data[c].object
  BY <1>0, <1>3, <1>4, <1>5, DataExcept
<1>7. /\ data'[d].owner = t /\ data'[d].depth = data[d].depth + 1
      /\ \A c \in DOMAIN data : c # d => data'[c] = data[c]
      /\ data' \in Seq(SyncDatas) /\ Len(data') = Len(data)
  BY <1>0, <1>3, <1>4, <1>5, DataExcept
<1>8. \A c \in DOMAIN data : data'[c].threadCount = data[c].threadCount
  BY <1>0, <1>3, <1>4, <1>5, DataExcept
<1>9. \A u \in Threads : Items(u)' = Items(u)
  BY <1>0 DEF Items
<1>10. /\ entered' \in [Threads -> [Objects -> Nat]]
       /\ entered[t][o] \in Nat /\ entered'[t][o] = entered[t][o] + 1
       /\ \A q \in Objects : q # o => entered'[t][q] = entered[t][q]
       /\ \A u \in Threads \ {t} : entered'[u] = entered[u]
  BY <1>0, <1>o DEF Types
<1>11. Types'
  <2>1. p' \in [Threads -> 0..Len(data)] /\ firstUnused' \in [Threads -> 0..Len(data)]
    BY <1>0, DataFacts DEF Types, Nil
  <2>2. /\ pc' \in [Threads -> Labels] /\ object' \in [Threads -> Objects \cup {Nil}]
        /\ why' \in [Threads -> {"ACQUIRE", "RELEASE"}]
    BY <1>0 DEF Types, Labels
  <2> QED
    BY <1>0, <1>7, <1>10, <2>1, <2>2 DEF Types
<1>12. pc'[t] = "client" /\ \A u \in Threads \ {t} : Spared(u)
  BY <1>0, <1>9, <1>10 DEF Types, Spared
<1>13. Distinct' /\ OneLockPerObject'
  BY <1>0, <1>6 DEF IInv, Distinct, OneLockPerObject
<1>14. SpinLock'
  BY <1>0, <1>12 DEF IInv, SpinLock, Spared
<1>15. LocalsOf(t)'
  BY <1>12 DEF LocalsOf
<1>16. \A z \in Items(t) : z # x => data[z.data].object # o /\ z.data # d
  BY <1>2, <1>3, OtherItems
<1>17. ItemsOf(t)'
  <2>1. \A c : Locking(t, c)' = 0 /\ Locking(t, c) = IF c = d THEN 1 ELSE 0
    BY <1>0, <1>1, <1>12 DEF Locking
  <2>2. \A z \in Items(t) : z.data \in DOMAIN data /\ data[z.data].object \in Objects
    BY <1>0, DataFacts DEF ItemsOf, SyncDatas
  <2>3. \A z \in Items(t) : z.lockCount = entered'[t][data'[z.data].object] + 0
    <3> TAKE z \in Items(t)
    <3>1. z.lockCount = entered[t][data[z.data].object] + Locking(t, z.data)
      BY <1>0 DEF ItemsOf
    <3>2. CASE z = x
      <4>1. z.lockCount = entered[t][o] + 1
        BY <1>2, <1>3, <2>1, <3>1, <3>2
      <4>2. data'[z.data].object = o
        BY <1>2, <1>3, <1>6, <3>2
      <4> QED
        BY <1>10, <4>1, <4>2
    <3>3. CASE z # x
      <4>1. data'[z.data].object = data[z.data].object /\ data[z.data].object # o
        BY <1>6, <1>16, <2>2, <3>3
      <4>2. Locking(t, z.data) = 0
        BY <1>16, <2>1, <3>3
      <4> QED
        BY <1>10, <2>2, <3>1, <4>1, <4>2
    <3> QED
      BY <3>2, <3>3
  <2>4. \A q \in Objects : entered'[t][q] > 0 => \E z \in Items(t) : data'[z.data].object = q
    <3> TAKE q \in Objects
    <3>1. CASE q = o
      BY <1>2, <1>3, <1>6, <3>1
    <3>2. CASE q # o
      BY <1>0, <1>6, <1>10, <2>2, <3>2 DEF ItemsOf
    <3> QED
      BY <3>1, <3>2
  <2> QED
    BY <1>6, <1>9, <2>1, <2>2, <2>3, <2>4 DEF ItemsOf
<1>18. \A u \in Threads : DataSpares(u)
  BY <1>3, <1>4, <1>5, SmallChangeSpares
<1>19. /\ \A u \in Threads : LocalsOf(u)' /\ ItemsOf(u)'
       /\ \A u \in Threads \ {t}, c \in DOMAIN data : Inside(u, c)' = Inside(u, c)
  BY <1>11, <1>12, <1>15, <1>17, <1>18, ThreadsTogether
<1>20. \A c \in DOMAIN data : c # d => Inside(t, c)' = Inside(t, c)
  <2> SUFFICES ASSUME NEW c \in DOMAIN data, c # d
               PROVE  Inside(t, c)' = Inside(t, c)
    OBVIOUS
  <2>1. Unlocking(t, c)' = 0 /\ Unlocking(t, c) = 0
    BY <1>0, <1>12 DEF Unlocking
  <2>2. data[c].object \in Objects /\ data[c].object # o
    BY <1>0, <1>3, DataFacts DEF IInv, OneLockPerObject, SyncDatas
  <2>3. entered'[t][data'[c].object] = entered[t][data[c].object]
    BY <1>6, <1>10, <2>2
  <2> QED
    BY <1>9, <2>1, <2>3 DEF Inside
<1>21. Inside(t, d) = entered[t][o] /\ Inside(t, d)' = entered[t][o] + 1
  <2>1. Unlocking(t, d)' = 0 /\ Unlocking(t, d) = 0
    BY <1>0, <1>12 DEF Unlocking
  <2>2. \E z \in Items(t) : z.data = d
    BY <1>2
  <2>3. data'[d].object = o
    BY <1>3, <1>6
  <2> QED
    BY <1>3, <1>9, <1>10, <2>1, <2>2, <2>3 DEF Inside
<1>22. Mutexes'
  <2>1. /\ data[d].owner = NoThread <=> data[d].depth = 0
        /\ \A u \in Threads : /\ data[d].owner = u <=> Inside(u, d) > 0
                              /\ data[d].owner = u => data[d].depth = Inside(u, d)
    BY <1>3 DEF IInv, Mutexes
  <2>2. data[d].depth = entered[t][o]
    BY <1>3, <1>10, <1>21, <2>1, SyncAssumption
  <2>3. /\ data'[d].owner = t /\ data'[d].depth = entered[t][o] + 1
        /\ data'[d].depth # 0 /\ t # NoThread
    BY <1>7, <1>10, <2>2, SyncAssumption
  <2>4. \A u \in Threads \ {t} : ~(Inside(u, d)' > 0)
    BY <1>3, <1>19, <2>1, SyncAssumption
  <2>5. \A u \in Threads : /\ data'[d].owner = u <=> Inside(u, d)' > 0
                           /\ data'[d].owner = u => data'[d].depth = Inside(u, d)'
    BY <1>10, <1>21, <2>3, <2>4
  <2>6. \A c \in DOMAIN data : c # d =>
          /\ data'[c].owner = NoThread <=> data'[c].depth = 0
          /\ \A u \in Threads : /\ data'[c].owner = u <=> Inside(u, c)' > 0
                                /\ data'[c].owner = u => data'[c].depth = Inside(u, c)'
    BY <1>7, <1>19, <1>20 DEF IInv, Mutexes
  <2> QED
    BY <1>6, <2>3, <2>5, <2>6 DEF Mutexes
<1>23. ThreadCountExplained'
  <2>1. \A u \in Threads : \A c \in Nat :
          (pc'[u] = "save" /\ p'[u] = c) <=> (pc[u] = "save" /\ p[u] = c)
    BY <1>0, <1>12 DEF Spared
  <2>2. \A c \in Nat : Users(c)' = Users(c)
    BY <1>0, <1>9, <1>11, <1>13, <2>1, SameUsers
  <2>3. \A c \in DOMAIN data : c \in Nat /\ data'[c].threadCount = Cardinality(Users(c)) + stray[c]
    BY <1>0, <1>8, DataFacts DEF IInv, ThreadCountExplained
  <2> QED
    BY <1>0, <1>6, <2>2, <2>3 DEF ThreadCountExplained
<1> QED
  BY <1>11, <1>13, <1>14, <1>19, <1>22, <1>23 DEF IInv

(* tryUnlock always finds the mutex owned by the thread that calls it.     *)
LEMMA MutexUnlockKeeps ==
  ASSUME IInv, NEW t \in Threads, MutexUnlock(t)
  PROVE  IInv'
<1>0. /\ Types /\ Distinct /\ pc[t] = "unlock" /\ LocalsOf(t) /\ ItemsOf(t)
      /\ pc' = [pc EXCEPT ![t] = "client"] /\ why' = [why EXCEPT ![t] = "ACQUIRE"]
      /\ object' = [object EXCEPT ![t] = Nil] /\ p' = [p EXCEPT ![t] = Nil]
      /\ firstUnused' = [firstUnused EXCEPT ![t] = Nil]
      /\ UNCHANGED <<lockp, fast, list, entered, stray>>
  BY DEF IInv, MutexUnlock, Return, caches
<1>1. PICK d \in Nat \ {Nil} : d = p[t]
  BY <1>0 DEF LocalsOf, Types
<1>2. d \in DOMAIN data /\ data[d] \in SyncDatas
  BY <1>0, <1>1, DataFacts DEF Types, Nil
<1>3. /\ data[d].owner = NoThread <=> data[d].depth = 0
      /\ \A u \in Threads : /\ data[d].owner = u <=> Inside(u, d) > 0
                            /\ data[d].owner = u => data[d].depth = Inside(u, d)
  BY <1>2 DEF IInv, Mutexes
<1> DEFINE n == IF \E x \in Items(t) : x.data = d THEN entered[t][data[d].object] ELSE 0
<1>4. n \in Nat /\ Inside(t, d) = n + 1
  <2>1. entered[t][data[d].object] \in Nat
    BY <1>0, <1>2 DEF Types, SyncDatas
  <2>2. Unlocking(t, d) = 1
    BY <1>0, <1>1 DEF Unlocking
  <2> QED
    BY <2>1, <2>2 DEF Inside
<1>5. data[d].owner = t /\ data[d].depth = n + 1
  BY <1>3, <1>4
<1> DEFINE e == [data[d] EXCEPT !.depth = data[d].depth - 1,
                            !.owner = IF data[d].depth = 1 THEN NoThread ELSE t]
<1>6. data' = [data EXCEPT ![d] = e]
  BY <1>0, <1>1, <1>2, <1>5 DEF MutexUnlock, Types
<1>7. /\ e \in SyncDatas /\ e.object = data[d].object /\ e.threadCount = data[d].threadCount
      /\ e.depth = n /\ e.owner = IF n = 0 THEN NoThread ELSE t
  <2>1. data[d].depth - 1 = n /\ (data[d].depth = 1 <=> n = 0)
    BY <1>2, <1>4, <1>5 DEF SyncDatas
  <2>2. PICK o \in Threads \cup {NoThread} : o = IF data[d].depth = 1 THEN NoThread ELSE t
    OBVIOUS
  <2>3. PICK r \in SyncDatas, k \in Nat : r = data[d] /\ k = n
    BY <1>2, <1>4
  <2>4. e = [r EXCEPT !.depth = k, !.owner = o]
    BY <2>1, <2>2, <2>3
  <2>5. /\ e \in SyncDatas /\ e.owner = o /\ e.depth = k
        /\ e.object = r.object /\ e.threadCount = r.threadCount
    <3> HIDE DEF e
    <3> QED
      BY <2>4 DEF SyncDatas
  <2> HIDE DEF e, n
  <2> QED
    BY <2>1, <2>2, <2>3, <2>5
<1> HIDE DEF e
<1>8. DOMAIN data' = DOMAIN data /\ \A c \in DOMAIN data : data'[c].object = data[c].object
  BY <1>0, <1>2, <1>6, <1>7, DataExcept
<1>9. /\ data'[d].owner = (IF n = 0 THEN NoThread ELSE t) /\ data'[d].depth = n
      /\ \A c \in DOMAIN data : c # d => data'[c] = data[c]
      /\ data' \in Seq(SyncDatas) /\ Len(data') = Len(data)
  BY <1>0, <1>2, <1>6, <1>7, DataExcept
<1>10. \A c \in DOMAIN data : data'[c].threadCount = data[c].threadCount
  BY <1>0, <1>2, <1>6, <1>7, DataExcept
<1>11. \A u \in Threads : Items(u)' = Items(u)
  BY <1>0 DEF Items
<1>12. Types'
  <2>1. p' \in [Threads -> 0..Len(data)] /\ firstUnused' \in [Threads -> 0..Len(data)]
    BY <1>0, DataFacts DEF Types, Nil
  <2>2. /\ pc' \in [Threads -> Labels] /\ object' \in [Threads -> Objects \cup {Nil}]
        /\ why' \in [Threads -> {"ACQUIRE", "RELEASE"}]
    BY <1>0 DEF Types, Labels
  <2> QED
    BY <1>0, <1>9, <2>1, <2>2 DEF Types
<1>13. pc'[t] = "client" /\ entered'[t] = entered[t] /\ \A u \in Threads \ {t} : Spared(u)
  BY <1>0, <1>11 DEF Types, Spared
<1>14. Distinct' /\ OneLockPerObject'
  BY <1>0, <1>8 DEF IInv, Distinct, OneLockPerObject
<1>15. SpinLock'
  BY <1>0, <1>13 DEF IInv, SpinLock, Spared
<1>16. LocalsOf(t)'
  BY <1>13 DEF LocalsOf
<1>17. ItemsOf(t)'
  <2>1. \A c : Locking(t, c)' = Locking(t, c)
    BY <1>0, <1>13 DEF Locking
  <2> QED
    BY <1>0, <1>8, <1>11, <1>13, <2>1 DEF ItemsOf
<1>18. \A u \in Threads : DataSpares(u)
  BY <1>2, <1>6, <1>7, SmallChangeSpares
<1>19. /\ \A u \in Threads : LocalsOf(u)' /\ ItemsOf(u)'
       /\ \A u \in Threads \ {t}, c \in DOMAIN data : Inside(u, c)' = Inside(u, c)
  BY <1>12, <1>13, <1>16, <1>17, <1>18, ThreadsTogether
<1>20. \A c \in DOMAIN data : c # d => Inside(t, c)' = Inside(t, c)
  <2> SUFFICES ASSUME NEW c \in DOMAIN data, c # d
               PROVE  Inside(t, c)' = Inside(t, c)
    OBVIOUS
  <2>1. Unlocking(t, c)' = 0 /\ Unlocking(t, c) = 0
    BY <1>1, <1>13 DEF Unlocking
  <2> QED
    BY <1>8, <1>11, <1>13, <2>1 DEF Inside
<1>21. Inside(t, d)' = n
  <2>1. Unlocking(t, d)' = 0
    BY <1>13 DEF Unlocking
  <2>2. Inside(t, d)' = n + 0
    BY <1>2, <1>8, <1>11, <1>13, <2>1 DEF Inside
  <2> QED
    BY <1>4, <2>2
<1>22. Mutexes'
  <2> HIDE DEF n
  <2>1. \A u \in Threads \ {t} : ~(Inside(u, d)' > 0)
    BY <1>2, <1>3, <1>5, <1>19
  <2>2. /\ data'[d].owner = NoThread <=> data'[d].depth = 0
        /\ \A u \in Threads : /\ data'[d].owner = u <=> Inside(u, d)' > 0
                              /\ data'[d].owner = u => data'[d].depth = Inside(u, d)'
    BY <1>4, <1>9, <1>21, <2>1, SyncAssumption
  <2>3. \A c \in DOMAIN data : c # d =>
          /\ data'[c].owner = NoThread <=> data'[c].depth = 0
          /\ \A u \in Threads : /\ data'[c].owner = u <=> Inside(u, c)' > 0
                                /\ data'[c].owner = u => data'[c].depth = Inside(u, c)'
    BY <1>9, <1>19, <1>20 DEF IInv, Mutexes
  <2> QED
    BY <1>8, <2>2, <2>3 DEF Mutexes
<1>23. ThreadCountExplained'
  <2>1. \A u \in Threads : \A c \in Nat :
          (pc'[u] = "save" /\ p'[u] = c) <=> (pc[u] = "save" /\ p[u] = c)
    BY <1>0, <1>13 DEF Spared
  <2>2. \A c \in Nat : Users(c)' = Users(c)
    BY <1>0, <1>11, <1>12, <1>14, <2>1, SameUsers
  <2> QED
    BY <1>0, <1>8, <1>10, <2>2, DataFacts DEF IInv, ThreadCountExplained
<1> QED
  BY <1>12, <1>14, <1>15, <1>19, <1>22, <1>23 DEF IInv

-----------------------------------------------------------------------------
(* The theorems                                                            *)

LEMMA InitIInv == Init => IInv
<1> SUFFICES ASSUME Init PROVE IInv
  OBVIOUS
<1>1. DOMAIN data = {} /\ Len(data) = 0 /\ Len(stray) = 0 /\ data \in Seq(SyncDatas) /\ stray \in Seq(Nat)
  BY EmptySeq DEF Init
<1>2. Types
  <2>1. EmptyItem \in CacheItems \cup {EmptyItem} /\ <<>> \in Seq(CacheItems)
    BY EmptySeq
  <2> QED
    BY <1>1, <2>1 DEF Init, Types, Labels, Nil
<1>3. \A t \in Threads : /\ DOMAIN list[t] = {} /\ fast[t] = EmptyItem
                         /\ pc[t] = "client" /\ \A o \in Objects : entered[t][o] = 0
  BY DEF Init
<1>4. \A t \in Threads : Items(t) = {}
  BY <1>3 DEF Items
<1>5. Distinct /\ SpinLock
  BY <1>3, SyncAssumption DEF Init, Distinct, SpinLock
<1>6. \A t \in Threads : LocalsOf(t) /\ ItemsOf(t)
  BY <1>3, <1>4 DEF LocalsOf, ItemsOf
<1>7. Mutexes /\ OneLockPerObject /\ ThreadCountExplained
  BY <1>1 DEF Mutexes, OneLockPerObject, ThreadCountExplained
<1> QED
  BY <1>2, <1>5, <1>6, <1>7 DEF IInv

(* An exit of what a thread is not inside changes nothing by itself.       *)
LEMMA MissedExit ==
  ASSUME IInv, NEW t \in Threads, NEW o \in Objects, SyncExit(t, o), Miss(t, o)
  PROVE  UNCHANGED entered
<1>1. entered \in [Threads -> [Objects -> Nat]] /\ entered[t][o] = 0
  BY MissFacts DEF IInv, Types
<1>2. entered' = [entered EXCEPT ![t] = [entered[t] EXCEPT ![o] = 0]]
  BY <1>1 DEF SyncExit
<1>3. [entered[t] EXCEPT ![o] = 0] = entered[t]
  BY <1>1
<1> QED
  BY <1>1, <1>2, <1>3

LEMMA CallKeeps ==
  ASSUME IInv, NEW t \in Threads, NEW o \in Objects, SyncEnter(t, o) \/ SyncExit(t, o)
  PROVE  IInv'
<1>1. CASE SyncEnter(t, o)
  <2>1. CASE AcquireCached(t, o)
    BY <1>1, <2>1, EnterHitKeeps
  <2>2. CASE Miss(t, o) /\ GoList(t)
    BY <1>1, <2>2, MissKeeps DEF SyncEnter
  <2> QED
    BY <1>1, <2>1, <2>2 DEF SyncEnter
<1>2. CASE SyncExit(t, o)
  <2>1. CASE ReleaseCached(t, o)
    BY <1>2, <2>1, ExitHitKeeps
  <2>2. CASE Miss(t, o) /\ GoList(t)
    <3>1. UNCHANGED entered
      BY <1>2, <2>2, MissedExit
    <3> QED
      BY <1>2, <2>2, <3>1, MissKeeps DEF SyncExit
  <2> QED
    BY <1>2, <2>1, <2>2 DEF SyncExit
<1> QED
  BY <1>1, <1>2

LEMMA NextIInv == IInv /\ [Next]_vars => IInv'
<1> SUFFICES ASSUME IInv, [Next]_vars PROVE IInv'
  OBVIOUS
<1>1. ASSUME NEW t \in Threads, NEW o \in Objects, SyncEnter(t, o) \/ SyncExit(t, o)
      PROVE  IInv'
  BY <1>1, CallKeeps
<1>2. ASSUME NEW t \in Threads, LockList(t)
      PROVE  IInv'
  BY <1>2, LockListKeeps
<1>3. ASSUME NEW t \in Threads, WalkOn(t)
      PROVE  IInv'
  BY <1>3, WalkOnKeeps
<1>4. ASSUME NEW t \in Threads, Found(t)
      PROVE  IInv'
  BY <1>4, FoundKeeps
<1>5. ASSUME NEW t \in Threads, NotFound(t)
      PROVE  IInv'
  BY <1>5, NotFoundKeeps
<1>6. ASSUME NEW t \in Threads, Save(t)
      PROVE  IInv'
  BY <1>6, SaveKeeps
<1>7. ASSUME NEW t \in Threads, MutexLock(t)
      PROVE  IInv'
  BY <1>7, MutexLockKeeps
<1>8. ASSUME NEW t \in Threads, MutexUnlock(t)
      PROVE  IInv'
  BY <1>8, MutexUnlockKeeps
<1>9. CASE UNCHANGED vars
  <2>1. \A t \in Threads : Items(t)' = Items(t)
    BY <1>9 DEF vars, Items
  <2>2. Types' /\ Distinct' /\ SpinLock' /\ OneLockPerObject'
    BY <1>9 DEF vars, IInv, Types, Distinct, SpinLock, OneLockPerObject
  <2>3. \A t \in Threads : Spared(t) /\ DataSpares(t)
    BY <1>9, <2>1 DEF vars, Spared, DataSpares
  <2>4. \A t \in Threads : LocalsOf(t)' /\ ItemsOf(t)' /\ \A d \in DOMAIN data : Inside(t, d)' = Inside(t, d)
    BY <2>3, SparedKeeps DEF IInv
  <2>5. Mutexes'
    BY <1>9, <2>4, MutexesKept DEF vars
  <2>6. \A d : Users(d)' = Users(d)
    BY <1>9 DEF vars, Users, Cached
  <2>7. ThreadCountExplained'
    BY <1>9, <2>6 DEF vars, IInv, ThreadCountExplained
  <2> QED
    BY <2>2, <2>4, <2>5, <2>7 DEF IInv
<1> QED
  BY <1>1, <1>2, <1>3, <1>4, <1>5, <1>6, <1>7, <1>8, <1>9 DEF Next

LEMMA SpecIInv == Spec => []IInv
BY InitIInv, NextIInv, PTL DEF Spec

(* Caches hold existing SyncDatas.                                         *)
LEMMA IInvTypeOK == IInv => TypeOK
<1> SUFFICES ASSUME IInv PROVE TypeOK
  OBVIOUS
<1>1. Types /\ Distinct
  BY DEF IInv
<1>2. data \in Seq([object : Objects, threadCount : Nat,
                    owner : Threads \cup {NoThread}, depth : Nat])
  BY <1>1 DEF Types, SyncDatas
<1>3. DOMAIN data = 1..Len(data) /\ Len(data) \in Nat /\ stray \in [DOMAIN data -> Nat]
  BY <1>1, DataFacts, LenProperties DEF Types
<1>4. ASSUME NEW t \in Threads
      PROVE  /\ Cached(t) \subseteq DOMAIN data
             /\ fast[t].lockCount \in Nat
             /\ \A i \in DOMAIN list[t] : list[t][i].lockCount \in Nat
             /\ pc[t] \in {"client", "list", "walk", "save", "lock", "unlock"}
             /\ why[t] \in {"ACQUIRE", "RELEASE"}
             /\ object[t] \in Objects \cup {Nil}
             /\ {p[t], firstUnused[t]} \subseteq DOMAIN data \cup {Nil}
             /\ \A o \in Objects : entered[t][o] \in Nat
  <2>1. Cached(t) \subseteq DOMAIN data
    BY <1>1, ItemFacts DEF IInv, ItemsOf
  <2>2. \A i \in DOMAIN list[t] : list[t][i] \in CacheItems
    BY <1>1, ElementOfSeq, LenProperties DEF Types
  <2>3. fast[t] \in CacheItems \/ fast[t] = EmptyItem
    BY <1>1 DEF Types
  <2>4. fast[t].lockCount \in Nat
    BY <2>3 DEF CacheItems, EmptyItem
  <2>5. \A i \in DOMAIN list[t] : list[t][i].lockCount \in Nat
    BY <2>2 DEF CacheItems
  <2>6. {p[t], firstUnused[t]} \subseteq DOMAIN data \cup {Nil}
    BY <1>1, <1>3 DEF Types, Nil
  <2>7. /\ pc[t] \in {"client", "list", "walk", "save", "lock", "unlock"}
        /\ why[t] \in {"ACQUIRE", "RELEASE"}
        /\ object[t] \in Objects \cup {Nil}
        /\ \A o \in Objects : entered[t][o] \in Nat
    BY <1>1 DEF Types, Labels
  <2> QED
    BY <2>1, <2>4, <2>5, <2>6, <2>7
<1>5. lockp \in Threads \cup {NoThread}
  BY <1>1 DEF Types
<1> QED
  BY <1>2, <1>3, <1>4, <1>5 DEF TypeOK

LEMMA IInvNotBuggy == IInv => NotBuggy
<1> SUFFICES ASSUME IInv, NEW t \in Threads
             PROVE  /\ fast[t].data # Nil => fast[t].lockCount > 0 /\ data[fast[t].data].threadCount > 0
                    /\ \A i \in DOMAIN list[t] : /\ list[t][i].lockCount > 0
                                                 /\ data[list[t][i].data].threadCount > 0
                    /\ pc[t] = "save" => data[p[t]].object = object[t]
  BY DEF NotBuggy
<1>1. Types /\ Distinct /\ LocalsOf(t)
  BY DEF IInv
<1>2. fast[t].data # Nil => fast[t] \in Items(t)
  BY DEF Items, EmptyItem
<1>3. \A i \in DOMAIN list[t] : list[t][i] \in Items(t)
  BY DEF Items
<1>4. \A x \in Items(t) : x.lockCount \in Nat \ {0} /\ data[x.data].threadCount \in Nat \ {0}
  BY UsesItems DEF CacheItems
<1>5. \A x \in Items(t) : x.lockCount > 0 /\ data[x.data].threadCount > 0
  BY <1>4
<1> QED
  BY <1>1, <1>2, <1>3, <1>5 DEF LocalsOf

LEMMA IInvCountsAgree == IInv => CountsAgree
<1> SUFFICES ASSUME IInv, NEW t \in Threads, pc[t] = "client", NEW d \in DOMAIN data,
                    NEW n, n = entered[t][data[d].object]
             PROVE  /\ data[d].owner = t <=> n > 0
                    /\ data[d].owner = t => data[d].depth = n
                    /\ fast[t].data = d => fast[t].lockCount = n
                    /\ \A i \in DOMAIN list[t] : list[t][i].data = d => list[t][i].lockCount = n
                    /\ n > 0 => d \in Cached(t)
  BY DEF CountsAgree
<1>1. Types /\ Distinct /\ ItemsOf(t) /\ OneLockPerObject
  BY DEF IInv
<1>2. d \in Nat \ {Nil} /\ data[d].object \in Objects /\ n \in Nat
  <2>1. d \in Nat \ {Nil} /\ data[d] \in SyncDatas
    BY <1>1, DataFacts DEF Nil
  <2>2. data[d].object \in Objects
    BY <2>1 DEF SyncDatas
  <2> QED
    BY <1>1, <2>1, <2>2 DEF Types
<1>3. \A c : Locking(t, c) = 0 /\ Unlocking(t, c) = 0
  BY DEF Locking, Unlocking
<1>4. ASSUME NEW x \in Items(t), x.data = d
      PROVE  x.lockCount = n
  <2>1. x.lockCount = n + 0
    BY <1>1, <1>3, <1>4 DEF ItemsOf
  <2> QED
    BY <1>2, <2>1
<1>5. fast[t].data = d => fast[t] \in Items(t)
  BY <1>2 DEF Items, EmptyItem
<1>6. \A i \in DOMAIN list[t] : list[t][i] \in Items(t)
  BY DEF Items
<1>7. n > 0 => \E x \in Items(t) : x.data = d
  BY <1>1, <1>2 DEF ItemsOf, OneLockPerObject
<1>8. Inside(t, d) = n
  <2>1. CASE \E x \in Items(t) : x.data = d
    <3>1. Inside(t, d) = n + 0
      BY <1>3, <2>1 DEF Inside
    <3> QED
      BY <1>2, <3>1
  <2>2. CASE ~\E x \in Items(t) : x.data = d
    <3>1. Inside(t, d) = 0 + 0
      BY <1>3, <2>2 DEF Inside
    <3>2. n = 0
      BY <1>2, <1>7, <2>2
    <3> QED
      BY <3>1, <3>2
  <2> QED
    BY <2>1, <2>2
<1>9. d \in Cached(t) <=> \E x \in Items(t) : x.data = d
  BY <1>1, ItemFacts
<1>10. /\ data[d].owner = t <=> n > 0
       /\ data[d].owner = t => data[d].depth = n
  BY <1>8 DEF IInv, Mutexes
<1> QED
  BY <1>4, <1>5, <1>6, <1>7, <1>9, <1>10

(* The counts of caches, mutexes and SyncDatas agree with each other and   *)
(* with what the clients have entered: no SyncData in use is given to      *)
(* another object, an exit of what was entered succeeds, and none of the   *)
(* errors of id2data and of the caches is reached.                         *)
THEOREM CountsAreSound == Spec => []CountsSound
<1>1. IInv => CountsSound
  BY IInvTypeOK, IInvNotBuggy, IInvCountsAgree DEF IInv, CountsSound
<1> QED
  BY <1>1, SpecIInv, PTL

(* However objects come and go, an object has one lock and one thread is   *)
(* inside: @synchronized excludes.                                         *)
THEOREM SynchronizedExcludes == Spec => []Exclusion
<1>1. IInv => Exclusion
  <2> SUFFICES ASSUME IInv, NEW t \in Threads, NEW u \in Threads, NEW o \in Objects,
                      entered[t][o] > 0, entered[u][o] > 0
               PROVE  t = u
    BY DEF IInv, Exclusion, MutualExclusion
  <2>1. PICK x \in Items(t), y \in Items(u) :
          /\ data[x.data].object = o /\ x.data \in DOMAIN data
          /\ data[y.data].object = o /\ y.data \in DOMAIN data
    BY DEF IInv, ItemsOf
  <2>2. PICK d \in DOMAIN data : d = x.data /\ d = y.data /\ data[d].object = o
    BY <2>1 DEF IInv, OneLockPerObject
  <2>3. ASSUME NEW v \in Threads, NEW z \in Items(v), z.data = d, entered[v][o] > 0
        PROVE  data[d].owner = v
    <3>1. entered[v][o] \in Nat /\ Unlocking(v, d) \in {0, 1}
      BY DEF IInv, Types, Unlocking
    <3>2. Inside(v, d) = entered[v][o] + Unlocking(v, d)
      BY <2>2, <2>3 DEF Inside
    <3>3. Inside(v, d) > 0
      BY <2>3, <3>1, <3>2
    <3> QED
      BY <2>2, <3>3 DEF IInv, Mutexes
  <2> QED
    BY <2>1, <2>2, <2>3
<1> QED
  BY <1>1, SpecIInv, PTL

=============================================================================
