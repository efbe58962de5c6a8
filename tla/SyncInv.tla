------------------------------- MODULE SyncInv -------------------------------
(***************************************************************************)
(* The inductive invariant of Sync.                                        *)
(*                                                                         *)
(* The caches of a thread are read as a set of items, the counts of a      *)
(* cache, a mutex and the client are related at every label of a call and  *)
(* not only between calls, and the walk remembers what it has passed.      *)
(***************************************************************************)
EXTENDS Sync

SyncDatas == [object : Objects, threadCount : Nat,
              owner : Threads \cup {NoThread}, depth : Nat]
CacheItems == [data : Nat \ {Nil}, lockCount : Nat \ {0}]
Labels == {"client", "list", "walk", "save", "lock", "unlock"}

(* What the caches of t hold, wherever it lies.                            *)
Items(t) == {list[t][i] : i \in DOMAIN list[t]} \cup ({fast[t]} \ {EmptyItem})

Types ==
  /\ data \in Seq(SyncDatas)
  /\ lockp \in Threads \cup {NoThread}
  /\ fast \in [Threads -> CacheItems \cup {EmptyItem}]
  /\ list \in [Threads -> Seq(CacheItems)]
  /\ pc \in [Threads -> Labels]
  /\ why \in [Threads -> {"ACQUIRE", "RELEASE"}]
  /\ object \in [Threads -> Objects \cup {Nil}]
  /\ p \in [Threads -> 0..Len(data)]
  /\ firstUnused \in [Threads -> 0..Len(data)]
  /\ entered \in [Threads -> [Objects -> Nat]]
  /\ stray \in Seq(Nat) /\ Len(stray) = Len(data)

(* A thread has a SyncData in one place of its caches.                     *)
Distinct ==
  \A t \in Threads : \A i \in DOMAIN list[t] :
    /\ list[t][i].data # fast[t].data
    /\ \A j \in DOMAIN list[t] : list[t][i].data = list[t][j].data => i = j

SpinLock == \A t \in Threads : pc[t] = "walk" <=> lockp = t

(* What a call knows at each of its labels.                                *)
LocalsOf(t) ==
  /\ pc[t] # "client" => object[t] \in Objects
  /\ pc[t] \in {"list", "walk", "save"} =>
       \A x \in Items(t) : data[x.data].object # object[t]
  /\ pc[t] = "walk" =>
       /\ \A d \in DOMAIN data : d > p[t] => data[d].object # object[t]
       /\ firstUnused[t] # Nil => data[firstUnused[t]].threadCount = 0
  /\ pc[t] \in {"save", "lock", "unlock"} => p[t] # Nil
  /\ pc[t] \in {"save", "lock"} => data[p[t]].object = object[t]
  /\ pc[t] = "lock" => \E x \in Items(t) : x.data = p[t]

(* The lock a call has counted in a cache and not yet taken; the one that  *)
(* it has taken out of its cache and not yet given up.                     *)
Locking(t, d) == IF pc[t] = "lock" /\ p[t] = d THEN 1 ELSE 0
Unlocking(t, d) == IF pc[t] = "unlock" /\ p[t] = d THEN 1 ELSE 0

(* The caches of t hold what the client is inside, as often as it is.      *)
ItemsOf(t) ==
  /\ \A x \in Items(t) :
       /\ x.data \in DOMAIN data
       /\ x.lockCount = entered[t][data[x.data].object] + Locking(t, x.data)
  /\ \A o \in Objects : entered[t][o] > 0 =>
       \E x \in Items(t) : data[x.data].object = o

(* How often t holds the mutex of d.                                       *)
Inside(t, d) ==
  (IF \E x \in Items(t) : x.data = d THEN entered[t][data[d].object] ELSE 0)
    + Unlocking(t, d)

Mutexes ==
  \A d \in DOMAIN data :
    /\ data[d].owner = NoThread <=> data[d].depth = 0
    /\ \A t \in Threads : /\ data[d].owner = t <=> Inside(t, d) > 0
                          /\ data[d].owner = t => data[d].depth = Inside(t, d)

IInv ==
  /\ Types
  /\ Distinct
  /\ SpinLock
  /\ \A t \in Threads : LocalsOf(t) /\ ItemsOf(t)
  /\ Mutexes
  /\ OneLockPerObject
  /\ ThreadCountExplained

=============================================================================
