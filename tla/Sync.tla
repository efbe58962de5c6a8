-------------------------------- MODULE Sync --------------------------------
(***************************************************************************)
(* @synchronized (objc-sync.mm): recursive locks that are lent to objects. *)
(*                                                                         *)
(* id2data finds the SyncData of an object, first in the caches of the     *)
(* thread and then, under a spin lock, on a list that all threads share; a *)
(* SyncData that no thread uses is given to another object.  What is hard  *)
(* is that the count of using threads goes up under the spin lock and down *)
(* outside it, and before the mutex of the SyncData is unlocked.  One step *)
(* is a visit to the caches, one turn of the walk along the list, or one   *)
(* operation of a mutex.                                                   *)
(*                                                                         *)
(* The objects are those of one SyncList; two lists have nothing in common.*)
(***************************************************************************)
EXTENDS Integers, Sequences, SequencesExt, FiniteSets, Functions

CONSTANTS Threads,
          Objects,       \* addresses of objects
          NoThread,      \* the owner of a lock that is free
          MaxNesting,    \* bound on the objects a thread is inside, with repeats
          MaxStray       \* bound on the stray exits of one object, which are
                         \* those of threads that are not inside

ASSUME SyncAssumption ==
  /\ Objects \subseteq Nat \ {0}
  /\ IsFiniteSet(Threads)
  /\ NoThread \notin Threads

VARIABLES data,    \* the SyncDatas, in the order of their creation
          lockp,   \* who holds the spin lock of the list
          fast,    \* the single-entry cache of each thread
          list,    \* the SyncCache of each thread
          pc, why, object, p, firstUnused,   \* locals of id2data
          entered, \* how often each thread is inside @synchronized(object)
          stray    \* history: the stray exits that found each SyncData

vars == <<data, lockp, fast, list, pc, why, object, p, firstUnused, entered, stray>>
locals == <<pc, why, object, p, firstUnused>>
caches == <<fast, list>>

(* A place in the list of SyncDatas, or none.                              *)
Nil == 0

SyncData(o) == [object |-> o, threadCount |-> 1, owner |-> NoThread, depth |-> 0]
SyncCacheItem(d) == [data |-> d, lockCount |-> 1]
EmptyItem == [data |-> Nil, lockCount |-> 0]

-----------------------------------------------------------------------------
(* The caches of thread t                                                  *)

FastHit(t, o) == fast[t].data # Nil /\ data[fast[t].data].object = o

ListHit(t, o, i) ==
  /\ ~FastHit(t, o)
  /\ data[list[t][i].data].object = o
  /\ \A j \in 1..i - 1 : data[list[t][j].data].object # o

Miss(t, o) == ~FastHit(t, o) /\ \A i \in DOMAIN list[t] : ~ListHit(t, o, i)

Uncount(d) == data' = [data EXCEPT ![d].threadCount = @ - 1]

(* Go on at a label with the SyncData d.                                   *)
GoOn(t, label, d) ==
  /\ pc' = [pc EXCEPT ![t] = label]
  /\ p' = [p EXCEPT ![t] = d]

(* The call returns, and its locals are gone.                              *)
Return(t) ==
  /\ pc' = [pc EXCEPT ![t] = "client"]
  /\ why' = [why EXCEPT ![t] = "ACQUIRE"]
  /\ object' = [object EXCEPT ![t] = Nil]
  /\ p' = [p EXCEPT ![t] = Nil]
  /\ firstUnused' = [firstUnused EXCEPT ![t] = Nil]

AcquireCached(t, o) ==
  /\ \/ /\ FastHit(t, o)
        /\ fast' = [fast EXCEPT ![t].lockCount = @ + 1]
        /\ GoOn(t, "lock", fast[t].data)
        /\ UNCHANGED list
     \/ \E i \in DOMAIN list[t] :
          /\ ListHit(t, o, i)
          /\ list' = [list EXCEPT ![t][i].lockCount = @ + 1]
          /\ GoOn(t, "lock", list[t][i].data)
          /\ UNCHANGED fast
  /\ UNCHANGED data

ReleaseCached(t, o) ==
  \/ /\ FastHit(t, o)
     /\ IF fast[t].lockCount = 1
        THEN fast' = [fast EXCEPT ![t] = EmptyItem] /\ Uncount(fast[t].data)
        ELSE fast' = [fast EXCEPT ![t].lockCount = @ - 1] /\ UNCHANGED data
     /\ GoOn(t, "unlock", fast[t].data)
     /\ UNCHANGED list
  \/ \E i \in DOMAIN list[t] :
       /\ ListHit(t, o, i)
       /\ IF list[t][i].lockCount = 1
          THEN /\ list' = [list EXCEPT ![t] = Front([@ EXCEPT ![i] = Last(list[t])])]
               /\ Uncount(list[t][i].data)
          ELSE list' = [list EXCEPT ![t][i].lockCount = @ - 1] /\ UNCHANGED data
       /\ GoOn(t, "unlock", list[t][i].data)
       /\ UNCHANGED fast

GoList(t) ==
  /\ pc' = [pc EXCEPT ![t] = "list"]
  /\ UNCHANGED <<data, fast, list, p>>

-----------------------------------------------------------------------------
(* The calls.  Clients may nest objects in any order, and so wait for each *)
(* other for ever.                                                         *)

SyncEnter(t, o) ==
  /\ pc[t] = "client"
  /\ FoldFunction(+, 0, entered[t]) < MaxNesting
  /\ object' = [object EXCEPT ![t] = o]
  /\ why' = [why EXCEPT ![t] = "ACQUIRE"]
  /\ AcquireCached(t, o) \/ (Miss(t, o) /\ GoList(t))
  /\ UNCHANGED <<lockp, firstUnused, entered, stray>>

SyncExit(t, o) ==
  /\ pc[t] = "client"
  /\ entered[t][o] = 0 => MaxStray > 0 /\ \A d \in DOMAIN stray : stray[d] < MaxStray
  /\ entered' = [entered EXCEPT ![t][o] = IF @ > 0 THEN @ - 1 ELSE 0]
  /\ object' = [object EXCEPT ![t] = o]
  /\ why' = [why EXCEPT ![t] = "RELEASE"]
  /\ ReleaseCached(t, o) \/ (Miss(t, o) /\ GoList(t))
  /\ UNCHANGED <<lockp, firstUnused, stray>>

-----------------------------------------------------------------------------
(* The list, the newest SyncData first                                     *)

LockList(t) ==
  /\ pc[t] = "list" /\ lockp = NoThread
  /\ lockp' = t
  /\ pc' = [pc EXCEPT ![t] = "walk"]
  /\ p' = [p EXCEPT ![t] = Len(data)]
  /\ firstUnused' = [firstUnused EXCEPT ![t] = Nil]
  /\ UNCHANGED <<data, caches, why, object, entered, stray>>

(* Mutant: a SyncData is taken for unused whatever its count.              *)
WalkOn_AnyUnused(t) ==
  /\ pc[t] = "walk" /\ p[t] # Nil
  /\ data[p[t]].object # object[t]
  /\ firstUnused' = [firstUnused EXCEPT ![t] = IF @ = Nil THEN p[t] ELSE @]
  /\ p' = [p EXCEPT ![t] = @ - 1]
  /\ UNCHANGED <<data, lockp, caches, pc, why, object, entered, stray>>

WalkOn(t) ==
  /\ pc[t] = "walk" /\ p[t] # Nil
  /\ data[p[t]].object # object[t]
  /\ firstUnused' = [firstUnused EXCEPT ![t] =
                       IF @ = Nil /\ data[p[t]].threadCount = 0 THEN p[t] ELSE @]
  /\ p' = [p EXCEPT ![t] = @ - 1]
  /\ UNCHANGED <<data, lockp, caches, pc, why, object, entered, stray>>

(* Leave the list with the SyncData d.                                     *)
GoSave(t, d) ==
  /\ GoOn(t, "save", d)
  /\ firstUnused' = [firstUnused EXCEPT ![t] = Nil]
  /\ UNCHANGED <<why, object>>

(* Mutant: who finds a SyncData in use does not count itself.              *)
Found_NoCount(t) ==
  /\ pc[t] = "walk" /\ p[t] # Nil
  /\ data[p[t]].object = object[t]
  /\ lockp' = NoThread
  /\ IF why[t] = "ACQUIRE" THEN GoSave(t, p[t]) ELSE Return(t)
  /\ UNCHANGED <<data, caches, entered, stray>>

(* "Probably some thread is incorrectly exiting while the object is held   *)
(* by another thread": a RELEASE that finds something is an error as well. *)
Found(t) ==
  /\ pc[t] = "walk" /\ p[t] # Nil
  /\ data[p[t]].object = object[t]
  /\ data' = [data EXCEPT ![p[t]].threadCount = @ + 1]
  /\ lockp' = NoThread
  /\ \/ /\ why[t] = "ACQUIRE"
        /\ GoSave(t, p[t])
        /\ UNCHANGED stray
     \/ /\ why[t] = "RELEASE"
        /\ Return(t)
        /\ stray' = [stray EXCEPT ![p[t]] = @ + 1]
  /\ UNCHANGED <<caches, entered>>

NotFound(t) ==
  /\ pc[t] = "walk" /\ p[t] = Nil
  /\ \/ /\ why[t] = "RELEASE"
        /\ Return(t)
        /\ UNCHANGED <<data, stray>>
     \/ /\ why[t] = "ACQUIRE" /\ firstUnused[t] # Nil
        /\ data' = [data EXCEPT ![firstUnused[t]].object = object[t],
                                ![firstUnused[t]].threadCount = 1]
        /\ GoSave(t, firstUnused[t])
        /\ UNCHANGED stray
     \/ /\ why[t] = "ACQUIRE" /\ firstUnused[t] = Nil
        /\ data' = Append(data, SyncData(object[t]))
        /\ GoSave(t, Len(data) + 1)
        /\ stray' = Append(stray, 0)
  /\ lockp' = NoThread
  /\ UNCHANGED <<caches, entered>>

Save(t) ==
  /\ pc[t] = "save"
  /\ \/ /\ fast[t] = EmptyItem
        /\ fast' = [fast EXCEPT ![t] = SyncCacheItem(p[t])]
        /\ UNCHANGED list
     \/ /\ fast[t] # EmptyItem
        /\ list' = [list EXCEPT ![t] = Append(@, SyncCacheItem(p[t]))]
        /\ UNCHANGED fast
  /\ pc' = [pc EXCEPT ![t] = "lock"]
  /\ UNCHANGED <<data, lockp, why, object, p, firstUnused, entered, stray>>

-----------------------------------------------------------------------------
(* The recursive mutex of a SyncData                                       *)

MutexLock(t) ==
  /\ pc[t] = "lock" /\ data[p[t]].owner \in {t, NoThread}
  /\ data' = [data EXCEPT ![p[t]].owner = t, ![p[t]].depth = @ + 1]
  /\ entered' = [entered EXCEPT ![t][object[t]] = @ + 1]
  /\ Return(t)
  /\ UNCHANGED <<lockp, caches, stray>>

(* tryUnlock of a mutex that another thread owns does nothing.             *)
MutexUnlock(t) ==
  /\ pc[t] = "unlock"
  /\ \/ /\ data[p[t]].owner = t
        /\ data' = [data EXCEPT ![p[t]].depth = @ - 1,
                                ![p[t]].owner = IF data[p[t]].depth = 1 THEN NoThread ELSE t]
     \/ /\ data[p[t]].owner # t
        /\ UNCHANGED data
  /\ Return(t)
  /\ UNCHANGED <<lockp, caches, entered, stray>>

-----------------------------------------------------------------------------

Init ==
  /\ data = <<>>
  /\ lockp = NoThread
  /\ fast = [t \in Threads |-> EmptyItem]
  /\ list = [t \in Threads |-> <<>>]
  /\ pc = [t \in Threads |-> "client"]
  /\ why = [t \in Threads |-> "ACQUIRE"]
  /\ object = [t \in Threads |-> Nil]
  /\ p = [t \in Threads |-> Nil]
  /\ firstUnused = [t \in Threads |-> Nil]
  /\ entered = [t \in Threads |-> [o \in Objects |-> 0]]
  /\ stray = <<>>

Next ==
  \E t \in Threads :
    \/ \E o \in Objects : SyncEnter(t, o) \/ SyncExit(t, o)
    \/ LockList(t) \/ WalkOn(t) \/ Found(t) \/ NotFound(t) \/ Save(t)
    \/ MutexLock(t) \/ MutexUnlock(t)

Spec == Init /\ [][Next]_vars

-----------------------------------------------------------------------------
(* Properties                                                              *)

Cached(t) == {list[t][i].data : i \in DOMAIN list[t]} \cup ({fast[t].data} \ {Nil})

(* The threads that use d: those that have it in a cache, and those that   *)
(* have counted themselves and are about to put it there.                  *)
Users(d) == {t \in Threads : d \in Cached(t) \/ (pc[t] = "save" /\ p[t] = d)}

(* Caches hold SyncData that exist, with counts of their own.              *)
TypeOK ==
  /\ data \in Seq([object : Objects, threadCount : Nat,
                  owner : Threads \cup {NoThread}, depth : Nat])
  /\ lockp \in Threads \cup {NoThread}
  /\ \A t \in Threads :
       /\ Cached(t) \subseteq DOMAIN data
       /\ fast[t].lockCount \in Nat
       /\ \A i \in DOMAIN list[t] : list[t][i].lockCount \in Nat
       /\ pc[t] \in {"client", "list", "walk", "save", "lock", "unlock"}
       /\ why[t] \in {"ACQUIRE", "RELEASE"}
       /\ object[t] \in Objects \cup {Nil}
       /\ {p[t], firstUnused[t]} \subseteq DOMAIN data \cup {Nil}
       /\ \A o \in Objects : entered[t][o] \in Nat
  /\ stray \in [DOMAIN data -> Nat]

(* What @synchronized is for.                                              *)
MutualExclusion ==
  \A t, u \in Threads, o \in Objects :
    entered[t][o] > 0 /\ entered[u][o] > 0 => t = u

(* "Spinlock prevents multiple threads from creating multiple locks for    *)
(* the same new object."                                                   *)
OneLockPerObject ==
  \A d, e \in DOMAIN data : data[d].object = data[e].object => d = e

(* None of the errors "id2data is buggy" and "id2data cache is buggy".     *)
NotBuggy ==
  \A t \in Threads :
    /\ fast[t].data # Nil => fast[t].lockCount > 0 /\ data[fast[t].data].threadCount > 0
    /\ \A i \in DOMAIN list[t] : /\ list[t][i].lockCount > 0
                                 /\ data[list[t][i].data].threadCount > 0
    /\ pc[t] = "save" => data[p[t]].object = object[t]

(* "number of times THIS THREAD locked this block": the caches, the mutex  *)
(* and the client agree, so an exit of what was entered succeeds.          *)
CountsAgree ==
  \A t \in Threads : pc[t] = "client" =>
    \A d \in DOMAIN data :
      LET n == entered[t][data[d].object]
      IN /\ data[d].owner = t <=> n > 0
         /\ data[d].owner = t => data[d].depth = n
         /\ fast[t].data = d => fast[t].lockCount = n
         /\ \A i \in DOMAIN list[t] : list[t][i].data = d => list[t][i].lockCount = n
         /\ n > 0 => d \in Cached(t)

(* Stray exits are all that the count is wrong by: it is never too low, so *)
(* that no SyncData in use is given to another object, and clients that    *)
(* exit only what they have entered leave none behind that nobody uses.    *)
ThreadCountExplained ==
  \A d \in DOMAIN data : data[d].threadCount = Cardinality(Users(d)) + stray[d]

(* What decides whether a SyncData is reused, and whether an exit succeeds:*)
(* the counts of caches, mutexes and SyncDatas agree with each other and   *)
(* with what the clients have entered.                                     *)
CountsSound == TypeOK /\ NotBuggy /\ CountsAgree /\ ThreadCountExplained

(* An object has one lock at any time, and one thread is inside.           *)
Exclusion == OneLockPerObject /\ MutualExclusion

=============================================================================
