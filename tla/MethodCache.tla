---------------------------- MODULE MethodCache ----------------------------
(***************************************************************************)
(* Method caches (objc-cache.mm, lookUpImpOrForward) and the assembly that *)
(* reads them without a lock.                                              *)
(*                                                                         *)
(* A cache is a hash table: an array of buckets, a mask and a count.  It   *)
(* is filled, replaced by a larger array and erased under cacheUpdateLock; *)
(* message senders read mask, buckets, key and implementation one after    *)
(* the other meanwhile.  Arrays that are replaced go to a garbage list and *)
(* are freed when no thread is seen inside a reader.  One step is one      *)
(* access of a reader to memory, one store of a writer that readers can    *)
(* see, one look at the program counter of a thread, or the taking of a    *)
(* lock.                                                                   *)
(***************************************************************************)
EXTENDS Integers, FiniteSets, FiniteSetsExt, Functions

CONSTANTS Threads,
          NoThread,
          Classes,
          NoClass,        \* the superclass of a root class
          Super,          \* the superclass of each class
          Messages,       \* what is sent: pairs of a class and a selector
          Changed,        \* methods that are added or replaced: pairs again
          Fixed,          \* methods that all runs of the program have
          Warm,           \* a class that may have been sent messages before,
          Cached,         \* and its buckets then
          Arrays,         \* addresses of arrays on the heap
          Static,         \* the address of _objc_empty_cache
          InitCacheSize,
          MaxCapacity,    \* what mask_t has room for
          EmptyCapacity,  \* capacity that _objc_empty_cache is large enough for
          Threshold       \* garbage_threshold, in buckets

(* Selectors are numbers, as keys are addresses: 0 is the key of an unused *)
(* bucket and 1 that of the end marker.  Each set of classes has one whose *)
(* superclass is not in it.  One heap array of empty buckets is enough     *)
(* when capacities end at twice EmptyCapacity.                             *)
ASSUME MethodCacheAssumption ==
  /\ NoThread \notin Threads /\ NoClass \notin Classes /\ Static \notin Arrays
  /\ Super \in [Classes -> Classes \cup {NoClass}]
  /\ \A S \in (SUBSET Classes) \ {{}} : \E c \in S : Super[c] \notin S
  /\ Messages \cup Changed \cup Fixed \subseteq Classes \X (Nat \ {0, 1})
  /\ InitCacheSize \in Nat \ (0..3) /\ MaxCapacity \in Nat /\ EmptyCapacity \in Nat
  /\ InitCacheSize <= MaxCapacity /\ EmptyCapacity <= MaxCapacity /\ MaxCapacity <= 2 * EmptyCapacity

VARIABLES methods,      \* the version of each method, 0 where there is none
          before,       \* history: the methods before the change under way
          initializer,  \* the thread that runs +initialize, until it is done
          reading, writing,         \* who holds runtimeLock
          lock,                     \* who holds cacheUpdateLock
          buckets, mask, occupied,  \* the cache of each class
          slot,         \* the buckets of each array that are in use
          cap,          \* the capacity of each array
          live,         \* the arrays that are allocated
          garbage,      \* the arrays on the garbage list
          emptyBuckets, \* emptyBucketsList: its array, or Static while it is empty
          th,           \* where each thread is, and its locals
          may           \* history: what its message may be answered with

program == <<methods, before, initializer>>
locks == <<reading, writing, lock>>
caches == <<buckets, mask, occupied>>
memory == <<slot, cap, live, garbage, emptyBuckets>>
vars == <<program, locks, caches, memory, th, may>>

Methods == Changed \cup Fixed

(* No method of Changed is there before it is added.                       *)
AtFirst == [m \in Methods |-> IF m \in Fixed THEN 1 ELSE 0]

NoImp == <<>>
Forward == <<0>>
Imp(c, s, version) == <<c, s, version>>

Bucket(key, imp) == [key |-> key, imp |-> imp]

Version(ms, c, s) == IF <<c, s>> \in Methods THEN ms[<<c, s>>] ELSE 0

(* What a message finds in the method lists, from the class upwards.       *)
Search(ms, s) ==
  LET find[c \in Classes] ==
        IF Version(ms, c, s) # 0 THEN Imp(c, s, Version(ms, c, s))
        ELSE IF Super[c] = NoClass THEN Forward ELSE find[Super[c]]
  IN  find

Result(ms, m) == Search(ms, m[2])[m[1]]

(* cls is the class whose cache the thread reads or writes, for a message  *)
(* to the class sending.                                                   *)
Idle == [pc |-> "idle", sending |-> NoClass, sel |-> 0, cls |-> NoClass,
         mask |-> 0, array |-> Static, i |-> 0, wrapped |-> FALSE, imp |-> NoImp,
         tried |-> FALSE, freed |-> FALSE, todo |-> {}, unseen |-> {}]

(* What a thread that goes on to label still needs.                        *)
Leave(me, label) ==
  [Idle EXCEPT !.pc = label, !.sending = me.sending, !.sel = me.sel,
               !.tried = me.tried, !.imp = me.imp, !.todo = me.todo,
               !.cls = IF label \in {"search", "fill", "done", "erase"} THEN me.sending ELSE me.cls]

At(t, label) == th[t].pc = label
Goto(t, label) == th' = [th EXCEPT ![t].pc = label]

Capacity(c) == IF mask[c] = 0 THEN 0 ELSE mask[c] + 1
Hash(s, m) == s % (m + 1)

EmptyFor(n) == IF n <= EmptyCapacity THEN Static ELSE emptyBuckets
ConstantEmpty(c) == occupied[c] = 0 /\ buckets[c] = EmptyFor(Capacity(c))

(* Mutant: only the cache of the class itself.                             *)
Subclasses_None(c) == {c}

Subclasses(c) ==
  LET under[d \in Classes] ==
        d = c \/ IF Super[d] = NoClass THEN FALSE ELSE under[Super[d]]
  IN  {d \in Classes : under[d]}

(* The order in which find, and the readers, visit the buckets.            *)
Probe(s, m, n) == (Hash(s, m) + n) % (m + 1)

(* The warm cache holds results of earlier searches, where find puts them. *)
ASSUME WarmAssumption ==
  /\ Warm \in Classes /\ DOMAIN Cached \subseteq 0..InitCacheSize - 1
  /\ 4 * Cardinality(DOMAIN Cached) <= 3 * InitCacheSize
  /\ Cached = [i \in DOMAIN Cached |-> Cached[i]]
  /\ \A i \in DOMAIN Cached :
       \E s \in {m[2] : m \in Messages \cup Methods} :
         /\ Cached[i] = Bucket(s, Result(AtFirst, <<Warm, s>>))
         /\ \A j \in DOMAIN Cached : Cached[j].key = s => j = i
         /\ \E n \in 0..InitCacheSize - 1 :
              /\ i = Probe(s, InitCacheSize - 1, n)
              /\ \A k \in 0..n - 1 : Probe(s, InitCacheSize - 1, k) \in DOMAIN Cached

-----------------------------------------------------------------------------
Init ==
  /\ methods = AtFirst
  /\ before = methods
  /\ reading = {} /\ writing = NoThread /\ lock = NoThread
  /\ \/ /\ initializer \in {[c \in Classes |-> IF Super[c] = NoClass THEN NoThread ELSE t] : t \in Threads}
        /\ buckets = [c \in Classes |-> Static]
        /\ mask = [c \in Classes |-> 0]
        /\ occupied = [c \in Classes |-> 0]
        /\ slot = [a \in Arrays \cup {Static} |-> <<>>]
        /\ cap = [a \in Arrays \cup {Static} |-> IF a = Static THEN EmptyCapacity ELSE 0]
        /\ live = {}
     \/ \E a \in Arrays :
        /\ initializer = [c \in Classes |-> NoThread]
        /\ buckets = [c \in Classes |-> IF c = Warm THEN a ELSE Static]
        /\ mask = [c \in Classes |-> IF c = Warm THEN InitCacheSize - 1 ELSE 0]
        /\ occupied = [c \in Classes |-> IF c = Warm THEN Cardinality(DOMAIN Cached) ELSE 0]
        /\ slot = [b \in Arrays \cup {Static} |-> IF b = a THEN Cached ELSE <<>>]
        /\ cap = [b \in Arrays \cup {Static} |-> IF b = Static THEN EmptyCapacity
                                                 ELSE IF b = a THEN InitCacheSize ELSE 0]
        /\ live = {a}
  /\ garbage = {} /\ emptyBuckets = Static
  /\ th = [t \in Threads |-> Idle]
  /\ may = [t \in Threads |-> {}]

-----------------------------------------------------------------------------
(* Reading a cache: CacheLookup, in objc_msgSend or in cache_getImp, which *)
(* a thread that holds runtimeLock uses.                                   *)

Searching(t) == t \in reading

(* The bucket thread t looks at.  On x86 an array that is not one of the   *)
(* empty ones has an end marker.                                           *)
Here(t) ==
  LET a == th[t].array
      i == th[t].i IN
  IF i \in DOMAIN slot[a] THEN slot[a][i]
  ELSE Bucket(IF i >= cap[a] /\ a \notin {Static, emptyBuckets} THEN 1 ELSE 0, NoImp)

(* The mask is loaded first.                                               *)
Load(me) == [me EXCEPT !.mask = mask[me.cls], !.pc = "buckets"]

(* What follows a hit: the call; or, in a search, nothing when it was the  *)
(* cache of the class itself, and else filling it, unless the superclass   *)
(* only had a forwarding entry.                                            *)
AfterHit(t, imp) ==
  LET me == th[t] IN
  IF ~Searching(t) \/ me.cls = me.sending THEN [Leave(me, "done") EXCEPT !.imp = imp]
  ELSE IF imp # Forward \/ me.tried THEN [Leave(me, "fill") EXCEPT !.imp = imp]
  ELSE Leave(me, "resolve")

(* What follows a miss: the slow path; or, in a search, the method list of *)
(* the class, then its superclass, and in the end the method resolver, or  *)
(* forwarding when that has been tried.                                    *)
AfterMiss(t) ==
  LET me == th[t]
      v == Version(methods, me.cls, me.sel) IN
  IF ~Searching(t) THEN Leave(me, "search")
  ELSE IF v # 0 THEN [Leave(me, "fill") EXCEPT !.imp = Imp(me.cls, me.sel, v)]
  ELSE IF Super[me.cls] # NoClass THEN Load([Leave(me, "buckets") EXCEPT !.cls = Super[me.cls]])
  ELSE IF me.tried THEN [Leave(me, "fill") EXCEPT !.imp = Forward]
  ELSE Leave(me, "resolve")

Send(t, m) ==
  /\ At(t, "idle")
  /\ th' = [th EXCEPT ![t] = Load([Idle EXCEPT !.sending = m[1], !.cls = m[1], !.sel = m[2]])]
  /\ may' = [may EXCEPT ![t] = {Result(methods, m), Result(before, m)}]
  /\ UNCHANGED <<program, locks, caches, memory>>

LoadBuckets(t) ==
  /\ At(t, "buckets")
  /\ LET me == th[t] IN
     th' = [th EXCEPT ![t] = [me EXCEPT !.array = buckets[me.cls], !.i = Hash(me.sel, me.mask),
                                         !.wrapped = FALSE, !.pc = "key"]]
  /\ UNCHANGED <<program, locks, caches, memory, may>>

(* On x86 the key is compared, and read again to see whether the bucket is *)
(* unused or the end marker, which leads once to the first bucket of the   *)
(* array that is being scanned.                                            *)
CompareKey(t) ==
  /\ At(t, "key")
  /\ Goto(t, IF Here(t).key = th[t].sel THEN "imp" ELSE "end")
  /\ UNCHANGED <<program, locks, caches, memory, may>>

CompareEnd(t) ==
  /\ At(t, "end")
  /\ LET me == th[t] IN
     th' = [th EXCEPT ![t] =
       IF Here(t).key = 0 \/ (Here(t).key = 1 /\ me.wrapped) THEN AfterMiss(t)
       ELSE IF Here(t).key = 1 THEN [me EXCEPT !.i = 0, !.wrapped = TRUE, !.pc = "key"]
       ELSE [me EXCEPT !.i = @ + 1, !.pc = "key"]]
  /\ UNCHANGED <<program, locks, caches, memory, may>>

LoadImp(t) ==
  /\ At(t, "imp")
  /\ th' = [th EXCEPT ![t] = AfterHit(t, Here(t).imp)]
  /\ UNCHANGED <<program, locks, caches, memory, may>>

(* The program counter of thread t is between an entry point of a reader   *)
(* and its exit point.                                                     *)
InReader(t) == th[t].pc \in {"buckets", "key", "end", "imp"}

-----------------------------------------------------------------------------
(* lookUpImpOrForward, after a cache miss                                  *)

(* A thread waits, without the lock, until +initialize is done, unless it  *)
(* is the one that runs it.  The cache of the class is read once more.     *)
LockRead(t) ==
  /\ At(t, "search")
  /\ writing = NoThread /\ initializer[th[t].sending] \in {NoThread, t}
  /\ reading' = reading \cup {t}
  /\ th' = [th EXCEPT ![t] = Load([th[t] EXCEPT !.cls = th[t].sending])]
  /\ UNCHANGED <<program, writing, lock, caches, memory, may>>

(* The method resolver runs without the lock, and the search begins again. *)
Resolve(t) ==
  /\ At(t, "resolve")
  /\ reading' = reading \ {t}
  /\ th' = [th EXCEPT ![t].tried = TRUE, ![t].pc = "search"]
  /\ UNCHANGED <<program, writing, lock, caches, memory, may>>

(* The implementation is known; the sender calls it.                       *)
Done(t) ==
  /\ At(t, "done")
  /\ reading' = reading \ {t}
  /\ th' = [th EXCEPT ![t] = Idle]
  /\ may' = [may EXCEPT ![t] = {}]
  /\ UNCHANGED <<program, writing, lock, caches, memory>>

-----------------------------------------------------------------------------
(* Replacing the buckets of a cache, with cacheUpdateLock.                 *)
(* setBucketsAndMask stores the buckets and then the mask, and readers may *)
(* come between the two; what is done before the first store, or after it  *)
(* to the garbage list, no reader sees.                                    *)

(* The buckets of c become the array a.  The old ones are garbage if they  *)
(* were allocated for c.                                                   *)
StoreBuckets(c, a) ==
  /\ buckets' = [buckets EXCEPT ![c] = a]
  /\ garbage' = IF ConstantEmpty(c) THEN garbage ELSE garbage \cup {buckets[c]}

(* reallocate                                                              *)
Reallocate(t, c, n) ==
  \E a \in Arrays \ live :
    /\ live' = live \cup {a}
    /\ cap' = [cap EXCEPT ![a] = n]
    /\ StoreBuckets(c, a)
    /\ th' = [th EXCEPT ![t].pc = "setmask", ![t].mask = n - 1,
                          ![t].freed = ~ConstantEmpty(c)]

(* The size of the garbage, end markers included.                          *)
GarbageSize == MapThenSumSet(LAMBDA a : cap[a] + 1, garbage)

(* What thread t does when it has replaced buckets and collected garbage.  *)
Replaced(t) == IF writing = t THEN "erase" ELSE "insert"

(* Mutant: the count is that of the old buckets.                           *)
SetMask_KeepsCount(t) ==
  /\ At(t, "setmask")
  /\ mask' = [mask EXCEPT ![th[t].cls] = th[t].mask]
  /\ th' = [th EXCEPT ![t] = IF @.freed /\ GarbageSize >= Threshold
                             THEN [Leave(@, "look") EXCEPT !.unseen = Threads \ {t}]
                             ELSE Leave(@, Replaced(t))]
  /\ UNCHANGED <<program, locks, buckets, occupied, memory, may>>

(* The second store, and the beginning of cache_collect(false): it does    *)
(* nothing while there is little garbage, and reallocate does not call it  *)
(* when there was nothing to free.                                         *)
SetMask(t) ==
  /\ At(t, "setmask")
  /\ mask' = [mask EXCEPT ![th[t].cls] = th[t].mask]
  /\ occupied' = [occupied EXCEPT ![th[t].cls] = 0]
  /\ th' = [th EXCEPT ![t] = IF @.freed /\ GarbageSize >= Threshold
                             THEN [Leave(@, "look") EXCEPT !.unseen = Threads \ {t}]
                             ELSE Leave(@, Replaced(t))]
  /\ UNCHANGED <<program, locks, buckets, memory, may>>

(* The thread is in the last part of _objc_flush_caches(nil).              *)
CollectsALot(t) == writing # t /\ ~Searching(t)

(* Mutant: a thread is not looked at.                                      *)
Look_Nowhere(t, u) ==
  /\ At(t, "look") /\ u \in th[t].unseen
  /\ th' = [th EXCEPT ![t].unseen = @ \ {u}]
  /\ UNCHANGED <<program, locks, caches, memory, may>>

(* _collecting_in_critical looks at one thread after the other.  When one  *)
(* is in a reader, cache_collect(false) gives up and cache_collect(true)   *)
(* starts again.                                                           *)
Look(t, u) ==
  /\ At(t, "look") /\ u \in th[t].unseen
  /\ LET me == th[t] IN
     th' = [th EXCEPT ![t] =
       IF ~InReader(u) THEN [me EXCEPT !.unseen = @ \ {u}]
       ELSE IF CollectsALot(t) THEN [me EXCEPT !.unseen = Threads \ {t}]
       ELSE Leave(me, Replaced(t))]
  /\ UNCHANGED <<program, locks, caches, memory, may>>

Free(t) ==
  /\ At(t, "look") /\ th[t].unseen = {}
  /\ live' = live \ garbage
  /\ slot' = [a \in DOMAIN slot |-> IF a \in garbage THEN <<>> ELSE slot[a]]
  /\ cap' = [a \in DOMAIN cap |-> IF a \in garbage THEN 0 ELSE cap[a]]
  /\ garbage' = {}
  /\ IF CollectsALot(t) THEN th' = [th EXCEPT ![t] = Idle] /\ lock' = NoThread
     ELSE th' = [th EXCEPT ![t] = Leave(@, Replaced(t))] /\ UNCHANGED lock
  /\ UNCHANGED <<program, reading, writing, caches, emptyBuckets, may>>

-----------------------------------------------------------------------------
(* cache_fill                                                              *)

Key(c, i) == IF i \in DOMAIN slot[buckets[c]] THEN slot[buckets[c]][i].key ELSE 0

(* The bucket find returns; none, when the process is stopped.             *)
Find(c, s) ==
  {Probe(s, mask[c], n) : n \in {n \in 0..mask[c] :
     /\ Key(c, Probe(s, mask[c], n)) \in {0, s}
     /\ \A k \in 0..n - 1 : Key(c, Probe(s, mask[c], k)) \notin {0, s}}}

HasEntry(c, s) == \E i \in Find(c, s) : Key(c, i) = s

Grown(c) == IF 2 * Capacity(c) > MaxCapacity THEN Capacity(c) ELSE 2 * Capacity(c)

(* cache_fill_nolock, up to a place to insert the entry: nothing is cached *)
(* before +initialize is done, or twice.                                   *)
Fill(t) ==
  /\ At(t, "fill") /\ lock = NoThread
  /\ LET c == th[t].sending
         n == Capacity(c) IN
     \/ /\ initializer[c] # NoThread \/ HasEntry(c, th[t].sel)
        /\ Goto(t, "done")
        /\ UNCHANGED <<lock, buckets, garbage, cap, live>>
     \/ /\ initializer[c] = NoThread /\ ~HasEntry(c, th[t].sel)
        /\ lock' = t
        /\ \/ /\ ConstantEmpty(c)
              /\ Reallocate(t, c, IF n = 0 THEN InitCacheSize ELSE n)
           \/ /\ ~ConstantEmpty(c) /\ occupied[c] + 1 <= (n \div 4) * 3
              /\ th' = [th EXCEPT ![t].pc = "insert"]
              /\ UNCHANGED <<buckets, garbage, cap, live>>
           \/ /\ ~ConstantEmpty(c) /\ occupied[c] + 1 > (n \div 4) * 3
              /\ Reallocate(t, c, Grown(c))
  /\ UNCHANGED <<program, reading, writing, mask, occupied, slot, emptyBuckets, may>>

(* bucket_t::set stores the implementation first and then the key.         *)
Insert(t) ==
  /\ At(t, "insert")
  /\ \E i \in Find(th[t].cls, th[t].sel) :
       /\ slot' = [slot EXCEPT ![buckets[th[t].cls]] =
                      [j \in DOMAIN @ \cup {i} |-> IF j = i THEN Bucket(0, th[t].imp) ELSE @[j]]]
       /\ th' = [th EXCEPT ![t].pc = "setkey", ![t].i = i]
       /\ occupied' = IF Key(th[t].cls, i) # 0 THEN occupied
                      ELSE [occupied EXCEPT ![th[t].cls] = @ + 1]
  /\ UNCHANGED <<program, locks, buckets, mask, cap, live, garbage, emptyBuckets, may>>

SetKey(t) ==
  /\ At(t, "setkey")
  /\ slot' = [slot EXCEPT ![buckets[th[t].cls]][th[t].i].key = th[t].sel]
  /\ lock' = NoThread
  /\ th' = [th EXCEPT ![t] = Leave(@, "done")]
  /\ UNCHANGED <<program, reading, writing, caches, cap, live, garbage, emptyBuckets, may>>

-----------------------------------------------------------------------------
(* Changing methods                                                        *)

(* Mutant: threads that search are not waited for.                         *)
Write_AmongReaders(t, classes) ==
  /\ At(t, "idle") /\ writing = NoThread
  /\ writing' = t
  /\ th' = [th EXCEPT ![t] = [Idle EXCEPT !.pc = "flush", !.todo = classes]]

(* With runtimeLock, which then no thread reads with.                      *)
Write(t, classes) ==
  /\ At(t, "idle") /\ reading = {} /\ writing = NoThread
  /\ writing' = t
  /\ th' = [th EXCEPT ![t] = [Idle EXCEPT !.pc = "flush", !.todo = classes]]

(* addMethod and _method_setImplementation: the method is there, or is     *)
(* changed; then the caches of the class and its subclasses are flushed,   *)
(* or those of all classes when it is not known whose method it is.        *)
ChangeMethod(t, m) ==
  /\ \/ Write(t, Subclasses(m[1]))
     \/ methods[m] # 0 /\ Write(t, Classes)
  /\ methods' = [methods EXCEPT ![m] = IF @ = 1 THEN 2 ELSE 1]
  /\ may' = [u \in Threads |-> IF may[u] = {} THEN {}
               ELSE may[u] \cup {Result(methods', <<th[u].sending, th[u].sel>>)}]
  /\ UNCHANGED <<before, initializer, reading, lock, caches, memory>>

(* _objc_flush_caches(nil), which collects garbage in the end whatever it  *)
(* takes.                                                                  *)
FlushAll(t) ==
  /\ Write(t, Classes)
  /\ UNCHANGED <<program, reading, lock, caches, memory, may>>

LockFlush(t) ==
  /\ At(t, "flush") /\ lock = NoThread
  /\ lock' = t
  /\ Goto(t, "erase")
  /\ UNCHANGED <<program, reading, writing, caches, memory, may>>

(* cache_erase_nolock, which keeps the capacity: empty buckets of that     *)
(* size are shared, and allocated when _objc_empty_cache is too small.     *)
Erase(t, c) ==
  /\ At(t, "erase") /\ c \in th[t].todo /\ Super[c] \notin th[t].todo
  /\ LET todo == th[t].todo \ {c}
         n == Capacity(c) IN
     \/ /\ n = 0 \/ occupied[c] = 0
        /\ th' = [th EXCEPT ![t].todo = todo]
        /\ UNCHANGED <<buckets, memory>>
     \/ /\ n > 0 /\ occupied[c] > 0
        /\ th' = [th EXCEPT ![t].pc = "setmask", ![t].todo = todo, ![t].cls = c, ![t].mask = n - 1,
                             ![t].freed = TRUE]
        /\ \/ /\ n <= EmptyCapacity \/ emptyBuckets # Static
              /\ StoreBuckets(c, EmptyFor(n))
              /\ UNCHANGED <<slot, cap, live, emptyBuckets>>
           \/ /\ n > EmptyCapacity /\ emptyBuckets = Static
              /\ \E a \in Arrays \ live :
                   /\ live' = live \cup {a}
                   /\ cap' = [cap EXCEPT ![a] = n]
                   /\ emptyBuckets' = a
                   /\ StoreBuckets(c, a)
              /\ UNCHANGED slot
  /\ UNCHANGED <<program, locks, mask, occupied, may>>

(* Both locks are given up.                                                *)
Erased(t) ==
  /\ At(t, "erase") /\ th[t].todo = {}
  /\ lock' = NoThread /\ writing' = NoThread
  /\ before' = methods
  /\ th' = [th EXCEPT ![t] = IF methods = before THEN [Idle EXCEPT !.pc = "collect"] ELSE Idle]
  /\ UNCHANGED <<methods, initializer, reading, caches, memory, may>>

(* cache_collect(true)                                                     *)
CollectALot(t) ==
  /\ At(t, "collect") /\ lock = NoThread
  /\ lock' = t
  /\ th' = [th EXCEPT ![t].pc = "look", ![t].unseen = Threads \ {t}]
  /\ UNCHANGED <<program, reading, writing, caches, memory, may>>

(* +initialize is over.                                                    *)
SetInitialized(t, c) ==
  /\ At(t, "idle") /\ initializer[c] = t
  /\ initializer' = [initializer EXCEPT ![c] = NoThread]
  /\ UNCHANGED <<methods, before, locks, caches, memory, th, may>>

-----------------------------------------------------------------------------
Step(t) ==
  \/ LoadBuckets(t) \/ CompareKey(t) \/ CompareEnd(t) \/ LoadImp(t)
  \/ LockRead(t) \/ Resolve(t) \/ Done(t)
  \/ SetMask(t) \/ (\E u \in Threads : Look(t, u)) \/ Free(t)
  \/ Fill(t) \/ Insert(t) \/ SetKey(t)
  \/ LockFlush(t) \/ (\E c \in Classes : Erase(t, c)) \/ Erased(t) \/ CollectALot(t)

(* Bound: a call begins only while there are arrays for what it and those  *)
(* under way may allocate.                                                 *)
Room == Cardinality(Arrays \ live) >
          Cardinality({t \in Threads : th[t].pc \notin {"idle", "done"}})
          + IF emptyBuckets = Static THEN 1 ELSE 0

Next ==
  \E t \in Threads :
    \/ Step(t)
    \/ Room /\ \E m \in Messages : Send(t, m)
    \/ Room /\ \E m \in Changed : ChangeMethod(t, m)
    \/ FlushAll(t)
    \/ \E c \in Classes : SetInitialized(t, c)

Spec == Init /\ [][Next]_vars

-----------------------------------------------------------------------------
Buckets == {Bucket(key, imp) : key \in {0} \cup {m[2] : m \in Messages \cup Methods},
                               imp \in {Forward} \cup {Imp(m[1], m[2], v) : m \in Methods, v \in 1..2}}

(* Type invariant: locks are held by threads, caches are arrays and masks, *)
(* arrays hold entries below their capacity, threads are at known steps.   *)
TypeOK ==
  /\ methods \in [Methods -> 0..2] /\ before \in [Methods -> 0..2]
  /\ initializer \in [Classes -> Threads \cup {NoThread}]
  /\ reading \subseteq Threads /\ {writing, lock} \subseteq Threads \cup {NoThread}
  /\ buckets \in [Classes -> Arrays \cup {Static}]
  /\ mask \in [Classes -> 0..MaxCapacity - 1] /\ occupied \in [Classes -> 0..MaxCapacity]
  /\ live \subseteq Arrays /\ garbage \subseteq live /\ emptyBuckets \in live \cup {Static}
  /\ \A a \in Arrays \cup {Static} :
       /\ cap[a] \in 0..MaxCapacity
       /\ DOMAIN slot[a] \subseteq 0..cap[a] - 1
       /\ \A i \in DOMAIN slot[a] : slot[a][i] \in Buckets
  /\ \A t \in Threads :
       /\ th[t].pc \in {"idle", "buckets", "key", "end", "imp", "search", "resolve", "done",
                        "fill", "insert", "setkey", "setmask", "look", "flush", "erase", "collect"}
       /\ th[t].sending \in Classes \cup {NoClass} /\ th[t].unseen \subseteq Threads

(* A reader, which takes no lock, only ever looks at memory that is        *)
(* allocated and within it: an array is not freed while a thread scans it, *)
(* and the mask it was loaded with fits the buckets loaded after it.  Only *)
(* an array that ends with an end marker is looked at there.               *)
ReadersSafe ==
  \A t \in Threads : th[t].pc \in {"key", "end", "imp"} =>
    LET a == th[t].array IN
    /\ a \in live \cup {Static}
    /\ th[t].i < cap[a] + IF a \in {Static, emptyBuckets} THEN 0 ELSE 1

(* While the methods are not being changed, each cached entry is what the  *)
(* class would find now: a change has flushed every cache that could hold  *)
(* what it replaced, and no thread has put an old result back.  A class    *)
(* that is not initialized has nothing cached, so that its messages take   *)
(* the path that waits for +initialize.                                    *)
NoStaleEntry ==
  \A c \in Classes : \A i \in DOMAIN slot[buckets[c]] :
    LET b == slot[buckets[c]][i] IN
    b.key # 0 => /\ writing = NoThread => b.imp = Result(methods, <<c, b.key>>)
                 /\ initializer[c] = NoThread

(* While no thread updates a cache its count is the number of its entries, *)
(* no selector has two, and at least a quarter of the buckets is unused,   *)
(* so that a search for a selector that is not there ends.                 *)
SearchEnds ==
  lock = NoThread =>
    \A c \in Classes :
      LET entries == slot[buckets[c]] IN
      /\ occupied[c] = Cardinality(DOMAIN entries)
      /\ \A i, j \in DOMAIN entries : entries[i].key = entries[j].key => i = j
      /\ 4 * occupied[c] <= 3 * Capacity(c)

(* Each array that is allocated is in one place: it is the buckets of one  *)
(* cache, or garbage, or the array of empty buckets, which caches share.   *)
(* So none leaks, none is freed twice, and none is freed that is in use.   *)
ArraysOwnedOnce ==
  /\ live = ((Range(buckets) \cup {emptyBuckets}) \ {Static}) \cup garbage
  /\ garbage \cap (Range(buckets) \cup {emptyBuckets}) = {}
  /\ \A c, d \in Classes : buckets[c] = buckets[d] /\ c # d => buckets[c] \in {Static, emptyBuckets}

(* Caches are arrays of their own, none of which leaks, and never full.    *)
ArraysSound == TypeOK /\ ArraysOwnedOnce /\ SearchEnds

(* Sending a message, by cache or by search, answers what Dispatch says:   *)
(* a method the class had while it was sent, and after a change of methods *)
(* has returned, never the one that was replaced.                          *)
D == INSTANCE Dispatch WITH
       None <- NoImp,
       sent <- [t \in Threads |-> IF th[t].sending = NoClass THEN NoImp
                                  ELSE <<th[t].sending, th[t].sel>>],
       answer <- [t \in Threads |-> IF At(t, "done") THEN th[t].imp ELSE NoImp]
DispatchSpec == D!Spec
=============================================================================
