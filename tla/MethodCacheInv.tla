--------------------------- MODULE MethodCacheInv ---------------------------
(***************************************************************************)
(* The inductive invariant of MethodCache.                                 *)
(*                                                                         *)
(* It says at each label what the thread that updates a cache and the      *)
(* threads that read one know of it.  A cache whose buckets are replaced   *)
(* is described by the mask that is about to be stored: a reader has an    *)
(* old mask, and masks only grow.                                          *)
(***************************************************************************)
EXTENDS MethodCache

Labels ==
  {"idle", "buckets", "key", "end", "imp", "search", "resolve", "done",
   "fill", "insert", "setkey", "setmask", "look", "flush", "erase", "collect"}
Selectors == {m[2] : m \in Messages \cup Methods}
Imps == {Forward} \cup {Imp(m[1], m[2], v) : m \in Methods, v \in 1..2}

ThreadType ==
  [pc : Labels, sending : Classes \cup {NoClass}, sel : Nat, cls : Classes \cup {NoClass},
   mask : Nat, array : Arrays \cup {Static}, i : Nat, wrapped : BOOLEAN,
   imp : Imps \cup {NoImp}, tried : BOOLEAN, freed : BOOLEAN,
   todo : SUBSET Classes, unseen : SUBSET Threads]

Types ==
  /\ methods \in [Methods -> 0..2] /\ before \in [Methods -> 0..2]
  /\ initializer \in [Classes -> Threads \cup {NoThread}]
  /\ reading \subseteq Threads /\ {writing, lock} \subseteq Threads \cup {NoThread}
  /\ buckets \in [Classes -> Arrays \cup {Static}]
  /\ mask \in [Classes -> Nat] /\ occupied \in [Classes -> Nat]
  /\ live \subseteq Arrays
  /\ emptyBuckets \in Arrays \cup {Static}
  /\ slot = [a \in Arrays \cup {Static} |-> slot[a]]
  /\ cap \in [Arrays \cup {Static} -> Nat]
  /\ th \in [Threads -> ThreadType]
  /\ may = [t \in Threads |-> may[t]]

-----------------------------------------------------------------------------
(* Locks and what a thread does                                            *)

Holding == {"insert", "setkey", "setmask", "look", "erase"}
Updating == {"fill", "insert", "setkey", "setmask", "look"}
Reading == {"buckets", "key", "end", "imp"}

LocksOf(t) ==
  /\ th[t].pc \in Holding <=> lock = t
  /\ th[t].pc \in {"flush", "erase"} => writing = t
  /\ writing = t => th[t].pc \in {"flush", "erase", "setmask", "look"} /\ th[t].sending = NoClass
  /\ th[t].pc \in {"resolve", "fill", "insert", "setkey"} => t \in reading
  /\ th[t].pc = "setmask" => t \in reading \/ writing = t
  /\ t \in reading => th[t].pc \in Reading \cup Updating \cup {"resolve", "done"}
  /\ t \in reading => th[t].sending # NoClass
  /\ th[t].pc \in Reading \cup {"search", "done"} => th[t].sending # NoClass
  /\ th[t].pc \in {"idle", "collect"} => th[t].sending = NoClass
  /\ th[t].pc = "look" /\ t \notin reading => th[t].sending = NoClass

Locks ==
  /\ \A t \in Threads : LocksOf(t)
  /\ writing # NoThread => reading = {}
  /\ writing = NoThread => before = methods

(* What thread t sends, and the class at which it is.                      *)
MessageOf(t) ==
  /\ th[t].sending # NoClass => th[t].sel \in Selectors
  /\ th[t].pc \in Reading \cup {"setmask"} => th[t].cls \in Classes
  /\ th[t].pc \in Reading /\ t \notin reading => th[t].cls = th[t].sending
  /\ th[t].pc \in Updating /\ t \in reading => th[t].cls = th[t].sending

-----------------------------------------------------------------------------
(* Caches                                                                  *)

(* Capacities: doubled from the first one.                                 *)
Sizes ==
  {n \in 0..MaxCapacity :
     \A S \in SUBSET (0..MaxCapacity) :
       InitCacheSize \in S /\ (\A k \in S : 2 * k <= MaxCapacity => 2 * k \in S) => n \in S}

(* The buckets of c have been replaced, and not yet its mask.              *)
Moving(c) == \E t \in Threads : lock = t /\ th[t].pc = "setmask" /\ th[t].cls = c

Entries(c) == slot[buckets[c]]
Shared == {Static, emptyBuckets}

(* The implementation of the entry i has been stored, and not yet its key. *)
Setting(c, i) == \E t \in Threads : lock = t /\ th[t].pc = "setkey" /\ th[t].cls = c /\ th[t].i = i

(* An entry lies where a search for its key comes to it.                   *)
Reachable(c, s, i) ==
  \E n \in 0..mask[c] :
    /\ i = Probe(s, mask[c], n)
    /\ \A k \in 0..n - 1 : Probe(s, mask[c], k) \in DOMAIN Entries(c)

SizeOf(c) ==
  /\ mask[c] = 0 \/ mask[c] + 1 \in Sizes
  /\ Moving(c) => DOMAIN Entries(c) = {}
  /\ ~Moving(c) =>
       /\ buckets[c] = Static => Capacity(c) <= EmptyCapacity
       /\ buckets[c] # Static => cap[buckets[c]] = Capacity(c)
       /\ occupied[c] = Cardinality(DOMAIN Entries(c))
  /\ 4 * occupied[c] <= 3 * Capacity(c)

EntriesOf(c) ==
  \A i \in DOMAIN Entries(c) :
    /\ Entries(c)[i].key = 0 => Setting(c, i)
    /\ Entries(c)[i].key # 0 => Reachable(c, Entries(c)[i].key, i)
    /\ \A j \in DOMAIN Entries(c) : Entries(c)[i].key = Entries(c)[j].key => i = j

CacheOf(c) == SizeOf(c) /\ EntriesOf(c)

Memory ==
  /\ \A a \in Arrays \cup {Static} :
       /\ slot[a] = [i \in DOMAIN slot[a] |-> slot[a][i]]
       /\ DOMAIN slot[a] \subseteq 0..cap[a] - 1
       /\ \A i \in DOMAIN slot[a] : slot[a][i] \in [key : {0} \cup Selectors, imp : Imps]
       /\ a \notin live => DOMAIN slot[a] = {}
       /\ a \in live => cap[a] \in Sizes
       /\ cap[a] <= MaxCapacity
  /\ cap[Static] = EmptyCapacity
  /\ DOMAIN slot[emptyBuckets] = {}
  /\ emptyBuckets # Static => cap[emptyBuckets] > EmptyCapacity

-----------------------------------------------------------------------------
(* Readers                                                                 *)

Scans(t) == th[t].pc \in {"key", "end", "imp"}

ReaderOf(t) ==
  /\ th[t].pc = "buckets" => th[t].mask <= mask[th[t].cls]
  /\ Scans(t) =>
       /\ th[t].array \in garbage \cup Shared \cup {buckets[th[t].cls]}
       /\ th[t].i <= cap[th[t].array]
       /\ th[t].array \in Shared => th[t].i < cap[th[t].array]
  /\ th[t].pc = "imp" => /\ th[t].i \in DOMAIN slot[th[t].array]
                         /\ slot[th[t].array][th[t].i].key = th[t].sel

(* The threads that have been seen outside a reader scan no garbage since. *)
LooksOf(t) ==
  th[t].pc = "look" =>
    \A u \in Threads \ th[t].unseen : Scans(u) => th[u].array \notin garbage

-----------------------------------------------------------------------------
(* Who updates a cache                                                     *)

(* There is room for an entry, and there is none for the selector yet.     *)
Ready(c, s) ==
  /\ buckets[c] \notin Shared
  /\ occupied[c] + 1 <= (Capacity(c) \div 4) * 3
  /\ \A i \in DOMAIN Entries(c) : Entries(c)[i].key # s

UpdaterOf(t) ==
  /\ th[t].pc = "setmask" =>
       /\ th[t].mask + 1 \in Sizes /\ mask[th[t].cls] <= th[t].mask
       /\ buckets[th[t].cls] = Static => th[t].mask + 1 <= EmptyCapacity
       /\ buckets[th[t].cls] # Static => cap[buckets[th[t].cls]] = th[t].mask + 1
       /\ t \in reading => buckets[th[t].cls] \notin Shared
  /\ th[t].pc = "insert" \/ (th[t].pc = "look" /\ t \in reading) =>
       Ready(th[t].cls, th[t].sel)
  /\ th[t].pc = "setkey" =>
       LET c == th[t].cls
           E == Entries(c) IN
       /\ buckets[c] \notin Shared
       /\ th[t].i \in DOMAIN E /\ E[th[t].i] = Bucket(0, th[t].imp)
       /\ \A i \in DOMAIN E : E[i].key # th[t].sel
       /\ Reachable(c, th[t].sel, th[t].i)

-----------------------------------------------------------------------------
(* Answers                                                                 *)

(* The change of methods under way has yet to erase the cache of c.        *)
Flushing(c) == \E t \in Threads : writing = t /\ c \in th[t].todo

FreshIn(c) ==
  \A i \in DOMAIN Entries(c) :
    LET b == Entries(c)[i] IN
    b.key # 0 =>
      /\ initializer[c] = NoThread
      /\ \/ b.imp = Result(methods, <<c, b.key>>)
         \/ b.imp = Result(before, <<c, b.key>>) /\ Flushing(c)

Message(t) == <<th[t].sending, th[t].sel>>

AnswerOf(t) ==
  /\ th[t].sending # NoClass =>
       Result(methods, Message(t)) \in may[t] /\ Result(before, Message(t)) \in may[t]
  /\ t \in reading /\ th[t].pc \in Reading =>
       Result(methods, Message(t)) = Result(methods, <<th[t].cls, th[t].sel>>)
  /\ t \in reading /\ Scans(t) =>
       \A i \in DOMAIN slot[th[t].array] :
         LET b == slot[th[t].array][i] IN
         b.key = th[t].sel => b.imp = Result(methods, <<th[t].cls, th[t].sel>>)
  /\ t \notin reading /\ Scans(t) =>
       \A i \in DOMAIN slot[th[t].array] :
         LET b == slot[th[t].array][i] IN
         b.key = th[t].sel => b.imp \in may[t]
  /\ t \in reading /\ th[t].pc \in Updating => th[t].imp = Result(methods, Message(t))
  /\ t \in reading /\ th[t].pc \in Updating \ {"fill"} => initializer[th[t].sending] = NoThread
  /\ th[t].pc = "done" => th[t].imp \in may[t] /\ th[t].imp # NoImp

IInv ==
  /\ Types /\ Locks /\ Memory /\ ArraysOwnedOnce
  /\ \A c \in Classes : CacheOf(c) /\ FreshIn(c)
  /\ \A t \in Threads : MessageOf(t) /\ ReaderOf(t) /\ LooksOf(t) /\ UpdaterOf(t) /\ AnswerOf(t)

=============================================================================
