--------------------------- MODULE SideTableProof ---------------------------
(***************************************************************************)
(* Theorems about what a side table has: the reference counts, module      *)
(* RefCount, and the weak table, module WeakTable: first the one, then the *)
(* other, each from its own invariant.                                     *)
(*                                                                         *)
(* RefCount, for every set of threads, number of references and width of   *)
(* extra_rc: the invariant IInv of RefCountInv holds initially (InitIInv)  *)
(* and every action preserves it (one lemma per action, or per group of    *)
(* actions that change nothing but labels and the lock; one step per       *)
(* conjunct); the theorems follow from it.  The count itself is a          *)
(* cardinality, so that no step needs an induction: a reference that is    *)
(* acquired or dropped changes Cardinality(Strong) by one, and each action *)
(* moves the inline count, the side table's count or what is in transit to *)
(* match.                                                                  *)
(*                                                                         *)
(* WeakTable, for every set of objects, of locations and of pairs, every   *)
(* hash function and all sizes: what a hash table has and where a search   *)
(* finds it is proved once, for values with keys (AddSound, SearchFinds,   *)
(* EmptiedSound, ReplacedSound, and by induction on the slots that are     *)
(* moved, RefillSound); the referrers of an entry and the entries of the   *)
(* table are two such tables.  The pairs of the table, before and after an *)
(* operation, are the refinement of WeakPairs.                             *)
(***************************************************************************)
EXTENDS RefCountInv, WeakTableInv, FiniteSetTheorems, SequenceTheorems, WellFoundedInduction, TLAPS

-----------------------------------------------------------------------------
(* Counts and references                                                   *)

(* The side table holds a multiple of RC_HALF, so a borrow takes all of it. *)
LEMMA HalvesClosed ==
  ASSUME NEW n \in Halves
  PROVE  /\ n + RC_HALF \in Halves
         /\ n # 0 => n - RC_HALF \in Halves /\ n >= RC_HALF
<1>1. PICK k \in Nat : n = RC_HALF * k
  BY DEF Halves
<1>2. n + RC_HALF = RC_HALF * (k + 1) /\ k + 1 \in Nat
  BY <1>1, RefCountAssumption
<1>3. ASSUME n # 0
      PROVE  n - RC_HALF \in Halves /\ n >= RC_HALF
  <2>1. k # 0 /\ k - 1 \in Nat
    BY <1>1, <1>3, RefCountAssumption
  <2>2. n - RC_HALF = RC_HALF * (k - 1)
    BY <1>1, RefCountAssumption, <2>1
  <2>3. RC_HALF * (k - 1) \in Nat
    BY <2>1, RefCountAssumption
  <2> QED
    BY <2>1, <2>2, <2>3, <1>1, RefCountAssumption DEF Halves
<1> QED
  BY <1>2, <1>3 DEF Halves

(* The references are finitely many, and their number is a count.          *)
LEMMA StrongFinite ==
  /\ IsFiniteSet(Strong)
  /\ Cardinality(Strong) \in Nat
  /\ Cardinality(Strong) = 0 <=> Strong = {}
<1>1. IsFiniteSet(Strong)
  BY FS_Subset, RefCountAssumption DEF Strong
<1> QED
  BY <1>1, FS_CardinalityType, FS_EmptySet

(* A new reference in an empty slot adds one to their number.              *)
LEMMA AcquireCounts ==
  ASSUME TypeOK, NEW s \in Slots, NEW t \in Threads,
         slot[s] = NoThread, Acquire(s, t)
  PROVE  /\ Strong' # {}
         /\ Cardinality(Strong)' = Cardinality(Strong) + 1
         /\ slot' \in [Slots -> Threads \cup {NoThread}]
         /\ \A r \in Slots : r # s => slot'[r] = slot[r]
         /\ slot'[s] = t
<1>1. Strong' = Strong \cup {s} /\ s \notin Strong
  BY RefCountAssumption DEF Strong, Acquire, TypeOK
<1>2. Cardinality(Strong') = Cardinality(Strong) + 1
  BY <1>1, StrongFinite, FS_AddElement
<1> QED
  BY <1>1, <1>2 DEF TypeOK, Acquire

(* A reference that is given up takes one away.                            *)
LEMMA DropCounts ==
  ASSUME TypeOK, NEW s \in Slots, slot[s] # NoThread, Drop(s)
  PROVE  /\ Cardinality(Strong)' = Cardinality(Strong) - 1
         /\ Cardinality(Strong)' \in Nat
         /\ Strong' = {} <=> Cardinality(Strong)' = 0
         /\ slot' \in [Slots -> Threads \cup {NoThread}]
         /\ \A r \in Slots : r # s => slot'[r] = slot[r]
         /\ slot'[s] = NoThread
<1>1. Strong' = Strong \ {s} /\ s \in Strong
  BY RefCountAssumption DEF Strong, Drop, TypeOK
<1>2. Cardinality(Strong') = Cardinality(Strong) - 1 /\ IsFiniteSet(Strong')
  BY <1>1, StrongFinite, FS_RemoveElement
<1> QED
  BY <1>1, <1>2, FS_CardinalityType, FS_EmptySet DEF TypeOK, Drop

(* The sets of labels are expanded everywhere below.                       *)
USE DEF LockedLabels, UnlockedLabels, RetainLabels, ReleaseLabels, ChangeLabels,
        BorrowLabels, DeallocLabels

(* A thread that holds a reference may rely on the object being live.      *)
LiveFacts ==
  /\ Strong # {} /\ alive
  /\ 1 + isa.extra_rc + table.rc + InTransit = Cardinality(Strong)
  /\ ~isa.deallocating /\ ~table.deallocating
  /\ \A v \in Threads : pc[v] \notin DeallocLabels
  /\ weakVar => WeakMarked

(* An object someone holds a reference to is neither freed nor             *)
(* deallocating.                                                           *)
LEMMA OwnedIsLive ==
  ASSUME IInv, NEW t \in Threads, NEW s \in Slots, slot[s] = t
  PROVE  LiveFacts
<1>1. Strong # {}
  BY RefCountAssumption DEF Strong
<1> QED
  BY <1>1 DEF IInv, LiveInv, LiveFacts, Deallocating

(* A weak load that sees a live-looking object is looking at a live one.   *)
LEMMA LoadIsLive ==
  ASSUME IInv, NEW t \in Threads, trying[t],
         IF isa.nonpointer THEN ~isa.deallocating ELSE ~table.deallocating
  PROVE  LiveFacts
<1>1. weakVar /\ alive
  BY DEF IInv, LockInv, FreedInv
<1>2. Strong # {}
  BY <1>1 DEF IInv, TypeOK, FreedInv, Deallocating, DyingInv
<1> QED
  BY <1>2 DEF IInv, LiveInv, LiveFacts, Deallocating

(* isa.cls = newCls clears every field but the class.                      *)
LEMMA RawIsaFields ==
  ASSUME NEW c \in Classes
  PROVE  /\ RawIsa(c) \in Isas /\ ~RawIsa(c).nonpointer /\ RawIsa(c).cls = c
         /\ RawIsa(c).extra_rc = 0 /\ ~RawIsa(c).deallocating
         /\ ~RawIsa(c).weakly_referenced /\ ~RawIsa(c).has_sidetable_rc
<1>1. 0 \in 0..MAX_RC
  BY RefCountAssumption DEF MAX_RC
<1> QED
  BY <1>1 DEF RawIsa, NonpointerIsa, Isas

-----------------------------------------------------------------------------
(* Clients' calls preserve the invariant                                   *)

(* class_createInstance preserves the invariant: nothing of an earlier     *)
(* object at this address is left.                                         *)
LEMMA AllocPreserves ==
  ASSUME IInv, NEW t \in Threads, NEW s \in Slots, NEW c \in Classes,
         Alloc(t, s, c)
  PROVE  IInv'
<1> USE DEF Alloc, callVars
<1>freed. /\ Strong = {} /\ table = NoEntry /\ ~weakVar /\ ~Deallocating
          /\ \A v \in Threads : pc[v] \in {"idle", "unlock"} /\ ~trying[v]
  <2>1. Strong = {} /\ table = NoEntry /\ ~weakVar
    BY DEF IInv, LiveInv, FreedInv
  <2>2. \A v \in Threads : pc[v] \notin DeallocLabels /\ ~trying[v]
    BY <2>1 DEF IInv, DyingInv, LockInv
  <2>3. \A v \in Threads : ~Owns(v)
    BY <2>1, RefCountAssumption DEF Owns, Held, Strong
  <2> QED
    BY <2>1, <2>2, <2>3 DEF IInv, ArgInv, Deallocating
<1>isa. /\ isa' \in Isas /\ isa'.extra_rc = 0 /\ ~isa'.deallocating
        /\ ~isa'.has_sidetable_rc
        /\ ~isa'.nonpointer => isa' = RawIsa(isa'.cls)
  <2>1. 0 \in 0..MAX_RC
    BY RefCountAssumption DEF MAX_RC
  <2>2. NonpointerIsa(c) \in Isas
    BY <2>1 DEF NonpointerIsa, Isas
  <2>3. RawIsa(c) \in Isas /\ RawIsa(c).cls = c
    BY <2>1 DEF RawIsa, NonpointerIsa, Isas
  <2>4. CASE c \in RawClasses
    BY <2>3, <2>4 DEF RawIsa, NonpointerIsa
  <2>5. CASE c \notin RawClasses
    BY <2>2, <2>5 DEF NonpointerIsa
  <2> QED
    BY <2>4, <2>5
<1>acquire. /\ Strong' # {} /\ Cardinality(Strong)' = Cardinality(Strong) + 1
            /\ slot' \in [Slots -> Threads \cup {NoThread}]
  BY AcquireCounts DEF IInv, FreeSlots, Strong
<1>1. TypeOK'
  BY <1>isa, <1>acquire DEF IInv, TypeOK
<1>2. \A v \in Threads : LockInv(v)'
  BY DEF IInv, LockInv
<1>3. \A v \in Threads : ArgInv(v)'
  BY <1>freed DEF ArgInv
<1>4. \A v \in Threads : OldInv(v)'
  BY <1>freed DEF OldInv
<1>5. ArgsDiffer'
  BY DEF IInv, ArgsDiffer
<1>6. ShapeInv'
  <2>1. 0 \in Halves
    <3>1. 0 = RC_HALF * 0
      BY RefCountAssumption
    <3> QED
      BY <3>1 DEF Halves
  <2> QED
    BY <1>freed, <1>isa, <2>1 DEF ShapeInv, NoEntry, Halves
<1>7. LiveInv'
  <2>1. InTransit' = 0
    BY <1>freed, RefCountAssumption DEF IInv, TypeOK, InTransit, Carried
  <2>2. Cardinality(Strong) = 0
    BY <1>freed, StrongFinite
  <2> QED
    BY <1>freed, <1>isa, <1>acquire, <2>1, <2>2 DEF LiveInv, NoEntry,
         Deallocating
<1>8. DyingInv'
  BY <1>freed DEF DyingInv, Deallocating
<1>9. FreedInv'
  BY <1>acquire DEF FreedInv
<1> QED
  BY <1>1, <1>2, <1>3, <1>4, <1>5, <1>6, <1>7, <1>8, <1>9 DEF IInv

(* Handing a reference to another thread preserves the invariant.          *)
LEMMA GivePreserves ==
  ASSUME IInv, NEW t \in Threads, NEW s \in Slots, NEW u \in Threads,
         Give(t, s, u)
  PROVE  IInv'
<1> USE DEF Give, Acquire, callVars
<1>live. LiveFacts
  BY OwnedIsLive
<1>slot. Strong' = Strong /\ slot' \in [Slots -> Threads \cup {NoThread}]
  BY RefCountAssumption DEF IInv, TypeOK, Strong
<1>1. TypeOK'
  BY <1>slot DEF IInv, TypeOK
<1>2. \A v \in Threads : LockInv(v)'
  BY DEF IInv, LockInv
<1>3. \A v \in Threads : ArgInv(v)'
  BY RefCountAssumption DEF IInv, TypeOK, ArgInv, Owns, Held
<1>4. \A v \in Threads : OldInv(v)'
  BY DEF IInv, OldInv
<1>5. ArgsDiffer'
  BY DEF IInv, ArgsDiffer
<1>6. ShapeInv'
  BY DEF IInv, ShapeInv
<1>7. LiveInv'
  BY <1>slot DEF IInv, LiveInv, InTransit, Carried, Deallocating, WeakMarked
<1>8. DyingInv'
  BY <1>live DEF LiveFacts, DyingInv
<1>9. FreedInv'
  BY <1>live, <1>slot DEF LiveFacts, FreedInv
<1> QED
  BY <1>1, <1>2, <1>3, <1>4, <1>5, <1>6, <1>7, <1>8, <1>9 DEF IInv

(* Calling rootRetain preserves the invariant.                             *)
LEMMA CallRetainPreserves ==
  ASSUME IInv, NEW t \in Threads, NEW s \in Slots, CallRetain(t, s)
  PROVE  IInv'
<1> USE DEF CallRetain, Call, Goto, FreeSlots, Owns, objVars
<1>1. TypeOK'
  BY RefCountAssumption DEF IInv, TypeOK, Labels, Isas, Entries, MAX_RC
<1>2. \A v \in Threads : LockInv(v)'
  BY RefCountAssumption DEF IInv, TypeOK, LockInv
<1>3. \A v \in Threads : ArgInv(v)'
  BY RefCountAssumption DEF IInv, TypeOK, Strong, ArgInv, Owns, Held
<1>4. \A v \in Threads : OldInv(v)'
  BY RefCountAssumption DEF IInv, TypeOK, LockInv, OldInv, Transcribes
<1>5. ArgsDiffer'
  BY DEF IInv, TypeOK, ArgsDiffer
<1>6. ShapeInv'
  BY DEF IInv, TypeOK, ShapeInv, OldInv, RawIsa, NonpointerIsa, Isas
<1>7. LiveInv'
  BY RefCountAssumption DEF IInv, TypeOK, LockInv, OldInv, LiveInv, Strong,
       InTransit, Carried, Deallocating, WeakMarked
<1>8. DyingInv'
  BY DEF IInv, TypeOK, DyingInv, Strong, WeakMarked
<1>9. FreedInv'
  BY DEF IInv, TypeOK, FreedInv, Strong, Deallocating
<1> QED
  BY <1>1, <1>2, <1>3, <1>4, <1>5, <1>6, <1>7, <1>8, <1>9 DEF IInv

(* Calling objc_loadWeakRetained preserves the invariant.                  *)
LEMMA CallLoadWeakPreserves ==
  ASSUME IInv, NEW t \in Threads, NEW s \in Slots, CallLoadWeak(t, s)
  PROVE  IInv'
<1> USE DEF CallLoadWeak, Lock, Goto, FreeSlots, objVars
<1>1. TypeOK'
  BY RefCountAssumption DEF IInv, TypeOK, Labels, Isas, Entries, MAX_RC
<1>2. \A v \in Threads : LockInv(v)'
  BY RefCountAssumption DEF IInv, TypeOK, LockInv
<1>3. \A v \in Threads : ArgInv(v)'
  BY RefCountAssumption DEF IInv, TypeOK, Strong, ArgInv, Owns, Held
<1>4. \A v \in Threads : OldInv(v)'
  BY RefCountAssumption DEF IInv, TypeOK, LockInv, OldInv, Transcribes
<1>5. ArgsDiffer'
  BY DEF IInv, TypeOK, ArgsDiffer
<1>6. ShapeInv'
  BY DEF IInv, TypeOK, ShapeInv, OldInv, RawIsa, NonpointerIsa, Isas
<1>7. LiveInv'
  BY RefCountAssumption DEF IInv, TypeOK, LockInv, OldInv, LiveInv, Strong,
       InTransit, Carried, Deallocating, WeakMarked
<1>8. DyingInv'
  BY DEF IInv, TypeOK, DyingInv, Strong, WeakMarked
<1>9. FreedInv'
  BY DEF IInv, TypeOK, FreedInv, Strong, Deallocating
<1> QED
  BY <1>1, <1>2, <1>3, <1>4, <1>5, <1>6, <1>7, <1>8, <1>9 DEF IInv

(* Calling rootRelease preserves the invariant.                            *)
LEMMA CallReleasePreserves ==
  ASSUME IInv, NEW t \in Threads, NEW s \in Slots, CallRelease(t, s)
  PROVE  IInv'
<1> USE DEF CallRelease, Call, Goto, objVars
<1>1. TypeOK'
  BY RefCountAssumption DEF IInv, TypeOK, Labels, Isas, Entries
<1>2. \A v \in Threads : LockInv(v)' /\ ArgInv(v)'
  BY RefCountAssumption DEF IInv, TypeOK, LockInv, ArgInv, Owns, Held
<1>3. \A v \in Threads : OldInv(v)'
  BY RefCountAssumption DEF IInv, TypeOK, LockInv, OldInv, Transcribes
<1>4. LiveInv'
  BY RefCountAssumption DEF IInv, TypeOK, LockInv, OldInv, LiveInv, Strong,
       InTransit, Carried, Deallocating, WeakMarked
<1>5. ArgsDiffer' /\ ShapeInv' /\ DyingInv' /\ FreedInv'
  BY DEF IInv, TypeOK, ArgsDiffer, ShapeInv, Halves, DyingInv, FreedInv,
       Strong, WeakMarked, Deallocating
<1> QED
  BY <1>1, <1>2, <1>3, <1>4, <1>5 DEF IInv

(* Calling changeIsa preserves the invariant.                              *)
LEMMA CallChangeIsaPreserves ==
  ASSUME IInv, NEW t \in Threads, NEW c \in Classes, CallChangeIsa(t, c)
  PROVE  IInv'
<1> USE DEF CallChangeIsa, Call, Goto, objVars
<1>1. TypeOK'
  BY RefCountAssumption DEF IInv, TypeOK, Labels, Isas, Entries
<1>2. \A v \in Threads : LockInv(v)' /\ ArgInv(v)'
  BY RefCountAssumption DEF IInv, TypeOK, LockInv, ArgInv, Owns, Held
<1>3. \A v \in Threads : OldInv(v)'
  BY RefCountAssumption DEF IInv, TypeOK, LockInv, OldInv, Transcribes
<1>4. LiveInv'
  BY RefCountAssumption DEF IInv, TypeOK, LockInv, OldInv, LiveInv, Strong,
       InTransit, Carried, Deallocating, WeakMarked
<1>5. ArgsDiffer' /\ ShapeInv' /\ DyingInv' /\ FreedInv'
  BY DEF IInv, TypeOK, ArgsDiffer, ShapeInv, Halves, DyingInv, FreedInv,
       Strong, WeakMarked, Deallocating
<1> QED
  BY <1>1, <1>2, <1>3, <1>4, <1>5 DEF IInv

(* Storing the object in the weak variable preserves the invariant.        *)
LEMMA CallStoreWeakPreserves ==
  ASSUME IInv, NEW t \in Threads, CallStoreWeak(t)
  PROVE  IInv'
<1> USE DEF CallStoreWeak, Call, Goto, Lock
<1>live. LiveFacts
  BY OwnedIsLive DEF Owns, Held
<1>1. TypeOK'
  BY RefCountAssumption DEF IInv, TypeOK, Labels, Isas, Entries, MAX_RC
<1>2. \A v \in Threads : LockInv(v)'
  BY RefCountAssumption DEF IInv, TypeOK, LockInv
<1>3. \A v \in Threads : ArgInv(v)'
  BY RefCountAssumption DEF IInv, TypeOK, ArgInv, Owns, Held
<1>4. \A v \in Threads : OldInv(v)'
  BY RefCountAssumption DEF IInv, TypeOK, LockInv, OldInv, Transcribes
<1>5. ArgsDiffer'
  BY DEF IInv, TypeOK, ArgsDiffer
<1>6. ShapeInv'
  BY DEF IInv, TypeOK, ShapeInv, OldInv, RawIsa, NonpointerIsa, Isas
<1>7. LiveInv'
  BY RefCountAssumption DEF IInv, TypeOK, LockInv, OldInv, LiveInv, Strong,
       InTransit, Carried, Deallocating, WeakMarked
<1>8. DyingInv'
  BY <1>live DEF IInv, TypeOK, LiveFacts, DyingInv
<1>9. FreedInv'
  BY <1>live DEF LiveFacts, FreedInv, Strong
<1> QED
  BY <1>1, <1>2, <1>3, <1>4, <1>5, <1>6, <1>7, <1>8, <1>9 DEF IInv

-----------------------------------------------------------------------------
(* rootRetain preserves it                                                 *)

(* The load of rootRetain preserves the invariant, and so do its early     *)
(* returns.                                                                *)
LEMMA RetainLoadPreserves ==
  ASSUME IInv, NEW t \in Threads, RetainLoad(t)
  PROVE  IInv'
<1> USE DEF RetainLoad, Goto, LoadExclusive, Return, Finish, UnlockIfHeld, objVars,
            callVars
<1>1. TypeOK'
  <2>1. pc' \in [Threads -> Labels] /\ lock' \in Threads \cup {NoThread}
    BY DEF IInv, TypeOK, Labels
  <2>2. /\ old' \in [Threads -> Isas \cup {NoIsa}]
        /\ arg' \in [Threads -> Slots \cup Classes \cup {NoArg}]
        /\ trying' \in [Threads -> BOOLEAN]
    BY DEF IInv, TypeOK
  <2> QED
    BY <2>1, <2>2 DEF IInv, TypeOK
<1>2. \A v \in Threads : LockInv(v)'
  BY RefCountAssumption DEF IInv, TypeOK, LockInv
<1>3. \A v \in Threads : ArgInv(v)'
  BY RefCountAssumption DEF IInv, TypeOK, ArgInv, Owns, Held
<1>4. \A v \in Threads : OldInv(v)'
  BY RefCountAssumption DEF IInv, TypeOK, LockInv, OldInv, Transcribes
<1>5. ArgsDiffer'
  BY DEF IInv, TypeOK, ArgsDiffer
<1>6. ShapeInv'
  BY DEF IInv, TypeOK, ShapeInv, OldInv, RawIsa, NonpointerIsa, Isas
<1>7. LiveInv'
  BY RefCountAssumption DEF IInv, TypeOK, LockInv, OldInv, LiveInv, Strong,
       InTransit, Carried, Deallocating, WeakMarked
<1>8. DyingInv'
  BY DEF IInv, TypeOK, DyingInv, Strong, WeakMarked
<1>9. FreedInv'
  BY DEF IInv, TypeOK, FreedInv, Strong, Deallocating
<1> QED
  BY <1>1, <1>2, <1>3, <1>4, <1>5, <1>6, <1>7, <1>8, <1>9 DEF IInv

(* The store of rootRetain preserves the invariant, both the plain         *)
(* increment and the one that leaves RC_HALF inline on overflow.           *)
LEMMA RetainStorePreserves ==
  ASSUME IInv, NEW t \in Threads, RetainStore(t)
  PROVE  IInv'
<1> USE DEF RetainStore, StoreExclusive, Return, Finish, Goto, callVars
<1>live. LiveFacts
  <2>1. CASE trying[t]
    BY <2>1, LoadIsLive DEF IInv, OldInv
  <2>2. CASE ~trying[t]
    BY <2>2, OwnedIsLive DEF IInv, TypeOK, ArgInv, Owns, Held
  <2> QED
    BY <2>1, <2>2
<1> DEFINE Plain == /\ isa.extra_rc < MAX_RC
                    /\ isa' = [isa EXCEPT !.extra_rc = isa.extra_rc + 1]
                    /\ pc' \in [Threads -> Labels] /\ pc'[t] \in {"idle", "unlock"}
           Full  == /\ isa.extra_rc = MAX_RC /\ lock = t
                    /\ isa' = [isa EXCEPT !.extra_rc = RC_HALF, !.has_sidetable_rc = TRUE]
                    /\ pc' \in [Threads -> Labels] /\ pc'[t] = "retainMove"
<1>isa. isa' \in Isas /\ (Plain \/ Full)
  <2>1. CASE old[t].extra_rc < MAX_RC
    BY <2>1, RefCountAssumption DEF IInv, TypeOK, OldInv, Isas, MAX_RC,
         Incremented, Labels
  <2>2. CASE old[t].extra_rc = MAX_RC
    <3>3. RC_HALF \in 0..MAX_RC /\ ~(MAX_RC < MAX_RC)
      BY RefCountAssumption DEF MAX_RC
    <3>1. /\ isa = old[t] /\ isa' = Overflowed(old[t])
          /\ pc' = [pc EXCEPT ![t] = "retainMove"]
      BY <2>2, <3>3
    <3>2. lock = t /\ pc'[t] = "retainMove" /\ pc' \in [Threads -> Labels]
      BY <2>2, <3>1 DEF IInv, TypeOK, OldInv, Labels
    <3> QED
      BY <2>2, <3>1, <3>2, <3>3 DEF IInv, TypeOK, Isas, Overflowed
  <2> QED
    BY <2>1, <2>2
<1>same. /\ isa.nonpointer /\ isa'.nonpointer /\ isa'.deallocating = isa.deallocating
         /\ isa'.weakly_referenced = isa.weakly_referenced
         /\ isa.has_sidetable_rc => isa'.has_sidetable_rc
  BY <1>isa DEF IInv, TypeOK, OldInv, Isas
<1>acquire. /\ Strong' # {} /\ Cardinality(Strong)' = Cardinality(Strong) + 1
            /\ slot' \in [Slots -> Threads \cup {NoThread}]
            /\ arg[t] \in Slots
  BY AcquireCounts DEF IInv, ArgInv
<1>moved. /\ isa'.extra_rc + InTransit' = isa.extra_rc + InTransit + 1
          /\ InTransit' \in Nat /\ InTransit \in Nat
  <2>1. CASE Plain
    <3>1. isa'.extra_rc = isa.extra_rc + 1 /\ isa.extra_rc \in Nat
      BY <2>1 DEF IInv, TypeOK, Isas
    <3>2. InTransit' = InTransit /\ InTransit \in Nat
      BY <2>1, RefCountAssumption DEF IInv, TypeOK, LockInv, OldInv,
           InTransit, Carried, Isas
    <3> QED
      BY <3>1, <3>2
  <2>2. CASE Full
    BY <2>2, <1>isa, RefCountAssumption DEF IInv, TypeOK, LockInv, OldInv,
         InTransit, Carried, Isas, MAX_RC
  <2> QED
    BY <1>isa, <2>1, <2>2
<1>1. TypeOK'
  BY <1>isa, <1>acquire DEF IInv, TypeOK
<1>2. \A v \in Threads : LockInv(v)'
  BY <1>isa, RefCountAssumption DEF IInv, TypeOK, LockInv
<1>3. \A v \in Threads : ArgInv(v)'
  <2>1. \A v \in Threads \ {t} : ArgInv(v)'
    BY <1>acquire, RefCountAssumption DEF IInv, TypeOK, Acquire, ArgsDiffer,
         ArgInv, Owns, Held
  <2>2. ArgInv(t)'
    BY <1>isa, <1>acquire DEF IInv, TypeOK, Acquire, ArgInv, Owns, Held
  <2> QED
    BY <2>1, <2>2
<1>4. \A v \in Threads : OldInv(v)'
  <2>1. \A v \in Threads \ {t} : OldInv(v)'
    BY <1>same DEF IInv, TypeOK, OldInv, Transcribes
  <2>2. OldInv(t)'
    <3>1. pc'[t] = "retainMove" => isa'.nonpointer /\ isa'.has_sidetable_rc
      BY <1>isa, <1>same DEF IInv, TypeOK, Isas
    <3> QED
      BY <1>isa, <3>1 DEF OldInv
  <2> QED
    BY <2>1, <2>2
<1>5. ArgsDiffer'
  BY DEF IInv, TypeOK, ArgsDiffer
<1>6. ShapeInv'
  BY <1>isa, <1>same DEF IInv, TypeOK, ShapeInv, Isas
<1>7. LiveInv'
  <2>1. 1 + isa'.extra_rc + table'.rc + InTransit' = Cardinality(Strong)'
    <3>1. isa.extra_rc \in Nat /\ isa'.extra_rc \in Nat /\ table.rc \in Nat /\ table' = table
      BY <1>isa DEF IInv, TypeOK, Isas, Entries
    <3> QED
      BY <1>live, <1>acquire, <1>moved, <3>1 DEF LiveFacts
  <2>2. weakVar' => WeakMarked'
    BY <1>live, <1>isa, <1>same DEF LiveFacts, WeakMarked, IInv, TypeOK
  <2>3. ~Deallocating'
    BY <1>live, <1>isa DEF LiveFacts, Deallocating, IInv, TypeOK
  <2> QED
    BY <1>live, <1>same, <2>1, <2>2, <2>3 DEF LiveFacts, LiveInv
<1>8. DyingInv'
  BY <1>live, <1>isa DEF IInv, TypeOK, LiveFacts, DyingInv
<1>9. FreedInv'
  BY <1>live, <1>acquire DEF LiveFacts, FreedInv
<1> QED
  BY <1>1, <1>2, <1>3, <1>4, <1>5, <1>6, <1>7, <1>8, <1>9 DEF IInv

(* sidetable_addExtraRC_nolock of RC_HALF preserves the invariant: the     *)
(* references between the two counts reach the side table.                 *)
LEMMA RetainMovePreserves ==
  ASSUME IInv, NEW t \in Threads, RetainMove(t)
  PROVE  IInv'
<1> USE DEF RetainMove, AddExtraRC, Return, Finish, Goto, callVars
<1>live. LiveFacts
  BY OwnedIsLive DEF IInv, TypeOK, ArgInv, Owns, Held
<1>lock. lock = t /\ lock' = lock /\ isa.nonpointer /\ isa.has_sidetable_rc
  BY DEF IInv, LockInv, OldInv
<1>table. /\ table.rc \in Nat /\ table.rc \in Halves /\ table'.rc = table.rc + RC_HALF
          /\ table' \in Entries /\ table'.rc \in Halves
          /\ table'.deallocating = table.deallocating
          /\ table'.weakly_referenced = table.weakly_referenced
  BY <1>lock, HalvesClosed, RefCountAssumption DEF IInv, TypeOK, ShapeInv,
       Entries
<1>moved. InTransit = RC_HALF /\ InTransit' = 0
  BY <1>lock, RefCountAssumption DEF IInv, TypeOK, InTransit, Carried
<1>1. TypeOK'
  BY <1>table, RefCountAssumption DEF IInv, TypeOK, Labels
<1>2. \A v \in Threads : LockInv(v)'
  BY RefCountAssumption DEF IInv, TypeOK, LockInv
<1>3. \A v \in Threads : ArgInv(v)'
  BY DEF IInv, TypeOK, ArgInv, Owns, Held
<1>4. \A v \in Threads : OldInv(v)'
  BY <1>lock, RefCountAssumption DEF IInv, TypeOK, LockInv, OldInv, Transcribes
<1>5. ArgsDiffer'
  BY DEF IInv, TypeOK, ArgsDiffer
<1>6. ShapeInv'
  BY <1>lock, <1>table DEF IInv, ShapeInv, RawIsa, NonpointerIsa, Halves
<1>7. LiveInv'
  <2>1. 1 + isa'.extra_rc + table'.rc + InTransit' = Cardinality(Strong)'
    BY <1>live, <1>table, <1>moved, RefCountAssumption DEF IInv, TypeOK,
         LiveFacts, Isas, Strong
  <2>2. weakVar' => WeakMarked'
    BY <1>live, <1>table, <1>lock DEF IInv, TypeOK, LiveFacts, WeakMarked
  <2>3. ~Deallocating'
    BY <1>live DEF IInv, TypeOK, LiveFacts, Deallocating
  <2> QED
    BY <1>live, <1>table, <2>1, <2>2, <2>3 DEF LiveFacts, LiveInv
<1>8. DyingInv'
  BY <1>live DEF IInv, TypeOK, LiveFacts, DyingInv
<1>9. FreedInv'
  BY <1>live DEF LiveFacts, FreedInv, Strong
<1> QED
  BY <1>1, <1>2, <1>3, <1>4, <1>5, <1>6, <1>7, <1>8, <1>9 DEF IInv

(* sidetable_retain and sidetable_tryRetain preserve the invariant.        *)
LEMMA SidetableRetainPreserves ==
  ASSUME IInv, NEW t \in Threads, SidetableRetain(t)
  PROVE  IInv'
<1> USE DEF SidetableRetain, AddExtraRC, Return, Finish, Goto
<1>pc. /\ pc' \in [Threads -> Labels] /\ pc'[t] \in {"idle", "unlock"}
       /\ pc'[t] = "unlock" <=> lock = t
       /\ \A v \in Threads \ {t} : 
             pc'[v] = pc[v] /\ arg'[v] = arg[v] /\ trying'[v] = trying[v] /\ old'[v] = old[v]
       /\ ~trying'[t]
       /\ old' \in [Threads -> Isas \cup {NoIsa}]
       /\ arg' \in [Threads -> Slots \cup Classes \cup {NoArg}]
       /\ trying' \in [Threads -> BOOLEAN]
  BY DEF IInv, TypeOK, Labels
<1>raw. ~isa.nonpointer /\ arg[t] \in Slots /\ slot[arg[t]] = NoThread
         /\ (lock = NoThread \/ lock = t)
  BY DEF IInv, OldInv, ArgInv
<1>2. \A v \in Threads : LockInv(v)'
  BY <1>pc DEF IInv, LockInv
<1>5. ArgsDiffer'
  BY <1>pc DEF IInv, ArgsDiffer
<1>moved. InTransit' = InTransit
  BY <1>pc, <1>raw, RefCountAssumption DEF InTransit, Carried
<1>a. CASE trying[t] /\ table.deallocating
  <2>1. UNCHANGED <<table, slot>>
    BY <1>a
  <2>3. \A v \in Threads : ArgInv(v)'
    BY <1>pc, <2>1 DEF IInv, ArgInv, Owns, Held
  <2>4. \A v \in Threads : OldInv(v)'
    BY <1>pc, <2>1 DEF IInv, OldInv
  <2>7. LiveInv'
    BY <1>pc, <2>1, <1>moved DEF IInv, LiveInv, Strong, Deallocating,
         WeakMarked
  <2>8. DyingInv'
    BY <1>pc, <2>1 DEF IInv, DyingInv, Strong, WeakMarked
  <2>9. FreedInv'
    BY <1>pc, <2>1 DEF IInv, FreedInv, Strong, Deallocating
  <2> QED
    BY <1>pc, <1>2, <1>5, <2>1, <2>3, <2>4, <2>7, <2>8, <2>9 DEF IInv, TypeOK,
         ShapeInv, Halves
<1>b. CASE ~(trying[t] /\ table.deallocating)
  <2>live. LiveFacts
    <3>1. CASE trying[t]
      BY <3>1, <1>b, <1>raw, LoadIsLive
    <3>2. CASE ~trying[t]
      BY <3>2, OwnedIsLive DEF IInv, TypeOK, ArgInv, Owns, Held
    <3> QED
      BY <3>1, <3>2
  <2>table. /\ table' \in Entries /\ table.rc \in Nat /\ table'.rc = table.rc + 1
            /\ table'.deallocating = table.deallocating
            /\ table'.weakly_referenced = table.weakly_referenced
    BY <1>b DEF IInv, TypeOK, Entries
  <2>acquire. /\ Acquire(arg[t], t)
              /\ Strong' # {} /\ Cardinality(Strong)' = Cardinality(Strong) + 1
              /\ slot' \in [Slots -> Threads \cup {NoThread}]
    BY <1>b, <1>raw, AcquireCounts DEF IInv
  <2>1. TypeOK'
    BY <1>pc, <2>table, <2>acquire DEF IInv, TypeOK
  <2>3. \A v \in Threads : ArgInv(v)'
    BY <1>pc, <1>raw, <2>acquire, RefCountAssumption DEF IInv, TypeOK,
         Acquire, ArgsDiffer, ArgInv, Owns, Held
  <2>4. \A v \in Threads : OldInv(v)'
    BY <1>pc, <1>raw, <2>table, RefCountAssumption DEF IInv, OldInv
  <2>6. ShapeInv'
    BY <1>raw DEF IInv, ShapeInv, RawIsa, NonpointerIsa
  <2>7. LiveInv'
    <3>1. 1 + isa'.extra_rc + table'.rc + InTransit' = Cardinality(Strong)'
      <4>1. isa.extra_rc \in Nat /\ InTransit \in Nat
        BY RefCountAssumption DEF IInv, TypeOK, OldInv, InTransit, Carried,
             Isas, MAX_RC
      <4> QED
        BY <2>live, <2>table, <2>acquire, <1>moved, <4>1 DEF LiveFacts
    <3>2. weakVar' => WeakMarked'
      BY <2>live, <2>table, <1>pc DEF LiveFacts, WeakMarked
    <3>3. ~Deallocating'
      BY <2>live, <1>pc DEF LiveFacts, Deallocating
    <3> QED
      BY <2>live, <2>table, <3>1, <3>2, <3>3 DEF LiveFacts, LiveInv
  <2>8. DyingInv'
    BY <2>live, <1>pc DEF LiveFacts, DyingInv
  <2>9. FreedInv'
    BY <2>live, <2>acquire DEF LiveFacts, FreedInv
  <2> QED
    BY <1>2, <1>5, <2>1, <2>3, <2>4, <2>6, <2>7, <2>8, <2>9 DEF IInv
<1> QED
  BY <1>a, <1>b

-----------------------------------------------------------------------------
(* rootRelease preserves it                                                *)

(* The load of rootRelease preserves the invariant.                        *)
LEMMA ReleaseLoadPreserves ==
  ASSUME IInv, NEW t \in Threads, ReleaseLoad(t)
  PROVE  IInv'
<1> USE DEF ReleaseLoad, Goto, LoadExclusive, UnlockIfHeld, objVars, callVars
<1>live. LiveFacts
  BY OwnedIsLive DEF IInv, ArgInv
<1>1. TypeOK'
  BY RefCountAssumption DEF IInv, TypeOK, Labels, Isas, Entries, MAX_RC
<1>2. \A v \in Threads : LockInv(v)'
  BY RefCountAssumption DEF IInv, TypeOK, LockInv
<1>3. \A v \in Threads : ArgInv(v)'
  BY RefCountAssumption DEF IInv, TypeOK, ArgInv, Owns, Held
<1>4. \A v \in Threads : OldInv(v)'
  BY <1>live, RefCountAssumption DEF LiveFacts, IInv, TypeOK, LockInv, OldInv,
       Transcribes, Isas
<1>5. ArgsDiffer'
  BY DEF IInv, TypeOK, ArgsDiffer
<1>6. ShapeInv'
  BY DEF IInv, TypeOK, ShapeInv, OldInv, RawIsa, NonpointerIsa, Isas
<1>7. LiveInv'
  BY RefCountAssumption DEF IInv, TypeOK, LockInv, OldInv, LiveInv, Strong,
       InTransit, Carried, Deallocating, WeakMarked
<1>8. DyingInv'
  BY DEF IInv, TypeOK, DyingInv, Strong, WeakMarked
<1>9. FreedInv'
  BY DEF IInv, TypeOK, FreedInv, Strong, Deallocating
<1> QED
  BY <1>1, <1>2, <1>3, <1>4, <1>5, <1>6, <1>7, <1>8, <1>9 DEF IInv

(* The store of rootRelease preserves the invariant.                       *)
LEMMA ReleaseStorePreserves ==
  ASSUME IInv, NEW t \in Threads, ReleaseStore(t)
  PROVE  IInv'
<1> USE DEF ReleaseStore, StoreExclusive, Return, Finish, Goto
<1>live. LiveFacts
  BY OwnedIsLive DEF IInv, ArgInv
<1>isa. /\ isa' \in Isas /\ isa' = [isa EXCEPT !.extra_rc = @ - 1]
        /\ isa.extra_rc > 0 /\ isa'.extra_rc = isa.extra_rc - 1
  BY RefCountAssumption DEF IInv, TypeOK, OldInv, Isas, MAX_RC
<1>drop. /\ Cardinality(Strong)' = Cardinality(Strong) - 1
         /\ Strong' = {} <=> Cardinality(Strong)' = 0
         /\ slot' \in [Slots -> Threads \cup {NoThread}]
  BY DropCounts, RefCountAssumption DEF IInv, ArgInv
<1>moved. InTransit' = InTransit /\ InTransit \in Nat
  BY RefCountAssumption DEF IInv, TypeOK, LockInv, OldInv, InTransit, Carried,
       Isas, MAX_RC
<1>strong. Strong' # {}
  BY <1>live, <1>isa, <1>drop, <1>moved DEF LiveFacts, IInv, TypeOK, Isas,
       Entries
<1>1. TypeOK'
  BY <1>isa, <1>drop, RefCountAssumption DEF IInv, TypeOK, Labels
<1>2. \A v \in Threads : LockInv(v)'
  BY RefCountAssumption DEF IInv, TypeOK, LockInv
<1>3. \A v \in Threads : ArgInv(v)'
  BY RefCountAssumption DEF IInv, TypeOK, Drop, ArgInv, Owns, Held
<1>4. \A v \in Threads : OldInv(v)'
  BY RefCountAssumption DEF IInv, TypeOK, LockInv, OldInv, Transcribes
<1>5. ArgsDiffer'
  BY DEF IInv, TypeOK, ArgsDiffer
<1>6. ShapeInv'
  BY <1>isa DEF IInv, TypeOK, ShapeInv, OldInv, Isas, RawIsa, NonpointerIsa
<1>7. LiveInv'
  BY <1>live, <1>isa, <1>drop, <1>moved DEF IInv, TypeOK, LiveFacts, LiveInv,
       WeakMarked, Deallocating, Isas, Entries
<1>8. DyingInv'
  BY <1>live DEF IInv, TypeOK, LiveFacts, DyingInv
<1>9. FreedInv'
  BY <1>live, <1>strong DEF LiveFacts, FreedInv
<1> QED
  BY <1>1, <1>2, <1>3, <1>4, <1>5, <1>6, <1>7, <1>8, <1>9 DEF IInv

(* sidetable_subExtraRC_nolock preserves the invariant: what it takes from *)
(* the side table is on its way to the isa.                                *)
LEMMA BorrowPreserves ==
  ASSUME IInv, NEW t \in Threads, Borrow(t)
  PROVE  IInv'
<1> USE DEF Borrow, AddExtraRC, Return, Finish, Goto, callVars
<1>live. LiveFacts
  BY OwnedIsLive DEF IInv, TypeOK, ArgInv, Owns, Held
<1>lock. lock = t /\ lock' = lock /\ isa.nonpointer /\ isa.has_sidetable_rc
  BY DEF IInv, LockInv, OldInv
<1>table. /\ table.rc \in Nat /\ table.rc \in Halves /\ table'.rc + InTransit' = table.rc
          /\ table' \in Entries /\ table'.rc \in Halves
          /\ table'.deallocating = table.deallocating
          /\ table'.weakly_referenced = table.weakly_referenced
  <2>1. CASE table.rc = 0
    BY <1>lock, <2>1 DEF IInv, TypeOK, ShapeInv, Entries, InTransit, Carried
  <2>2. CASE table.rc # 0
    <3>1. /\ table.rc - RC_HALF \in Halves /\ table.rc >= RC_HALF
          /\ table.rc \in Nat /\ table.rc \in Halves
      BY <1>lock, <2>2, HalvesClosed DEF IInv, TypeOK, ShapeInv, Entries
    <3>2. table' = [table EXCEPT !.rc = @ - RC_HALF]
      BY <2>2, RefCountAssumption, <3>1 DEF IInv, TypeOK, Entries
    <3>3. InTransit' = RC_HALF
      <4>1. pc'[t] = "borrowStore"
        BY <2>2 DEF IInv, TypeOK
      <4> QED
        BY <1>lock, <4>1, RefCountAssumption DEF InTransit, Carried
    <3> QED
      BY <3>1, <3>2, <3>3, RefCountAssumption DEF IInv, TypeOK, Entries
  <2> QED
    BY <2>1, <2>2
<1>moved. InTransit = 0 /\ InTransit' \in Nat
  BY <1>lock, RefCountAssumption DEF IInv, TypeOK, InTransit, Carried
<1>1. TypeOK'
  BY <1>table, RefCountAssumption DEF IInv, TypeOK, Labels
<1>2. \A v \in Threads : LockInv(v)'
  BY RefCountAssumption DEF IInv, TypeOK, LockInv
<1>3. \A v \in Threads : ArgInv(v)'
  BY DEF IInv, TypeOK, ArgInv, Owns, Held
<1>4. \A v \in Threads : OldInv(v)'
  BY <1>lock, RefCountAssumption DEF IInv, TypeOK, LockInv, OldInv, Transcribes
<1>5. ArgsDiffer'
  BY DEF IInv, TypeOK, ArgsDiffer
<1>6. ShapeInv'
  BY <1>lock, <1>table DEF IInv, ShapeInv, RawIsa, NonpointerIsa, Halves
<1>7. LiveInv'
  <2>1. 1 + isa'.extra_rc + table'.rc + InTransit' = Cardinality(Strong)'
    BY <1>live, <1>table, <1>moved, RefCountAssumption DEF IInv, TypeOK,
         LiveFacts, Isas, Entries, Strong
  <2>2. weakVar' => WeakMarked'
    BY <1>live, <1>table, <1>lock DEF IInv, TypeOK, LiveFacts, WeakMarked
  <2>3. ~Deallocating'
    BY <1>live DEF IInv, TypeOK, LiveFacts, Deallocating
  <2> QED
    BY <1>live, <1>table, <2>1, <2>2, <2>3 DEF LiveFacts, LiveInv
<1>8. DyingInv'
  BY <1>live DEF IInv, TypeOK, LiveFacts, DyingInv
<1>9. FreedInv'
  BY <1>live DEF LiveFacts, FreedInv, Strong
<1> QED
  BY <1>1, <1>2, <1>3, <1>4, <1>5, <1>6, <1>7, <1>8, <1>9 DEF IInv

(* Storing the borrowed count in the isa preserves the invariant.          *)
LEMMA BorrowStorePreserves ==
  ASSUME IInv, NEW t \in Threads, BorrowStore(t)
  PROVE  IInv'
<1> USE DEF BorrowStore, StoreExclusive, Return, Finish, Goto
<1>live. LiveFacts
  BY OwnedIsLive DEF IInv, ArgInv
<1>isa. /\ isa' \in Isas /\ isa' = [isa EXCEPT !.extra_rc = RC_HALF - 1]
        /\ isa'.extra_rc = RC_HALF - 1 /\ isa.extra_rc = 0 /\ lock = t
  BY RefCountAssumption DEF IInv, TypeOK, LockInv, OldInv, Isas, MAX_RC
<1>drop. /\ Cardinality(Strong)' = Cardinality(Strong) - 1
         /\ Strong' = {} <=> Cardinality(Strong)' = 0
         /\ slot' \in [Slots -> Threads \cup {NoThread}]
  BY DropCounts, RefCountAssumption DEF IInv, ArgInv
<1>moved. InTransit = RC_HALF /\ InTransit' = 0
  BY <1>isa, RefCountAssumption DEF IInv, TypeOK, InTransit, Carried
<1>strong. Strong' # {}
  BY RefCountAssumption, <1>live, <1>isa, <1>drop, <1>moved DEF LiveFacts,
       IInv, TypeOK, Isas, Entries
<1>1. TypeOK'
  BY <1>isa, <1>drop, RefCountAssumption DEF IInv, TypeOK, Labels
<1>2. \A v \in Threads : LockInv(v)'
  BY RefCountAssumption DEF IInv, TypeOK, LockInv
<1>3. \A v \in Threads : ArgInv(v)'
  BY RefCountAssumption DEF IInv, TypeOK, Drop, ArgInv, Owns, Held
<1>4. \A v \in Threads : OldInv(v)'
  BY RefCountAssumption DEF IInv, TypeOK, LockInv, OldInv, Transcribes
<1>5. ArgsDiffer'
  BY DEF IInv, TypeOK, ArgsDiffer
<1>6. ShapeInv'
  BY <1>isa DEF IInv, TypeOK, ShapeInv, OldInv, Isas, RawIsa, NonpointerIsa
<1>7. LiveInv'
  BY RefCountAssumption, <1>live, <1>isa, <1>drop, <1>moved DEF IInv, TypeOK,
       LiveFacts, LiveInv, WeakMarked, Deallocating, Isas, Entries
<1>8. DyingInv'
  BY <1>live DEF IInv, TypeOK, LiveFacts, DyingInv
<1>9. FreedInv'
  BY <1>live, <1>strong DEF LiveFacts, FreedInv
<1> QED
  BY <1>1, <1>2, <1>3, <1>4, <1>5, <1>6, <1>7, <1>8, <1>9 DEF IInv

(* The second attempt to store what was borrowed, after a failed one,      *)
(* preserves the invariant.                                                *)
LEMMA BorrowRestorePreserves ==
  ASSUME IInv, NEW t \in Threads, BorrowRestore(t)
  PROVE  IInv'
<1> USE DEF BorrowRestore, StoreExclusive, Return, Finish, Goto
<1>live. LiveFacts
  BY OwnedIsLive DEF IInv, ArgInv
<1>isa. /\ isa' \in Isas /\ isa' = [isa EXCEPT !.extra_rc = isa.extra_rc + RC_HALF - 1]
        /\ isa'.extra_rc = isa.extra_rc + RC_HALF - 1 /\ isa.extra_rc \in Nat /\ lock = t
  BY RefCountAssumption DEF IInv, TypeOK, LockInv, OldInv, Isas, MAX_RC
<1>drop. /\ Cardinality(Strong)' = Cardinality(Strong) - 1
         /\ Strong' = {} <=> Cardinality(Strong)' = 0
         /\ slot' \in [Slots -> Threads \cup {NoThread}]
  BY DropCounts, RefCountAssumption DEF IInv, ArgInv
<1>moved. InTransit = RC_HALF /\ InTransit' = 0
  BY <1>isa, RefCountAssumption DEF IInv, TypeOK, InTransit, Carried
<1>strong. Strong' # {}
  BY RefCountAssumption, <1>live, <1>isa, <1>drop, <1>moved DEF LiveFacts,
       IInv, TypeOK, Isas, Entries
<1>1. TypeOK'
  BY <1>isa, <1>drop, RefCountAssumption DEF IInv, TypeOK, Labels
<1>2. \A v \in Threads : LockInv(v)'
  BY RefCountAssumption DEF IInv, TypeOK, LockInv
<1>3. \A v \in Threads : ArgInv(v)'
  BY RefCountAssumption DEF IInv, TypeOK, Drop, ArgInv, Owns, Held
<1>4. \A v \in Threads : OldInv(v)'
  BY RefCountAssumption DEF IInv, TypeOK, LockInv, OldInv, Transcribes
<1>5. ArgsDiffer'
  BY DEF IInv, TypeOK, ArgsDiffer
<1>6. ShapeInv'
  BY <1>isa DEF IInv, TypeOK, ShapeInv, OldInv, Isas, RawIsa, NonpointerIsa
<1>7. LiveInv'
  BY RefCountAssumption, <1>live, <1>isa, <1>drop, <1>moved DEF IInv, TypeOK,
       LiveFacts, LiveInv, WeakMarked, Deallocating, Isas, Entries
<1>8. DyingInv'
  BY <1>live DEF IInv, TypeOK, LiveFacts, DyingInv
<1>9. FreedInv'
  BY <1>live, <1>strong DEF LiveFacts, FreedInv
<1> QED
  BY <1>1, <1>2, <1>3, <1>4, <1>5, <1>6, <1>7, <1>8, <1>9 DEF IInv

(* Returning a borrow to the side table before a retry preserves it.       *)
LEMMA PutBackPreserves ==
  ASSUME IInv, NEW t \in Threads, PutBack(t)
  PROVE  IInv'
<1> USE DEF PutBack, AddExtraRC, Return, Finish, Goto, callVars
<1>live. LiveFacts
  BY OwnedIsLive DEF IInv, TypeOK, ArgInv, Owns, Held
<1>lock. lock = t /\ lock' = lock /\ isa.nonpointer /\ isa.has_sidetable_rc
  BY DEF IInv, LockInv, OldInv
<1>table. /\ table.rc \in Nat /\ table.rc \in Halves /\ table'.rc = table.rc + RC_HALF
          /\ table' \in Entries /\ table'.rc \in Halves
          /\ table'.deallocating = table.deallocating
          /\ table'.weakly_referenced = table.weakly_referenced
  BY <1>lock, HalvesClosed, RefCountAssumption DEF IInv, TypeOK, ShapeInv,
       Entries
<1>moved. InTransit = RC_HALF /\ InTransit' = 0
  BY <1>lock, RefCountAssumption DEF IInv, TypeOK, InTransit, Carried
<1>1. TypeOK'
  BY <1>table, RefCountAssumption DEF IInv, TypeOK, Labels
<1>2. \A v \in Threads : LockInv(v)'
  BY RefCountAssumption DEF IInv, TypeOK, LockInv
<1>3. \A v \in Threads : ArgInv(v)'
  BY DEF IInv, TypeOK, ArgInv, Owns, Held
<1>4. \A v \in Threads : OldInv(v)'
  BY <1>lock, RefCountAssumption DEF IInv, TypeOK, LockInv, OldInv, Transcribes
<1>5. ArgsDiffer'
  BY DEF IInv, TypeOK, ArgsDiffer
<1>6. ShapeInv'
  BY <1>lock, <1>table DEF IInv, ShapeInv, RawIsa, NonpointerIsa, Halves
<1>7. LiveInv'
  <2>1. 1 + isa'.extra_rc + table'.rc + InTransit' = Cardinality(Strong)'
    BY <1>live, <1>table, <1>moved, RefCountAssumption DEF IInv, TypeOK,
         LiveFacts, Isas, Strong
  <2>2. weakVar' => WeakMarked'
    BY <1>live, <1>table, <1>lock DEF IInv, TypeOK, LiveFacts, WeakMarked
  <2>3. ~Deallocating'
    BY <1>live DEF IInv, TypeOK, LiveFacts, Deallocating
  <2> QED
    BY <1>live, <1>table, <2>1, <2>2, <2>3 DEF LiveFacts, LiveInv
<1>8. DyingInv'
  BY <1>live DEF IInv, TypeOK, LiveFacts, DyingInv
<1>9. FreedInv'
  BY <1>live DEF LiveFacts, FreedInv, Strong
<1> QED
  BY <1>1, <1>2, <1>3, <1>4, <1>5, <1>6, <1>7, <1>8, <1>9 DEF IInv

(* The store that sets the deallocating bit preserves the invariant: it    *)
(* happens only when no reference is left in either place.                 *)
LEMMA DeallocStorePreserves ==
  ASSUME IInv, NEW t \in Threads, DeallocStore(t)
  PROVE  IInv'
<1> USE DEF DeallocStore, StoreExclusive, UnlockIfHeld, Finish, Goto
<1>live. LiveFacts
  BY OwnedIsLive DEF IInv, ArgInv
<1>isa. /\ isa' \in Isas /\ isa' = [isa EXCEPT !.deallocating = TRUE]
        /\ isa.nonpointer /\ isa'.nonpointer /\ isa'.deallocating
        /\ isa.extra_rc = 0 /\ isa'.extra_rc = 0
        /\ isa'.has_sidetable_rc = isa.has_sidetable_rc
        /\ isa'.weakly_referenced = isa.weakly_referenced
        /\ ~isa.has_sidetable_rc \/ (lock = t /\ table.rc = 0)
  BY DEF IInv, TypeOK, OldInv, Isas
<1>empty. table.rc = 0 /\ InTransit = 0
  <2>1. CASE lock = t
    BY <2>1, <1>isa, RefCountAssumption DEF IInv, ShapeInv, InTransit, Carried
  <2>2. CASE lock # t
    BY <2>2, <1>isa DEF IInv, TypeOK, ShapeInv, OldInv, InTransit, Carried
  <2> QED
    BY <2>1, <2>2
<1>last. Strong' = {} /\ slot' \in [Slots -> Threads \cup {NoThread}]
  <2>1. Cardinality(Strong) = 1
    BY <1>live, <1>isa, <1>empty DEF LiveFacts
  <2> QED
    BY <2>1, DropCounts, RefCountAssumption DEF IInv, ArgInv
<1>pc. /\ pc' \in [Threads -> Labels] /\ pc'[t] = "dealloc" /\ ~trying'[t]
       /\ \A v \in Threads \ {t} : /\ pc'[v] = pc[v] /\ arg'[v] = arg[v]
                                   /\ old'[v] = old[v] /\ trying'[v] = trying[v]
       /\ lock' \in Threads \cup {NoThread} /\ lock' # t
       /\ \A v \in Threads \ {t} : lock' = v <=> lock = v
  BY RefCountAssumption DEF IInv, TypeOK, Labels
<1>1. TypeOK'
  BY <1>isa, <1>last, <1>pc DEF IInv, TypeOK
<1>2. \A v \in Threads : LockInv(v)'
  BY <1>pc DEF IInv, LockInv
<1>3. \A v \in Threads : ArgInv(v)'
  BY <1>pc, RefCountAssumption DEF IInv, TypeOK, Drop, ArgInv, Owns, Held
<1>4. \A v \in Threads : OldInv(v)'
  BY <1>pc, <1>isa DEF IInv, OldInv, Transcribes
<1>5. ArgsDiffer'
  BY <1>pc DEF IInv, ArgsDiffer
<1>6. ShapeInv'
  BY <1>isa DEF IInv, ShapeInv, Halves
<1>7. LiveInv'
  BY <1>last DEF LiveInv
<1>8. DyingInv'
  <2>1. weakVar' => WeakMarked'
    BY <1>live, <1>isa, <1>pc DEF LiveFacts, WeakMarked
  <2> QED
    BY <2>1, <1>live, <1>pc, <1>isa, <1>empty, <1>last DEF LiveFacts, DyingInv
<1>9. FreedInv'
  BY <1>live, <1>pc DEF LiveFacts, FreedInv, Deallocating
<1> QED
  BY <1>1, <1>2, <1>3, <1>4, <1>5, <1>6, <1>7, <1>8, <1>9 DEF IInv

(* sidetable_release preserves the invariant.                              *)
LEMMA SidetableReleasePreserves ==
  ASSUME IInv, NEW t \in Threads, SidetableRelease(t)
  PROVE  IInv'
<1> USE DEF SidetableRelease, AddExtraRC, Finish, Goto
<1>live. LiveFacts
  BY OwnedIsLive DEF IInv, ArgInv
<1>raw. /\ ~isa.nonpointer /\ isa.extra_rc = 0
        /\ InTransit = 0 /\ InTransit' = 0 /\ table.rc \in Nat
  BY DEF IInv, TypeOK, OldInv, ShapeInv, RawIsa, NonpointerIsa, InTransit,
       Entries
<1>drop. /\ Cardinality(Strong)' = Cardinality(Strong) - 1
         /\ Strong' = {} <=> Cardinality(Strong)' = 0
         /\ slot' \in [Slots -> Threads \cup {NoThread}]
  BY DropCounts, RefCountAssumption DEF IInv, ArgInv
<1>pc. /\ pc' \in [Threads -> Labels] /\ ~trying'[t]
       /\ pc'[t] = IF table.rc = 0 THEN "dealloc" ELSE "idle"
       /\ \A v \in Threads \ {t} : /\ pc'[v] = pc[v] /\ arg'[v] = arg[v]
                                   /\ old'[v] = old[v] /\ trying'[v] = trying[v]
       /\ old' \in [Threads -> Isas \cup {NoIsa}]
       /\ arg' \in [Threads -> Slots \cup Classes \cup {NoArg}]
       /\ trying' \in [Threads -> BOOLEAN]
  BY <1>live DEF LiveFacts, IInv, TypeOK, Labels
<1>table. /\ table' \in Entries /\ table'.weakly_referenced = table.weakly_referenced
          /\ table.rc = 0 => table'.rc = 0 /\ table'.deallocating
          /\ table.rc # 0 => table'.rc = table.rc - 1 /\ ~table'.deallocating
  <2>1. CASE table.rc = 0
    <3>1. table' = [table EXCEPT !.deallocating = TRUE]
      BY <2>1, <1>live DEF LiveFacts
    <3> QED
      BY <2>1, <3>1 DEF IInv, TypeOK, Entries
  <2>2. CASE table.rc # 0
    BY <2>2, <1>live, <1>raw DEF LiveFacts, IInv, TypeOK, Entries
  <2> QED
    BY <2>1, <2>2
<1>marked. weakVar' => WeakMarked'
  BY <1>live, <1>pc, <1>table DEF LiveFacts, WeakMarked
<1>strong. Strong' = {} <=> table.rc = 0
  BY <1>live, <1>raw, <1>drop DEF LiveFacts
<1>1. TypeOK'
  BY <1>drop, <1>pc, <1>table DEF IInv, TypeOK
<1>2. \A v \in Threads : LockInv(v)'
  BY <1>pc, RefCountAssumption DEF IInv, LockInv
<1>3. \A v \in Threads : ArgInv(v)'
  BY <1>pc, RefCountAssumption DEF IInv, TypeOK, Drop, ArgInv, Owns, Held
<1>4. \A v \in Threads : OldInv(v)'
  BY <1>pc, <1>table, RefCountAssumption DEF IInv, OldInv, Transcribes
<1>5. ArgsDiffer'
  BY <1>pc DEF IInv, ArgsDiffer
<1>6. ShapeInv'
  BY <1>raw DEF IInv, ShapeInv, RawIsa, NonpointerIsa
<1>7. LiveInv'
  <2>1. Strong' # {} => /\ 1 + isa'.extra_rc + table'.rc + InTransit' = Cardinality(Strong)'
                        /\ ~table'.deallocating
    BY <1>live, <1>raw, <1>drop, <1>table, <1>strong DEF LiveFacts
  <2>2. Strong' # {} => ~Deallocating'
    BY <1>live, <1>pc, <1>strong DEF LiveFacts, Deallocating
  <2> QED
    BY <1>live, <1>marked, <2>1, <2>2 DEF LiveFacts, LiveInv
<1>8. DyingInv'
  BY <1>live, <1>raw, <1>pc, <1>table, <1>strong, <1>marked DEF LiveFacts,
       DyingInv
<1>9. FreedInv'
  BY <1>live, <1>pc, <1>strong DEF LiveFacts, FreedInv, Deallocating
<1> QED
  BY <1>1, <1>2, <1>3, <1>4, <1>5, <1>6, <1>7, <1>8, <1>9 DEF IInv

-----------------------------------------------------------------------------
(* Deallocation preserves it                                               *)

(* rootDealloc preserves the invariant on its fast and its slow path.      *)
LEMMA RootDeallocPreserves ==
  ASSUME IInv, NEW t \in Threads, RootDealloc(t)
  PROVE  IInv'
<1> USE DEF RootDealloc, Goto, objVars, callVars
<1>dying. /\ alive /\ Strong = {} /\ isa.extra_rc = 0 /\ table.rc = 0
          /\ \A u \in Threads : pc[u] \in DeallocLabels => u = t
          /\ isa.nonpointer => isa.deallocating
          /\ ~isa.nonpointer => table.deallocating
          /\ weakVar => WeakMarked
  BY DEF IInv, DyingInv
<1>marked. weakVar => \/ isa.weakly_referenced
                      \/ ~isa.nonpointer /\ table.weakly_referenced
  <2>1. \A u \in Threads : pc[u] \notin {"weakLoad", "weakStore", "changeMove"}
    BY <1>dying, OwnedIsLive DEF IInv, LockInv, ArgInv, Owns, Held, LiveFacts
  <2> QED
    BY <1>dying, <2>1 DEF WeakMarked
<1>clean. isa.nonpointer /\ ~isa.has_sidetable_rc => table = NoEntry
  BY <1>dying DEF IInv, TypeOK, ShapeInv, Entries, NoEntry
<1>1. TypeOK'
  BY RefCountAssumption DEF IInv, TypeOK, Labels, Isas, Entries, MAX_RC
<1>2. \A v \in Threads : LockInv(v)'
  BY RefCountAssumption DEF IInv, TypeOK, LockInv
<1>3. \A v \in Threads : ArgInv(v)'
  BY RefCountAssumption DEF IInv, TypeOK, ArgInv, Owns, Held
<1>4. \A v \in Threads : OldInv(v)'
  BY RefCountAssumption DEF IInv, TypeOK, LockInv, OldInv, Transcribes
<1>5. ArgsDiffer'
  BY DEF IInv, TypeOK, ArgsDiffer
<1>6. ShapeInv'
  BY DEF IInv, TypeOK, ShapeInv, OldInv, RawIsa, NonpointerIsa, Isas
<1>7. LiveInv'
  BY RefCountAssumption DEF IInv, TypeOK, LockInv, OldInv, LiveInv, Strong,
       InTransit, Carried, Deallocating, WeakMarked
<1>8. DyingInv'
  BY <1>dying, <1>marked, <1>clean DEF IInv, TypeOK, DyingInv, Strong,
       WeakMarked
<1>9. FreedInv'
  BY DEF IInv, TypeOK, FreedInv, Strong, Deallocating
<1> QED
  BY <1>1, <1>2, <1>3, <1>4, <1>5, <1>6, <1>7, <1>8, <1>9 DEF IInv

(* clearDeallocating preserves the invariant: the weak variable and the    *)
(* side table's entry go before the memory does.                           *)
LEMMA ClearDeallocatingPreserves ==
  ASSUME IInv, NEW t \in Threads, ClearDeallocating(t)
  PROVE  IInv'
<1> USE DEF ClearDeallocating, Goto, NoEntry, callVars
<1>dying. /\ alive /\ Strong = {} /\ isa.extra_rc = 0 /\ table.rc = 0
          /\ \A u \in Threads : pc[u] \in DeallocLabels => u = t
          /\ isa.nonpointer => isa.deallocating
          /\ ~isa.nonpointer => table.deallocating
          /\ weakVar => WeakMarked
  BY DEF IInv, DyingInv
<1>marked. weakVar => \/ isa.weakly_referenced
                      \/ ~isa.nonpointer /\ table.weakly_referenced
  <2>1. \A u \in Threads : pc[u] \notin {"weakLoad", "weakStore", "changeMove"}
    BY <1>dying, OwnedIsLive DEF IInv, LockInv, ArgInv, Owns, Held, LiveFacts
  <2> QED
    BY <1>dying, <2>1 DEF WeakMarked
<1>clean. isa.nonpointer /\ ~isa.has_sidetable_rc => table = NoEntry
  BY <1>dying DEF IInv, TypeOK, ShapeInv, Entries, NoEntry
<1>1. TypeOK'
  BY RefCountAssumption DEF IInv, TypeOK, Labels, Isas, Entries, MAX_RC
<1>2. \A v \in Threads : LockInv(v)'
  BY RefCountAssumption DEF IInv, TypeOK, LockInv
<1>3. \A v \in Threads : ArgInv(v)'
  BY RefCountAssumption DEF IInv, TypeOK, ArgInv, Owns, Held
<1>4. \A v \in Threads : OldInv(v)'
  BY RefCountAssumption DEF IInv, TypeOK, LockInv, OldInv, Transcribes
<1>5. ArgsDiffer'
  BY DEF IInv, TypeOK, ArgsDiffer
<1>6. ShapeInv'
  <2>1. RC_HALF * 0 = 0
    BY RefCountAssumption
  <2>2. 0 \in Halves
    BY <2>1 DEF Halves
  <2> QED
    BY <2>2 DEF IInv, ShapeInv, Halves, RawIsa, NonpointerIsa
<1>7. LiveInv'
  BY RefCountAssumption DEF IInv, TypeOK, LockInv, OldInv, LiveInv, Strong,
       InTransit, Carried, Deallocating, WeakMarked
<1>8. DyingInv'
  <2>1. table' = NoEntry /\ ~weakVar'
    BY <1>marked, <1>clean
  <2>2. pc'[t] = "free" /\ \A u \in Threads : pc'[u] \in DeallocLabels => u = t
    BY <1>dying DEF IInv, TypeOK
  <2>3. Strong' = {} /\ table'.rc = 0
    BY <1>dying, <2>1 DEF Strong, NoEntry
  <2> QED
    BY <1>dying, <2>1, <2>2, <2>3 DEF DyingInv
<1>9. FreedInv'
  BY DEF IInv, TypeOK, FreedInv, Strong, Deallocating
<1> QED
  BY <1>1, <1>2, <1>3, <1>4, <1>5, <1>6, <1>7, <1>8, <1>9 DEF IInv

(* Freeing the object preserves the invariant: no call can reach it.       *)
LEMMA FreePreserves ==
  ASSUME IInv, NEW t \in Threads, Free(t)
  PROVE  IInv'
<1> USE DEF Free, Goto, callVars
<1>1. TypeOK'
  BY RefCountAssumption DEF IInv, TypeOK, Labels, Isas, Entries, MAX_RC
<1>2. \A v \in Threads : LockInv(v)'
  BY RefCountAssumption DEF IInv, TypeOK, LockInv
<1>3. \A v \in Threads : ArgInv(v)'
  BY RefCountAssumption DEF IInv, TypeOK, ArgInv, Owns, Held
<1>4. \A v \in Threads : OldInv(v)'
  BY RefCountAssumption DEF IInv, TypeOK, LockInv, OldInv, Transcribes
<1>5. ArgsDiffer'
  BY DEF IInv, TypeOK, ArgsDiffer
<1>6. ShapeInv'
  BY DEF IInv, TypeOK, ShapeInv, OldInv, RawIsa, NonpointerIsa, Isas
<1>7. LiveInv'
  BY RefCountAssumption DEF IInv, TypeOK, LockInv, OldInv, LiveInv, Strong,
       InTransit, Carried, Deallocating, WeakMarked
<1>8. DyingInv'
  BY DEF IInv, TypeOK, DyingInv, Strong, WeakMarked
<1>9. FreedInv'
  BY DEF IInv, TypeOK, FreedInv, DyingInv
<1> QED
  BY <1>1, <1>2, <1>3, <1>4, <1>5, <1>6, <1>7, <1>8, <1>9 DEF IInv

-----------------------------------------------------------------------------
(* changeIsa and setWeaklyReferenced_nolock preserve it                    *)

(* The store of changeIsa preserves the invariant.                         *)
LEMMA ChangeStorePreserves ==
  ASSUME IInv, NEW t \in Threads, ChangeStore(t)
  PROVE  IInv'
<1> USE DEF ChangeStore, StoreExclusive, Return, Finish, Goto, callVars
<1> DEFINE Kept  == /\ isa.nonpointer = isa'.nonpointer
                    /\ isa'.extra_rc = isa.extra_rc
                    /\ isa'.has_sidetable_rc = isa.has_sidetable_rc
                    /\ isa'.weakly_referenced = isa.weakly_referenced
                    /\ isa'.deallocating = isa.deallocating
                    /\ pc'[t] \in {"idle", "unlock"}
                    /\ pc'[t] = "unlock" <=> lock = t
           Moved == /\ isa.nonpointer /\ ~isa'.nonpointer
                    /\ isa'.extra_rc = 0 /\ ~isa'.deallocating
                    /\ pc'[t] = "changeMove" /\ lock = t
                    /\ old'[t] = isa
<1>live. LiveFacts
  BY OwnedIsLive DEF IInv, LockInv, ArgInv, Owns, Held
<1>pc. /\ pc' \in [Threads -> Labels] /\ ~trying'[t]
       /\ \A v \in Threads \ {t} : /\ pc'[v] = pc[v] /\ arg'[v] = arg[v]
                                   /\ old'[v] = old[v] /\ trying'[v] = trying[v]
       /\ old' \in [Threads -> Isas \cup {NoIsa}]
       /\ arg' \in [Threads -> Slots \cup Classes \cup {NoArg}]
       /\ trying' \in [Threads -> BOOLEAN]
       /\ arg'[t] \in {NoArg, arg[t]}
  BY DEF IInv, TypeOK, Labels, LockInv
<1>old. old[t] = isa /\ isa' = ChangedIsa(isa, arg[t]) /\ arg[t] \in Classes
  BY DEF IInv, ArgInv
<1>rawisa. /\ RawIsa(arg[t]) \in Isas /\ ~RawIsa(arg[t]).nonpointer
           /\ RawIsa(arg[t]).extra_rc = 0 /\ RawIsa(arg[t]).cls = arg[t]
           /\ ~RawIsa(arg[t]).deallocating /\ ~RawIsa(arg[t]).weakly_referenced
           /\ ~RawIsa(arg[t]).has_sidetable_rc
  BY <1>old, RawIsaFields
<1>isa. isa' \in Isas /\ (Kept \/ Moved) /\ (~isa'.nonpointer => isa' = RawIsa(isa'.cls))
  <2>1. CASE isa.nonpointer /\ arg[t] \notin RawClasses
    <3>1. isa' = [isa EXCEPT !.cls = arg[t]] /\ ~Transcribes(old[t], arg[t])
      BY <2>1, <1>old DEF ChangedIsa, Transcribes
    <3>2. isa' \in Isas /\ isa'.nonpointer
      BY <3>1, <2>1, <1>old DEF IInv, TypeOK, Isas
    <3>3. pc'[t] \in {"idle", "unlock"} /\ (pc'[t] = "unlock" <=> lock = t)
      BY <3>1 DEF IInv, TypeOK
    <3> QED
      BY <3>1, <3>2, <3>3, <2>1 DEF IInv, TypeOK, Isas
  <2>2. CASE isa.nonpointer /\ arg[t] \in RawClasses
    BY <2>2, <1>old, <1>rawisa DEF IInv, TypeOK, OldInv, ChangedIsa,
         Transcribes
  <2>3. CASE ~isa.nonpointer
    <3>1. /\ isa.extra_rc = 0 /\ ~isa.has_sidetable_rc
          /\ ~isa.weakly_referenced /\ ~isa.deallocating
      BY <2>3 DEF IInv, ShapeInv, RawIsa, NonpointerIsa
    <3> QED
      BY <2>3, <3>1, <1>old, <1>rawisa, RefCountAssumption DEF IInv, TypeOK,
           Isas, ChangedIsa, Transcribes
  <2> QED
    BY <2>1, <2>2, <2>3
<1>moved. isa'.extra_rc + InTransit' = isa.extra_rc + InTransit
  <2>1. CASE Kept
    BY <2>1, <1>pc, RefCountAssumption DEF IInv, TypeOK, InTransit, Carried
  <2>2. CASE Moved
    <3>1. InTransit = 0 /\ InTransit' = isa.extra_rc
      BY <2>2, RefCountAssumption DEF InTransit, Carried
    <3> QED
      BY <2>2, <3>1 DEF IInv, TypeOK, Isas
  <2> QED
    BY <1>isa, <2>1, <2>2
<1>1. TypeOK'
  BY <1>isa, <1>pc DEF IInv, TypeOK
<1>2. \A v \in Threads : LockInv(v)'
  BY <1>isa, <1>pc DEF IInv, LockInv
<1>3. \A v \in Threads : ArgInv(v)'
  <2>1. Owns(t)
    BY DEF IInv, LockInv, ArgInv
  <2> QED
    BY <2>1, <1>isa, <1>pc DEF IInv, ArgInv, Owns, Held
<1>4. \A v \in Threads : OldInv(v)'
  <2>1. \A v \in Threads \ {t} : OldInv(v)'
    BY <1>isa, <1>pc DEF IInv, LockInv, OldInv, Transcribes
  <2>2. OldInv(t)'
    BY <1>isa, <1>live DEF LiveFacts, IInv, TypeOK, OldInv
  <2> QED
    BY <2>1, <2>2
<1>5. ArgsDiffer'
  BY <1>isa, <1>pc DEF IInv, ArgsDiffer
<1>6. ShapeInv'
  BY <1>isa DEF IInv, ShapeInv, Halves
<1>7. LiveInv'
  <2>1. 1 + isa'.extra_rc + table'.rc + InTransit' = Cardinality(Strong)'
    <3>1. /\ isa.extra_rc \in Nat /\ isa'.extra_rc \in Nat /\ table.rc \in Nat
          /\ InTransit \in Nat /\ InTransit' \in Nat /\ Strong' = Strong
      BY <1>isa, <1>pc, RefCountAssumption DEF IInv, TypeOK, OldInv,
           InTransit, Carried, Isas, Entries, MAX_RC, Strong
    <3> QED
      BY <3>1, <1>live, <1>moved DEF LiveFacts
  <2>2. weakVar' => WeakMarked'
    BY <1>live, <1>isa, <1>pc DEF LiveFacts, WeakMarked, IInv, ShapeInv
  <2>3. ~Deallocating'
    BY <1>live, <1>isa, <1>pc DEF LiveFacts, Deallocating
  <2>4. ~isa'.deallocating
    BY <1>live, <1>isa DEF LiveFacts
  <2> QED
    BY <1>live, <2>1, <2>2, <2>3, <2>4 DEF LiveFacts, LiveInv
<1>8. DyingInv'
  BY <1>live, <1>isa, <1>pc DEF LiveFacts, DyingInv
<1>9. FreedInv'
  BY <1>live DEF LiveFacts, FreedInv, Strong
<1> QED
  BY <1>1, <1>2, <1>3, <1>4, <1>5, <1>6, <1>7, <1>8, <1>9 DEF IInv

(* sidetable_moveExtraRC_nolock preserves the invariant: the count of a    *)
(* raw isa is all in the side table.                                       *)
LEMMA ChangeMovePreserves ==
  ASSUME IInv, NEW t \in Threads, ChangeMove(t)
  PROVE  IInv'
<1> USE DEF ChangeMove, Return, Finish, Goto
<1>live. LiveFacts
  BY OwnedIsLive DEF IInv, LockInv, ArgInv, Owns, Held
<1>raw. /\ lock = t /\ lock' = t /\ ~isa.nonpointer /\ isa.extra_rc = 0 /\ ~isa.weakly_referenced
        /\ old[t] \in Isas /\ ~old[t].deallocating
        /\ old[t].extra_rc \in Nat /\ table.rc \in Nat
  BY DEF IInv, TypeOK, LockInv, OldInv, ShapeInv, RawIsa, NonpointerIsa, Isas,
       Entries
<1>table. /\ table' \in Entries /\ table'.rc = table.rc + old[t].extra_rc
          /\ ~table'.deallocating
          /\ table'.weakly_referenced = (table.weakly_referenced \/ old[t].weakly_referenced)
  BY <1>live, <1>raw DEF LiveFacts, IInv, TypeOK, Isas, Entries
<1>moved. InTransit = old[t].extra_rc /\ InTransit' = 0
  BY <1>raw, RefCountAssumption DEF IInv, TypeOK, InTransit, Carried
<1>1. TypeOK'
  BY <1>table DEF IInv, TypeOK, Labels
<1>2. \A v \in Threads : LockInv(v)'
  BY <1>raw, RefCountAssumption DEF IInv, TypeOK, LockInv
<1>3. \A v \in Threads : ArgInv(v)'
  BY DEF IInv, TypeOK, ArgInv, Owns, Held
<1>4. \A v \in Threads : OldInv(v)'
  BY <1>raw, RefCountAssumption DEF IInv, TypeOK, OldInv, Transcribes
<1>5. ArgsDiffer'
  BY DEF IInv, TypeOK, ArgsDiffer
<1>6. ShapeInv'
  BY <1>raw DEF IInv, ShapeInv, RawIsa, NonpointerIsa
<1>7. LiveInv'
  <2>1. 1 + isa'.extra_rc + table'.rc + InTransit' = Cardinality(Strong)'
    BY <1>live, <1>raw, <1>table, <1>moved DEF LiveFacts, Strong
  <2>2. weakVar' => WeakMarked'
    <3>1. CASE \E v \in Threads : pc[v] \in {"weakLoad", "weakStore"}
      BY <3>1, <1>raw DEF IInv, LockInv
    <3>2. CASE \E v \in Threads : pc[v] = "changeMove" /\ old[v].weakly_referenced
      BY <3>2, <1>raw, <1>table DEF IInv, LockInv, WeakMarked
    <3> QED
      BY <3>1, <3>2, <1>live, <1>raw, <1>table DEF LiveFacts, WeakMarked
  <2>3. ~Deallocating'
    BY <1>live DEF LiveFacts, Deallocating, IInv, TypeOK
  <2> QED
    BY <1>live, <1>table, <2>1, <2>2, <2>3 DEF LiveFacts, LiveInv
<1>8. DyingInv'
  BY <1>live DEF LiveFacts, IInv, TypeOK, DyingInv
<1>9. FreedInv'
  BY <1>live DEF LiveFacts, FreedInv, Strong
<1> QED
  BY <1>1, <1>2, <1>3, <1>4, <1>5, <1>6, <1>7, <1>8, <1>9 DEF IInv

(* The load of setWeaklyReferenced_nolock preserves the invariant.         *)
LEMMA WeakLoadPreserves ==
  ASSUME IInv, NEW t \in Threads, WeakLoad(t)
  PROVE  IInv'
<1> USE DEF WeakLoad, LoadExclusive, Return, Finish, Goto
<1>trying. ~trying[t]
  BY DEF IInv, LockInv
<1>live. LiveFacts
  BY <1>trying, OwnedIsLive DEF IInv, ArgInv, Owns, Held
<1>pc. /\ pc' \in [Threads -> Labels] /\ pc'[t] \in {"unlock", "weakStore"}
       /\ \A v \in Threads \ {t} : pc'[v] = pc[v] /\ old'[v] = old[v]
       /\ lock = t /\ lock' = lock
  BY DEF IInv, TypeOK, Labels, LockInv
<1>table. /\ table' \in Entries /\ table'.rc = table.rc /\ ~table'.deallocating
          /\ isa.nonpointer => table' = table
          /\ table.weakly_referenced => table'.weakly_referenced
  BY <1>live DEF LiveFacts, IInv, TypeOK, Entries
<1>old. /\ old' \in [Threads -> Isas \cup {NoIsa}]
        /\ arg' \in [Threads -> Slots \cup Classes \cup {NoArg}]
        /\ trying' \in [Threads -> BOOLEAN] /\ ~trying'[t]
        /\ \A v \in Threads \ {t} : arg'[v] = arg[v] /\ trying'[v] = trying[v]
  BY <1>trying DEF IInv, TypeOK
<1>mark. /\ pc'[t] = "weakStore" => old'[t] \in Isas /\ old'[t].nonpointer
         /\ pc'[t] = "unlock" => \/ isa.weakly_referenced
                                 \/ ~isa.nonpointer /\ table'.weakly_referenced
  BY <1>pc DEF IInv, TypeOK, Entries
<1>1. TypeOK'
  BY <1>pc, <1>table, <1>old DEF IInv, TypeOK
<1>2. \A v \in Threads : LockInv(v)'
  BY <1>pc, <1>old DEF IInv, LockInv
<1>3. \A v \in Threads : ArgInv(v)'
  BY <1>pc, <1>old DEF IInv, TypeOK, ArgInv, Owns, Held
<1>4. \A v \in Threads : OldInv(v)'
  BY <1>pc, <1>table, <1>old, <1>mark DEF IInv, TypeOK, OldInv, Transcribes
<1>5. ArgsDiffer'
  BY <1>pc, <1>old DEF IInv, ArgsDiffer
<1>6. ShapeInv'
  BY <1>table DEF IInv, ShapeInv, RawIsa, NonpointerIsa, Halves
<1>7. LiveInv'
  <2>1. InTransit' = InTransit
    BY <1>pc, RefCountAssumption DEF InTransit, Carried
  <2>2. weakVar' => WeakMarked'
    BY <1>pc, <1>mark DEF WeakMarked
  <2>3. ~Deallocating'
    BY <1>live, <1>pc DEF LiveFacts, Deallocating
  <2> QED
    BY <1>live, <1>table, <2>1, <2>2, <2>3 DEF LiveFacts, LiveInv, Strong
<1>8. DyingInv'
  BY <1>live, <1>pc DEF LiveFacts, DyingInv
<1>9. FreedInv'
  BY <1>live DEF LiveFacts, FreedInv, Strong
<1> QED
  BY <1>1, <1>2, <1>3, <1>4, <1>5, <1>6, <1>7, <1>8, <1>9 DEF IInv

(* The store of setWeaklyReferenced_nolock preserves the invariant.        *)
LEMMA WeakStorePreserves ==
  ASSUME IInv, NEW t \in Threads, WeakStore(t)
  PROVE  IInv'
<1> USE DEF WeakStore, StoreExclusive, Return, Finish, Goto
<1>1. TypeOK'
  BY RefCountAssumption DEF IInv, TypeOK, Labels, Isas, Entries, MAX_RC
<1>2. \A v \in Threads : LockInv(v)'
  BY RefCountAssumption DEF IInv, TypeOK, LockInv
<1>3. \A v \in Threads : ArgInv(v)'
  BY RefCountAssumption DEF IInv, TypeOK, ArgInv, Owns, Held
<1>4. \A v \in Threads : OldInv(v)'
  BY RefCountAssumption DEF IInv, TypeOK, LockInv, OldInv, Transcribes
<1>5. ArgsDiffer'
  BY DEF IInv, TypeOK, ArgsDiffer
<1>6. ShapeInv'
  BY DEF IInv, TypeOK, ShapeInv, OldInv, RawIsa, NonpointerIsa, Isas
<1>7. LiveInv'
  BY RefCountAssumption DEF IInv, TypeOK, LockInv, OldInv, LiveInv, Strong,
       InTransit, Carried, Deallocating, WeakMarked
<1>8. DyingInv'
  BY DEF IInv, TypeOK, DyingInv, Strong, WeakMarked
<1>9. FreedInv'
  BY DEF IInv, TypeOK, FreedInv, Strong, Deallocating
<1> QED
  BY <1>1, <1>2, <1>3, <1>4, <1>5, <1>6, <1>7, <1>8, <1>9 DEF IInv

-----------------------------------------------------------------------------
(* So do failed stores, and steps that only lock, load or return           *)

(* A StoreExclusive that fails preserves the invariant: the loop starts    *)
(* again.                                                                  *)
LEMMA StoreFailsPreserves ==
  ASSUME IInv, NEW t \in Threads, StoreFails(t)
  PROVE  IInv'
<1> USE DEF StoreFails, RetryLabel, Goto, objVars, callVars
<1>1. TypeOK'
  BY RefCountAssumption DEF IInv, TypeOK, Labels, Isas, Entries
<1>2. \A v \in Threads : LockInv(v)' /\ ArgInv(v)'
  BY RefCountAssumption DEF IInv, TypeOK, LockInv, ArgInv, Owns, Held
<1>3. \A v \in Threads : OldInv(v)'
  BY RefCountAssumption DEF IInv, TypeOK, LockInv, OldInv, Transcribes
<1>4. LiveInv'
  BY RefCountAssumption DEF IInv, TypeOK, LockInv, OldInv, LiveInv, Strong,
       InTransit, Carried, Deallocating, WeakMarked
<1>5. ArgsDiffer' /\ ShapeInv' /\ DyingInv' /\ FreedInv'
  BY DEF IInv, TypeOK, ArgsDiffer, ShapeInv, Halves, DyingInv, FreedInv,
       Strong, WeakMarked, Deallocating
<1> QED
  BY <1>1, <1>2, <1>3, <1>4, <1>5 DEF IInv

(* Taking and releasing the side table's lock preserve the invariant.      *)
LEMMA LockStepsPreserves ==
  ASSUME IInv, NEW t \in Threads, RetainLock(t) \/ ReleaseLock(t) \/ ChangeLock(t) \/ Unlocks(t)
  PROVE  IInv'
<1> USE DEF RetainLock, Lock, Goto, objVars, callVars,
            ReleaseLock, ChangeLock, Unlocks, Unlock
<1>1. TypeOK'
  BY RefCountAssumption DEF IInv, TypeOK, Labels, Isas, Entries
<1>2. \A v \in Threads : LockInv(v)' /\ ArgInv(v)'
  BY RefCountAssumption DEF IInv, TypeOK, LockInv, ArgInv, Owns, Held
<1>3. \A v \in Threads : OldInv(v)'
  BY RefCountAssumption DEF IInv, TypeOK, LockInv, OldInv, Transcribes
<1>4. LiveInv'
  <2>1. InTransit' = InTransit
    BY RefCountAssumption DEF IInv, TypeOK, LockInv, InTransit, Carried
  <2>2. Deallocating' = Deallocating
    BY DEF IInv, TypeOK, Deallocating
  <2>3. weakVar' /\ WeakMarked => WeakMarked'
    BY DEF IInv, TypeOK, WeakMarked
  <2> QED
    BY <2>1, <2>2, <2>3 DEF IInv, LiveInv, Strong
<1>5. ArgsDiffer' /\ ShapeInv' /\ DyingInv' /\ FreedInv'
  BY DEF IInv, TypeOK, ArgsDiffer, ShapeInv, Halves, DyingInv, FreedInv,
       Strong, WeakMarked, Deallocating
<1> QED
  BY <1>1, <1>2, <1>3, <1>4, <1>5 DEF IInv

(* Asking for the retain count, and destroying the weak variable, preserve *)
(* the invariant.                                                          *)
LEMMA CallStepsPreserves ==
  ASSUME IInv, NEW t \in Threads, CallRetainCount(t) \/ DestroyWeak(t)
  PROVE  IInv'
<1> USE DEF CallRetainCount, Call, Goto, Lock, objVars, DestroyWeak, callVars
<1>1. TypeOK'
  <2>1. CASE CallRetainCount(t)
    BY <2>1, RefCountAssumption DEF IInv, TypeOK, Labels, Isas, Entries
  <2>2. CASE DestroyWeak(t)
    BY <2>2, RefCountAssumption DEF IInv, TypeOK, Labels, Isas, Entries
  <2> QED
    BY <2>1, <2>2
<1>2. \A v \in Threads : LockInv(v)' /\ ArgInv(v)'
  BY RefCountAssumption DEF IInv, TypeOK, LockInv, ArgInv, Owns, Held
<1>3. \A v \in Threads : OldInv(v)'
  BY RefCountAssumption DEF IInv, TypeOK, LockInv, OldInv, Transcribes
<1>4. LiveInv'
  <2>1. InTransit' = InTransit
    BY RefCountAssumption DEF IInv, TypeOK, LockInv, InTransit, Carried
  <2>2. Deallocating' = Deallocating
    BY DEF IInv, TypeOK, Deallocating
  <2>3. weakVar' /\ WeakMarked => WeakMarked'
    BY DEF IInv, TypeOK, WeakMarked
  <2> QED
    BY <2>1, <2>2, <2>3 DEF IInv, LiveInv, Strong
<1>5. ArgsDiffer' /\ ShapeInv' /\ DyingInv' /\ FreedInv'
  BY DEF IInv, TypeOK, ArgsDiffer, ShapeInv, Halves, DyingInv, FreedInv,
       Strong, WeakMarked, Deallocating
<1> QED
  BY <1>1, <1>2, <1>3, <1>4, <1>5 DEF IInv

(* Reading a retain count, inline or in the side table, preserves the      *)
(* invariant.                                                              *)
LEMMA CountStepsPreserves ==
  ASSUME IInv, NEW t \in Threads, CountLoad(t) \/ SidetableCount(t)
  PROVE  IInv'
<1> USE DEF CountLoad, Unlock, Goto, objVars, callVars, SidetableCount
<1>1. TypeOK'
  BY RefCountAssumption DEF IInv, TypeOK, Labels, Isas, Entries
<1>2. \A v \in Threads : LockInv(v)' /\ ArgInv(v)'
  BY RefCountAssumption DEF IInv, TypeOK, LockInv, ArgInv, Owns, Held
<1>3. \A v \in Threads : OldInv(v)'
  BY RefCountAssumption DEF IInv, TypeOK, LockInv, OldInv, Transcribes
<1>4. LiveInv'
  <2>1. InTransit' = InTransit
    BY RefCountAssumption DEF IInv, TypeOK, LockInv, InTransit, Carried
  <2>2. Deallocating' = Deallocating
    BY DEF IInv, TypeOK, Deallocating
  <2>3. weakVar' /\ WeakMarked => WeakMarked'
    BY DEF IInv, TypeOK, WeakMarked
  <2> QED
    BY <2>1, <2>2, <2>3 DEF IInv, LiveInv, Strong
<1>5. ArgsDiffer' /\ ShapeInv' /\ DyingInv' /\ FreedInv'
  BY DEF IInv, TypeOK, ArgsDiffer, ShapeInv, Halves, DyingInv, FreedInv,
       Strong, WeakMarked, Deallocating
<1> QED
  BY <1>1, <1>2, <1>3, <1>4, <1>5 DEF IInv

(* The loads of changeIsa, and of rootRelease after a borrow, preserve the *)
(* invariant.                                                              *)
LEMMA LoadStepsPreserves ==
  ASSUME IInv, NEW t \in Threads, ChangeLoad(t) \/ BorrowReload(t)
  PROVE  IInv'
<1> USE DEF ChangeLoad, LoadExclusive, Goto, Transcribes, objVars, BorrowReload
<1>1. TypeOK'
  BY RefCountAssumption DEF IInv, TypeOK, Labels, Isas, Entries
<1>2. \A v \in Threads : LockInv(v)' /\ ArgInv(v)'
  BY RefCountAssumption DEF IInv, TypeOK, LockInv, ArgInv, Owns, Held
<1>3. \A v \in Threads : OldInv(v)'
  BY RefCountAssumption DEF IInv, TypeOK, LockInv, OldInv, Transcribes
<1>4. LiveInv'
  <2>1. InTransit' = InTransit
    BY RefCountAssumption DEF IInv, TypeOK, LockInv, InTransit, Carried
  <2>2. Deallocating' = Deallocating
    BY DEF IInv, TypeOK, Deallocating
  <2>3. weakVar' /\ WeakMarked => WeakMarked'
    BY DEF IInv, TypeOK, WeakMarked
  <2> QED
    BY <2>1, <2>2, <2>3 DEF IInv, LiveInv, Strong
<1>5. ArgsDiffer' /\ ShapeInv' /\ DyingInv' /\ FreedInv'
  BY DEF IInv, TypeOK, ArgsDiffer, ShapeInv, Halves, DyingInv, FreedInv,
       Strong, WeakMarked, Deallocating
<1> QED
  BY <1>1, <1>2, <1>3, <1>4, <1>5 DEF IInv

-----------------------------------------------------------------------------
(* The theorems                                                            *)

(* The invariant holds before the first object is allocated.               *)
LEMMA InitIInv == Init => IInv
<1> SUFFICES ASSUME Init PROVE IInv
  OBVIOUS
<1> USE DEF Init
<1>1. PICK c \in Classes : isa = RawIsa(c)
  OBVIOUS
<1>2. isa \in Isas /\ ~isa.nonpointer /\ isa = RawIsa(isa.cls)
  BY <1>1, RawIsaFields
<1>3. Strong = {}
  BY DEF Strong
<1>4. TypeOK
  BY <1>2 DEF TypeOK, Labels, Entries, NoEntry
<1>5. \A t \in Threads : LockInv(t) /\ ArgInv(t) /\ OldInv(t)
  BY RefCountAssumption DEF LockInv, ArgInv, OldInv
<1>6. ArgsDiffer /\ ShapeInv /\ LiveInv /\ DyingInv /\ FreedInv
  BY <1>2, <1>3 DEF ArgsDiffer, ShapeInv, LiveInv, DyingInv, FreedInv
<1> QED
  BY <1>4, <1>5, <1>6 DEF IInv

(* A step that changes nothing preserves the invariant.                    *)
LEMMA StutterIInv ==
  ASSUME IInv, UNCHANGED vars
  PROVE  IInv'
BY DEF vars, IInv, TypeOK, LockInv, ArgInv, Owns, Held, OldInv, ArgsDiffer,
     ShapeInv, LiveInv, DyingInv, FreedInv, Strong, InTransit, Carried,
     WeakMarked, Deallocating

(* Every step preserves it.                                                *)
LEMMA StepIInv ==
  ASSUME IInv, [Next]_vars
  PROVE  IInv'
<1>1. CASE UNCHANGED vars
  BY <1>1, StutterIInv
<1>2. ASSUME NEW t \in Threads, NewCall(t)
      PROVE  IInv'
  BY <1>2, CallRetainPreserves, CallReleasePreserves, CallLoadWeakPreserves,
       AllocPreserves, GivePreserves, CallChangeIsaPreserves,
       CallStoreWeakPreserves, CallStepsPreserves DEF NewCall
<1>3. ASSUME NEW t \in Threads, Retains(t) \/ Releases(t)
      PROVE  IInv'
  BY <1>3, RetainLoadPreserves, LockStepsPreserves, RetainStorePreserves,
       RetainMovePreserves, SidetableRetainPreserves, ReleaseLoadPreserves,
       ReleaseStorePreserves, BorrowPreserves, BorrowStorePreserves,
       LoadStepsPreserves, BorrowRestorePreserves, PutBackPreserves,
       DeallocStorePreserves, SidetableReleasePreserves DEF Retains, Releases
<1>4. ASSUME NEW t \in Threads, Deallocs(t) \/ Changes(t)
      PROVE  IInv'
  BY <1>4, RootDeallocPreserves, ClearDeallocatingPreserves, FreePreserves,
       LoadStepsPreserves, LockStepsPreserves, ChangeStorePreserves,
       ChangeMovePreserves, WeakLoadPreserves, WeakStorePreserves DEF
       Deallocs, Changes
<1> QED
  BY <1>1, <1>2, <1>3, <1>4, CountStepsPreserves, StoreFailsPreserves,
       LockStepsPreserves DEF Next, Step

(* So it always holds.                                                     *)
LEMMA Inductive == Spec => []IInv
BY InitIInv, StepIInv, PTL DEF Spec

(* Type correctness: whatever the threads do, extra_rc stays inside its    *)
(* bit field and the side table's count never goes below zero.             *)
THEOREM TypeCorrect == Spec => []TypeOK
<1>1. IInv => TypeOK
  BY DEF IInv
<1> QED
  BY Inductive, <1>1, PTL

(* No retain and no release is lost between the inline count, the side     *)
(* table and the thread that moves counts between them.                    *)
THEOREM Conservation == Spec => []CountConserved
<1>1. IInv => CountConserved
  BY DEF IInv, LiveInv, CountConserved
<1> QED
  BY Inductive, <1>1, PTL

(* An object is deallocated once, by one thread, when no reference is left.*)
THEOREM SingleDealloc == Spec => []DeallocatedOnce
<1>1. IInv => DeallocatedOnce
  BY DEF IInv, DyingInv, FreedInv, DeallocatedOnce
<1> QED
  BY Inductive, <1>1, PTL

(* Nobody is inside the runtime with an object that has been freed.        *)
THEOREM NoDanglingCall == Spec => []NoUseAfterFree
<1>1. ASSUME IInv, ~alive
      PROVE  Strong = {} /\ \A t \in Threads : pc[t] \in {"idle", "unlock"}
  <2>1. Strong = {}
    BY <1>1 DEF IInv, LiveInv
  <2>2. \A t \in Threads : pc[t] \notin DeallocLabels /\ ~trying[t] /\ ~Owns(t)
    BY <1>1, <2>1, RefCountAssumption DEF IInv, DyingInv, FreedInv, LockInv,
         Owns, Held, Strong
  <2> QED
    BY <1>1, <2>1, <2>2 DEF IInv, ArgInv
<1>2. IInv => NoUseAfterFree
  BY <1>1 DEF NoUseAfterFree
<1> QED
  BY Inductive, <1>2, PTL

(* An address is given back with no side table entry and no weak variable. *)
THEOREM CleanReuse == Spec => []CleanSideTable
<1>1. IInv => CleanSideTable
  BY DEF IInv, DyingInv, FreedInv, CleanSideTable
<1> QED
  BY Inductive, <1>1, PTL

(* overrelease_error is unreachable for clients that own what they release,*)
(* a borrow always finds RC_HALF in the table or nothing, and counts move  *)
(* only while isa has the shape that the operation asserts.                *)
THEOREM AssertionsHold ==
  Spec => [](NoOverrelease /\ BorrowNeverUnderflows /\ PathMatchesIsa)
<1>1. IInv => NoOverrelease
  BY DEF IInv, OldInv, NoOverrelease
<1>2. ASSUME IInv, NEW t \in Threads, pc[t] = "borrow", table.rc # 0
      PROVE  table.rc >= RC_HALF
  BY <1>2, HalvesClosed DEF IInv, OldInv, ShapeInv
<1>3. IInv => BorrowNeverUnderflows
  BY <1>2 DEF BorrowNeverUnderflows
<1>4. IInv => PathMatchesIsa
  BY DEF IInv, OldInv, PathMatchesIsa
<1> QED
  BY Inductive, <1>1, <1>3, <1>4, PTL

(* rootRetainCount is exact at the moment it reads isa.                    *)
THEOREM ExactCount == Spec => []RetainCountExact
<1>1. ASSUME IInv, NEW t \in Threads,
             pc[t] = "countLoad" \/ (pc[t] = "sidetableCount" /\ lock = NoThread)
      PROVE  RootRetainCount = Cardinality(Strong)
  <2>1. LiveFacts
    BY <1>1, OwnedIsLive DEF IInv, LockInv, ArgInv, Owns, Held
  <2>2. InTransit = 0
    BY <1>1, RefCountAssumption DEF IInv, LockInv, InTransit, Carried
  <2>3. /\ isa.extra_rc \in Nat /\ table.rc \in Nat
        /\ isa.nonpointer /\ ~isa.has_sidetable_rc => table.rc = 0
        /\ ~isa.nonpointer => isa.extra_rc = 0
    BY <1>1 DEF IInv, TypeOK, ShapeInv, RawIsa, NonpointerIsa, Isas, Entries
  <2> QED
    BY <2>1, <2>2, <2>3 DEF LiveFacts, RootRetainCount
<1>2. IInv => RetainCountExact
  BY <1>1 DEF RetainCountExact
<1> QED
  BY Inductive, <1>2, PTL

(* The counts of an object are sound, whatever the number of threads and   *)
(* the width of extra_rc: the parts of CountsSound are the theorems above. *)
THEOREM CountsAreSound == Spec => []CountsSound
<1>1. /\ TypeOK /\ CountConserved /\ RetainCountExact
      /\ NoOverrelease /\ BorrowNeverUnderflows /\ PathMatchesIsa
      => CountsSound
  BY DEF CountsSound
<1> QED
  BY <1>1, TypeCorrect, Conservation, ExactCount, AssertionsHold, PTL

(* Its address is: the object ends once and leaves nothing behind.         *)
THEOREM AddressIsSound == Spec => []AddressSound
<1>1. DeallocatedOnce /\ NoUseAfterFree /\ CleanSideTable => AddressSound
  BY DEF AddressSound
<1> QED
  BY <1>1, SingleDealloc, NoDanglingCall, CleanReuse, PTL

(* "This decrement cannot be the deallocating decrement": the release that *)
(* stores a borrowed count leaves a reference behind.                      *)
LEMMA BorrowedLeavesOne ==
  ASSUME IInv, NEW t \in Threads, BorrowStore(t) \/ BorrowRestore(t)
  PROVE  Strong' # {} /\ ~Deallocating'
<1>1. LiveFacts /\ lock = t
  BY OwnedIsLive DEF IInv, LockInv, ArgInv, BorrowStore, BorrowRestore
<1>2. InTransit = RC_HALF /\ isa.extra_rc \in Nat /\ table.rc \in Nat
  BY <1>1, RefCountAssumption DEF IInv, TypeOK, InTransit, Carried,
       BorrowStore, BorrowRestore, Isas, Entries
<1>3. Cardinality(Strong) >= 2
  BY <1>1, <1>2, RefCountAssumption DEF LiveFacts
<1>4. /\ Cardinality(Strong)' = Cardinality(Strong) - 1
      /\ Strong' = {} <=> Cardinality(Strong)' = 0
  BY DropCounts, RefCountAssumption DEF IInv, ArgInv, BorrowStore,
       BorrowRestore
<1>5. Strong' # {}
  BY <1>3, <1>4, StrongFinite
<1>6. ~Deallocating'
  BY <1>1 DEF LiveFacts, Deallocating, IInv, TypeOK, BorrowStore,
       BorrowRestore, Return, Finish, Goto
<1> QED
  BY <1>5, <1>6

(* A borrow from the side table only ever succeeds while there are         *)
(* references, and the object is not deallocating after it.                *)
THEOREM BorrowLeavesReferences == Spec => BorrowIsNotLast
<1>1. IInv /\ [Next]_vars =>
        [\A t \in Threads : BorrowStore(t) \/ BorrowRestore(t) =>
           Strong' # {} /\ ~Deallocating']_vars
  BY BorrowedLeavesOne
<1> QED
  BY Inductive, <1>1, PTL DEF Spec, BorrowIsNotLast

-----------------------------------------------------------------------------
(* Reference counting implements ObjectLifetime                            *)

(* A count of one means that the reference at hand is the only one.        *)
LEMMA LastDrop ==
  ASSUME IInv, NEW s \in Slots, slot[s] # NoThread
  PROVE  Cardinality(Strong) = 1 <=> Strong = {s}
<1>1. s \in Strong /\ IsFiniteSet(Strong)
  BY StrongFinite DEF Strong
<1>2. Strong = {s} => Cardinality(Strong) = 1
  BY FS_Singleton
<1>3. ASSUME Cardinality(Strong) = 1
      PROVE  Strong = {s}
  <2>1. Cardinality(Strong \ {s}) = 0 /\ IsFiniteSet(Strong \ {s})
    BY <1>1, <1>3, FS_RemoveElement
  <2>2. Strong \ {s} = {}
    BY <2>1, FS_EmptySet
  <2> QED
    BY <1>1, <2>2
<1> QED
  BY <1>2, <1>3

(* A step that neither allocates, frees nor changes a reference, and after *)
(* which the same threads are deallocating, is invisible to clients.       *)
Invisible ==
  /\ UNCHANGED <<alive, slot, weakVar>>
  /\ Deallocating' = Deallocating

(* Such a step is a stutter of ObjectLifetime.                             *)
LEMMA InvisibleStutters == Invisible => UNCHANGED Lifetime!lifeVars
BY DEF Invisible, Lifetime!lifeVars

(* Loads, locks, moves between the two counts and failed stores.           *)
LEMMA QuietSteps ==
  ASSUME IInv, NEW t \in Threads,
         \/ CallRetainCount(t) \/ RetainLoad(t) \/ RetainLock(t) \/ RetainMove(t)
         \/ ReleaseLoad(t) \/ ReleaseLock(t) \/ Borrow(t) \/ BorrowReload(t) \/ PutBack(t)
         \/ ChangeLoad(t) \/ ChangeLock(t) \/ ChangeStore(t) \/ ChangeMove(t)
         \/ WeakLoad(t) \/ WeakStore(t) \/ CountLoad(t) \/ SidetableCount(t)
         \/ StoreFails(t) \/ Unlocks(t) \/ RootDealloc(t)
         \/ \E s \in Slots : \/ CallRetain(t, s) \/ CallLoadWeak(t, s) \/ CallRelease(t, s)
         \/ \E c \in Classes : CallChangeIsa(t, c)
  PROVE  UNCHANGED Lifetime!lifeVars
<1>1. UNCHANGED <<alive, slot, weakVar>>
  BY DEF CallRetainCount, RetainLoad, RetainLock, RetainMove, ReleaseLoad,
       ReleaseLock, Borrow, BorrowReload, PutBack, ChangeLoad, ChangeLock,
       ChangeStore, ChangeMove, WeakLoad, WeakStore, CountLoad,
       SidetableCount, StoreFails, Unlocks, RootDealloc, CallRetain,
       CallLoadWeak, CallRelease, CallChangeIsa, objVars
<1>2. /\ \A u \in Threads \ {t} : pc'[u] = pc[u]
      /\ pc'[t] \in DeallocLabels <=> pc[t] \in DeallocLabels
  BY DEF IInv, TypeOK, CallRetainCount, RetainLoad, RetainLock, RetainMove,
       ReleaseLoad, ReleaseLock, Borrow, BorrowReload, PutBack, ChangeLoad,
       ChangeLock, ChangeStore, ChangeMove, WeakLoad, WeakStore, CountLoad,
       SidetableCount, StoreFails, Unlocks, RootDealloc, CallRetain,
       CallLoadWeak, CallRelease, CallChangeIsa, Call, Return, Finish, Goto,
       RetryLabel
<1> QED
  BY <1>1, <1>2, InvisibleStutters DEF Invisible, Deallocating

(* The three stores, and the raw release, that give up a reference.        *)
LEMMA ReleaseRefines ==
  ASSUME IInv, NEW t \in Threads,
         \/ ReleaseStore(t) \/ BorrowStore(t) \/ BorrowRestore(t)
         \/ DeallocStore(t) \/ SidetableRelease(t)
  PROVE  Lifetime!Release(arg[t])
<1> DEFINE s == arg[t]
<1>1. s \in Slots /\ slot[s] # NoThread /\ Drop(s) /\ UNCHANGED <<alive, weakVar>>
  BY RefCountAssumption DEF IInv, ArgInv, ReleaseStore, BorrowStore,
       BorrowRestore, DeallocStore, SidetableRelease
<1>2. LiveFacts
  BY <1>1, OwnedIsLive DEF IInv, TypeOK
<1>3. IInv'
  BY ReleaseStorePreserves, BorrowStorePreserves, BorrowRestorePreserves,
       DeallocStorePreserves, SidetableReleasePreserves
<1>4. Strong' = {} <=> Strong = {s}
  BY <1>1, DropCounts, LastDrop, StrongFinite DEF IInv
<1>5. Strong' = {} <=> Deallocating'
  BY <1>1, <1>2, <1>3 DEF LiveFacts, IInv, FreedInv, DyingInv, Deallocating
<1>6. ~Deallocating /\ alive /\ alive'
  BY <1>1, <1>2 DEF LiveFacts, Deallocating
<1> QED
  BY <1>1, <1>4, <1>5, <1>6 DEF Lifetime!Release, Lifetime!Strong, Strong, Drop

(* A retain takes effect with its store, unless a weak load gives up.      *)
LEMMA RetainRefines ==
  ASSUME IInv, NEW t \in Threads, RetainStore(t) \/ SidetableRetain(t)
  PROVE  (Lifetime!Retain(t, arg[t]) /\ arg[t] \in Slots) \/ UNCHANGED Lifetime!lifeVars
<1>1. arg[t] \in Slots /\ slot[arg[t]] = NoThread /\ UNCHANGED <<alive, weakVar>>
  BY DEF IInv, ArgInv, RetainStore, SidetableRetain
<1>2. Deallocating' = Deallocating
  BY DEF IInv, TypeOK, Deallocating, RetainStore, SidetableRetain, Return,
       Finish, Goto
<1>3. CASE UNCHANGED slot
  BY <1>1, <1>2, <1>3, InvisibleStutters DEF Invisible
<1>4. CASE Acquire(arg[t], t)
  <2>1. IInv' /\ Strong' # {}
    BY <1>1, <1>4, AcquireCounts, RetainStorePreserves,
         SidetableRetainPreserves DEF IInv
  <2>2. alive' /\ ~Deallocating'
    BY <2>1 DEF IInv, LiveInv
  <2> QED
    BY <1>1, <1>2, <1>4, <2>2 DEF Lifetime!Retain, Acquire
<1> QED
  BY <1>3, <1>4 DEF RetainStore, SidetableRetain

(* Every step is a step of ObjectLifetime or a stutter.                    *)
LEMMA StepRefines ==
  ASSUME IInv, [Next]_vars
  PROVE  [Lifetime!Next]_(Lifetime!lifeVars)
<1>0. CASE UNCHANGED vars
  BY <1>0, InvisibleStutters DEF Invisible, vars, Deallocating
<1>1. ASSUME NEW t \in Threads, NEW s \in Slots, NEW c \in Classes,
         Alloc(t, s, c)
      PROVE  Lifetime!Next
  <2>1. IInv' /\ ~alive /\ alive' /\ UNCHANGED <<weakVar, pc>> /\ Acquire(s, t)
    BY <1>1, AllocPreserves DEF Alloc
  <2>2. ~Deallocating'
    BY <2>1 DEF IInv, DyingInv, Deallocating
  <2> QED
    BY <2>1, <2>2 DEF Lifetime!Next, Lifetime!Alloc, Acquire
<1>2. ASSUME NEW t \in Threads, NEW s \in Slots, NEW u \in Threads,
         Give(t, s, u)
      PROVE  Lifetime!Next
  <2>1. /\ slot[s] # NoThread /\ Acquire(s, u) /\ UNCHANGED <<alive, weakVar>>
        /\ Deallocating' = Deallocating
    BY <1>2, RefCountAssumption DEF Give, Deallocating
  <2> QED
    BY <2>1 DEF Lifetime!Next, Lifetime!Give, Acquire
<1>3. ASSUME NEW t \in Threads, CallStoreWeak(t)
      PROVE  Lifetime!Next
  <2>1. LiveFacts
    BY <1>3, OwnedIsLive DEF CallStoreWeak, Owns, Held
  <2>2. ~Deallocating /\ ~Deallocating' /\ alive
    BY <1>3, <2>1 DEF LiveFacts, CallStoreWeak, Call, Goto, Deallocating,
         IInv, TypeOK
  <2> QED
    BY <1>3, <2>2 DEF Lifetime!Next, Lifetime!StoreWeak, CallStoreWeak
<1>4. ASSUME NEW t \in Threads, DestroyWeak(t) \/ ClearDeallocating(t)
      PROVE  Lifetime!Next
  <2>1. alive /\ weakVar' \in BOOLEAN
    BY <1>4 DEF IInv, TypeOK, FreedInv, DyingInv, DestroyWeak,
         ClearDeallocating
  <2>2. ~weakVar'
    <3>1. CASE DestroyWeak(t)
      BY <3>1 DEF DestroyWeak
    <3>2. CASE ClearDeallocating(t)
      <4>1. IInv' /\ pc'[t] = "free"
        BY <3>2, ClearDeallocatingPreserves DEF ClearDeallocating, Goto, IInv,
             TypeOK
      <4> QED
        BY <4>1 DEF IInv, DyingInv
    <3> QED
      BY <1>4, <3>1, <3>2
  <2>3. UNCHANGED <<alive, slot>> /\ Deallocating' = Deallocating
    BY <1>4 DEF DestroyWeak, ClearDeallocating, Goto, Deallocating, IInv,
         TypeOK
  <2> QED
    BY <2>1, <2>2, <2>3 DEF Lifetime!Next, Lifetime!ClearWeak
<1>5. ASSUME NEW t \in Threads, Free(t)
      PROVE  Lifetime!Next
  <2>1. alive /\ Deallocating /\ ~weakVar
    BY <1>5 DEF Free, Deallocating, IInv, DyingInv
  <2> QED
    BY <1>5, <2>1 DEF Free, Lifetime!Next, Lifetime!Free
<1>6. ASSUME NEW t \in Threads, NewCall(t) \/ Step(t)
      PROVE  [Lifetime!Next]_(Lifetime!lifeVars)
  <2>1. CASE NewCall(t)
    <3>1. CASE \E s \in Slots, c \in Classes : Alloc(t, s, c)
      BY <3>1, <1>1
    <3>2. CASE \E s \in Slots, u \in Threads : Give(t, s, u)
      BY <3>2, <1>2
    <3>3. CASE CallStoreWeak(t) \/ DestroyWeak(t)
      BY <3>3, <1>3, <1>4
    <3>4. CASE \/ \E s \in Slots : CallRetain(t, s) \/ CallLoadWeak(t, s) \/ CallRelease(t, s)
               \/ \E c \in Classes : CallChangeIsa(t, c)
               \/ CallRetainCount(t)
      BY <3>4, QuietSteps
    <3> QED
      BY <2>1, <3>1, <3>2, <3>3, <3>4 DEF NewCall
  <2>2. CASE Retains(t)
    BY <2>2, RetainRefines, QuietSteps DEF Retains, Lifetime!Next
  <2>3. CASE Releases(t)
    <3>1. CASE \/ ReleaseStore(t) \/ BorrowStore(t) \/ BorrowRestore(t)
               \/ DeallocStore(t) \/ SidetableRelease(t)
      <4>1. Lifetime!Release(arg[t]) /\ arg[t] \in Slots
        BY <3>1, ReleaseRefines DEF IInv, ArgInv, ReleaseStore, BorrowStore,
             BorrowRestore, DeallocStore, SidetableRelease
      <4> QED
        BY <4>1 DEF Lifetime!Next
    <3> QED
      BY <2>3, <3>1, QuietSteps DEF Releases
  <2>4. CASE Deallocs(t)
    BY <2>4, <1>4, <1>5, QuietSteps DEF Deallocs
  <2>5. CASE Changes(t) \/ CountLoad(t) \/ SidetableCount(t) \/ StoreFails(t) \/ Unlocks(t)
    BY <2>5, QuietSteps DEF Changes
  <2> QED
    BY <1>6, <2>1, <2>2, <2>3, <2>4, <2>5 DEF Step
<1> QED
  BY <1>0, <1>6 DEF Next

(* Every step of RefCount is a step of ObjectLifetime or invisible to it:  *)
(* deallocation begins with the release of the last reference, no weak     *)
(* load returns an object being deallocated, and memory is freed once.     *)
THEOREM ImplementsLifetime == Spec => LifetimeSpec
<1>1. Init => Lifetime!Init
  BY DEF Init, Lifetime!Init
<1> QED
  BY Inductive, StepRefines, <1>1, PTL DEF Spec, LifetimeSpec, Lifetime!Spec

HIDE DEF LockedLabels, UnlockedLabels, RetainLabels, ReleaseLabels, ChangeLabels,
        BorrowLabels, DeallocLabels

-----------------------------------------------------------------------------
(* Numbers                                                                 *)

LEMMA ModIn ==
  ASSUME NEW n \in Nat \ {0}, NEW a \in Nat
  PROVE  a % n \in 0..n - 1 /\ a \div n \in Nat /\ a = n * (a \div n) + (a % n)
OBVIOUS

LEMMA Multiple ==
  ASSUME NEW n \in Nat \ {0}, NEW q \in Nat, NEW r \in Nat, q < r
  PROVE  n * q + n <= n * r
<1>1. PICK d \in Nat : r = q + 1 + d
  <2>1. r - (q + 1) \in Nat /\ r = q + 1 + (r - (q + 1))
    OBVIOUS
  <2> QED
    BY <2>1
<1>2. n * r = n * q + n + n * d
  BY <1>1
<1>3. n * d \in Nat /\ n * q \in Nat
  OBVIOUS
<1> QED
  BY <1>2, <1>3

(* Displacements below the size of the table lead to different slots.      *)
LEMMA ModDistinct ==
  ASSUME NEW n \in Nat \ {0}, NEW h \in Nat, NEW a \in 0..n - 1, NEW b \in 0..n - 1,
         (h + a) % n = (h + b) % n
  PROVE  a = b
<1>1. PICK q \in Nat, r \in Nat : h + a = n * q + ((h + a) % n) /\ h + b = n * r + ((h + b) % n)
  <2>1. h + a \in Nat /\ h + b \in Nat
    OBVIOUS
  <2> QED
    BY <2>1, ModIn
<1>2. PICK m \in Nat : m = (h + a) % n
  BY ModIn
<1>3. PICK x \in Nat, y \in Nat : x = n * q /\ y = n * r
  OBVIOUS
<1>4. h + a = x + m /\ h + b = y + m
  BY <1>1, <1>2, <1>3
<1>5. CASE q < r
  <2>1. x + n <= y
    BY <1>3, <1>5, Multiple
  <2> QED
    BY <1>4, <2>1
<1>6. CASE r < q
  <2>1. y + n <= x
    BY <1>3, <1>6, Multiple
  <2> QED
    BY <1>4, <2>1
<1>7. CASE q = r
  BY <1>3, <1>4, <1>7
<1> QED
  BY <1>5, <1>6, <1>7
(* A set of numbers has a smallest one, because < is well-founded; with it,*)
(* what holds of 0 and of the successor holds of all numbers.              *)
LEMMA NatMin ==
  ASSUME NEW T, T \subseteq Nat, T # {}
  PROVE  \E x \in T : \A y \in T : x <= y
<1>1. PICK R : R = {ss \in Nat \X Nat : ss[1] < ss[2]}
  OBVIOUS
<1>2. IsWellFoundedOn(R, Nat)
  <2>1. IsWellFoundedOn(OpToRel(<, Nat), Nat)
    BY NatLessThanWellFounded
  <2>2. OpToRel(<, Nat) = {ss \in Nat \X Nat : ss[1] < ss[2]}
    BY Zenon DEF OpToRel
  <2> QED
    BY <1>1, <2>1, <2>2, ZenonT(60)
<1>3. \E x \in T : \A y \in T : ~ (<<y, x>> \in R)
  BY <1>2, WFMin
<1>4. \A x, y \in Nat : x < y => <<x, y>> \in R
  BY <1>1
<1>5. PICK x \in T : \A y \in T : ~ (<<y, x>> \in R)
  BY <1>3
<1>6. ASSUME NEW y \in T PROVE x <= y
  <2>1. x \in Nat /\ y \in Nat
    OBVIOUS
  <2>2. ~ (y < x)
    BY <1>4, <1>5, <2>1
  <2> QED
    BY <2>1, <2>2
<1> QED
  BY <1>6

LEMMA SetInduction ==
  ASSUME NEW S, 0 \in S, \A n \in Nat : n \in S => n + 1 \in S
  PROVE  Nat \subseteq S
<1> SUFFICES ASSUME Nat \ S # {} PROVE FALSE
  OBVIOUS
<1>1. PICK x \in Nat \ S : \A y \in Nat \ S : x <= y
  <2>1. Nat \ S \subseteq Nat
    OBVIOUS
  <2> QED
    BY NatMin, <2>1
<1>2. x # 0 /\ x - 1 \in Nat
  OBVIOUS
<1>3. x - 1 \in S
  BY <1>1, <1>2
<1> QED
  BY <1>1, <1>2, <1>3

LEMMA MinIs ==
  ASSUME NEW S, S \subseteq Nat, S # {}
  PROVE  Min(S) \in S /\ \A x \in S : Min(S) <= x
<1>1. \E x \in S : \A y \in S : x <= y
  BY NatMin
<1> QED
  BY <1>1 DEF Min

-----------------------------------------------------------------------------
(* Slots                                                                   *)

LEMMA PlaceIn ==
  ASSUME NEW S, NEW slots \in Seq(S), Len(slots) # 0, NEW h \in Nat, NEW k \in Nat
  PROVE  Place(slots, h, k) \in DOMAIN slots
<1>1. PICK n \in Nat \ {0} : n = Len(slots)
  OBVIOUS
<1>2. (h + k) % n \in 0..n - 1
  BY ModIn
<1>3. 1 + ((h + k) % n) \in 1..n
  BY <1>2
<1>4. DOMAIN slots = 1..n
  BY <1>1
<1> QED
  BY <1>1, <1>3, <1>4 DEF Place

LEMMA FilledFinite ==
  ASSUME NEW S, NEW slots \in Seq(S)
  PROVE  /\ IsFiniteSet(Filled(slots))
         /\ Cardinality(Filled(slots)) \in Nat
         /\ Cardinality(Filled(slots)) <= Len(slots)
         /\ Filled(slots) \subseteq DOMAIN slots
<1>1. PICK n \in Nat : n = Len(slots)
  OBVIOUS
<1>2. IsFiniteSet(1..n) /\ Cardinality(1..n) = n
  <2>1. IsFiniteSet(1..n) /\ Cardinality(1..n) = IF 1 > n THEN 0 ELSE n - 1 + 1
    BY FS_Interval
  <2> QED
    BY <2>1
<1>3. Filled(slots) \in SUBSET (1..n)
  BY <1>1 DEF Filled
<1>4. IsFiniteSet(Filled(slots)) /\ Cardinality(Filled(slots)) <= n
  BY <1>2, <1>3, FS_Subset
<1>5. Cardinality(Filled(slots)) \in Nat
  BY <1>4, FS_CardinalityType
<1> QED
  BY <1>1, <1>3, <1>4, <1>5

LEMMA FilledIn ==
  ASSUME NEW V, NEW slots \in Seq(V \cup {Nil}), NEW i \in Filled(slots)
  PROVE  i \in DOMAIN slots /\ slots[i] \in V /\ slots[i] # Nil
BY DEF Filled

(* A search meets different slots, so as long as they are filled ...       *)
LEMMA PlacesFilled ==
  ASSUME NEW S, NEW slots \in Seq(S), NEW h \in Nat, NEW m \in 0..Len(slots),
         \A j \in 0..m - 1 : slots[Place(slots, h, j)] # Nil
  PROVE  m <= Cardinality(Filled(slots))
<1>1. PICK n \in Nat : n = Len(slots)
  OBVIOUS
<1>2. PICK f : f = [j \in 0..m - 1 |-> Place(slots, h, j)]
  OBVIOUS
<1>3. ASSUME NEW j \in 0..m - 1 PROVE f[j] \in Filled(slots)
  <2>1. j \in Nat /\ Len(slots) # 0
    BY <1>1
  <2>2. f[j] = Place(slots, h, j)
    BY <1>2
  <2>3. Place(slots, h, j) \in DOMAIN slots
    BY <2>1, PlaceIn
  <2> QED
    BY <2>2, <2>3 DEF Filled
<1>4. ASSUME NEW i \in 0..m - 1, NEW j \in 0..m - 1, f[i] = f[j] PROVE i = j
  <2>1. i \in 0..n - 1 /\ j \in 0..n - 1 /\ n # 0
    BY <1>1
  <2>2. 1 + ((h + i) % n) = 1 + ((h + j) % n)
    BY <1>1, <1>2, <1>4 DEF Place
  <2>3. (h + i) % n \in Nat /\ (h + j) % n \in Nat
    <3>1. h + i \in Nat /\ h + j \in Nat /\ n \in Nat \ {0}
      BY <2>1
    <3>2. (h + i) % n \in 0..n - 1
      BY <3>1, ModIn
    <3>3. (h + j) % n \in 0..n - 1
      BY <3>1, ModIn
    <3> QED
      BY <3>1, <3>2, <3>3
  <2>4. (h + i) % n = (h + j) % n
    BY <2>2, <2>3
  <2> QED
    BY <2>1, <2>4, ModDistinct
<1>5. f \in Injection(0..m - 1, Filled(slots))
  <2>1. f \in [0..m - 1 -> Filled(slots)]
    BY <1>2, <1>3
  <2> QED
    BY <1>4, <2>1 DEF Injection, IsInjective
<1>6. Cardinality(0..m - 1) <= Cardinality(Filled(slots))
  BY <1>5, FilledFinite, FS_Injection
<1>7. m \in Nat
  BY <1>1
<1>8. Cardinality(0..m - 1) = m
  <2>1. Cardinality(0..m - 1) = IF 0 > m - 1 THEN 0 ELSE m - 1 - 0 + 1
    BY <1>7, FS_Interval
  <2> QED
    BY <1>7, <2>1
<1> QED
  BY <1>6, <1>8

(* ... there is an empty one, at a displacement that is at most their      *)
(* number.                                                                 *)
LEMMA FreeFound ==
  ASSUME NEW S, NEW slots \in Seq(S), NEW h \in Nat,
         Cardinality(Filled(slots)) < Len(slots)
  PROVE  /\ FreeDisplacement(slots, h) \in Nat
         /\ FreeDisplacement(slots, h) < Len(slots)
         /\ FreeDisplacement(slots, h) <= Cardinality(Filled(slots))
         /\ slots[Place(slots, h, FreeDisplacement(slots, h))] = Nil
         /\ Place(slots, h, FreeDisplacement(slots, h)) \in DOMAIN slots
<1>1. PICK n \in Nat, c \in Nat : n = Len(slots) /\ c = Cardinality(Filled(slots))
  BY FilledFinite
<1>2. PICK F : F = {k \in 0..n - 1 : slots[Place(slots, h, k)] = Nil}
  OBVIOUS
<1>3. F # {}
  <2> SUFFICES ASSUME F = {} PROVE FALSE
    OBVIOUS
  <2>1. \A j \in 0..n - 1 : slots[Place(slots, h, j)] # Nil
    BY <1>2
  <2>2. n \in 0..Len(slots)
    BY <1>1
  <2>3. n <= c
    BY <1>1, <2>1, <2>2, PlacesFilled
  <2> QED
    BY <1>1, <2>3
<1>4. PICK k : k = Min(F)
  OBVIOUS
<1>5. k \in F /\ \A x \in F : k <= x
  <2>1. F \subseteq Nat
    BY <1>2
  <2> QED
    BY <1>3, <1>4, <2>1, MinIs
<1>6. k \in 0..n - 1 /\ slots[Place(slots, h, k)] = Nil
  BY <1>2, <1>5
<1>7. k <= c
  <2>1. ASSUME NEW j \in 0..k - 1 PROVE slots[Place(slots, h, j)] # Nil
    <3>1. j \in 0..n - 1 /\ ~ (k <= j)
      BY <1>6
    <3> QED
      BY <1>2, <1>5, <3>1
  <2>2. k \in 0..Len(slots)
    BY <1>1, <1>6
  <2> QED
    BY <1>1, <2>1, <2>2, PlacesFilled
<1>8. FreeDisplacement(slots, h) = k
  BY <1>1, <1>2, <1>4 DEF FreeDisplacement
<1>9. Place(slots, h, k) \in DOMAIN slots
  <2>1. k \in Nat /\ Len(slots) # 0
    BY <1>1, <1>6
  <2> QED
    BY <2>1, PlaceIn
<1> QED
  BY <1>1, <1>6, <1>7, <1>8, <1>9

(* One slot is assigned.                                                   *)
Put(slots, p, x) == [slots EXCEPT ![p] = x]

LEMMA PutIs ==
  ASSUME NEW S, NEW slots \in Seq(S), NEW p \in DOMAIN slots, NEW x \in S
  PROVE  /\ Put(slots, p, x) \in Seq(S)
         /\ Len(Put(slots, p, x)) = Len(slots)
         /\ DOMAIN Put(slots, p, x) = DOMAIN slots
         /\ Put(slots, p, x)[p] = x
         /\ \A i \in DOMAIN slots : i # p => Put(slots, p, x)[i] = slots[i]
BY DEF Put

LEMMA PutPlace ==
  ASSUME NEW S, NEW slots \in Seq(S), NEW p \in DOMAIN slots, NEW x \in S, NEW h, NEW k
  PROVE  Place(Put(slots, p, x), h, k) = Place(slots, h, k)
BY PutIs DEF Place

(* ... an empty one, and one that is emptied.                              *)
LEMMA PutFills ==
  ASSUME NEW S, NEW slots \in Seq(S), NEW p \in DOMAIN slots, NEW x \in S,
         slots[p] = Nil, x # Nil
  PROVE  /\ Filled(Put(slots, p, x)) = Filled(slots) \cup {p}
         /\ p \notin Filled(slots)
         /\ Cardinality(Filled(Put(slots, p, x))) = Cardinality(Filled(slots)) + 1
         /\ Values(Put(slots, p, x)) = Values(slots) \cup {x}
<1>1. Filled(Put(slots, p, x)) = Filled(slots) \cup {p}
  <2>1. \A i \in DOMAIN slots : Put(slots, p, x)[i] # Nil <=> i = p \/ slots[i] # Nil
    <3>1. Put(slots, p, x)[p] = x
      BY PutIs
    <3>2. \A i \in DOMAIN slots : i # p => Put(slots, p, x)[i] = slots[i]
      BY PutIs
    <3> QED
      BY <3>1, <3>2
  <2>2. DOMAIN Put(slots, p, x) = DOMAIN slots
    BY PutIs
  <2> QED
    BY <2>1, <2>2 DEF Filled
<1>2. p \notin Filled(slots)
  BY DEF Filled
<1>3. Cardinality(Filled(slots) \cup {p}) = Cardinality(Filled(slots)) + 1
  BY <1>2, FilledFinite, FS_AddElement
<1>4. \A i \in Filled(slots) : Put(slots, p, x)[i] = slots[i]
  <2>1. \A i \in Filled(slots) : i \in DOMAIN slots /\ i # p
    BY <1>2 DEF Filled
  <2> QED
    BY <2>1, PutIs
<1>5. Put(slots, p, x)[p] = x
  BY PutIs
<1>6. Values(Put(slots, p, x)) = Values(slots) \cup {x}
  BY <1>1, <1>4, <1>5 DEF Values
<1> QED
  BY <1>1, <1>2, <1>3, <1>6

LEMMA PutEmpties ==
  ASSUME NEW S, NEW slots \in Seq(S), NEW p \in Filled(slots), Nil \in S
  PROVE  /\ Filled(Put(slots, p, Nil)) = Filled(slots) \ {p}
         /\ Cardinality(Filled(Put(slots, p, Nil))) = Cardinality(Filled(slots)) - 1
         /\ \A i \in Filled(slots) : i # p => Put(slots, p, Nil)[i] = slots[i]
<1>0. p \in DOMAIN slots
  BY DEF Filled
<1>1. Filled(Put(slots, p, Nil)) = Filled(slots) \ {p}
  <2>1. \A i \in DOMAIN slots : Put(slots, p, Nil)[i] # Nil <=> i # p /\ slots[i] # Nil
    <3>1. Put(slots, p, Nil)[p] = Nil
      BY <1>0, PutIs
    <3>2. \A i \in DOMAIN slots : i # p => Put(slots, p, Nil)[i] = slots[i]
      BY <1>0, PutIs
    <3> QED
      BY <1>0, <3>1, <3>2
  <2>2. DOMAIN Put(slots, p, Nil) = DOMAIN slots
    BY <1>0, PutIs
  <2> QED
    BY <2>1, <2>2 DEF Filled
<1>2. Cardinality(Filled(slots) \ {p}) = Cardinality(Filled(slots)) - 1
  BY FilledFinite, FS_RemoveElement
<1>3. \A i \in Filled(slots) : i \in DOMAIN slots
  BY DEF Filled
<1> QED
  BY <1>0, <1>1, <1>2, <1>3, PutIs

(* The table forgets the value of the slot that is emptied, and no other   *)
(* one: they have different keys.                                          *)
LEMMA PutForgets ==
  ASSUME NEW S, NEW slots \in Seq(S), NEW p \in Filled(slots), Nil \in S,
         NEW key, Unique(slots, key)
  PROVE  /\ Values(Put(slots, p, Nil)) = Values(slots) \ {slots[p]}
         /\ Unique(Put(slots, p, Nil), key)
<1>1. /\ Filled(Put(slots, p, Nil)) = Filled(slots) \ {p}
      /\ \A i \in Filled(slots) : i # p => Put(slots, p, Nil)[i] = slots[i]
  BY PutEmpties
<1>2. \A i \in Filled(slots) : slots[i] = slots[p] => i = p
  BY DEF Unique
<1>3. Values(Put(slots, p, Nil)) = Values(slots) \ {slots[p]}
  BY <1>1, <1>2 DEF Values
<1>4. Unique(Put(slots, p, Nil), key)
  BY <1>1 DEF Unique
<1> QED
  BY <1>3, <1>4

(* ... and one that keeps its key.                                         *)
LEMMA PutReplaces ==
  ASSUME NEW S, NEW slots \in Seq(S), NEW p \in Filled(slots), NEW x \in S, x # Nil,
         NEW key, Unique(slots, key), key[x] = key[slots[p]]
  PROVE  /\ Filled(Put(slots, p, x)) = Filled(slots)
         /\ \A i \in Filled(slots) : key[Put(slots, p, x)[i]] = key[slots[i]]
         /\ Values(Put(slots, p, x)) = (Values(slots) \ {slots[p]}) \cup {x}
         /\ Unique(Put(slots, p, x), key)
<1>0. p \in DOMAIN slots /\ slots[p] # Nil
  BY DEF Filled
<1>1. Filled(Put(slots, p, x)) = Filled(slots)
  <2>1. \A i \in DOMAIN slots : Put(slots, p, x)[i] # Nil <=> slots[i] # Nil
    <3>1. Put(slots, p, x)[p] = x
      BY <1>0, PutIs
    <3>2. \A i \in DOMAIN slots : i # p => Put(slots, p, x)[i] = slots[i]
      BY <1>0, PutIs
    <3> QED
      BY <1>0, <3>1, <3>2
  <2>2. DOMAIN Put(slots, p, x) = DOMAIN slots
    BY <1>0, PutIs
  <2> QED
    BY <2>1, <2>2 DEF Filled
<1>2. \A i \in Filled(slots) : i # p => Put(slots, p, x)[i] = slots[i]
  <2>1. \A i \in Filled(slots) : i \in DOMAIN slots
    BY DEF Filled
  <2> QED
    BY <1>0, <2>1, PutIs
<1>3. Put(slots, p, x)[p] = x
  BY <1>0, PutIs
<1>4. \A i \in Filled(slots) : key[Put(slots, p, x)[i]] = key[slots[i]]
  BY <1>2, <1>3
<1>5. Unique(Put(slots, p, x), key)
  BY <1>1, <1>4 DEF Unique
<1>6. \A i \in Filled(slots) : slots[i] = slots[p] => i = p
  BY DEF Unique
<1>7. Values(Put(slots, p, x)) = (Values(slots) \ {slots[p]}) \cup {x}
  BY <1>1, <1>2, <1>3, <1>6 DEF Values
<1> QED
  BY <1>1, <1>4, <1>5, <1>7

-----------------------------------------------------------------------------
(* Hash tables                                                             *)

(* What keys hash to.                                                      *)
Keyed(V, key) == Nil \notin V /\ \A v \in V : Hash[key[v]] \in Nat

LEMMA TableParts ==
  ASSUME NEW V, NEW T \in TableOf(V)
  PROVE  T.slots \in Seq(V \cup {Nil}) /\ T.num \in Nat /\ T.disp \in Nat
BY DEF TableOf

LEMMA AddIs ==
  ASSUME NEW T, NEW h, NEW x, NEW k, k = FreeDisplacement(T.slots, h)
  PROVE  /\ Add(T, h, x).slots = Put(T.slots, Place(T.slots, h, k), x)
         /\ Add(T, h, x).num = T.num + 1
         /\ Add(T, h, x).disp = Larger(T.disp, k)
         /\ Add(T, h, x) = [slots |-> Put(T.slots, Place(T.slots, h, k), x),
                            num |-> T.num + 1, disp |-> Larger(T.disp, k)]
BY DEF Add, Put

(* What is added has a key that nothing in the table has.                  *)
NewKey(slots, key, x) == \A i \in Filled(slots) : key[slots[i]] # key[x]

LEMMA AddSound ==
  ASSUME NEW V, NEW key, Keyed(V, key), NEW T, HashFilled(T, key, V),
         NEW x \in V, NewKey(T.slots, key, x), T.num < Len(T.slots),
         NEW A, A = Add(T, Hash[key[x]], x)
  PROVE  /\ HashFilled(A, key, V)
         /\ A.num = T.num + 1
         /\ Len(A.slots) = Len(T.slots)
         /\ Values(A.slots) = Values(T.slots) \cup {x}
         /\ A.disp <= T.disp \/ A.disp <= T.num
<1>1. T \in TableOf(V) /\ T.num = Cardinality(Filled(T.slots)) /\ Unique(T.slots, key) /\ Reachable(T, key)
  BY DEF HashFilled
<1>2. T.slots \in Seq(V \cup {Nil}) /\ T.num \in Nat /\ T.disp \in Nat
  BY <1>1, TableParts
<1>3. PICK h \in Nat : h = Hash[key[x]]
  BY DEF Keyed
<1>4. PICK k : k = FreeDisplacement(T.slots, h)
  OBVIOUS
<1>5. PICK p : p = Place(T.slots, h, k)
  OBVIOUS
<1>6. k \in Nat /\ k < Len(T.slots) /\ k <= T.num /\ p \in DOMAIN T.slots /\ T.slots[p] = Nil
  BY <1>1, <1>2, <1>4, <1>5, FreeFound
<1>7. /\ A.slots = Put(T.slots, p, x) /\ A.num = T.num + 1 /\ A.disp = Larger(T.disp, k)
      /\ A = [slots |-> Put(T.slots, p, x), num |-> T.num + 1, disp |-> Larger(T.disp, k)]
  BY <1>3, <1>4, <1>5, AddIs
<1>8. /\ A.slots \in Seq(V \cup {Nil}) /\ Len(A.slots) = Len(T.slots)
      /\ A.slots[p] = x
      /\ \A i \in DOMAIN T.slots : i # p => A.slots[i] = T.slots[i]
  <2>1. x \in V \cup {Nil}
    OBVIOUS
  <2>2. /\ Put(T.slots, p, x) \in Seq(V \cup {Nil}) /\ Len(Put(T.slots, p, x)) = Len(T.slots)
        /\ Put(T.slots, p, x)[p] = x
        /\ \A i \in DOMAIN T.slots : i # p => Put(T.slots, p, x)[i] = T.slots[i]
    <3>1. PICK S, slots : S = V \cup {Nil} /\ slots = T.slots /\ slots \in Seq(S)
      BY <1>2
    <3>2. slots \in Seq(S) /\ p \in DOMAIN slots /\ x \in S
      BY <1>6, <2>1, <3>1
    <3>3. /\ Put(slots, p, x) \in Seq(S) /\ Len(Put(slots, p, x)) = Len(slots)
          /\ Put(slots, p, x)[p] = x
          /\ \A i \in DOMAIN slots : i # p => Put(slots, p, x)[i] = slots[i]
      BY <3>2, PutIs
    <3> QED
      BY <3>1, <3>3
  <2> QED
    BY <1>7, <2>2
<1>9. /\ Filled(A.slots) = Filled(T.slots) \cup {p} /\ p \notin Filled(T.slots)
      /\ A.num = Cardinality(Filled(A.slots))
      /\ Values(A.slots) = Values(T.slots) \cup {x}
  <2>1. x \in V \cup {Nil} /\ x # Nil
    BY DEF Keyed
  <2> QED
    BY <1>1, <1>2, <1>6, <1>7, <2>1, PutFills
<1>10. A.disp \in Nat /\ T.disp <= A.disp /\ k <= A.disp /\ (A.disp = T.disp \/ A.disp = k)
  BY <1>2, <1>6, <1>7 DEF Larger
<1>11. A \in TableOf(V)
  <2>1. T.num + 1 \in Nat
    BY <1>2
  <2> QED
    BY <1>7, <1>8, <1>10, <2>1 DEF TableOf
<1>12. \A i \in Filled(T.slots) : i \in DOMAIN T.slots /\ i # p
  BY <1>9 DEF Filled
<1>13. Unique(A.slots, key)
  <2>1. \A i \in Filled(T.slots) : A.slots[i] = T.slots[i] /\ key[A.slots[i]] # key[x]
    BY <1>8, <1>12 DEF NewKey
  <2> QED
    BY <1>1, <1>8, <1>9, <2>1 DEF Unique
<1>14. Reachable(A, key)
  <2> SUFFICES ASSUME NEW i \in Filled(A.slots)
               PROVE  \E j \in Looked(A) : i = Place(A.slots, Hash[key[A.slots[i]]], j)
    BY DEF Reachable
  <2>1. \A g, j : Place(A.slots, g, j) = Place(T.slots, g, j)
    BY <1>8 DEF Place
  <2>2. CASE i = p
    <3>1. k \in Looked(A)
      BY <1>6, <1>8, <1>10 DEF Looked
    <3>2. p = Place(A.slots, Hash[key[A.slots[p]]], k)
      BY <1>3, <1>5, <1>8, <2>1
    <3> QED
      BY <2>2, <3>1, <3>2
  <2>3. CASE i \in Filled(T.slots)
    <3>1. PICK j \in Looked(T) : i = Place(T.slots, Hash[key[T.slots[i]]], j)
      BY <1>1, <2>3 DEF Reachable
    <3>2. j \in Looked(A)
      BY <1>2, <1>8, <1>10 DEF Looked
    <3>3. A.slots[i] = T.slots[i]
      BY <1>8, <1>12, <2>3
    <3>4. i = Place(A.slots, Hash[key[A.slots[i]]], j)
      BY <2>1, <3>1, <3>3
    <3> QED
      BY <3>2, <3>4
  <2> QED
    BY <1>9, <2>2, <2>3
<1>15. A.disp <= T.disp \/ A.disp <= T.num
  BY <1>2, <1>6, <1>10
<1> QED
  BY <1>7, <1>8, <1>9, <1>11, <1>13, <1>14, <1>15 DEF HashFilled

(* A search finds only what is in the table.                               *)
LEMMA SearchIn ==
  ASSUME NEW V, NEW key, NEW T \in TableOf(V), NEW x, Hash[x] \in Nat,
         NEW j \in Search(T, key, x)
  PROVE  j \in Filled(T.slots) /\ key[T.slots[j]] = x
<1>1. T.slots[j] # Nil /\ key[T.slots[j]] = x
  BY DEF Search
<1>2. PICK k \in Looked(T) : j = Place(T.slots, Hash[x], k)
  BY DEF Search
<1>3. T.slots \in Seq(V \cup {Nil})
  BY TableParts
<1>4. k \in Nat /\ Len(T.slots) # 0
  <2>1. PICK d \in Nat, n \in Nat : d = T.disp /\ n = Len(T.slots)
    BY <1>3, TableParts
  <2>2. k \in 0..d /\ k < n
    BY <1>2, <2>1 DEF Looked
  <2> QED
    BY <2>1, <2>2
<1>5. j \in DOMAIN T.slots
  BY <1>2, <1>3, <1>4, PlaceIn
<1> QED
  BY <1>1, <1>5 DEF Filled

(* A search for what is in the table finds it, and nothing else.           *)
LEMMA SearchFinds ==
  ASSUME NEW V, NEW key, Keyed(V, key), NEW T, HashFilled(T, key, V), NEW i \in Filled(T.slots)
  PROVE  Search(T, key, key[T.slots[i]]) = {i}
<1>1. Unique(T.slots, key) /\ Reachable(T, key) /\ T \in TableOf(V)
  BY DEF HashFilled
<1>2. PICK x : x = key[T.slots[i]]
  OBVIOUS
<1>3. PICK k \in Looked(T) : i = Place(T.slots, Hash[x], k)
  BY <1>1, <1>2 DEF Reachable
<1>4. T.slots[i] # Nil
  BY DEF Filled
<1>5. i \in Search(T, key, x)
  BY <1>2, <1>3, <1>4, ZenonT(60) DEF Search
<1>6. ASSUME NEW j \in Search(T, key, x)
      PROVE  j = i
  <2>1. T.slots[i] \in V
    BY <1>1, TableParts, FilledIn
  <2>2. Hash[x] \in Nat
    BY <1>2, <2>1 DEF Keyed
  <2>3. j \in Filled(T.slots) /\ key[T.slots[j]] = x
    BY <1>1, <1>6, <2>2, SearchIn
  <2> QED
    BY <1>1, <1>2, <2>3 DEF Unique
<1> QED
  BY <1>2, <1>5, <1>6

(* A new table is empty.                                                   *)
LEMMA NewSound ==
  ASSUME NEW V, NEW key, NEW size \in Nat
  PROVE  /\ HashFilled(NewTable(size), key, V)
         /\ NewTable(size).num = 0 /\ NewTable(size).disp = 0
         /\ Len(NewTable(size).slots) = size
         /\ Filled(NewTable(size).slots) = {} /\ Values(NewTable(size).slots) = {}
<1>1. PICK s : s = EmptySlots(size)
  OBVIOUS
<1>2. s = [i \in 1..size |-> Nil]
  BY <1>1 DEF EmptySlots
<1>3. s \in Seq(V \cup {Nil}) /\ Len(s) = size
  BY <1>2
<1>4. Filled(s) = {} /\ Values(s) = {}
  BY <1>2 DEF Filled, Values
<1>5. Cardinality(Filled(s)) = 0
  BY <1>4, FS_EmptySet
<1>6. NewTable(size) = [slots |-> s, num |-> 0, disp |-> 0]
  BY <1>1 DEF NewTable
<1>7. PICK T : T = NewTable(size)
  OBVIOUS
<1>8. T.slots = s /\ T.num = 0 /\ T.disp = 0
  BY <1>6, <1>7
<1>9. T \in TableOf(V)
  BY <1>3, <1>6, <1>7 DEF TableOf
<1>10. HashFilled(T, key, V)
  BY <1>4, <1>5, <1>8, <1>9 DEF HashFilled, Unique, Reachable
<1> QED
  BY <1>3, <1>4, <1>7, <1>8, <1>10

(* g[m] is the new table with the first m slots.                           *)
FilledUp(g, slots, size, key, n) ==
  g = [m \in 0..n |-> IF m = 0 THEN NewTable(size)
                      ELSE IF slots[m] = Nil THEN g[m - 1]
                      ELSE Add(g[m - 1], Hash[key[slots[m]]], slots[m])]

Fills(g, slots, size, key, n) ==
  /\ g[0] = NewTable(size)
  /\ \A m \in 1..n : g[m] = IF slots[m] = Nil THEN g[m - 1]
                            ELSE Add(g[m - 1], Hash[key[slots[m]]], slots[m])

LEMMA FilledUpIs ==
  ASSUME NEW slots, NEW size, NEW key, NEW n \in Nat, NEW g, FilledUp(g, slots, size, key, n)
  PROVE  Fills(g, slots, size, key, n)
<1>1. \A m \in 0..n : g[m] = IF m = 0 THEN NewTable(size)
                             ELSE IF slots[m] = Nil THEN g[m - 1]
                             ELSE Add(g[m - 1], Hash[key[slots[m]]], slots[m])
  BY ZenonT(60) DEF FilledUp
<1>2. 0 \in 0..n /\ \A m \in 1..n : m \in 0..n /\ m # 0
  OBVIOUS
<1> QED
  BY <1>1, <1>2 DEF Fills

LEMMA FilledUpExists ==
  ASSUME NEW slots, NEW size, NEW key
  PROVE  \A n \in Nat : \E g : FilledUp(g, slots, size, key, n)
<1>1. PICK S : S = {n \in Nat : \E g : FilledUp(g, slots, size, key, n)}
  OBVIOUS
<1>2. 0 \in S
  <2>1. PICK g : g = [m \in 0..0 |-> NewTable(size)]
    OBVIOUS
  <2>2. FilledUp(g, slots, size, key, 0)
    BY <2>1 DEF FilledUp
  <2> QED
    BY <1>1, <2>2
<1>3. ASSUME NEW n \in Nat, n \in S PROVE n + 1 \in S
  <2>1. PICK g : FilledUp(g, slots, size, key, n)
    BY <1>1, <1>3
  <2>2. PICK x : x = IF slots[n + 1] = Nil THEN g[n]
                     ELSE Add(g[n], Hash[key[slots[n + 1]]], slots[n + 1])
    OBVIOUS
  <2>3. PICK h : h = [m \in 0..n + 1 |-> IF m = n + 1 THEN x ELSE g[m]]
    OBVIOUS
  <2>4. \A m \in 0..n + 1 : h[m] = IF m = 0 THEN NewTable(size)
                                   ELSE IF slots[m] = Nil THEN h[m - 1]
                                   ELSE Add(h[m - 1], Hash[key[slots[m]]], slots[m])
    <3> SUFFICES ASSUME NEW m \in 0..n + 1
                 PROVE  h[m] = IF m = 0 THEN NewTable(size)
                               ELSE IF slots[m] = Nil THEN h[m - 1]
                               ELSE Add(h[m - 1], Hash[key[slots[m]]], slots[m])
      OBVIOUS
    <3>1. CASE m = n + 1
      <4>1. m # 0 /\ m - 1 = n /\ n \in 0..n + 1 /\ n # n + 1
        BY <3>1
      <4>2. h[m] = x /\ h[n] = g[n]
        BY <2>3, <3>1, <4>1
      <4> QED
        BY <2>2, <3>1, <4>1, <4>2
    <3>2. CASE m # n + 1
      <4>1. m \in 0..n
        BY <3>2
      <4>2. h[m] = g[m]
        BY <2>3, <3>2
      <4>3. g[m] = IF m = 0 THEN NewTable(size)
                   ELSE IF slots[m] = Nil THEN g[m - 1]
                   ELSE Add(g[m - 1], Hash[key[slots[m]]], slots[m])
        BY ZenonT(60), <2>1, <4>1 DEF FilledUp
      <4>4. m # 0 => h[m - 1] = g[m - 1]
        BY <2>3, <4>1
      <4> QED
        BY <4>2, <4>3, <4>4
    <3> QED
      BY <3>1, <3>2
  <2>5. FilledUp(h, slots, size, key, n + 1)
    BY <2>3, <2>4 DEF FilledUp
  <2> QED
    BY <1>1, <2>5
<1>4. Nat \subseteq S
  BY <1>2, <1>3, SetInduction
<1> QED
  BY <1>1, <1>4

LEMMA RefillIs ==
  ASSUME NEW slots, NEW size, NEW key, Len(slots) \in Nat
  PROVE  \E g : /\ FilledUp(g, slots, size, key, Len(slots))
                /\ Refill(slots, size, key) = g[Len(slots)]
<1>1. PICK g : g = CHOOSE f : FilledUp(f, slots, size, key, Len(slots))
  OBVIOUS
<1>2. FilledUp(g, slots, size, key, Len(slots))
  BY <1>1, FilledUpExists
<1>3. Refill(slots, size, key) = g[Len(slots)]
  BY <1>1, Zenon DEF Refill, FilledUp
<1> QED
  BY <1>2, <1>3

(* What the first n slots have, and the table that has it.                 *)
Done(slots, n) == {i \in Filled(slots) : i <= n}
FillSound(T, slots, size, key, V, n) ==
  /\ HashFilled(T, key, V)
  /\ T.num = Cardinality(Done(slots, n))
  /\ Len(T.slots) = size
  /\ Values(T.slots) = {slots[i] : i \in Done(slots, n)}
  /\ T.disp = 0 \/ T.disp < T.num

LEMMA FillStep ==
  ASSUME NEW V, NEW key, Keyed(V, key), NEW slots \in Seq(V \cup {Nil}), Unique(slots, key),
         NEW size \in Nat, Cardinality(Filled(slots)) < size,
         NEW n \in Nat, n + 1 \in DOMAIN slots,
         NEW T, FillSound(T, slots, size, key, V, n),
         NEW A, A = IF slots[n + 1] = Nil THEN T
                    ELSE Add(T, Hash[key[slots[n + 1]]], slots[n + 1])
  PROVE  FillSound(A, slots, size, key, V, n + 1)
<1>0. \A i \in Filled(slots) : i \in Nat
  BY FilledFinite
<1>1. CASE slots[n + 1] = Nil
  <2>1. n + 1 \notin Filled(slots)
    BY <1>1 DEF Filled
  <2>2. Done(slots, n + 1) = Done(slots, n)
    <3>1. \A i \in Filled(slots) : i <= n + 1 <=> i <= n
      BY <1>0, <2>1
    <3> QED
      BY <3>1 DEF Done
  <2> QED
    BY <1>1, <2>2 DEF FillSound
<1>2. CASE slots[n + 1] # Nil
  <2>1. n + 1 \in Filled(slots)
    BY <1>2 DEF Filled
  <2>2. Done(slots, n + 1) = Done(slots, n) \cup {n + 1}
    <3>1. \A i \in Filled(slots) : i <= n + 1 <=> i <= n \/ i = n + 1
      BY <1>0
    <3> QED
      BY <2>1, <3>1 DEF Done
  <2>3. n + 1 \notin Done(slots, n)
    BY DEF Done
  <2>4. Done(slots, n + 1) \subseteq Filled(slots) /\ Done(slots, n) \subseteq Filled(slots)
    BY DEF Done
  <2>5. IsFiniteSet(Filled(slots)) /\ Cardinality(Filled(slots)) \in Nat
    BY FilledFinite
  <2>6. IsFiniteSet(Done(slots, n)) /\ Cardinality(Done(slots, n)) \in Nat
    BY <2>4, <2>5, FS_Subset, FS_CardinalityType
  <2>7. Cardinality(Done(slots, n + 1)) = Cardinality(Done(slots, n)) + 1
    BY <2>2, <2>3, <2>6, FS_AddElement
  <2>8. Cardinality(Done(slots, n + 1)) <= Cardinality(Filled(slots))
    BY <2>4, <2>5, FS_Subset
  <2>9. PICK x \in V : x = slots[n + 1]
    BY <2>1, FilledIn
  <2>10. /\ HashFilled(T, key, V) /\ T.num = Cardinality(Done(slots, n)) /\ Len(T.slots) = size
         /\ Values(T.slots) = {slots[i] : i \in Done(slots, n)}
         /\ T.disp = 0 \/ T.disp < T.num
    BY DEF FillSound
  <2>11. T.num < Len(T.slots)
    BY <2>6, <2>7, <2>8, <2>5, <2>10
  <2>12. NewKey(T.slots, key, x)
    <3> SUFFICES ASSUME NEW j \in Filled(T.slots), key[T.slots[j]] = key[x] PROVE FALSE
      BY DEF NewKey
    <3>1. T.slots[j] \in Values(T.slots)
      BY DEF Values
    <3>2. PICK i \in Done(slots, n) : T.slots[j] = slots[i]
      BY <2>10, <3>1
    <3>3. i = n + 1
      BY <2>1, <2>4, <2>9, <3>2 DEF Unique
    <3> QED
      BY <2>3, <3>2, <3>3
  <2>13. A = Add(T, Hash[key[x]], x)
    BY <1>2, <2>9
  <2>14. /\ HashFilled(A, key, V) /\ A.num = T.num + 1 /\ Len(A.slots) = Len(T.slots)
         /\ Values(A.slots) = Values(T.slots) \cup {x}
         /\ A.disp <= T.disp \/ A.disp <= T.num
    <3>1. /\ HashFilled(T, key, V) /\ Keyed(V, key) /\ x \in V
          /\ NewKey(T.slots, key, x) /\ T.num < Len(T.slots)
      BY <2>10, <2>11, <2>12
    <3>2. PICK B : B = Add(T, Hash[key[x]], x)
      OBVIOUS
    <3>3. /\ HashFilled(B, key, V) /\ B.num = T.num + 1 /\ Len(B.slots) = Len(T.slots)
          /\ Values(B.slots) = Values(T.slots) \cup {x}
          /\ B.disp <= T.disp \/ B.disp <= T.num
      BY ONLY <3>1, <3>2, AddSound
    <3> QED
      BY <2>13, <3>2, <3>3
  <2>15. Values(A.slots) = {slots[i] : i \in Done(slots, n + 1)}
    BY <2>2, <2>9, <2>10, <2>14
  <2>16. A.disp = 0 \/ A.disp < A.num
    <3>1. T \in TableOf(V) /\ A \in TableOf(V)
      BY <2>10, <2>14 DEF HashFilled
    <3>2. T.disp \in Nat /\ T.num \in Nat /\ A.disp \in Nat
      BY <3>1, TableParts
    <3> QED
      BY <2>10, <2>14, <3>2
  <2>17. A.num = Cardinality(Done(slots, n + 1))
    BY <2>7, <2>10, <2>14
  <2> QED
    BY <2>10, <2>14, <2>15, <2>16, <2>17 DEF FillSound
<1> QED
  BY <1>1, <1>2

(* A new table that is large enough has all of the old one.                *)
LEMMA RefillSound ==
  ASSUME NEW V, NEW key, Keyed(V, key), NEW slots \in Seq(V \cup {Nil}), Unique(slots, key),
         NEW size \in Nat, Cardinality(Filled(slots)) < size,
         NEW R, R = Refill(slots, size, key)
  PROVE  /\ HashFilled(R, key, V)
         /\ R.num = Cardinality(Filled(slots))
         /\ Len(R.slots) = size
         /\ Values(R.slots) = Values(slots)
         /\ R.disp = 0 \/ R.disp < R.num
<1>1. PICK n \in Nat : n = Len(slots)
  OBVIOUS
<1>2. PICK g : FilledUp(g, slots, size, key, n) /\ R = g[n]
  BY <1>1, RefillIs
<1>9. /\ g[0] = NewTable(size)
      /\ \A m \in 1..n : g[m] = IF slots[m] = Nil THEN g[m - 1]
                                ELSE Add(g[m - 1], Hash[key[slots[m]]], slots[m])
  <2>1. Fills(g, slots, size, key, n)
    BY <1>2, FilledUpIs
  <2> QED
    BY <2>1 DEF Fills
<1>3. PICK S : S = {m \in Nat : m <= n => FillSound(g[m], slots, size, key, V, m)}
  OBVIOUS
<1>4. 0 \in S
  <2>1. g[0] = NewTable(size)
    BY <1>9
  <2>2. Done(slots, 0) = {}
    <3>1. \A i \in Filled(slots) : i \in DOMAIN slots
      BY DEF Filled
    <3>2. \A i \in Filled(slots) : ~ (i <= 0)
      BY <3>1
    <3> QED
      BY <3>2 DEF Done
  <2>3. Cardinality(Done(slots, 0)) = 0
    BY <2>2, FS_EmptySet
  <2>4. {slots[i] : i \in Done(slots, 0)} = {}
    BY <2>2
  <2>5. FillSound(NewTable(size), slots, size, key, V, 0)
    BY <2>3, <2>4, NewSound DEF FillSound
  <2> QED
    BY <1>3, <2>1, <2>5
<1>5. ASSUME NEW m \in Nat, m \in S PROVE m + 1 \in S
  <2> SUFFICES ASSUME m + 1 <= n PROVE FillSound(g[m + 1], slots, size, key, V, m + 1)
    BY <1>3
  <2>1. FillSound(g[m], slots, size, key, V, m)
    BY <1>3, <1>5
  <2>2. m + 1 \in 1..n /\ (m + 1) - 1 = m /\ m + 1 \in DOMAIN slots
    BY <1>1
  <2>3. g[m + 1] = IF slots[m + 1] = Nil THEN g[m]
                   ELSE Add(g[m], Hash[key[slots[m + 1]]], slots[m + 1])
    BY <1>9, <2>2
  <2> QED
    BY <2>1, <2>2, <2>3, FillStep
<1>6. n \in S
  BY <1>4, <1>5, SetInduction
<1>7. FillSound(R, slots, size, key, V, n)
  BY <1>2, <1>3, <1>6
<1>8. Done(slots, n) = Filled(slots)
  <2>1. \A i \in Filled(slots) : i \in 1..n
    BY <1>1 DEF Filled
  <2>2. \A i \in Filled(slots) : i <= n
    BY <2>1
  <2> QED
    BY <2>2 DEF Done
<1> QED
  BY <1>7, <1>8 DEF FillSound, Values

(* A value is removed, and one is replaced by another with the same key.   *)
Emptied(T, i) == [slots |-> Put(T.slots, i, Nil), num |-> T.num - 1, disp |-> T.disp]

LEMMA EmptiedSound ==
  ASSUME NEW V, NEW key, Keyed(V, key), NEW T, HashSound(T, key, V), NEW i \in Filled(T.slots),
         NEW A, A = Emptied(T, i)
  PROVE  /\ HashSound(A, key, V)
         /\ Len(A.slots) = Len(T.slots)
         /\ Values(A.slots) = Values(T.slots) \ {T.slots[i]}
<1>1. /\ T \in TableOf(V) /\ T.num = Cardinality(Filled(T.slots))
      /\ Unique(T.slots, key) /\ Reachable(T, key)
      /\ T.slots # <<>> => T.disp + 1 < Len(T.slots)
  BY DEF HashSound, HashFilled
<1>2. PICK S, slots : S = V \cup {Nil} /\ slots = T.slots
  OBVIOUS
<1>3. slots \in Seq(S) /\ Nil \in S /\ i \in Filled(slots) /\ Unique(slots, key)
  BY <1>1, <1>2, TableParts
<1>4. i \in DOMAIN slots
  BY <1>2 DEF Filled
<1>5. /\ Filled(Put(slots, i, Nil)) = Filled(slots) \ {i}
      /\ Cardinality(Filled(Put(slots, i, Nil))) = Cardinality(Filled(slots)) - 1
      /\ \A j \in Filled(slots) : j # i => Put(slots, i, Nil)[j] = slots[j]
  BY <1>3, PutEmpties
<1>6. /\ Values(Put(slots, i, Nil)) = Values(slots) \ {slots[i]}
      /\ Unique(Put(slots, i, Nil), key)
  BY <1>3, PutForgets
<1>7. /\ Put(slots, i, Nil) \in Seq(S) /\ Len(Put(slots, i, Nil)) = Len(slots)
  BY <1>3, <1>4, PutIs
<1>8. A.slots = Put(slots, i, Nil) /\ A.num = T.num - 1 /\ A.disp = T.disp
  BY <1>2 DEF Emptied
<1>9. A.num = Cardinality(Filled(A.slots)) /\ A.num \in Nat
  <2>1. Cardinality(Filled(A.slots)) \in Nat
    BY <1>7, <1>8, FilledFinite
  <2> QED
    BY <1>1, <1>2, <1>5, <1>8, <2>1
<1>10. A \in TableOf(V)
  <2>1. T.disp \in Nat
    BY <1>1, TableParts
  <2> QED
    BY <1>2, <1>7, <1>8, <1>9, <2>1 DEF TableOf, Emptied
<1>11. Reachable(A, key)
  <2> SUFFICES ASSUME NEW j \in Filled(A.slots)
               PROVE  \E k \in Looked(A) : j = Place(A.slots, Hash[key[A.slots[j]]], k)
    BY DEF Reachable
  <2>1. j \in Filled(slots) /\ A.slots[j] = slots[j]
    BY <1>5, <1>8
  <2>2. PICK k \in Looked(T) : j = Place(T.slots, Hash[key[T.slots[j]]], k)
    BY <1>1, <1>2, <2>1 DEF Reachable
  <2>3. k \in Looked(A)
    BY <1>2, <1>7, <1>8 DEF Looked
  <2>4. \A h : Place(A.slots, h, k) = Place(T.slots, h, k)
    BY <1>2, <1>7, <1>8 DEF Place
  <2> QED
    BY <1>2, <2>1, <2>2, <2>3, <2>4
<1>12. A.slots # <<>> => A.disp + 1 < Len(A.slots)
  BY <1>1, <1>2, <1>3, <1>7, <1>8, <1>4
<1>13. HashSound(A, key, V)
  BY <1>6, <1>8, <1>9, <1>10, <1>11, <1>12 DEF HashSound, HashFilled
<1> QED
  BY <1>2, <1>6, <1>7, <1>8, <1>13

LEMMA ReplacedSound ==
  ASSUME NEW V, NEW key, Keyed(V, key), NEW T, HashSound(T, key, V), NEW i \in Filled(T.slots),
         NEW x \in V, key[x] = key[T.slots[i]],
         NEW A, A = [slots |-> Put(T.slots, i, x), num |-> T.num, disp |-> T.disp]
  PROVE  /\ HashSound(A, key, V)
         /\ Values(A.slots) = (Values(T.slots) \ {T.slots[i]}) \cup {x}
<1>1. /\ T \in TableOf(V) /\ T.num = Cardinality(Filled(T.slots))
      /\ Unique(T.slots, key) /\ Reachable(T, key)
      /\ T.slots # <<>> => T.disp + 1 < Len(T.slots)
  BY DEF HashSound, HashFilled
<1>2. PICK S, slots : S = V \cup {Nil} /\ slots = T.slots
  OBVIOUS
<1>3. slots \in Seq(S) /\ x \in S /\ i \in Filled(slots) /\ Unique(slots, key) /\ x # Nil
  BY <1>1, <1>2, TableParts DEF Keyed
<1>4. i \in DOMAIN slots
  BY <1>2 DEF Filled
<1>5. /\ Filled(Put(slots, i, x)) = Filled(slots)
      /\ \A j \in Filled(slots) : key[Put(slots, i, x)[j]] = key[slots[j]]
      /\ Values(Put(slots, i, x)) = (Values(slots) \ {slots[i]}) \cup {x}
      /\ Unique(Put(slots, i, x), key)
  <2>1. key[x] = key[slots[i]]
    BY <1>2
  <2> QED
    BY <1>3, <2>1, PutReplaces
<1>7. Put(slots, i, x) \in Seq(S) /\ Len(Put(slots, i, x)) = Len(slots)
  BY <1>3, <1>4, PutIs
<1>8. A.slots = Put(slots, i, x) /\ A.num = T.num /\ A.disp = T.disp
  BY <1>2
<1>9. A.num = Cardinality(Filled(A.slots))
  BY <1>1, <1>2, <1>5, <1>8
<1>10. A \in TableOf(V)
  <2>1. T.disp \in Nat /\ T.num \in Nat
    BY <1>1, TableParts
  <2> QED
    BY <1>2, <1>7, <1>8, <2>1 DEF TableOf
<1>11. Reachable(A, key)
  <2> SUFFICES ASSUME NEW j \in Filled(A.slots)
               PROVE  \E k \in Looked(A) : j = Place(A.slots, Hash[key[A.slots[j]]], k)
    BY DEF Reachable
  <2>1. j \in Filled(slots) /\ key[A.slots[j]] = key[slots[j]]
    BY <1>5, <1>8
  <2>2. PICK k \in Looked(T) : j = Place(T.slots, Hash[key[T.slots[j]]], k)
    BY <1>1, <1>2, <2>1 DEF Reachable
  <2>3. k \in Looked(A)
    BY <1>2, <1>7, <1>8 DEF Looked
  <2>4. \A h : Place(A.slots, h, k) = Place(T.slots, h, k)
    BY <1>2, <1>7, <1>8 DEF Place
  <2> QED
    BY <1>2, <2>1, <2>2, <2>3, <2>4
<1>12. A.slots # <<>> => A.disp + 1 < Len(A.slots)
  BY <1>1, <1>2, <1>3, <1>7, <1>8, <1>4
<1>13. HashSound(A, key, V)
  BY <1>5, <1>8, <1>9, <1>10, <1>11, <1>12 DEF HashSound, HashFilled
<1> QED
  BY <1>2, <1>5, <1>8, <1>13

-----------------------------------------------------------------------------
(* Entries                                                                 *)

LEMMA EntryKeys == Keyed(EntryType, Referent)
<1>1. \A e \in EntryType : Referent[e] = e.referent /\ e.referent \in Objects
  BY DEF Referent, EntryType
<1> QED
  BY <1>1, NilAssumption, TableAssumption DEF Keyed

LEMMA LocationKeys == Keyed(Locations, Itself) /\ \A l \in Locations : Itself[l] = l
BY TableAssumption DEF Keyed, Itself

LEMMA EntryParts ==
  ASSUME NEW e \in EntryType
  PROVE  /\ e.referent \in Objects /\ e.out_of_line \in BOOLEAN /\ e.refs \in TableOf(Locations)
         /\ Referent[e] = e.referent
         /\ e = [referent |-> e.referent, out_of_line |-> e.out_of_line, refs |-> e.refs]
         /\ e.refs = [slots |-> e.refs.slots, num |-> e.refs.num, disp |-> e.refs.disp]
BY DEF EntryType, Referent, TableOf

(* Another table of referrers for an entry.                                *)
WithRefs(e, r) == [referent |-> e.referent, out_of_line |-> e.out_of_line, refs |-> r]

LEMMA WithRefsIs ==
  ASSUME NEW e \in EntryType, NEW r \in TableOf(Locations)
  PROVE  /\ WithRefs(e, r) \in EntryType
         /\ WithRefs(e, r).referent = e.referent
         /\ WithRefs(e, r).out_of_line = e.out_of_line
         /\ WithRefs(e, r).refs = r
BY DEF WithRefs, EntryType

LEMMA ExceptRefs ==
  ASSUME NEW e \in EntryType, NEW r
  PROVE  [e EXCEPT !.refs = r] = WithRefs(e, r)
BY DEF WithRefs, EntryType

LEMMA InsertIs ==
  ASSUME NEW e \in EntryType, NEW l
  PROVE  Insert(e, l) = WithRefs(e, Add(e.refs, Hash[l], l))
BY DEF Insert, WithRefs, EntryType

LEMMA GrowAndInsertIs ==
  ASSUME NEW e \in EntryType, NEW l
  PROVE  GrowAndInsert(e, l) = Insert(WithRefs(e, Refill(e.refs.slots, 2 * Len(e.refs.slots), Itself)), l)
BY DEF GrowAndInsert, WithRefs, EntryType

LEMMA OutOfLineIs ==
  ASSUME NEW e \in EntryType
  PROVE  OutOfLine(e) = [referent |-> e.referent, out_of_line |-> TRUE,
                         refs |-> [slots |-> e.refs.slots, num |-> InlineCount, disp |-> 0]]
<1>1. PICK d : d = [e EXCEPT !.out_of_line = TRUE]
  OBVIOUS
<1>2. PICK R : R = [slots |-> e.refs.slots, num |-> InlineCount, disp |-> 0]
  OBVIOUS
<1>3. d \in EntryType /\ d = [referent |-> e.referent, out_of_line |-> TRUE, refs |-> e.refs]
  BY <1>1 DEF EntryType
<1>4. d.refs = e.refs /\ d.referent = e.referent /\ d.out_of_line = TRUE
  BY <1>3
<1>5. OutOfLine(e) = [d EXCEPT !.refs = [slots |-> d.refs.slots, num |-> InlineCount, disp |-> 0]]
  BY <1>1, Zenon DEF OutOfLine
<1>6. R = [slots |-> d.refs.slots, num |-> InlineCount, disp |-> 0]
  BY <1>2, <1>4
<1>7. [d EXCEPT !.refs = R] = WithRefs(d, R)
  BY <1>3, ExceptRefs
<1>8. OutOfLine(e) = WithRefs(d, R)
  BY <1>5, <1>6, <1>7
<1> QED
  BY <1>2, <1>4, <1>8 DEF WithRefs

LEMMA AppendInLineIs ==
  ASSUME NEW e \in EntryType, NEW l, NEW i, i = Min(Vacant(e)), ~e.out_of_line, Vacant(e) # {}
  PROVE  AppendReferrer(e, l)
           = WithRefs(e, [slots |-> Put(e.refs.slots, i, l), num |-> e.refs.num, disp |-> e.refs.disp])
BY DEF AppendReferrer, WithRefs, EntryType, TableOf, Put

LEMMA RemoveReferrerIs ==
  ASSUME NEW e \in EntryType, NEW l, NEW i, i = Min(ReferrerPlaces(e, l)), ReferrerPlaces(e, l) # {},
         NEW n, n = IF e.out_of_line THEN e.refs.num - 1 ELSE e.refs.num
  PROVE  RemoveReferrer(e, l)
           = WithRefs(e, [slots |-> Put(e.refs.slots, i, Nil), num |-> n, disp |-> e.refs.disp])
BY DEF RemoveReferrer, WithRefs, EntryType, TableOf, Put

LEMMA NewEntryIs ==
  ASSUME NEW o, NEW l
  PROVE  weak_entry_t(o, l)
           = [referent |-> o, out_of_line |-> FALSE,
              refs |-> [slots |-> Put(EmptySlots(InlineCount), 1, l), num |-> 0, disp |-> 0]]
<1>1. PICK T : T = NewTable(InlineCount)
  OBVIOUS
<1>2. T = [slots |-> EmptySlots(InlineCount), num |-> 0, disp |-> 0]
  BY <1>1 DEF NewTable
<1>3. PICK R : R = [T EXCEPT !.slots[1] = l]
  OBVIOUS
<1>4. R = [slots |-> Put(EmptySlots(InlineCount), 1, l), num |-> 0, disp |-> 0]
  BY <1>2, <1>3 DEF Put
<1>5. weak_entry_t(o, l) = [referent |-> o, out_of_line |-> FALSE, refs |-> R]
  BY <1>1, <1>3 DEF weak_entry_t
<1> QED
  BY <1>4, <1>5

(* What becomes of an entry that gets, or loses, a referrer.               *)
Gains(e, l, A) ==
  /\ A \in EntryType /\ A.referent = e.referent /\ EntrySound(A)
  /\ Values(A.refs.slots) = Values(e.refs.slots) \cup {l}
Loses(e, l, A) ==
  /\ A \in EntryType /\ A.referent = e.referent /\ EntrySound(A)
  /\ Values(A.refs.slots) = Values(e.refs.slots) \ {l}

LEMMA NewLocation ==
  ASSUME NEW slots \in Seq(Locations \cup {Nil}), NEW l \in Locations, l \notin Values(slots)
  PROVE  NewKey(slots, Itself, l)
<1> SUFFICES ASSUME NEW i \in Filled(slots), Itself[slots[i]] = Itself[l] PROVE FALSE
  BY DEF NewKey
<1>1. slots[i] \in Locations
  BY FilledIn
<1>2. slots[i] = l
  BY <1>1, LocationKeys
<1> QED
  BY <1>2 DEF Values

LEMMA InsertSound ==
  ASSUME NEW e \in EntryType, e.out_of_line, HashFilled(e.refs, Itself, Locations),
         e.refs.num + 1 < Len(e.refs.slots), e.refs.disp + 1 < Len(e.refs.slots),
         NEW l \in Locations, l \notin Values(e.refs.slots)
  PROVE  Gains(e, l, Insert(e, l))
<1>1. PICK T : T = e.refs
  OBVIOUS
<1>2. T \in TableOf(Locations) /\ e.out_of_line \in BOOLEAN /\ HashFilled(T, Itself, Locations)
  BY <1>1, EntryParts
<1>3. T.slots \in Seq(Locations \cup {Nil}) /\ T.num \in Nat /\ T.disp \in Nat
  BY <1>2, TableParts
<1>4. PICK R : R = Add(T, Hash[l], l)
  OBVIOUS
<1>5. Keyed(Locations, Itself) /\ Itself[l] = l
  BY LocationKeys
<1>6. NewKey(T.slots, Itself, l)
  BY <1>1, <1>3, NewLocation
<1>7. T.num + 1 < Len(T.slots) /\ T.disp + 1 < Len(T.slots) /\ Len(T.slots) \in Nat
  BY <1>1, <1>3
<1>8. T.num < Len(T.slots)
  BY <1>3, <1>7
<1>9. /\ HashFilled(R, Itself, Locations)
      /\ R.num = T.num + 1
      /\ Len(R.slots) = Len(T.slots)
      /\ Values(R.slots) = Values(T.slots) \cup {l}
      /\ R.disp <= T.disp \/ R.disp <= T.num
  BY <1>2, <1>4, <1>5, <1>6, <1>8, AddSound
<1>10. R \in TableOf(Locations)
  BY <1>9 DEF HashFilled
<1>11. R.disp + 1 < Len(R.slots)
  <2>1. R.disp \in Nat
    BY <1>10, TableParts
  <2>2. PICK r \in Nat, d \in Nat, m \in Nat, n \in Nat :
           r = R.disp /\ d = T.disp /\ m = T.num /\ n = Len(T.slots)
    BY <1>3, <1>7, <2>1
  <2>3. (r <= d \/ r <= m) /\ m + 1 < n /\ d + 1 < n
    BY <1>7, <1>9, <2>2
  <2>4. r + 1 < n
    BY <2>3
  <2> QED
    BY <1>9, <2>2, <2>4
<1>12. R.slots # <<>>
  <2>1. Len(R.slots) # 0
    BY <1>3, <1>7, <1>9
  <2> QED
    BY <2>1
<1>13. PICK A : A = Insert(e, l)
  OBVIOUS
<1>14. A \in EntryType /\ A.referent = e.referent /\ A.out_of_line = e.out_of_line /\ A.refs = R
  <2>1. A = WithRefs(e, R)
    BY <1>1, <1>4, <1>13, InsertIs
  <2> QED
    BY <1>10, <2>1, WithRefsIs
<1>15. EntrySound(A)
  BY <1>9, <1>11, <1>12, <1>14 DEF EntrySound, HashSound
<1> QED
  BY <1>1, <1>9, <1>13, <1>14, <1>15 DEF Gains

LEMMA GrowAndInsertSound ==
  ASSUME NEW e \in EntryType, e.out_of_line, Unique(e.refs.slots, Itself), 2 <= Len(e.refs.slots),
         NEW l \in Locations, l \notin Values(e.refs.slots)
  PROVE  Gains(e, l, GrowAndInsert(e, l))
<1>1. PICK s : s = e.refs.slots
  OBVIOUS
<1>2. s \in Seq(Locations \cup {Nil})
  BY <1>1, EntryParts, TableParts
<1>3. PICK n \in Nat, c \in Nat : n = Len(s) /\ c = Cardinality(Filled(s)) /\ c <= n
  BY <1>2, FilledFinite
<1>4. 2 <= n /\ 2 * n \in Nat /\ c < 2 * n
  BY <1>1, <1>3
<1>5. PICK R : R = Refill(s, 2 * n, Itself)
  OBVIOUS
<1>6. /\ HashFilled(R, Itself, Locations)
      /\ R.num = c
      /\ Len(R.slots) = 2 * n
      /\ Values(R.slots) = Values(s)
      /\ R.disp = 0 \/ R.disp < R.num
  <2>1. PICK size \in Nat : size = 2 * n
    BY <1>4
  <2>2. Keyed(Locations, Itself) /\ Unique(s, Itself) /\ Cardinality(Filled(s)) < size
    BY <1>1, <1>3, <1>4, <2>1, LocationKeys
  <2>3. R = Refill(s, size, Itself)
    BY <1>5, <2>1
  <2>4. /\ HashFilled(R, Itself, Locations)
        /\ R.num = Cardinality(Filled(s))
        /\ Len(R.slots) = size
        /\ Values(R.slots) = Values(s)
        /\ R.disp = 0 \/ R.disp < R.num
    BY <1>2, <2>2, <2>3, RefillSound
  <2> QED
    BY <1>3, <2>1, <2>4
<1>7. R \in TableOf(Locations)
  BY <1>6 DEF HashFilled
<1>8. R.num + 1 < Len(R.slots) /\ R.disp + 1 < Len(R.slots)
  <2>1. R.disp \in Nat
    BY <1>7, TableParts
  <2> QED
    BY <1>3, <1>4, <1>6, <2>1
<1>9. PICK d : d = WithRefs(e, R)
  OBVIOUS
<1>10. d \in EntryType /\ d.referent = e.referent /\ d.out_of_line = e.out_of_line /\ d.refs = R
  BY <1>7, <1>9, WithRefsIs
<1>11. GrowAndInsert(e, l) = Insert(d, l)
  BY <1>1, <1>3, <1>5, <1>9, GrowAndInsertIs
<1>12. Gains(d, l, Insert(d, l))
  BY <1>1, <1>6, <1>8, <1>10, InsertSound
<1> QED
  BY <1>1, <1>6, <1>10, <1>11, <1>12 DEF Gains

LEMMA AppendOutOfLineSound ==
  ASSUME NEW e \in EntryType, e.out_of_line, EntrySound(e),
         NEW l \in Locations, l \notin Values(e.refs.slots)
  PROVE  Gains(e, l, AppendOutOfLine(e, l))
<1>1. /\ HashFilled(e.refs, Itself, Locations) /\ e.refs.slots # <<>>
      /\ e.refs.disp + 1 < Len(e.refs.slots)
  BY DEF EntrySound, HashSound
<1>2. /\ e.refs.slots \in Seq(Locations \cup {Nil}) /\ e.refs.num \in Nat /\ e.refs.disp \in Nat
      /\ Unique(e.refs.slots, Itself)
  BY <1>1, EntryParts, TableParts DEF HashFilled
<1>3. PICK n \in Nat : n = Len(e.refs.slots)
  BY <1>2
<1>4. 2 <= n
  <2>1. PICK d \in Nat : d = e.refs.disp
    BY <1>2
  <2> QED
    BY <1>1, <1>3, <2>1
<1>5. CASE e.refs.num >= (Len(e.refs.slots) * 3) \div 4
  <2>1. AppendOutOfLine(e, l) = GrowAndInsert(e, l)
    BY <1>5 DEF AppendOutOfLine
  <2> QED
    BY <1>2, <1>3, <1>4, <2>1, GrowAndInsertSound
<1>6. CASE ~ (e.refs.num >= (Len(e.refs.slots) * 3) \div 4)
  <2>1. AppendOutOfLine(e, l) = Insert(e, l)
    BY <1>6 DEF AppendOutOfLine
  <2>2. PICK m \in Nat : m = e.refs.num
    BY <1>2
  <2>3. ~ (m >= (n * 3) \div 4)
    BY <1>3, <1>6, <2>2
  <2>4. m + 1 < n
    BY <1>4, <2>3
  <2>5. e.refs.num + 1 < Len(e.refs.slots)
    BY <1>3, <2>2, <2>4
  <2> QED
    BY <1>1, <2>1, <2>5, InsertSound
<1> QED
  BY <1>5, <1>6

LEMMA AppendReferrerSound ==
  ASSUME NEW e \in EntryType, EntrySound(e), NEW l \in Locations, l \notin Values(e.refs.slots)
  PROVE  Gains(e, l, AppendReferrer(e, l))
<1>1. PICK s : s = e.refs.slots
  OBVIOUS
<1>2. s \in Seq(Locations \cup {Nil}) /\ e.refs.num \in Nat /\ e.refs.disp \in Nat /\ e.out_of_line \in BOOLEAN
  BY <1>1, EntryParts, TableParts
<1>3. PICK A : A = AppendReferrer(e, l)
  OBVIOUS
<1>4. CASE e.out_of_line
  <2>1. AppendReferrer(e, l) = AppendOutOfLine(e, l)
    BY <1>4 DEF AppendReferrer
  <2> QED
    BY <1>4, <2>1, AppendOutOfLineSound
<1>5. CASE ~e.out_of_line /\ Vacant(e) # {}
  <2>1. PICK i : i = Min(Vacant(e))
    OBVIOUS
  <2>2. i \in DOMAIN s /\ s[i] = Nil
    <3>1. Vacant(e) = {j \in DOMAIN s : s[j] = Nil}
      BY <1>1 DEF Vacant, Filled
    <3>2. Vacant(e) \subseteq Nat
      BY <1>2, <3>1
    <3>3. i \in Vacant(e)
      BY <1>5, <2>1, <3>2, MinIs
    <3> QED
      BY <3>1, <3>3
  <2>3. PICK R : R = [slots |-> Put(s, i, l), num |-> e.refs.num, disp |-> e.refs.disp]
    OBVIOUS
  <2>4. R.slots = Put(s, i, l) /\ R.num = e.refs.num /\ R.disp = e.refs.disp
    BY <2>3
  <2>5. l \in Locations \cup {Nil} /\ l # Nil
    BY TableAssumption
  <2>6. /\ Put(s, i, l) \in Seq(Locations \cup {Nil}) /\ Len(Put(s, i, l)) = Len(s)
        /\ Put(s, i, l)[i] = l
        /\ \A j \in DOMAIN s : j # i => Put(s, i, l)[j] = s[j]
    <3>1. PICK S : S = Locations \cup {Nil}
      OBVIOUS
    <3>2. s \in Seq(S) /\ l \in S
      BY <1>2, <2>5, <3>1
    <3>3. /\ Put(s, i, l) \in Seq(S) /\ Len(Put(s, i, l)) = Len(s)
          /\ Put(s, i, l)[i] = l
          /\ \A j \in DOMAIN s : j # i => Put(s, i, l)[j] = s[j]
      BY <2>2, <3>2, PutIs
    <3> QED
      BY <3>1, <3>3
  <2>7. /\ Filled(Put(s, i, l)) = Filled(s) \cup {i} /\ i \notin Filled(s)
        /\ Values(Put(s, i, l)) = Values(s) \cup {l}
    BY <1>2, <2>2, <2>5, PutFills
  <2>8. Unique(Put(s, i, l), Itself)
    <3>1. NewKey(s, Itself, l)
      BY <1>1, <1>2, NewLocation
    <3>2. Unique(s, Itself)
      BY <1>1, <1>5 DEF EntrySound
    <3>3. \A j \in Filled(s) : j \in DOMAIN s /\ j # i
      BY <2>7 DEF Filled
    <3>4. \A j \in Filled(s) : Put(s, i, l)[j] = s[j] /\ Itself[s[j]] # Itself[l]
      BY <2>6, <3>1, <3>3 DEF NewKey
    <3> QED
      BY <2>6, <2>7, <3>2, <3>4 DEF Unique
  <2>9. R \in TableOf(Locations)
    BY <1>2, <2>3, <2>6 DEF TableOf
  <2>10. A = WithRefs(e, R)
    BY <1>1, <1>3, <1>5, <2>1, <2>3, AppendInLineIs
  <2>11. A \in EntryType /\ A.referent = e.referent /\ A.out_of_line = e.out_of_line /\ A.refs = R
    BY <2>9, <2>10, WithRefsIs
  <2>12. EntrySound(A)
    <3>1. Len(s) = InlineCount
      BY <1>1, <1>5 DEF EntrySound
    <3>2. ~A.out_of_line /\ A.refs.slots = Put(s, i, l)
      BY <1>5, <2>4, <2>11
    <3> QED
      BY <2>6, <2>8, <3>1, <3>2 DEF EntrySound
  <2> QED
    BY <1>1, <1>3, <2>4, <2>7, <2>11, <2>12 DEF Gains
<1>6. CASE ~e.out_of_line /\ Vacant(e) = {}
  <2>1. PICK d : d = OutOfLine(e)
    OBVIOUS
  <2>2. AppendReferrer(e, l) = AppendOutOfLine(d, l)
    BY <1>6, <2>1 DEF AppendReferrer
  <2>3. PICK R : R = [slots |-> s, num |-> InlineCount, disp |-> 0]
    OBVIOUS
  <2>4. d = [referent |-> e.referent, out_of_line |-> TRUE, refs |-> R]
    BY <1>1, <2>1, <2>3, OutOfLineIs
  <2>5. R \in TableOf(Locations)
    BY <1>2, <2>3, TableAssumption DEF TableOf
  <2>6. d.referent = e.referent /\ d.out_of_line = TRUE /\ d.refs = R
    BY <2>4
  <2>7. d \in EntryType
    <3>1. e.referent \in Objects
      BY EntryParts
    <3> QED
      BY <2>4, <2>5, <3>1 DEF EntryType
  <2>8. R.slots = s /\ R.num = InlineCount
    BY <2>3
  <2>9. Unique(s, Itself) /\ Len(s) = InlineCount
    BY <1>1, <1>6 DEF EntrySound
  <2>10. AppendOutOfLine(d, l) = GrowAndInsert(d, l)
    <3>1. PICK n \in Nat : n = InlineCount
      BY TableAssumption
    <3>2. n >= (n * 3) \div 4
      OBVIOUS
    <3>3. d.refs.num >= (Len(d.refs.slots) * 3) \div 4
      BY <2>6, <2>8, <2>9, <3>1, <3>2
    <3> QED
      BY <3>3 DEF AppendOutOfLine
  <2>11. 2 <= Len(d.refs.slots)
    BY <2>6, <2>8, <2>9, TableAssumption
  <2>12. Gains(d, l, GrowAndInsert(d, l))
    BY <1>1, <2>6, <2>7, <2>8, <2>9, <2>11, GrowAndInsertSound
  <2> QED
    BY <1>1, <2>2, <2>6, <2>8, <2>10, <2>12 DEF Gains
<1> QED
  BY <1>2, <1>4, <1>5, <1>6

(* remove_referrer finds a location where it is, in line or out of line.   *)
LEMMA PlacesFind ==
  ASSUME NEW e \in EntryType, EntrySound(e), NEW l \in Locations
  PROVE  /\ \A i \in ReferrerPlaces(e, l) : i \in Filled(e.refs.slots) /\ e.refs.slots[i] = l
         /\ \A i \in Filled(e.refs.slots) : e.refs.slots[i] = l => ReferrerPlaces(e, l) = {i}
<1>1. /\ e.refs \in TableOf(Locations) /\ e.refs.slots \in Seq(Locations \cup {Nil})
      /\ e.out_of_line \in BOOLEAN
  BY EntryParts, TableParts
<1>2. Keyed(Locations, Itself) /\ \A k \in Locations : Itself[k] = k
  BY LocationKeys
<1>3. Unique(e.refs.slots, Itself)
  BY DEF EntrySound, HashSound, HashFilled
<1>4. CASE e.out_of_line
  <2>1. HashFilled(e.refs, Itself, Locations)
    BY <1>4 DEF EntrySound, HashSound
  <2>2. ReferrerPlaces(e, l) = Search(e.refs, Itself, l)
    BY <1>4 DEF ReferrerPlaces
  <2>3. ASSUME NEW i \in Search(e.refs, Itself, l)
        PROVE  i \in Filled(e.refs.slots) /\ e.refs.slots[i] = l
    <3>1. Hash[l] \in Nat
      BY TableAssumption
    <3>2. i \in Filled(e.refs.slots) /\ Itself[e.refs.slots[i]] = l
      BY <1>1, <2>3, <3>1, SearchIn
    <3>3. e.refs.slots[i] \in Locations
      BY <1>1, <3>2, FilledIn
    <3> QED
      BY <1>2, <3>2, <3>3
  <2>4. ASSUME NEW i \in Filled(e.refs.slots), e.refs.slots[i] = l
        PROVE  Search(e.refs, Itself, l) = {i}
    <3>1. Search(e.refs, Itself, Itself[e.refs.slots[i]]) = {i}
      BY <1>2, <2>1, <2>4, SearchFinds
    <3> QED
      BY <1>2, <2>4, <3>1
  <2> QED
    BY <2>2, <2>3, <2>4
<1>5. CASE ~e.out_of_line
  <2>1. ReferrerPlaces(e, l) = {i \in DOMAIN e.refs.slots : e.refs.slots[i] = l}
    BY <1>5 DEF ReferrerPlaces
  <2>2. l # Nil
    BY TableAssumption
  <2>3. ReferrerPlaces(e, l) = {i \in Filled(e.refs.slots) : e.refs.slots[i] = l}
    BY <2>1, <2>2 DEF Filled
  <2>4. \A i, j \in Filled(e.refs.slots) : e.refs.slots[i] = l /\ e.refs.slots[j] = l => i = j
    BY <1>3 DEF Unique
  <2> QED
    BY <2>3, <2>4
<1> QED
  BY <1>1, <1>4, <1>5

LEMMA RemoveReferrerSound ==
  ASSUME NEW e \in EntryType, EntrySound(e), NEW l \in Locations
  PROVE  Loses(e, l, RemoveReferrer(e, l))
<1>1. PICK s : s = e.refs.slots
  OBVIOUS
<1>2. s \in Seq(Locations \cup {Nil}) /\ e.refs.num \in Nat /\ e.refs.disp \in Nat /\ e.out_of_line \in BOOLEAN
  BY <1>1, EntryParts, TableParts
<1>3. /\ \A i \in ReferrerPlaces(e, l) : i \in Filled(s) /\ s[i] = l
      /\ \A i \in Filled(s) : s[i] = l => ReferrerPlaces(e, l) = {i}
  BY <1>1, PlacesFind
<1>4. CASE ReferrerPlaces(e, l) = {}
  <2>1. RemoveReferrer(e, l) = e
    BY <1>4 DEF RemoveReferrer
  <2>2. l \notin Values(s)
    BY <1>3, <1>4 DEF Values
  <2> QED
    BY <1>1, <2>1, <2>2 DEF Loses
<1>5. CASE ReferrerPlaces(e, l) # {}
  <2>1. PICK i : i = Min(ReferrerPlaces(e, l))
    OBVIOUS
  <2>2. i \in Filled(s) /\ s[i] = l
    <3>1. PICK j : j \in ReferrerPlaces(e, l)
      BY <1>5
    <3>2. j \in Filled(s) /\ ReferrerPlaces(e, l) = {j}
      BY <1>3, <3>1
    <3>3. ReferrerPlaces(e, l) \subseteq Nat
      BY <1>2, <3>2 DEF Filled
    <3>4. i \in ReferrerPlaces(e, l)
      BY <1>5, <2>1, <3>3, MinIs
    <3> QED
      BY <1>3, <3>4
  <2>3. Unique(s, Itself)
    BY <1>1 DEF EntrySound, HashSound, HashFilled
  <2>4. PICK n : n = IF e.out_of_line THEN e.refs.num - 1 ELSE e.refs.num
    OBVIOUS
  <2>5. PICK R : R = [slots |-> Put(s, i, Nil), num |-> n, disp |-> e.refs.disp]
    OBVIOUS
  <2>6. PICK A : A = RemoveReferrer(e, l)
    OBVIOUS
  <2>7. A = WithRefs(e, R)
    BY <1>1, <1>5, <2>1, <2>4, <2>5, <2>6, RemoveReferrerIs
  <2>8. R.slots = Put(s, i, Nil)
    BY <2>5
  <2>9. /\ Values(R.slots) = Values(s) \ {l} /\ Unique(R.slots, Itself)
        /\ R.slots \in Seq(Locations \cup {Nil}) /\ Len(R.slots) = Len(s)
    <3>1. PICK S : S = Locations \cup {Nil}
      OBVIOUS
    <3>2. s \in Seq(S) /\ Nil \in S
      BY <1>2, <3>1
    <3>3. i \in DOMAIN s
      BY <2>2 DEF Filled
    <3>4. Put(s, i, Nil) \in Seq(S) /\ Len(Put(s, i, Nil)) = Len(s)
      BY <3>2, <3>3, PutIs
    <3>5. Values(Put(s, i, Nil)) = Values(s) \ {s[i]} /\ Unique(Put(s, i, Nil), Itself)
      BY <2>2, <2>3, <3>2, PutForgets
    <3> QED
      BY <2>2, <2>8, <3>1, <3>4, <3>5
  <2>10. CASE e.out_of_line
    <3>1. HashSound(e.refs, Itself, Locations) /\ e.refs.slots # <<>>
      BY <2>10 DEF EntrySound
    <3>2. R = Emptied(e.refs, i)
      BY <1>1, <2>4, <2>5, <2>10 DEF Emptied
    <3>3. HashSound(R, Itself, Locations)
      BY <1>1, <2>2, <3>1, <3>2, LocationKeys, EmptiedSound
    <3>4. R \in TableOf(Locations)
      BY <3>3 DEF HashSound, HashFilled
    <3>5. A \in EntryType /\ A.referent = e.referent /\ A.out_of_line = e.out_of_line /\ A.refs = R
      BY <2>7, <3>4, WithRefsIs
    <3>6. R.slots # <<>>
      <4>1. Len(s) # 0
        BY <1>1, <1>2, <3>1
      <4> QED
        BY <2>9, <4>1
    <3>7. EntrySound(A)
      BY <2>10, <3>3, <3>5, <3>6 DEF EntrySound
    <3> QED
      BY <1>1, <2>6, <2>9, <3>5, <3>7 DEF Loses
  <2>11. CASE ~e.out_of_line
    <3>1. n \in Nat
      BY <1>2, <2>4, <2>11
    <3>2. R \in TableOf(Locations)
      BY <1>2, <2>5, <2>8, <2>9, <3>1 DEF TableOf
    <3>3. A \in EntryType /\ A.referent = e.referent /\ A.out_of_line = e.out_of_line /\ A.refs = R
      BY <2>7, <3>2, WithRefsIs
    <3>4. EntrySound(A)
      BY <1>1, <2>9, <2>11, <3>3 DEF EntrySound
    <3> QED
      BY <1>1, <2>6, <2>9, <3>3, <3>4 DEF Loses
  <2> QED
    BY <1>2, <2>10, <2>11
<1> QED
  BY <1>4, <1>5

LEMMA NewEntrySound ==
  ASSUME NEW o \in Objects, NEW l \in Locations
  PROVE  /\ weak_entry_t(o, l) \in EntryType
         /\ weak_entry_t(o, l).referent = o
         /\ EntrySound(weak_entry_t(o, l))
         /\ Values(weak_entry_t(o, l).refs.slots) = {l}
<1>1. PICK n \in Nat : n = InlineCount /\ 1 \in 1..n
  <2>1. InlineCount \in Nat /\ 1 \in 1..InlineCount
    BY TableAssumption
  <2> QED
    BY <2>1
<1>2. PICK s : s = EmptySlots(n)
  OBVIOUS
<1>3. PICK S : S = Locations \cup {Nil}
  OBVIOUS
<1>4. s \in Seq(S) /\ Len(s) = n /\ DOMAIN s = 1..n /\ s[1] = Nil
  BY <1>1, <1>2, <1>3 DEF EmptySlots
<1>5. Filled(s) = {} /\ Values(s) = {}
  BY <1>2 DEF EmptySlots, Filled, Values
<1>6. l \in S /\ l # Nil /\ 1 \in DOMAIN s
  BY <1>1, <1>3, <1>4, TableAssumption
<1>7. PICK p : p = Put(s, 1, l)
  OBVIOUS
<1>8. p \in Seq(S) /\ Len(p) = n
  <2>1. s \in Seq(S) /\ 1 \in DOMAIN s /\ l \in S
    BY <1>4, <1>6
  <2>2. Put(s, 1, l) \in Seq(S) /\ Len(Put(s, 1, l)) = Len(s)
    BY <2>1, PutIs
  <2> QED
    BY <1>4, <1>7, <2>2
<1>9. Filled(p) = {1} /\ Values(p) = {l}
  <2>1. Filled(p) = Filled(s) \cup {1} /\ Values(p) = Values(s) \cup {l}
    BY <1>4, <1>6, <1>7, PutFills
  <2> QED
    BY <1>5, <2>1
<1>10. Unique(p, Itself)
  BY <1>9 DEF Unique
<1>11. PICK R : R = [slots |-> p, num |-> 0, disp |-> 0]
  OBVIOUS
<1>12. R \in TableOf(Locations) /\ R.slots = p
  BY <1>3, <1>8, <1>11 DEF TableOf
<1>13. PICK e : e = weak_entry_t(o, l)
  OBVIOUS
<1>14. e = [referent |-> o, out_of_line |-> FALSE, refs |-> R]
  BY <1>1, <1>2, <1>7, <1>11, <1>13, NewEntryIs
<1>15. e \in EntryType
  BY <1>12, <1>14 DEF EntryType
<1>16. e.referent = o /\ e.out_of_line = FALSE /\ e.refs = R
  BY <1>14
<1>17. EntrySound(e)
  BY <1>1, <1>8, <1>10, <1>12, <1>16 DEF EntrySound
<1> QED
  BY <1>9, <1>12, <1>13, <1>15, <1>16, <1>17

-----------------------------------------------------------------------------
(* The table of entries                                                    *)

(* Before an entry is added there is room for it.                          *)
LEMMA GrowMaybeSound ==
  ASSUME NEW T, HashSound(T, Referent, EntryType), NEW A, A = GrowMaybe(T)
  PROVE  /\ HashSound(A, Referent, EntryType)
         /\ A.num + 1 < Len(A.slots)
         /\ Values(A.slots) = Values(T.slots)
<1>1. /\ T \in TableOf(EntryType) /\ T.num = Cardinality(Filled(T.slots))
      /\ Unique(T.slots, Referent)
      /\ T.slots # <<>> => T.disp + 1 < Len(T.slots)
  BY DEF HashSound, HashFilled
<1>2. T.slots \in Seq(EntryType \cup {Nil}) /\ T.num \in Nat /\ T.disp \in Nat
  BY <1>1, TableParts
<1>3. PICK n \in Nat, c \in Nat : n = Len(T.slots) /\ c = T.num /\ c <= n
  BY <1>1, <1>2, FilledFinite
<1>4. n = 0 \/ 2 <= n
  <2>1. PICK d \in Nat : d = T.disp
    BY <1>2
  <2>2. n # 0 => d + 1 < n
    BY <1>1, <1>2, <1>3, <2>1
  <2> QED
    BY <2>2
<1>5. n = 0 <=> T.slots = <<>>
  BY <1>2, <1>3
<1>6. CASE T.num >= (Len(T.slots) * 3) \div 4
  <2>1. PICK size : size = IF T.slots = <<>> THEN FirstSize ELSE 2 * Len(T.slots)
    OBVIOUS
  <2>2. A = Refill(T.slots, size, Referent)
    BY <1>6, <2>1 DEF GrowMaybe, Resize
  <2>3. size \in Nat /\ c + 1 < size
    <3>1. CASE n = 0
      <4>1. size = FirstSize
        BY <1>5, <2>1, <3>1
      <4> QED
        BY <1>3, <3>1, <4>1, TableAssumption
    <3>2. CASE n # 0
      <4>1. size = 2 * n
        BY <1>3, <1>5, <2>1, <3>2
      <4> QED
        BY <1>3, <1>4, <3>2, <4>1
    <3> QED
      BY <3>1, <3>2
  <2>4. Cardinality(Filled(T.slots)) < size
    BY <1>1, <1>3, <2>3
  <2>5. /\ HashFilled(A, Referent, EntryType)
        /\ A.num = Cardinality(Filled(T.slots))
        /\ Len(A.slots) = size
        /\ Values(A.slots) = Values(T.slots)
        /\ A.disp = 0 \/ A.disp < A.num
    <3>1. PICK V, slots : V = EntryType /\ slots = T.slots
      OBVIOUS
    <3>2. slots \in Seq(V \cup {Nil}) /\ Keyed(V, Referent) /\ Unique(slots, Referent)
      BY <1>1, <1>2, <3>1, EntryKeys
    <3>3. Cardinality(Filled(slots)) < size /\ A = Refill(slots, size, Referent)
      BY <2>2, <2>4, <3>1
    <3>4. /\ HashFilled(A, Referent, V)
          /\ A.num = Cardinality(Filled(slots))
          /\ Len(A.slots) = size
          /\ Values(A.slots) = Values(slots)
          /\ A.disp = 0 \/ A.disp < A.num
      BY <2>3, <3>2, <3>3, RefillSound
    <3> QED
      BY <3>1, <3>4
  <2>6. A.disp + 1 < Len(A.slots) /\ A.num + 1 < Len(A.slots)
    <3>1. A.disp \in Nat
      BY <2>5, TableParts DEF HashFilled
    <3> QED
      BY <1>1, <1>3, <2>3, <2>5, <3>1
  <2> QED
    BY <2>5, <2>6 DEF HashSound
<1>7. CASE ~ (T.num >= (Len(T.slots) * 3) \div 4)
  <2>1. A = T
    BY <1>7 DEF GrowMaybe
  <2>2. ~ (c >= (n * 3) \div 4)
    BY <1>3, <1>7
  <2>3. c + 1 < n
    BY <1>4, <2>2
  <2> QED
    BY <1>3, <2>1, <2>3
<1> QED
  BY <1>6, <1>7

LEMMA DivIs ==
  ASSUME NEW n \in Nat, NEW d \in Nat \ {0}
  PROVE  /\ n \div d \in Nat
         /\ d * (n \div d) <= n
         /\ n < d * (n \div d) + d
OBVIOUS

(* n / (f / 2) is at least twice n / f.                                    *)
LEMMA HalfDivides ==
  ASSUME NEW n \in Nat, NEW f \in Nat \ {0, 1}, n >= f
  PROVE  /\ n \div (f \div 2) \in Nat
         /\ 2 * (n \div f) <= n \div (f \div 2)
         /\ 1 <= n \div f
<1>1. PICK h \in Nat \ {0} : h = f \div 2 /\ 2 * h <= f
  <2>1. f \div 2 \in Nat \ {0} /\ 2 * (f \div 2) <= f
    OBVIOUS
  <2> QED
    BY <2>1
<1>2. PICK q \in Nat : q = n \div f /\ f * q <= n /\ n < f * q + f
  <2>1. n \div f \in Nat /\ f * (n \div f) <= n /\ n < f * (n \div f) + f
    BY DivIs
  <2> QED
    BY <2>1
<1>3. PICK r \in Nat : r = n \div h /\ h * r <= n /\ n < h * r + h
  <2>1. n \div h \in Nat /\ h * (n \div h) <= n /\ n < h * (n \div h) + h
    BY DivIs
  <2> QED
    BY <2>1
<1>4. q # 0
  <2> SUFFICES ASSUME q = 0 PROVE FALSE
    OBVIOUS
  <2>1. f * q = 0
    BY <1>2
  <2> QED
    BY <1>2, <2>1
<1>5. 2 * q <= r
  <2> SUFFICES ASSUME r < 2 * q PROVE FALSE
    OBVIOUS
  <2>1. h * r + h <= h * (2 * q)
    BY Multiple
  <2>2. h * (2 * q) <= f * q
    <3>1. PICK g \in Nat : f = 2 * h + g
      <4>1. f - 2 * h \in Nat /\ f = 2 * h + (f - 2 * h)
        BY <1>1
      <4> QED
        BY <4>1
    <3>2. f * q = h * (2 * q) + g * q
      BY <3>1
    <3>3. g * q \in Nat /\ h * (2 * q) \in Nat
      OBVIOUS
    <3> QED
      BY <3>2, <3>3
  <2>3. PICK x \in Nat, y \in Nat, z \in Nat : x = h * r /\ y = h * (2 * q) /\ z = f * q
    OBVIOUS
  <2> QED
    BY <1>2, <1>3, <2>1, <2>2, <2>3
<1> QED
  BY <1>1, <1>2, <1>3, <1>4, <1>5

LEMMA CompactMaybeSound ==
  ASSUME NEW T, HashSound(T, Referent, EntryType), NEW A, A = CompactMaybe(T)
  PROVE  HashSound(A, Referent, EntryType) /\ Values(A.slots) = Values(T.slots)
<1>1. /\ T \in TableOf(EntryType) /\ T.num = Cardinality(Filled(T.slots))
      /\ Unique(T.slots, Referent)
  BY DEF HashSound, HashFilled
<1>2. T.slots \in Seq(EntryType \cup {Nil}) /\ T.num \in Nat
  BY <1>1, TableParts
<1>3. PICK n \in Nat, c \in Nat : n = Len(T.slots) /\ c = T.num
  BY <1>2
<1>4. CASE Len(T.slots) >= CompactSize /\ Len(T.slots) \div CompactFill >= T.num
  <2>1. PICK f \in Nat \ {0, 1} : f = CompactFill
    BY TableAssumption
  <2>2. n >= f
    BY <1>3, <1>4, <2>1, TableAssumption
  <2>3. PICK q \in Nat : q = n \div f /\ c <= q
    <3>1. n \div f \in Nat
      BY <2>1, DivIs
    <3>2. c <= n \div f
      BY <1>3, <1>4, <2>1, <3>1
    <3> QED
      BY <3>1, <3>2
  <2>4. PICK size \in Nat : size = n \div (f \div 2) /\ 2 * q <= size /\ 1 <= q
    BY <2>1, <2>2, <2>3, HalfDivides
  <2>5. A = Refill(T.slots, size, Referent)
    BY <1>3, <1>4, <2>1, <2>4 DEF CompactMaybe, Resize
  <2>6. c < size
    BY <2>3, <2>4
  <2>7. /\ HashFilled(A, Referent, EntryType)
        /\ A.num = c
        /\ Len(A.slots) = size
        /\ Values(A.slots) = Values(T.slots)
        /\ A.disp = 0 \/ A.disp < A.num
    <3>1. PICK V, slots : V = EntryType /\ slots = T.slots
      OBVIOUS
    <3>2. slots \in Seq(V \cup {Nil}) /\ Keyed(V, Referent) /\ Unique(slots, Referent)
      BY <1>1, <1>2, <3>1, EntryKeys
    <3>3. Cardinality(Filled(slots)) < size /\ A = Refill(slots, size, Referent)
      BY <1>1, <1>3, <2>5, <2>6, <3>1
    <3>4. /\ HashFilled(A, Referent, V)
          /\ A.num = Cardinality(Filled(slots))
          /\ Len(A.slots) = size
          /\ Values(A.slots) = Values(slots)
          /\ A.disp = 0 \/ A.disp < A.num
      BY <3>2, <3>3, RefillSound
    <3> QED
      BY <1>1, <1>3, <3>1, <3>4
  <2>8. A.disp + 1 < Len(A.slots)
    <3>1. A.disp \in Nat
      BY <2>7, TableParts DEF HashFilled
    <3>2. PICK d \in Nat : d = A.disp /\ (d = 0 \/ d < c)
      BY <2>7, <3>1
    <3>3. d + 1 < size
      BY <2>3, <2>4, <3>2
    <3> QED
      BY <2>7, <3>2, <3>3
  <2> QED
    BY <2>7, <2>8 DEF HashSound
<1>5. CASE ~ (Len(T.slots) >= CompactSize /\ Len(T.slots) \div CompactFill >= T.num)
  <2>1. A = T
    BY <1>5 DEF CompactMaybe
  <2> QED
    BY <2>1
<1> QED
  BY <1>4, <1>5

LEMMA EmptySlotIs ==
  ASSUME NEW V, NEW T \in TableOf(V), NEW i
  PROVE  [T EXCEPT !.slots[i] = Nil, !.num = @ - 1]
           = Emptied(T, i)
<1>1. PICK d : d = [T EXCEPT !.slots[i] = Nil]
  OBVIOUS
<1>2. d = [slots |-> Put(T.slots, i, Nil), num |-> T.num, disp |-> T.disp]
  BY <1>1 DEF TableOf, Put
<1>3. [T EXCEPT !.slots[i] = Nil, !.num = @ - 1] = [d EXCEPT !.num = @ - 1]
  BY <1>1
<1>4. [d EXCEPT !.num = @ - 1] = Emptied(T, i)
  BY <1>2 DEF Emptied
<1> QED
  BY <1>3, <1>4

(* What a table of entries becomes: one entry less, ...                    *)
LEMMA RemoveEntrySound ==
  ASSUME NEW T, EntriesSound(T), NEW i \in Filled(T.slots), NEW A, A = RemoveEntry(T, i)
  PROVE  EntriesSound(A) /\ Values(A.slots) = Values(T.slots) \ {T.slots[i]}
<1>1. HashSound(T, Referent, EntryType) /\ T \in TableOf(EntryType)
  BY DEF EntriesSound, HashSound, HashFilled
<1>2. PICK R : R = Emptied(T, i)
  OBVIOUS
<1>3. HashSound(R, Referent, EntryType) /\ Values(R.slots) = Values(T.slots) \ {T.slots[i]}
  <2>1. PICK V : V = EntryType
    OBVIOUS
  <2>2. Keyed(V, Referent) /\ HashSound(T, Referent, V)
    BY <1>1, <2>1, EntryKeys
  <2>3. /\ HashSound(R, Referent, V)
        /\ Len(R.slots) = Len(T.slots)
        /\ Values(R.slots) = Values(T.slots) \ {T.slots[i]}
    BY <1>2, <2>2, EmptiedSound
  <2> QED
    BY <2>1, <2>3
<1>4. [T EXCEPT !.slots[i] = Nil, !.num = @ - 1] = R
  BY <1>1, <1>2, EmptySlotIs, ZenonT(60)
<1>5. A = CompactMaybe(R)
  BY <1>4 DEF RemoveEntry
<1>6. HashSound(A, Referent, EntryType) /\ Values(A.slots) = Values(R.slots)
  BY <1>3, <1>5, CompactMaybeSound
<1> QED
  BY <1>3, <1>6 DEF EntriesSound

(* ... another entry for the same object, ...                              *)
LEMMA ReplaceEntrySound ==
  ASSUME NEW T, EntriesSound(T), NEW i \in Filled(T.slots), NEW x \in EntryType,
         x.referent = T.slots[i].referent, EntrySound(x),
         NEW A, A = [slots |-> Put(T.slots, i, x), num |-> T.num, disp |-> T.disp]
  PROVE  EntriesSound(A) /\ Values(A.slots) = (Values(T.slots) \ {T.slots[i]}) \cup {x}
<1>1. HashSound(T, Referent, EntryType) /\ T \in TableOf(EntryType)
  BY DEF EntriesSound, HashSound, HashFilled
<1>2. T.slots[i] \in EntryType
  BY <1>1, TableParts, FilledIn
<1>3. Referent[x] = Referent[T.slots[i]]
  BY <1>2, EntryParts
<1>4. HashSound(A, Referent, EntryType) /\ Values(A.slots) = (Values(T.slots) \ {T.slots[i]}) \cup {x}
  BY <1>1, <1>3, EntryKeys, ReplacedSound
<1> QED
  BY <1>4 DEF EntriesSound

(* ... or an entry for an object that has none.                            *)
LEMMA AddEntrySound ==
  ASSUME NEW T, EntriesSound(T), NEW x \in EntryType, EntrySound(x),
         \A e \in Values(T.slots) : e.referent # x.referent,
         NEW A, A = EntryInsert(GrowMaybe(T), x)
  PROVE  EntriesSound(A) /\ Values(A.slots) = Values(T.slots) \cup {x}
<1>1. HashSound(T, Referent, EntryType)
  BY DEF EntriesSound
<1>2. PICK G : G = GrowMaybe(T)
  OBVIOUS
<1>3. /\ HashSound(G, Referent, EntryType)
      /\ G.num + 1 < Len(G.slots)
      /\ Values(G.slots) = Values(T.slots)
  BY <1>1, <1>2, GrowMaybeSound
<1>4. HashFilled(G, Referent, EntryType) /\ G \in TableOf(EntryType) /\ (G.slots # <<>> => G.disp + 1 < Len(G.slots))
  BY <1>3 DEF HashSound, HashFilled
<1>5. G.slots \in Seq(EntryType \cup {Nil}) /\ G.num \in Nat /\ G.disp \in Nat
  BY <1>4, TableParts
<1>6. PICK n \in Nat, c \in Nat, d \in Nat : n = Len(G.slots) /\ c = G.num /\ d = G.disp
  BY <1>5
<1>7. c + 1 < n /\ d + 1 < n
  <2>1. c + 1 < n
    BY <1>3, <1>6
  <2>2. G.slots # <<>>
    BY <1>5, <1>6, <2>1
  <2> QED
    BY <1>4, <1>6, <2>1, <2>2
<1>8. NewKey(G.slots, Referent, x)
  <2> SUFFICES ASSUME NEW i \in Filled(G.slots), Referent[G.slots[i]] = Referent[x] PROVE FALSE
    BY DEF NewKey
  <2>1. G.slots[i] \in EntryType
    BY <1>5, FilledIn
  <2>2. G.slots[i].referent = x.referent
    BY <2>1, EntryParts
  <2>3. G.slots[i] \in Values(T.slots)
    BY <1>3 DEF Values
  <2> QED
    BY <2>2, <2>3
<1>9. A = Add(G, Hash[Referent[x]], x)
  BY <1>2, EntryParts DEF EntryInsert
<1>10. G.num < Len(G.slots)
  BY <1>6, <1>7
<1>11. /\ HashFilled(A, Referent, EntryType)
       /\ Len(A.slots) = Len(G.slots)
       /\ Values(A.slots) = Values(G.slots) \cup {x}
       /\ A.disp <= G.disp \/ A.disp <= G.num
  BY <1>4, <1>8, <1>9, <1>10, EntryKeys, AddSound
<1>12. A.disp + 1 < Len(A.slots)
  <2>1. A.disp \in Nat
    BY <1>11, TableParts DEF HashFilled
  <2>2. PICK r \in Nat : r = A.disp /\ (r <= d \/ r <= c)
    BY <1>6, <1>11, <2>1
  <2>3. r + 1 < n
    BY <1>7, <2>2
  <2> QED
    BY <1>6, <1>11, <2>2, <2>3
<1>13. HashSound(A, Referent, EntryType)
  BY <1>11, <1>12 DEF HashSound
<1> QED
  BY <1>3, <1>11, <1>13 DEF EntriesSound

-----------------------------------------------------------------------------
(* Steps                                                                   *)

LEMMA EntriesTyped ==
  ASSUME NEW T, EntriesSound(T)
  PROVE  /\ T \in TableOf(EntryType) /\ T.slots \in Seq(EntryType \cup {Nil})
         /\ T.num \in Nat /\ T.disp \in Nat
         /\ \A e \in Values(T.slots) : e \in EntryType /\ EntrySound(e)
         /\ \A d, e \in Values(T.slots) : d.referent = e.referent => d = e
<1>1. T \in TableOf(EntryType) /\ Unique(T.slots, Referent)
  BY DEF EntriesSound, HashSound, HashFilled
<1>2. T.slots \in Seq(EntryType \cup {Nil}) /\ T.num \in Nat /\ T.disp \in Nat
  BY <1>1, TableParts
<1>3. \A i \in Filled(T.slots) : T.slots[i] \in EntryType
  BY <1>2, FilledIn
<1>4. ASSUME NEW d \in Values(T.slots), NEW e \in Values(T.slots), d.referent = e.referent
      PROVE  d = e
  <2>1. PICK i \in Filled(T.slots), j \in Filled(T.slots) : d = T.slots[i] /\ e = T.slots[j]
    BY DEF Values
  <2>2. Referent[d] = Referent[e]
    BY <1>3, <1>4, <2>1, EntryParts
  <2>3. i = j
    BY <1>1, <2>1, <2>2 DEF Unique
  <2> QED
    BY <2>1, <2>3
<1>5. \A e \in Values(T.slots) : e \in EntryType /\ EntrySound(e)
  BY <1>3 DEF Values, EntriesSound
<1> QED
  BY <1>1, <1>2, <1>4, <1>5

LEMMA TableHas ==
  Table.slots = entries /\ Table.num = num_entries /\ Table.disp = displacement
BY DEF Table

LEMMA BecomesIs ==
  ASSUME NEW T \in TableOf(EntryType), Becomes(T)
  PROVE  Table' = T
BY DEF Becomes, Table, TableOf

(* weak_entry_for_referent finds the entry of an object, if it has one.    *)
LEMMA EntryFound ==
  ASSUME TableIInv, NEW o \in Objects
  PROVE  /\ HasEntry(o) => /\ EntryIndex(o) \in Filled(entries)
                           /\ entries[EntryIndex(o)].referent = o
         /\ \A i \in Filled(entries) : entries[i].referent = o => EntryPlaces(o) = {i}
<1>1. PICK T : T = Table
  OBVIOUS
<1>2. EntriesSound(T) /\ T.slots = entries
  BY <1>1, TableHas DEF TableIInv
<1>3. HashFilled(T, Referent, EntryType) /\ T \in TableOf(EntryType)
  BY <1>2 DEF EntriesSound, HashSound, HashFilled
<1>4. Hash[o] \in Nat
  BY TableAssumption
<1>5. \A i \in Filled(T.slots) : T.slots[i] \in EntryType
  BY <1>3, TableParts, FilledIn
<1>6. ASSUME NEW i \in EntryPlaces(o)
      PROVE  i \in Filled(entries) /\ entries[i].referent = o
  <2>1. i \in Search(T, Referent, o)
    BY <1>1, <1>6 DEF EntryPlaces
  <2>2. i \in Filled(T.slots) /\ Referent[T.slots[i]] = o
    BY <1>3, <1>4, <2>1, SearchIn
  <2> QED
    BY <1>2, <1>5, <2>2, EntryParts
<1>7. ASSUME NEW i \in Filled(entries), entries[i].referent = o
      PROVE  EntryPlaces(o) = {i}
  <2>1. i \in Filled(T.slots) /\ Referent[T.slots[i]] = o
    BY <1>2, <1>5, <1>7, EntryParts
  <2>2. Search(T, Referent, Referent[T.slots[i]]) = {i}
    BY <1>3, <2>1, EntryKeys, SearchFinds
  <2> QED
    BY <1>1, <2>1, <2>2 DEF EntryPlaces
<1>8. HasEntry(o) => EntryIndex(o) \in EntryPlaces(o)
  BY DEF HasEntry, EntryIndex
<1> QED
  BY <1>6, <1>7, <1>8

(* The pairs in a table, and what becomes of them.                         *)
Has(T, o, l) == \E e \in Values(T.slots) : e.referent = o /\ l \in Values(e.refs.slots)
Adds(T, o, l, A) ==
  \A u \in Objects, k \in Locations : Has(A, u, k) <=> Has(T, u, k) \/ (u = o /\ k = l)
Drops(T, o, l, A) ==
  \A u \in Objects, k \in Locations : Has(A, u, k) <=> Has(T, u, k) /\ ~ (u = o /\ k = l)
Clears(T, o, A) ==
  \A u \in Objects, k \in Locations : Has(A, u, k) <=> Has(T, u, k) /\ u # o

LEMMA RegisteredIs ==
  TableIInv => \A o \in Objects, l \in Locations : Registered(o, l) <=> Has(Table, o, l)
<1> SUFFICES ASSUME TableIInv, NEW o \in Objects, NEW l \in Locations
             PROVE  Registered(o, l) <=> Has(Table, o, l)
  OBVIOUS
<1>1. EntriesSound(Table) /\ Table.slots = entries
  BY TableHas DEF TableIInv
<1>2. \A e \in Values(entries) : l \in Range(e.refs.slots) <=> l \in Values(e.refs.slots)
  <2>1. l # Nil
    BY TableAssumption
  <2> QED
    BY <2>1 DEF Range, Values, Filled
<1>3. Registered(o, l) <=> \E e \in Values(entries) : e.referent = o /\ l \in Range(e.refs.slots)
  BY DEF Registered, Values
<1> QED
  BY <1>1, <1>2, <1>3 DEF Has

LEMMA RegisterStep ==
  ASSUME TableIInv, NEW o \in Objects, NEW l \in Locations, weak_register_no_lock(o, l)
  PROVE  \E A : A = Table' /\ EntriesSound(A) /\ Adds(Table, o, l, A)
<1>1. PICK T : T = Table
  OBVIOUS
<1>2. /\ EntriesSound(T) /\ T.slots = entries /\ T.num = num_entries /\ T.disp = displacement
  BY <1>1, TableHas DEF TableIInv
<1>3. /\ \A e \in Values(T.slots) : e \in EntryType /\ EntrySound(e)
      /\ \A d, e \in Values(T.slots) : d.referent = e.referent => d = e
      /\ T.slots \in Seq(EntryType \cup {Nil})
  BY <1>2, EntriesTyped
<1>4. ~Has(T, o, l)
  BY <1>1, RegisteredIs DEF weak_register_no_lock
<1>5. CASE HasEntry(o)
  <2>1. PICK i : i = EntryIndex(o)
    OBVIOUS
  <2>2. i \in Filled(T.slots) /\ T.slots[i].referent = o
    BY <1>2, <1>5, <2>1, EntryFound
  <2>3. PICK e : e = T.slots[i]
    OBVIOUS
  <2>4. e \in Values(T.slots) /\ e \in EntryType /\ EntrySound(e) /\ e.referent = o
    BY <1>3, <2>2, <2>3 DEF Values
  <2>5. l \notin Values(e.refs.slots)
    BY <1>4, <2>4 DEF Has
  <2>6. PICK x : x = AppendReferrer(e, l)
    OBVIOUS
  <2>7. /\ x \in EntryType /\ x.referent = o /\ EntrySound(x)
        /\ Values(x.refs.slots) = Values(e.refs.slots) \cup {l}
    BY <2>4, <2>5, <2>6, AppendReferrerSound DEF Gains
  <2>8. PICK A : A = [slots |-> Put(T.slots, i, x), num |-> T.num, disp |-> T.disp]
    OBVIOUS
  <2>9. EntriesSound(A) /\ Values(A.slots) = (Values(T.slots) \ {e}) \cup {x}
    BY <1>2, <2>2, <2>3, <2>4, <2>7, <2>8, ReplaceEntrySound
  <2>10. A = Table'
    <3>1. /\ entries' = [entries EXCEPT ![i] = AppendReferrer(entries[i], l)]
          /\ num_entries' = num_entries /\ displacement' = displacement
      BY <1>5, <2>1 DEF weak_register_no_lock
    <3>2. entries' = Put(T.slots, i, x)
      BY <1>2, <2>3, <2>6, <3>1 DEF Put
    <3> QED
      BY <1>2, <2>8, <3>1, <3>2 DEF Table
  <2>11. Adds(T, o, l, A)
    <3> SUFFICES ASSUME NEW u \in Objects, NEW k \in Locations
                 PROVE  Has(A, u, k) <=> Has(T, u, k) \/ (u = o /\ k = l)
      BY DEF Adds
    <3>1. \A d \in Values(T.slots) : d.referent = o => d = e
      BY <1>3, <2>4
    <3> QED
      BY <2>4, <2>7, <2>9, <3>1 DEF Has
  <2> QED
    BY <1>1, <2>9, <2>10, <2>11
<1>6. CASE ~HasEntry(o)
  <2>1. PICK x : x = weak_entry_t(o, l)
    OBVIOUS
  <2>2. x \in EntryType /\ x.referent = o /\ EntrySound(x) /\ Values(x.refs.slots) = {l}
    BY <2>1, NewEntrySound
  <2>3. \A e \in Values(T.slots) : e.referent # x.referent
    <3> SUFFICES ASSUME NEW i \in Filled(entries), entries[i].referent = o PROVE FALSE
      BY <1>2, <2>2 DEF Values
    <3>1. EntryPlaces(o) = {i}
      BY EntryFound
    <3> QED
      BY <1>6, <3>1 DEF HasEntry
  <2>4. PICK A : A = EntryInsert(GrowMaybe(T), x)
    OBVIOUS
  <2>5. EntriesSound(A) /\ Values(A.slots) = Values(T.slots) \cup {x}
    BY <1>2, <2>2, <2>3, <2>4, AddEntrySound
  <2>6. A = Table'
    <3>1. Becomes(A)
      BY <1>1, <1>6, <2>1, <2>4 DEF weak_register_no_lock
    <3>2. A \in TableOf(EntryType)
      BY <2>5, EntriesTyped
    <3> QED
      BY <3>1, <3>2, BecomesIs
  <2>7. Adds(T, o, l, A)
    BY <2>2, <2>5 DEF Adds, Has
  <2> QED
    BY <1>1, <2>5, <2>6, <2>7
<1> QED
  BY <1>5, <1>6

LEMMA UnregisterStep ==
  ASSUME TableIInv, NEW o \in Objects, NEW l \in Locations, weak_unregister_no_lock(o, l)
  PROVE  \E A : A = Table' /\ EntriesSound(A) /\ Drops(Table, o, l, A)
<1>1. PICK T : T = Table
  OBVIOUS
<1>2. /\ EntriesSound(T) /\ T.slots = entries /\ T.num = num_entries /\ T.disp = displacement
  BY <1>1, TableHas DEF TableIInv
<1>3. /\ \A e \in Values(T.slots) : e \in EntryType /\ EntrySound(e)
      /\ \A d, e \in Values(T.slots) : d.referent = e.referent => d = e
      /\ T.slots \in Seq(EntryType \cup {Nil})
  BY <1>2, EntriesTyped
<1>4. PICK i : i = EntryIndex(o)
  OBVIOUS
<1>5. i \in Filled(T.slots) /\ T.slots[i].referent = o
  BY <1>2, <1>4, EntryFound DEF weak_unregister_no_lock
<1>6. PICK e : e = T.slots[i]
  OBVIOUS
<1>7. e \in Values(T.slots) /\ e \in EntryType /\ EntrySound(e) /\ e.referent = o
  BY <1>3, <1>5, <1>6 DEF Values
<1>8. \A d \in Values(T.slots) : d.referent = o => d = e
  BY <1>3, <1>7
<1>9. PICK x : x = RemoveReferrer(e, l)
  OBVIOUS
<1>10. /\ x \in EntryType /\ x.referent = o /\ EntrySound(x)
       /\ Values(x.refs.slots) = Values(e.refs.slots) \ {l}
  BY <1>7, <1>9, RemoveReferrerSound DEF Loses
<1>11. CASE Empty(x)
  <2>1. PICK A : A = RemoveEntry(T, i)
    OBVIOUS
  <2>2. EntriesSound(A) /\ Values(A.slots) = Values(T.slots) \ {e}
    BY <1>2, <1>5, <1>6, <2>1, RemoveEntrySound
  <2>3. A = Table'
    <3>1. Becomes(A)
      BY <1>1, <1>2, <1>4, <1>6, <1>9, <1>11, <2>1 DEF weak_unregister_no_lock
    <3>2. A \in TableOf(EntryType)
      BY <2>2, EntriesTyped
    <3> QED
      BY <3>1, <3>2, BecomesIs
  <2>4. Values(e.refs.slots) \subseteq {l}
    <3>1. Values(x.refs.slots) = {}
      BY <1>11 DEF Empty, Values
    <3> QED
      BY <1>10, <3>1
  <2>5. Drops(T, o, l, A)
    BY <1>7, <1>8, <2>2, <2>4 DEF Drops, Has
  <2> QED
    BY <1>1, <2>2, <2>3, <2>5
<1>12. CASE ~Empty(x)
  <2>1. PICK A : A = [slots |-> Put(T.slots, i, x), num |-> T.num, disp |-> T.disp]
    OBVIOUS
  <2>2. EntriesSound(A) /\ Values(A.slots) = (Values(T.slots) \ {e}) \cup {x}
    BY <1>2, <1>5, <1>6, <1>7, <1>10, <2>1, ReplaceEntrySound
  <2>3. A = Table'
    <3>1. /\ entries' = [entries EXCEPT ![i] = x]
          /\ num_entries' = num_entries /\ displacement' = displacement
      BY <1>2, <1>4, <1>6, <1>9, <1>12 DEF weak_unregister_no_lock
    <3> QED
      BY <1>2, <2>1, <3>1 DEF Table, Put
  <2>4. Drops(T, o, l, A)
    <3> SUFFICES ASSUME NEW u \in Objects, NEW k \in Locations
                 PROVE  Has(A, u, k) <=> Has(T, u, k) /\ ~ (u = o /\ k = l)
      BY DEF Drops
    <3> QED
      BY <1>7, <1>8, <1>10, <2>2 DEF Has
  <2> QED
    BY <1>1, <2>2, <2>3, <2>4
<1> QED
  BY <1>11, <1>12

LEMMA ClearStep ==
  ASSUME TableIInv, NEW o \in Objects, weak_clear_no_lock(o)
  PROVE  \E A : A = Table' /\ EntriesSound(A) /\ Clears(Table, o, A)
<1>1. PICK T : T = Table
  OBVIOUS
<1>2. EntriesSound(T) /\ T.slots = entries
  BY <1>1, TableHas DEF TableIInv
<1>3. \A d, e \in Values(T.slots) : d.referent = e.referent => d = e
  BY <1>2, EntriesTyped
<1>4. PICK i : i = EntryIndex(o)
  OBVIOUS
<1>5. i \in Filled(T.slots) /\ T.slots[i].referent = o
  BY <1>2, <1>4, EntryFound DEF weak_clear_no_lock
<1>6. PICK e : e = T.slots[i]
  OBVIOUS
<1>7. e \in Values(T.slots) /\ e.referent = o
  BY <1>5, <1>6 DEF Values
<1>8. PICK A : A = RemoveEntry(T, i)
  OBVIOUS
<1>9. EntriesSound(A) /\ Values(A.slots) = Values(T.slots) \ {e}
  BY <1>2, <1>5, <1>6, <1>8, RemoveEntrySound
<1>10. A = Table'
  <2>1. Becomes(A)
    BY <1>1, <1>4, <1>8 DEF weak_clear_no_lock
  <2>2. A \in TableOf(EntryType)
    BY <1>9, EntriesTyped
  <2> QED
    BY <2>1, <2>2, BecomesIs
<1>11. Clears(T, o, A)
  BY <1>3, <1>7, <1>9 DEF Clears, Has
<1> QED
  BY <1>1, <1>9, <1>10, <1>11

-----------------------------------------------------------------------------
(* The invariant                                                           *)

LEMMA TableInitIInv == TableInit => TableIInv
<1> SUFFICES ASSUME TableInit PROVE TableIInv
  OBVIOUS
<1>1. PICK T : T = NewTable(0)
  OBVIOUS
<1>2. T = Table
  BY <1>1 DEF TableInit, Table, NewTable, EmptySlots
<1>3. HashFilled(T, Referent, EntryType) /\ Values(T.slots) = {} /\ Len(T.slots) = 0
  BY <1>1, NewSound
<1>4. T.slots = <<>>
  BY <1>2, TableHas DEF TableInit
<1> QED
  BY <1>2, <1>3, <1>4 DEF TableIInv, EntriesSound, HashSound

(* A step of TableNext, by what it does to the pairs.                      *)
LEMMA StepCases ==
  ASSUME TableIInv, TableNext
  PROVE  \E A : /\ A = Table' /\ EntriesSound(A)
                /\ \/ \E p \in Stored : weak_register_no_lock(p[1], p[2]) /\ Adds(Table, p[1], p[2], A)
                   \/ \E p \in Stored : weak_unregister_no_lock(p[1], p[2]) /\ Drops(Table, p[1], p[2], A)
                   \/ \E o \in Objects : weak_clear_no_lock(o) /\ Clears(Table, o, A)
<1>1. ASSUME NEW p \in Stored PROVE p[1] \in Objects /\ p[2] \in Locations
  BY TableAssumption
<1>2. ASSUME NEW p \in Stored, weak_register_no_lock(p[1], p[2])
      PROVE  \E A : A = Table' /\ EntriesSound(A) /\ Adds(Table, p[1], p[2], A)
  BY <1>1, <1>2, RegisterStep
<1>3. ASSUME NEW p \in Stored, weak_unregister_no_lock(p[1], p[2])
      PROVE  \E A : A = Table' /\ EntriesSound(A) /\ Drops(Table, p[1], p[2], A)
  BY <1>1, <1>3, UnregisterStep
<1>4. ASSUME NEW o \in Objects, weak_clear_no_lock(o)
      PROVE  \E A : A = Table' /\ EntriesSound(A) /\ Clears(Table, o, A)
  BY <1>4, ClearStep
<1> QED
  BY <1>2, <1>3, <1>4 DEF TableNext

LEMMA TableNextIInv == TableIInv /\ [TableNext]_tableVars => TableIInv'
<1> SUFFICES ASSUME TableIInv, [TableNext]_tableVars PROVE TableIInv'
  OBVIOUS
<1>1. CASE TableNext
  <2>1. PICK A : A = Table' /\ EntriesSound(A)
    BY <1>1, StepCases
  <2> QED
    BY <2>1 DEF TableIInv
<1>2. CASE UNCHANGED tableVars
  <2>1. Table' = Table
    BY <1>2 DEF tableVars, Table
  <2> QED
    BY <2>1 DEF TableIInv
<1> QED
  BY <1>1, <1>2

(* TableIInv is an invariant: the hash tables are searchable at all times. *)
LEMMA TableSpecIInv == TableSpec => []TableIInv
BY TableInitIInv, TableNextIInv, PTL DEF TableSpec

LEMMA IInvSound == TableIInv => TableSound
<1> SUFFICES ASSUME TableIInv PROVE TableSound
  OBVIOUS
<1>1. PICK T : T = Table
  OBVIOUS
<1>2. /\ EntriesSound(T) /\ T.slots = entries /\ T.num = num_entries /\ T.disp = displacement
  BY <1>1, TableHas DEF TableIInv
<1>3. /\ T \in TableOf(EntryType) /\ T.slots \in Seq(EntryType \cup {Nil})
      /\ T.num \in Nat /\ T.disp \in Nat
      /\ \A e \in Values(T.slots) : e \in EntryType /\ EntrySound(e)
  BY <1>2, EntriesTyped
<1>4. \A i \in Filled(entries) : entries[i] \in EntryType /\ EntrySound(entries[i])
  BY <1>2, <1>3 DEF Values
<1>5. TableTypeOK
  BY <1>2, <1>3 DEF TableTypeOK
<1>6. SearchComplete
  <2> SUFFICES ASSUME NEW i \in Filled(entries), NEW e, e = entries[i]
               PROVE  /\ EntryPlaces(e.referent) = {i}
                      /\ \A j \in Filled(e.refs.slots) : ReferrerPlaces(e, e.refs.slots[j]) = {j}
    BY DEF SearchComplete
  <2>1. e \in EntryType /\ EntrySound(e) /\ e.referent \in Objects
    BY <1>4, EntryParts
  <2>2. EntryPlaces(e.referent) = {i}
    BY <2>1, EntryFound
  <2>3. ASSUME NEW j \in Filled(e.refs.slots)
        PROVE  ReferrerPlaces(e, e.refs.slots[j]) = {j}
    <3>1. e.refs.slots[j] \in Locations
      BY <2>1, EntryParts, TableParts, FilledIn
    <3> QED
      BY <2>1, <3>1, PlacesFind
  <2> QED
    BY <2>2, <2>3
<1>7. NoBadTable
  <2>1. entries # <<>> => displacement + 1 < Len(entries)
    BY <1>2 DEF EntriesSound, HashSound
  <2>2. ASSUME NEW i \in Filled(entries), entries[i].out_of_line
        PROVE  entries[i].refs.disp + 1 < Len(entries[i].refs.slots)
    BY <1>4, <2>2 DEF EntrySound, HashSound
  <2> QED
    BY <2>1, <2>2 DEF NoBadTable
<1>8. CountsExact
  <2>1. num_entries = Cardinality(Filled(entries))
    BY <1>2 DEF EntriesSound, HashSound, HashFilled
  <2>2. ASSUME NEW i \in Filled(entries), entries[i].out_of_line
        PROVE  entries[i].refs.num = Cardinality(Filled(entries[i].refs.slots))
    BY <1>4, <2>2 DEF EntrySound, HashSound, HashFilled
  <2> QED
    BY <2>1, <2>2 DEF CountsExact
<1> QED
  BY <1>5, <1>6, <1>7, <1>8 DEF TableSound

(* Whatever has been displaced, moved and removed: searches find           *)
(* everything in the tables, and only that; none goes round in a circle;   *)
(* the counters are exact (objc-weak.mm).                                  *)
THEOREM TablesAreSearchable == TableSpec => []TableSound
BY TableSpecIInv, IInvSound, PTL

-----------------------------------------------------------------------------
(* The table is a set of pairs                                             *)

LEMMA PairsInit == TableInit => Abstract!Init
<1> SUFFICES ASSUME TableInit PROVE Pairs = {}
  BY DEF Abstract!Init
<1>1. Filled(entries) = {}
  BY DEF TableInit, Filled
<1> QED
  BY <1>1 DEF Pairs, Registered

LEMMA PairsAre ==
  TableIInv => Pairs = {p \in Stored : Has(Table, p[1], p[2])}
<1> SUFFICES ASSUME TableIInv, NEW p \in Stored
             PROVE  Registered(p[1], p[2]) <=> Has(Table, p[1], p[2])
  BY DEF Pairs
<1>1. p[1] \in Objects /\ p[2] \in Locations
  BY TableAssumption
<1> QED
  BY <1>1, RegisteredIs

LEMMA PairsStep ==
  ASSUME TableIInv, TableIInv', TableNext
  PROVE  Implements
<1>1. PICK P : P = Pairs'
  OBVIOUS
<1>2. PICK T : T = Table
  OBVIOUS
<1>3. Pairs = {p \in Stored : Has(T, p[1], p[2])}
  BY <1>2, PairsAre
<1>4. PICK A : /\ A = Table'
               /\ \/ \E p \in Stored : weak_register_no_lock(p[1], p[2]) /\ Adds(T, p[1], p[2], A)
                  \/ \E p \in Stored : weak_unregister_no_lock(p[1], p[2]) /\ Drops(T, p[1], p[2], A)
                  \/ \E o \in Objects : weak_clear_no_lock(o) /\ Clears(T, o, A)
  BY <1>2, StepCases
<1>5. P = {p \in Stored : Has(A, p[1], p[2])}
  <2>1. (Pairs = {p \in Stored : Has(Table, p[1], p[2])})'
    BY PairsAre, PTL
  <2> QED
    BY <1>1, <1>4, <2>1
<1>6. \A p \in Stored : p[1] \in Objects /\ p[2] \in Locations /\ p = <<p[1], p[2]>>
  BY TableAssumption
<1>7. CASE \E p \in Stored : weak_register_no_lock(p[1], p[2]) /\ Adds(T, p[1], p[2], A)
  <2>1. PICK p \in Stored : weak_register_no_lock(p[1], p[2]) /\ Adds(T, p[1], p[2], A)
    BY <1>7
  <2>2. ASSUME NEW q \in Stored PROVE Has(A, q[1], q[2]) <=> Has(T, q[1], q[2]) \/ q = p
    <3>1. q[1] \in Objects /\ q[2] \in Locations
      BY <1>6
    <3>2. q = p <=> q[1] = p[1] /\ q[2] = p[2]
      BY <1>6
    <3> QED
      BY <2>1, <3>1, <3>2 DEF Adds
  <2>3. P = Pairs \cup {p}
    BY <1>3, <1>5, <2>2
  <2>4. Abstract!Register(p[1], p[2])
    BY <1>1, <1>6, <2>3 DEF Abstract!Register
  <2> QED
    BY <2>1, <2>4 DEF Implements
<1>8. CASE \E p \in Stored : weak_unregister_no_lock(p[1], p[2]) /\ Drops(T, p[1], p[2], A)
  <2>1. PICK p \in Stored : weak_unregister_no_lock(p[1], p[2]) /\ Drops(T, p[1], p[2], A)
    BY <1>8
  <2>2. ASSUME NEW q \in Stored PROVE Has(A, q[1], q[2]) <=> Has(T, q[1], q[2]) /\ q # p
    <3>1. q[1] \in Objects /\ q[2] \in Locations
      BY <1>6
    <3>2. q = p <=> q[1] = p[1] /\ q[2] = p[2]
      BY <1>6
    <3> QED
      BY <2>1, <3>1, <3>2 DEF Drops
  <2>3. P = Pairs \ {p}
    BY <1>3, <1>5, <2>2
  <2>4. Abstract!Unregister(p[1], p[2])
    BY <1>1, <1>6, <2>3 DEF Abstract!Unregister
  <2> QED
    BY <2>1, <2>4 DEF Implements
<1>9. CASE \E o \in Objects : weak_clear_no_lock(o) /\ Clears(T, o, A)
  <2>1. PICK o \in Objects : weak_clear_no_lock(o) /\ Clears(T, o, A)
    BY <1>9
  <2>2. PICK C : C = {<<o, l>> : l \in Locations}
    OBVIOUS
  <2>3. ASSUME NEW q \in Stored PROVE Has(A, q[1], q[2]) <=> Has(T, q[1], q[2]) /\ q \notin C
    <3>1. q[1] \in Objects /\ q[2] \in Locations
      BY <1>6
    <3>2. q \in C <=> q[1] = o
      BY <1>6, <2>2
    <3> QED
      BY <2>1, <3>1, <3>2 DEF Clears
  <2>4. P = Pairs \ C
    BY <1>3, <1>5, <2>3
  <2>5. Abstract!Clear(o)
    BY <1>1, <2>2, <2>4 DEF Abstract!Clear
  <2> QED
    BY <2>1, <2>5 DEF Implements
<1> QED
  BY <1>4, <1>7, <1>8, <1>9

(* The table does what WeakPairs promises: registering adds one pair,      *)
(* unregistering removes one, clearing those of one object (objc-weak.mm). *)
THEOREM ImplementsWeakPairs == TableSpec => PairsSpec
<1>1. TableIInv /\ TableIInv' /\ [TableNext]_tableVars => [Implements]_tableVars
  <2> SUFFICES ASSUME TableIInv, TableIInv', [TableNext]_tableVars PROVE [Implements]_tableVars
    OBVIOUS
  <2>1. CASE TableNext
    BY <2>1, PairsStep
  <2>2. CASE UNCHANGED tableVars
    BY <2>2
  <2> QED
    BY <2>1, <2>2
<1> QED
  BY <1>1, TableSpecIInv, PairsInit, PTL DEF TableSpec, PairsSpec

=============================================================================
