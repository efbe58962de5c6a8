---------------------------- MODULE RefCountInv ----------------------------
(***************************************************************************)
(* The inductive invariant behind the theorems about RefCount: what is     *)
(* true of every thread between any two steps of any other.                *)
(***************************************************************************)
EXTENDS RefCount

(* Labels whose next step needs the lock held, and labels that exclude it. *)
LockedLabels ==
  BorrowLabels \cup {"unlock", "retainMove", "borrow", "changeMove",
                     "weakLoad", "weakStore", "countLoad"}
UnlockedLabels ==
  DeallocLabels \cup {"idle", "retainLock", "releaseLock", "sidetableRelease",
                      "changeLock", "sidetableCount"}

(* Retains that have not produced their reference yet, releases that have  *)
(* not given theirs up, and changes of class.                              *)
RetainLabels == {"retainLoad", "retainLock", "retainStore", "sidetableRetain"}
ReleaseLabels ==
  BorrowLabels \cup {"releaseLoad", "releaseLock", "releaseStore", "borrow",
                     "deallocStore", "sidetableRelease"}
ChangeLabels == {"changeLoad", "changeLock", "changeStore", "changeMove"}

LockInv(t) ==
  /\ pc[t] \in LockedLabels \/ trying[t] => lock = t
  /\ pc[t] \in UnlockedLabels => lock # t
  /\ pc[t] = "sidetableRetain" /\ ~trying[t] => lock # t
  /\ trying[t] => weakVar /\ pc[t] \in {"retainLoad", "retainStore",
                                        "sidetableRetain", "retainMove"}

(* What the thread's call is about, and that the reference it depends on   *)
(* is its own.                                                             *)
ArgInv(t) ==
  /\ pc[t] \in RetainLabels => arg[t] \in Slots /\ slot[arg[t]] = NoThread
  /\ pc[t] \in ReleaseLabels => arg[t] \in Slots /\ slot[arg[t]] = t
  /\ pc[t] \in ChangeLabels => arg[t] \in Classes
  /\ \/ pc[t] \in {"idle", "unlock"} \cup DeallocLabels
     \/ trying[t] /\ pc[t] # "retainMove"
     \/ Owns(t)

ArgsDiffer ==
  \A t, u \in Threads :
    t # u /\ pc[t] \in RetainLabels /\ pc[u] \in RetainLabels => arg[t] # arg[u]

(* What the isa the thread has loaded says, whatever isa is by now.        *)
OldInv(t) ==
  /\ pc[t] \in {"retainStore", "retainLock"} =>
       /\ old[t] \in Isas /\ old[t].nonpointer
       /\ trying[t] => ~old[t].deallocating
       /\ old[t].extra_rc = MAX_RC /\ pc[t] = "retainStore" => lock = t
  /\ pc[t] = "releaseStore" =>
       old[t] \in Isas /\ old[t].nonpointer /\ old[t].extra_rc > 0
  /\ pc[t] = "deallocStore" =>
       /\ old[t] \in Isas /\ old[t].nonpointer /\ old[t].extra_rc = 0
       /\ ~old[t].deallocating
       /\ \/ ~old[t].has_sidetable_rc
          \/ lock = t /\ table.rc = 0
  /\ pc[t] \in {"borrow", "borrowStore"} =>
       /\ old[t] \in Isas /\ old[t].nonpointer /\ old[t].extra_rc = 0
       /\ ~old[t].deallocating
  /\ pc[t] = "borrowRestore" =>
       /\ old[t] \in Isas /\ old[t].nonpointer
       /\ old[t].extra_rc + RC_HALF - 1 =< MAX_RC
  /\ pc[t] \in {"changeLock", "changeStore"} => old[t] \in Isas
  /\ pc[t] = "changeStore" /\ Transcribes(old[t], arg[t]) => lock = t
  /\ pc[t] = "changeMove" =>
       old[t] \in Isas /\ ~old[t].deallocating /\ ~isa.nonpointer
  /\ pc[t] = "weakStore" => old[t] \in Isas /\ old[t].nonpointer
  /\ pc[t] \in BorrowLabels \cup {"borrow", "retainMove"} =>
       isa.nonpointer /\ isa.has_sidetable_rc
  /\ pc[t] \in {"sidetableRetain", "sidetableRelease"} => ~isa.nonpointer
  /\ pc[t] = "sidetableCount" => ~isa.nonpointer

(* What lives where: a raw isa carries no count, the side table carries no *)
(* flags of a nonpointer one, and holds its counts by halves.              *)
Halves == {RC_HALF * k : k \in Nat}

ShapeInv ==
  /\ ~isa.nonpointer => isa = RawIsa(isa.cls)
  /\ isa.nonpointer => ~table.deallocating /\ ~table.weakly_referenced
  /\ isa.nonpointer /\ ~isa.has_sidetable_rc => table.rc = 0
  /\ isa.nonpointer => table.rc \in Halves

WeakMarked ==
  \/ isa.weakly_referenced
  \/ ~isa.nonpointer /\ table.weakly_referenced
  \/ \E t \in Threads : \/ pc[t] \in {"weakLoad", "weakStore"}
                        \/ pc[t] = "changeMove" /\ old[t].weakly_referenced

LiveInv ==
  Strong # {} =>
    /\ alive
    /\ 1 + isa.extra_rc + table.rc + InTransit = Cardinality(Strong)
    /\ ~isa.deallocating /\ ~table.deallocating
    /\ ~Deallocating
    /\ weakVar => WeakMarked

DyingInv ==
  \A t \in Threads : pc[t] \in DeallocLabels =>
    /\ alive /\ Strong = {}
    /\ \A u \in Threads : pc[u] \in DeallocLabels => u = t
    /\ isa.extra_rc = 0 /\ table.rc = 0
    /\ isa.nonpointer => isa.deallocating
    /\ pc[t] # "free" => /\ ~isa.nonpointer => table.deallocating
                         /\ weakVar => WeakMarked
    /\ pc[t] = "free" => table = NoEntry /\ ~weakVar

FreedInv == 
  /\ alive /\ Strong = {} => Deallocating
  /\ ~alive => table = NoEntry /\ ~weakVar

IInv ==
  /\ TypeOK
  /\ \A t \in Threads : LockInv(t) /\ ArgInv(t) /\ OldInv(t)
  /\ ArgsDiffer
  /\ ShapeInv
  /\ LiveInv
  /\ DyingInv
  /\ FreedInv

=============================================================================
