------------------------------ MODULE RefCount ------------------------------
(***************************************************************************)
(* The reference count of one object (objc-object.h, NSObject.mm).         *)
(*                                                                         *)
(* A count is split between the extra_rc field of the object's isa word,   *)
(* which threads change with a load and a conditional store and no lock,   *)
(* and an entry of a side table, which they change under its lock.         *)
(* Retains that overflow extra_rc and releases that exhaust it move half   *)
(* its range between the two; object_setClass may move all of it when the  *)
(* new class needs a raw isa.  There is one action per load, store and     *)
(* critical section.                                                       *)
(***************************************************************************)
EXTENDS Integers, FiniteSets

CONSTANTS Threads,    \* the threads that call the runtime
          Slots,      \* the strong references that can exist at once
          Classes,    \* the classes the object can be given
          RawClasses, \* those whose instances need a raw isa
          RC_HALF,    \* half the range of extra_rc
          NoThread,   \* no thread
          NoArg,      \* the argument of a call that has none
          NoIsa,      \* the isa a thread has loaded when it has loaded none
          LoseReservation \* can a store fail though isa has not changed?

ASSUME RefCountAssumption ==
  /\ NoThread \notin Threads
  /\ IsFiniteSet(Slots)
  /\ RawClasses \subseteq Classes
  /\ NoArg \notin Slots \cup Classes
  /\ Slots \cap Classes = {}
  /\ RC_HALF \in Nat \ {0}
  /\ LoseReservation \in BOOLEAN

VARIABLES alive,     \* is the memory allocated to an object?
          isa,       \* the object's isa word
          table,     \* its side table entry; all zero when there is none
          lock,      \* the holder of the side table's lock
          weakVar,   \* does the weak variable point at the object?
          slot,      \* slot[s]: the thread that holds strong reference s
          pc,        \* what each thread does next
          arg,       \* the slot or the class its call is about
          old,       \* oldisa, the isa it loaded
          trying     \* tryRetain: is its retain a weak load's?

objVars == <<alive, isa, table, weakVar, slot>>
callVars == <<arg, old, trying>>
vars == <<alive, isa, table, lock, weakVar, slot, pc, arg, old, trying>>

MAX_RC == 2 * RC_HALF - 1

-----------------------------------------------------------------------------
(* The data                                                                *)

NonpointerIsa(c) ==
  [nonpointer |-> TRUE, cls |-> c, weakly_referenced |-> FALSE,
   deallocating |-> FALSE, has_sidetable_rc |-> FALSE, extra_rc |-> 0]

(* isa.cls = newCls: the class pointer overwrites every other field.       *)
RawIsa(c) == [NonpointerIsa(c) EXCEPT !.nonpointer = FALSE]

(* ZeroValuesArePurgeable: a missing entry and a zero entry are the same.  *)
NoEntry == [rc |-> 0, deallocating |-> FALSE, weakly_referenced |-> FALSE]

Strong == {s \in Slots : slot[s] # NoThread}
Held(t) == {s \in Slots : slot[s] = t}
FreeSlots == {s \in Slots \ Strong : \A t \in Threads : arg[t] # s}

(* Does the thread own a reference that its current call cannot drop?      *)
Owns(t) == Held(t) # {}

-----------------------------------------------------------------------------
(* Steps                                                                   *)

Goto(t, label) == pc' = [pc EXCEPT ![t] = label]

Call(t, label, a) ==
  /\ pc[t] = "idle"
  /\ Goto(t, label)
  /\ arg' = [arg EXCEPT ![t] = a]
  /\ UNCHANGED <<old, trying>>

(* The call is over once the thread has nothing left to unlock.            *)
Finish(t, label) ==
  /\ Goto(t, label)
  /\ arg' = [arg EXCEPT ![t] = NoArg]
  /\ old' = [old EXCEPT ![t] = NoIsa]
  /\ trying' = [trying EXCEPT ![t] = FALSE]

Return(t) == Finish(t, IF lock = t THEN "unlock" ELSE "idle")

Lock(t) == lock = NoThread /\ lock' = t
Unlock(t) == lock = t /\ lock' = NoThread
UnlockIfHeld(t) == lock' = IF lock = t THEN NoThread ELSE lock

LoadExclusive(t) ==
  /\ old' = [old EXCEPT ![t] = isa]
  /\ UNCHANGED <<arg, trying>>

StoreExclusive(t, new) == isa = old[t] /\ isa' = new

Acquire(s, t) == slot' = [slot EXCEPT ![s] = t]
Drop(s) == slot' = [slot EXCEPT ![s] = NoThread]

-----------------------------------------------------------------------------
(* Calls a client can make.  A client owns a reference to the object it    *)
(* passes, except to objc_loadWeakRetained, whose argument is a weak       *)
(* variable.                                                               *)

(* callAlloc: a new object, possibly at an address used before.            *)
Alloc(t, s, c) ==
  /\ ~alive
  /\ pc[t] = "idle"
  /\ s \in FreeSlots
  /\ alive' = TRUE
  /\ isa' = IF c \in RawClasses THEN RawIsa(c) ELSE NonpointerIsa(c)
  /\ Acquire(s, t)
  /\ UNCHANGED <<table, lock, weakVar, pc, callVars>>

Give(t, s, u) ==
  /\ pc[t] = "idle"
  /\ slot[s] = t
  /\ u # t
  /\ Acquire(s, u)
  /\ UNCHANGED <<alive, isa, table, lock, weakVar, pc, callVars>>

CallRetain(t, s) ==
  /\ Owns(t)
  /\ s \in FreeSlots
  /\ Call(t, "retainLoad", s)
  /\ UNCHANGED <<objVars, lock>>

(* objc_loadWeakRetained reads the variable again once it has the lock; a  *)
(* nil variable ends the call there.                                       *)
CallLoadWeak(t, s) ==
  /\ pc[t] = "idle"
  /\ weakVar
  /\ s \in FreeSlots
  /\ Lock(t)
  /\ Goto(t, "retainLoad")
  /\ arg' = [arg EXCEPT ![t] = s]
  /\ trying' = [trying EXCEPT ![t] = TRUE]
  /\ UNCHANGED <<objVars, old>>

CallRelease(t, s) ==
  /\ slot[s] = t
  /\ Call(t, "releaseLoad", s)
  /\ UNCHANGED <<objVars, lock>>

CallChangeIsa(t, c) ==
  /\ Owns(t)
  /\ Call(t, "changeLoad", c)
  /\ UNCHANGED <<objVars, lock>>

(* storeWeak registers the variable under the lock, then marks the object. *)
CallStoreWeak(t) ==
  /\ Owns(t)
  /\ Lock(t)
  /\ weakVar' = TRUE
  /\ Call(t, "weakLoad", NoArg)
  /\ UNCHANGED <<alive, isa, table, slot>>

CallRetainCount(t) ==
  /\ Owns(t)
  /\ Lock(t)
  /\ Call(t, "countLoad", NoArg)
  /\ UNCHANGED objVars

(* objc_destroyWeak unregisters the variable; weakly_referenced stays set. *)
DestroyWeak(t) ==
  /\ pc[t] = "idle"
  /\ weakVar
  /\ lock = NoThread
  /\ weakVar' = FALSE
  /\ UNCHANGED <<alive, isa, table, slot, lock, pc, callVars>>

-----------------------------------------------------------------------------
(* rootRetain.  A first load that overflows only tail-calls the framed     *)
(* slow path, which loads again, so both paths are one loop here.          *)

(* With a raw isa the whole count is in the side table.                    *)
RetainLoad(t) ==
  /\ pc[t] = "retainLoad"
  /\ \/ /\ ~isa.nonpointer
        /\ Goto(t, "sidetableRetain")
        /\ IF trying[t] THEN UNCHANGED lock ELSE UnlockIfHeld(t)
        /\ UNCHANGED callVars
     \/ /\ isa.nonpointer /\ trying[t] /\ isa.deallocating
        /\ Return(t)
        /\ UNCHANGED lock
     \/ /\ isa.nonpointer /\ ~(trying[t] /\ isa.deallocating)
        /\ LoadExclusive(t)
        /\ Goto(t, IF isa.extra_rc = MAX_RC /\ lock # t
                   THEN "retainLock" ELSE "retainStore")
        /\ UNCHANGED lock
  /\ UNCHANGED objVars

RetainLock(t) ==
  /\ pc[t] = "retainLock"
  /\ Lock(t)
  /\ Goto(t, "retainStore")
  /\ UNCHANGED <<objVars, callVars>>

Incremented(i) == [i EXCEPT !.extra_rc = @ + 1]
Overflowed(i) == [i EXCEPT !.extra_rc = RC_HALF, !.has_sidetable_rc = TRUE]

RetainStore(t) ==
  /\ pc[t] = "retainStore"
  /\ Acquire(arg[t], t)
  /\ \/ /\ old[t].extra_rc < MAX_RC
        /\ StoreExclusive(t, Incremented(old[t]))
        /\ Return(t)
     \/ /\ old[t].extra_rc = MAX_RC
        /\ StoreExclusive(t, Overflowed(old[t]))
        /\ Goto(t, "retainMove")
        /\ UNCHANGED callVars
  /\ UNCHANGED <<alive, table, weakVar, lock>>

AddExtraRC(n) == table' = [table EXCEPT !.rc = @ + n]

RetainMove(t) ==
  /\ pc[t] = "retainMove"
  /\ AddExtraRC(RC_HALF)
  /\ Return(t)
  /\ UNCHANGED <<alive, isa, weakVar, slot, lock>>

(* sidetable_retain takes the lock; sidetable_tryRetain's caller has it.   *)
SidetableRetain(t) ==
  /\ pc[t] = "sidetableRetain"
  /\ IF trying[t] THEN lock = t ELSE lock = NoThread
  /\ IF trying[t] /\ table.deallocating
     THEN UNCHANGED <<table, slot>>
     ELSE AddExtraRC(1) /\ Acquire(arg[t], t)
  /\ Return(t)
  /\ UNCHANGED <<alive, isa, weakVar, lock>>

-----------------------------------------------------------------------------
(* rootRelease                                                             *)

(* Mutant: an empty side table is noticed before the lock is taken.        *)
ReleaseLoad_PeeksTable(t) ==
  /\ pc[t] = "releaseLoad"
  /\ \/ /\ ~isa.nonpointer
        /\ Goto(t, "sidetableRelease")
        /\ UnlockIfHeld(t)
        /\ UNCHANGED callVars
     \/ /\ isa.nonpointer
        /\ LoadExclusive(t)
        /\ Goto(t, IF isa.extra_rc > 0 THEN "releaseStore"
                   ELSE IF table.rc = 0 THEN "deallocStore"
                   ELSE IF lock = t THEN "borrow" ELSE "releaseLock")
        /\ UNCHANGED lock
  /\ UNCHANGED objVars

(* An extra_rc of 0 is refilled from the side table, under its lock and    *)
(* from an isa loaded with the lock held.                                  *)
ReleaseLoad(t) ==
  /\ pc[t] = "releaseLoad"
  /\ \/ /\ ~isa.nonpointer
        /\ Goto(t, "sidetableRelease")
        /\ UnlockIfHeld(t)
        /\ UNCHANGED callVars
     \/ /\ isa.nonpointer
        /\ LoadExclusive(t)
        /\ Goto(t, IF isa.extra_rc > 0 THEN "releaseStore"
                   ELSE IF ~isa.has_sidetable_rc THEN "deallocStore"
                   ELSE IF lock = t THEN "borrow" ELSE "releaseLock")
        /\ UNCHANGED lock
  /\ UNCHANGED objVars

ReleaseStore(t) ==
  /\ pc[t] = "releaseStore"
  /\ StoreExclusive(t, [old[t] EXCEPT !.extra_rc = @ - 1])
  /\ Drop(arg[t])
  /\ Return(t)
  /\ UNCHANGED <<alive, table, weakVar, lock>>

ReleaseLock(t) ==
  /\ pc[t] = "releaseLock"
  /\ Lock(t)
  /\ Goto(t, "releaseLoad")
  /\ UNCHANGED <<objVars, callVars>>

(* sidetable_subExtraRC_nolock takes RC_HALF or nothing.                   *)
Borrow(t) ==
  /\ pc[t] = "borrow"
  /\ IF table.rc = 0
     THEN Goto(t, "deallocStore") /\ UNCHANGED table
     ELSE Goto(t, "borrowStore") /\ AddExtraRC(-RC_HALF)
  /\ UNCHANGED <<alive, isa, weakVar, slot, lock, callVars>>

BorrowStore(t) ==
  /\ pc[t] = "borrowStore"
  /\ StoreExclusive(t, [old[t] EXCEPT !.extra_rc = RC_HALF - 1])
  /\ Drop(arg[t])
  /\ Return(t)
  /\ UNCHANGED <<alive, table, weakVar, lock>>

(* The first store failed: load again and add what was borrowed, unless it *)
(* no longer fits.                                                         *)
BorrowReload(t) ==
  /\ pc[t] = "borrowReload"
  /\ LoadExclusive(t)
  /\ Goto(t, IF isa.nonpointer /\ isa.extra_rc + RC_HALF - 1 =< MAX_RC
             THEN "borrowRestore" ELSE "putBack")
  /\ UNCHANGED <<objVars, lock>>

BorrowRestore(t) ==
  /\ pc[t] = "borrowRestore"
  /\ StoreExclusive(t, [old[t] EXCEPT !.extra_rc = @ + RC_HALF - 1])
  /\ Drop(arg[t])
  /\ Return(t)
  /\ UNCHANGED <<alive, table, weakVar, lock>>

PutBack(t) ==
  /\ pc[t] = "putBack"
  /\ AddExtraRC(RC_HALF)
  /\ Goto(t, "releaseLoad")
  /\ UNCHANGED <<alive, isa, weakVar, slot, lock, callVars>>

(* Whoever sets the deallocating bit sends -dealloc.                       *)
DeallocStore(t) ==
  /\ pc[t] = "deallocStore"
  /\ StoreExclusive(t, [old[t] EXCEPT !.deallocating = TRUE])
  /\ Drop(arg[t])
  /\ Finish(t, "dealloc")
  /\ UnlockIfHeld(t)
  /\ UNCHANGED <<alive, table, weakVar>>

(* Mutant: the last reference of a raw isa is tested for without the lock. *)
SidetableRelease_NoLock(t) ==
  /\ pc[t] = "sidetableRelease"
  /\ Drop(arg[t])
  /\ IF table.rc = 0 /\ ~table.deallocating
     THEN /\ table' = [table EXCEPT !.deallocating = TRUE]
          /\ Finish(t, "dealloc")
     ELSE /\ AddExtraRC(-1)
          /\ Finish(t, "idle")
  /\ UNCHANGED <<alive, isa, weakVar, lock>>

SidetableRelease(t) ==
  /\ pc[t] = "sidetableRelease"
  /\ lock = NoThread
  /\ Drop(arg[t])
  /\ IF table.rc = 0 /\ ~table.deallocating
     THEN /\ table' = [table EXCEPT !.deallocating = TRUE]
          /\ Finish(t, "dealloc")
     ELSE /\ AddExtraRC(-1)
          /\ Finish(t, "idle")
  /\ UNCHANGED <<alive, isa, weakVar, lock>>

-----------------------------------------------------------------------------
(* rootDealloc, object_dispose and clearDeallocating                       *)

(* The fast path frees the object without looking at the side table.       *)
RootDealloc(t) ==
  /\ pc[t] = "dealloc"
  /\ Goto(t, IF isa.nonpointer /\ ~isa.weakly_referenced /\ ~isa.has_sidetable_rc
             THEN "free" ELSE "clearDeallocating")
  /\ UNCHANGED <<objVars, lock, callVars>>

(* Mutant: weak variables are cleared without the lock.                    *)
ClearDeallocating_NoLock(t) ==
  /\ pc[t] = "clearDeallocating"
  /\ LET weak == isa.weakly_referenced \/ (~isa.nonpointer /\ table.weakly_referenced)
     IN weakVar' = (weakVar /\ ~weak)
  /\ table' = IF isa.nonpointer /\ ~isa.has_sidetable_rc THEN table ELSE NoEntry
  /\ Goto(t, "free")
  /\ UNCHANGED <<alive, isa, slot, lock, callVars>>

ClearDeallocating(t) ==
  /\ pc[t] = "clearDeallocating"
  /\ lock = NoThread
  /\ LET weak == isa.weakly_referenced \/ (~isa.nonpointer /\ table.weakly_referenced)
     IN weakVar' = (weakVar /\ ~weak)
  /\ table' = IF isa.nonpointer /\ ~isa.has_sidetable_rc THEN table ELSE NoEntry
  /\ Goto(t, "free")
  /\ UNCHANGED <<alive, isa, slot, lock, callVars>>

Free(t) ==
  /\ pc[t] = "free"
  /\ alive' = FALSE
  /\ Goto(t, "idle")
  /\ UNCHANGED <<isa, table, weakVar, slot, lock, callVars>>

-----------------------------------------------------------------------------
(* changeIsa: a raw isa stays raw, a nonpointer isa becomes raw when the   *)
(* new class needs it, and then the count moves to the side table.         *)

ChangedIsa(i, c) ==
  IF i.nonpointer /\ c \notin RawClasses THEN [i EXCEPT !.cls = c] ELSE RawIsa(c)

Transcribes(i, c) == i.nonpointer /\ c \in RawClasses

(* Mutant: the count is transcribed without the lock.                      *)
ChangeLoad_NoLock(t) ==
  /\ pc[t] = "changeLoad"
  /\ LoadExclusive(t)
  /\ Goto(t, "changeStore")
  /\ UNCHANGED <<objVars, lock>>

ChangeLoad(t) ==
  /\ pc[t] = "changeLoad"
  /\ LoadExclusive(t)
  /\ Goto(t, IF Transcribes(isa, arg[t]) /\ lock # t
             THEN "changeLock" ELSE "changeStore")
  /\ UNCHANGED <<objVars, lock>>

ChangeLock(t) ==
  /\ pc[t] = "changeLock"
  /\ Lock(t)
  /\ Goto(t, "changeStore")
  /\ UNCHANGED <<objVars, callVars>>

ChangeStore(t) ==
  /\ pc[t] = "changeStore"
  /\ StoreExclusive(t, ChangedIsa(old[t], arg[t]))
  /\ IF Transcribes(old[t], arg[t])
     THEN Goto(t, "changeMove") /\ UNCHANGED callVars
     ELSE Return(t)
  /\ UNCHANGED <<alive, table, weakVar, slot, lock>>

(* sidetable_moveExtraRC_nolock                                            *)
ChangeMove(t) ==
  /\ pc[t] = "changeMove"
  /\ table' = [rc |-> table.rc + old[t].extra_rc,
               deallocating |-> table.deallocating \/ old[t].deallocating,
               weakly_referenced |->
                 table.weakly_referenced \/ old[t].weakly_referenced]
  /\ Return(t)
  /\ UNCHANGED <<alive, isa, weakVar, slot, lock>>

-----------------------------------------------------------------------------
(* setWeaklyReferenced_nolock, under the lock storeWeak took               *)

WeakLoad(t) ==
  /\ pc[t] = "weakLoad"
  /\ \/ /\ ~isa.nonpointer
        /\ table' = [table EXCEPT !.weakly_referenced = TRUE]
        /\ Return(t)
     \/ /\ isa.nonpointer /\ isa.weakly_referenced
        /\ Return(t)
        /\ UNCHANGED table
     \/ /\ isa.nonpointer /\ ~isa.weakly_referenced
        /\ LoadExclusive(t)
        /\ Goto(t, "weakStore")
        /\ UNCHANGED table
  /\ UNCHANGED <<alive, isa, weakVar, slot, lock>>

WeakStore(t) ==
  /\ pc[t] = "weakStore"
  /\ StoreExclusive(t, [old[t] EXCEPT !.weakly_referenced = TRUE])
  /\ Return(t)
  /\ UNCHANGED <<alive, table, weakVar, slot, lock>>

-----------------------------------------------------------------------------
(* rootRetainCount                                                         *)

(* What it returns: for a raw isa the lock is dropped and taken again,     *)
(* and every part of the sum is then read in one critical section.         *)
RootRetainCount ==
  1 + (IF isa.nonpointer THEN isa.extra_rc ELSE 0)
    + (IF isa.nonpointer /\ ~isa.has_sidetable_rc THEN 0 ELSE table.rc)

CountLoad(t) ==
  /\ pc[t] = "countLoad"
  /\ Goto(t, IF isa.nonpointer THEN "unlock" ELSE "sidetableCount")
  /\ IF isa.nonpointer THEN UNCHANGED lock ELSE Unlock(t)
  /\ UNCHANGED <<objVars, callVars>>

SidetableCount(t) ==
  /\ pc[t] = "sidetableCount"
  /\ lock = NoThread
  /\ Goto(t, "idle")
  /\ UNCHANGED <<objVars, lock, callVars>>

-----------------------------------------------------------------------------
(* Mutant: a release that lost the race tries the same store again.        *)
RetryLabel_NoReload ==
  [retainStore |-> "retainLoad", releaseStore |-> "releaseStore",
   deallocStore |-> "releaseLoad", borrowStore |-> "borrowReload",
   borrowRestore |-> "putBack", changeStore |-> "changeLoad",
   weakStore |-> "weakLoad"]

(* Every loop starts over when its store fails.  An LL/SC store may fail   *)
(* with isa unchanged, if the reservation was lost.                        *)

RetryLabel ==
  [retainStore |-> "retainLoad", releaseStore |-> "releaseLoad",
   deallocStore |-> "releaseLoad", borrowStore |-> "borrowReload",
   borrowRestore |-> "putBack", changeStore |-> "changeLoad",
   weakStore |-> "weakLoad"]

StoreFails(t) ==
  /\ pc[t] \in DOMAIN RetryLabel
  /\ isa # old[t] \/ LoseReservation
  /\ Goto(t, RetryLabel[pc[t]])
  /\ UNCHANGED <<objVars, lock, callVars>>

Unlocks(t) ==
  /\ pc[t] = "unlock"
  /\ Unlock(t)
  /\ Goto(t, "idle")
  /\ UNCHANGED <<objVars, callVars>>

-----------------------------------------------------------------------------

Init ==
  /\ alive = FALSE
  /\ \E c \in Classes : isa = RawIsa(c)
  /\ table = NoEntry
  /\ lock = NoThread
  /\ weakVar = FALSE
  /\ slot = [s \in Slots |-> NoThread]
  /\ pc = [t \in Threads |-> "idle"]
  /\ arg = [t \in Threads |-> NoArg]
  /\ old = [t \in Threads |-> NoIsa]
  /\ trying = [t \in Threads |-> FALSE]

NewCall(t) ==
  \/ \E s \in Slots : \/ CallRetain(t, s)
                      \/ CallLoadWeak(t, s)
                      \/ CallRelease(t, s)
                      \/ \E c \in Classes : Alloc(t, s, c)
                      \/ \E u \in Threads : Give(t, s, u)
  \/ \E c \in Classes : CallChangeIsa(t, c)
  \/ CallStoreWeak(t)
  \/ CallRetainCount(t)
  \/ DestroyWeak(t)

Retains(t) ==
  \/ RetainLoad(t) \/ RetainLock(t) \/ RetainStore(t) \/ RetainMove(t)
  \/ SidetableRetain(t)

Releases(t) ==
  \/ ReleaseLoad(t) \/ ReleaseLock(t) \/ ReleaseStore(t)
  \/ Borrow(t) \/ BorrowStore(t) \/ BorrowReload(t) \/ BorrowRestore(t) \/ PutBack(t)
  \/ DeallocStore(t) \/ SidetableRelease(t)

Deallocs(t) == RootDealloc(t) \/ ClearDeallocating(t) \/ Free(t)

Changes(t) ==
  \/ ChangeLoad(t) \/ ChangeLock(t) \/ ChangeStore(t) \/ ChangeMove(t)
  \/ WeakLoad(t) \/ WeakStore(t)

Step(t) ==
  \/ Retains(t) \/ Releases(t) \/ Deallocs(t) \/ Changes(t)
  \/ CountLoad(t) \/ SidetableCount(t) \/ StoreFails(t) \/ Unlocks(t)

Next == \E t \in Threads : NewCall(t) \/ Step(t)

Spec == Init /\ [][Next]_vars

(* A thread that has entered the runtime keeps running.                    *)
FairSpec == Spec /\ \A t \in Threads : WF_vars(Step(t))

-----------------------------------------------------------------------------
(* Properties                                                              *)

Labels ==
  {"idle", "unlock", "retainLoad", "retainLock", "retainStore", "retainMove",
   "sidetableRetain", "releaseLoad", "releaseLock", "releaseStore", "borrow",
   "borrowStore", "borrowReload", "borrowRestore", "putBack", "deallocStore",
   "sidetableRelease", "dealloc", "clearDeallocating", "free", "changeLoad",
   "changeLock", "changeStore", "changeMove", "weakLoad", "weakStore",
   "countLoad", "sidetableCount"}

Isas == [nonpointer : BOOLEAN, cls : Classes, weakly_referenced : BOOLEAN,
         deallocating : BOOLEAN, has_sidetable_rc : BOOLEAN, extra_rc : 0..MAX_RC]

Entries == [rc : Nat, deallocating : BOOLEAN, weakly_referenced : BOOLEAN]

(* Every variable has its type; in particular extra_rc never leaves the    *)
(* width of its bit field, whatever the stores add to it.                  *)
TypeOK ==
  /\ alive \in BOOLEAN
  /\ isa \in Isas
  /\ table \in Entries
  /\ lock \in Threads \cup {NoThread}
  /\ weakVar \in BOOLEAN
  /\ slot \in [Slots -> Threads \cup {NoThread}]
  /\ pc \in [Threads -> Labels]
  /\ arg \in [Threads -> Slots \cup Classes \cup {NoArg}]
  /\ old \in [Threads -> Isas \cup {NoIsa}]
  /\ trying \in [Threads -> BOOLEAN]

DeallocLabels == {"dealloc", "clearDeallocating", "free"}
Deallocating == \E t \in Threads : pc[t] \in DeallocLabels

BorrowLabels == {"borrowStore", "borrowReload", "borrowRestore", "putBack"}

(* The part of the count a thread is carrying from one place to the other. *)
Carried(t) ==
  CASE pc[t] \in BorrowLabels \cup {"retainMove"} -> RC_HALF
    [] pc[t] = "changeMove" -> old[t].extra_rc
    [] OTHER -> 0

InTransit == IF lock = NoThread THEN 0 ELSE Carried(lock)

(* No retain and no release is ever lost: while any strong reference       *)
(* exists, the inline count, the side table's count and what the lock's    *)
(* holder carries between them add up to the number of references, through *)
(* every interleaving of rootRetain, rootRelease and changeIsa.            *)
CountConserved ==
  Strong # {} => 1 + isa.extra_rc + table.rc + InTransit = Cardinality(Strong)

(* The object is deallocated once, by one thread, with no reference left,  *)
(* and nothing but deallocation touches an object no one refers to.        *)
DeallocatedOnce ==
  /\ \A t \in Threads : pc[t] \in DeallocLabels =>
       /\ alive /\ Strong = {}
       /\ \A u \in Threads \ {t} : pc[u] \notin DeallocLabels
  /\ alive /\ Strong = {} => Deallocating

(* Memory that has been freed is read and written by nobody: the only      *)
(* threads still inside the runtime are returning from it.                 *)
NoUseAfterFree ==
  ~alive => Strong = {} /\ \A t \in Threads : pc[t] \in {"idle", "unlock"}

(* assert(!sidetable_present()) in rootDealloc and clearDeallocating: the  *)
(* address is given back with no side table entry, so that the next object *)
(* there does not inherit a count, and with no weak variable pointing at   *)
(* it.                                                                     *)
CleanSideTable ==
  ~alive \/ (\E t \in Threads : pc[t] = "free") => table = NoEntry /\ ~weakVar

(* overrelease_error is never reached by clients that release only what    *)
(* they own: a thread about to set the deallocating bit finds it clear.    *)
NoOverrelease ==
  \A t \in Threads : pc[t] = "deallocStore" => ~old[t].deallocating

(* assert(oldRefcnt > newRefcnt) in sidetable_subExtraRC_nolock: a borrow  *)
(* takes exactly RC_HALF, so the table must hold that much or nothing.     *)
BorrowNeverUnderflows ==
  \A t \in Threads : pc[t] = "borrow" => table.rc = 0 \/ table.rc >= RC_HALF

(* "Need to start over to avoid a race against the nonpointer -> raw        *)
(* pointer transition": the assert(isa.nonpointer) of the operations that  *)
(* move counts to and from isa and the assert(!isa.nonpointer) of those    *)
(* that keep all of them in the table hold when the operation runs, not    *)
(* only when its caller looked.                                            *)
PathMatchesIsa ==
  \A t \in Threads :
    /\ pc[t] \in {"retainMove", "borrow", "putBack"} => isa.nonpointer
    /\ pc[t] \in {"sidetableRetain", "sidetableRelease", "changeMove"} =>
         ~isa.nonpointer

(* rootRetainCount adds up two fields that move separately, yet returns    *)
(* the exact number of references at the moment it reads isa.              *)
RetainCountExact ==
  \A t \in Threads :
    \/ pc[t] = "countLoad"
    \/ pc[t] = "sidetableCount" /\ lock = NoThread
    => RootRetainCount = Cardinality(Strong)

(* Counts are right whatever threads interleave: they are conserved, read  *)
(* exactly, kept where isa says they are, and no check of the code fails.  *)
CountsSound ==
  /\ TypeOK /\ CountConserved /\ RetainCountExact
  /\ NoOverrelease /\ BorrowNeverUnderflows /\ PathMatchesIsa

(* The object ends once, and its address is clean and left alone then.     *)
AddressSound == DeallocatedOnce /\ NoUseAfterFree /\ CleanSideTable

(* "This decrement cannot be the deallocating decrement": a release that   *)
(* borrowed from the side table leaves references behind, and nobody else  *)
(* has begun to deallocate.                                                *)
BorrowIsNotLast ==
  [][\A t \in Threads : BorrowStore(t) \/ BorrowRestore(t) =>
       Strong' # {} /\ ~Deallocating']_vars

(* Reference counting implements the life cycle its clients rely on.       *)
Lifetime == INSTANCE ObjectLifetime WITH
  life <- IF ~alive THEN "free" ELSE IF Deallocating THEN "dealloc" ELSE "live"

(* Every step of the counts is a step of the life cycle: live objects      *)
(* become deallocating once, and only deallocating objects are freed.      *)
LifetimeSpec == Lifetime!Spec

(* Once clients stop making calls, every call in progress returns: no      *)
(* thread waits for the lock for ever, and no two loops keep each other's  *)
(* stores from succeeding.  An object without references has been freed.   *)
CallsReturn ==
  <>[][\A t \in Threads : ~NewCall(t)]_vars =>
    <>[]((\A t \in Threads : pc[t] = "idle") /\ (alive => Strong # {}))

=============================================================================
