---------------------------- MODULE ReferencesInv ----------------------------
(***************************************************************************)
(* The inductive invariant of References.                                  *)
(*                                                                         *)
(* It says what lies where on the stack of a thread, why the object that a *)
(* call is about is there for as long as the call needs it, and what is    *)
(* known at each step of a deallocation.                                   *)
(***************************************************************************)
EXTENDS References

(* A thread without a call has depth 0.                                    *)
Depth(t) == Len(stack[t])

ActiveLabels == {"swap", "getassoc", "swapslot", "getslot"}

(* The arguments of a call, by its next step.                              *)
Arguments(call) ==
  /\ call.at = "release" <=> call.todo # {}
  /\ call.at # "release" => call.obj \in Instances
  /\ call.at \in {"swap", "getassoc"} => call.key \in Keys
  /\ call.at \in {"getassoc", "getslot"} => call.val \in Instances
  /\ call.at = "swapslot" => call.policy = "retain"

(* Setters and getters call nothing; what has called something is at work  *)
(* on releases or a deallocation.                                          *)
Stacks ==
  \A t \in Threads : \A i \in DOMAIN stack[t] :
    /\ Arguments(stack[t][i])
    /\ i < Depth(t) => stack[t][i].at \in {"release", "destruct", "remove", "free"}

(* A thread uses an object that it owns a reference to, or the one whose   *)
(* -dealloc method it runs.                                                *)
Guards(t) ==
  Depth(t) # 0 /\ Top(t).at \in ActiveLabels =>
    \/ held[t][Top(t).obj] > 0
    \/ /\ Depth(t) >= 2
       /\ stack[t][Depth(t) - 1].at = "destruct" /\ stack[t][Depth(t) - 1].obj = Top(t).obj

(* Locks are held by the getters that are about to retain, and what these  *)
(* have read is still there.                                               *)
Locks(t) ==
  /\ assocLock = t <=> At(t, "getassoc")
  /\ \A o \in Instances : slotLock[o] = t <=> At(t, "getslot") /\ Top(t).obj = o
  /\ At(t, "getassoc") => Owned(assoc[Top(t).obj][Top(t).key]) = Top(t).val
  /\ At(t, "getslot") => slot[Top(t).obj] = Top(t).val

(* References are finitely many and counted.                               *)
Counted(o) ==
  /\ IsFiniteSet(HeldRefs(o)) /\ IsFiniteSet(CallRefs(o))
  /\ IsFiniteSet(AssocRefs(o)) /\ IsFiniteSet(SlotRefs(o))
  /\ count[o] = Cardinality(HeldRefs(o)) + Cardinality(CallRefs(o))
                + Cardinality(AssocRefs(o)) + Cardinality(SlotRefs(o))

(* Memory that is free is as it is for a new object, and an object that    *)
(* has associations is flagged.                                            *)
Memory(o) ==
  /\ count[o] > 0 => o \in alive
  /\ o \notin alive => slot[o] = nil /\ o \notin tables /\ ~flag[o]
  /\ o \in tables => flag[o]
  /\ o \notin tables => \A k \in Keys : assoc[o][k] = NoEntry

(* An object is deallocated once, when its count is zero.                  *)
Once(o) ==
  IF o \in alive /\ count[o] = 0
  THEN \E d \in Deallocations(o) : Deallocations(o) = {d}
  ELSE Deallocations(o) = {}

(* What a deallocation has done with the object's own references.          *)
Progress(call) ==
  /\ call.at \in {"remove", "free"} => slot[call.obj] = nil
  /\ call.at = "remove" => call.flag = flag[call.obj]
  /\ call.at = "free" => call.obj \notin tables

Progresses == \A t \in Threads : \A i \in DOMAIN stack[t] : Progress(stack[t][i])

RefsIInv ==
  /\ RefsTypeOK /\ Stacks /\ Progresses
  /\ \A t \in Threads : Guards(t) /\ Locks(t)
  /\ \A o \in Instances : Counted(o) /\ Memory(o) /\ Once(o)

=============================================================================
