----------------------------- MODULE References -----------------------------
(***************************************************************************)
(* References from object to object that the runtime keeps: associations   *)
(* (objc-references.mm) and atomic properties (objc-accessors.mm), and the *)
(* deallocation of objects that ends them (objc-runtime-new.mm).           *)
(*                                                                         *)
(* A setter retains the new value, swaps it for the old one under a lock   *)
(* and releases the old one when it has given up the lock; the release may *)
(* deallocate an object, whose -dealloc method may call setters, and whose *)
(* own references are released in turn.  A getter retains the value while  *)
(* it holds the lock.  Each thread has a stack of such calls.              *)
(*                                                                         *)
(* What other modules have as Init, Next and so on is RefsInit, RefsNext   *)
(* here, so that OwnershipProof can extend AutoreleasePool as well.        *)
(***************************************************************************)
EXTENDS Integers, Sequences, SequencesExt, FiniteSets, FiniteSetsExt

CONSTANTS Threads,
          NoThread,
          Instances,
          nil,
          Associable,  \* what the program associates: object, key and value
          Properties,  \* what it stores in properties: object and value
          MaxHeld      \* bound: the references a thread owns at once

Parameters ==
  /\ NoThread \notin Threads /\ nil \notin Instances
  /\ Properties \subseteq Instances \X Instances
  /\ \A a \in Associable : a[1] \in Instances /\ a[3] \in Instances
  /\ MaxHeld \in Nat

ASSUME ReferencesAssumption == Parameters

VARIABLES alive,      \* the objects that are allocated
          count,      \* the reference count of each object
          held,       \* held[t][o]: references to o that the code of t owns
          flag,       \* has_assoc of each object
          tables,     \* the objects that have an ObjectAssociationMap
          assoc,      \* what these maps have, by object and key
          assocLock,  \* who holds AssociationsManagerLock
          slot,       \* the property of each object
          slotLock,   \* who holds the spin lock of each property
          stack       \* the calls under way in each thread, innermost last

objects == <<alive, count, held>>
associations == <<flag, tables, assoc, assocLock>>
properties == <<slot, slotLock>>
refsVars == <<objects, associations, properties, stack>>

(* ASSIGN and RETAIN; COPY owns a reference too, to the copy.              *)
Policies == {"assign", "retain"}

Keys == {a[2] : a \in Associable}

(* A call: what it does next, and its arguments and locals.  What it is to *)
(* release is a set of pairs, as two keys may have the same value.         *)
Call(label, o, k, v, policy) ==
  [at |-> label, obj |-> o, key |-> k, val |-> v, policy |-> policy, flag |-> FALSE, todo |-> {}]
Releases(todo) == [Call("release", nil, nil, nil, "assign") EXCEPT !.todo = todo]
Dealloc(o) == Call("dealloc", o, nil, nil, "assign")

Top(t) == Last(stack[t])
At(t, label) == stack[t] # <<>> /\ Top(t).at = label

(* The innermost call of t is replaced by calls.                           *)
Continue(t, calls) == stack' = [stack EXCEPT ![t] = Front(@) \o calls]

(* What remains of a call that releases objects, which none is left of.    *)
ReleaseAll(todo) == IF todo = {} THEN <<>> ELSE <<Releases(todo)>>
Present(v) == IF v = nil THEN {} ELSE {<<nil, v>>}

NoEntry == [policy |-> "assign", val |-> nil]

(* releaseValue, for one entry and for all of an object.                   *)
Owned(e) == IF e.policy = "retain" THEN e.val ELSE nil
OwnedBy(o) == {<<k, assoc[o][k].val>> : k \in {j \in Keys : Owned(assoc[o][j]) # nil}}

Retain(v) == count' = IF v = nil THEN count ELSE [count EXCEPT ![v] = @ + 1]

-----------------------------------------------------------------------------
(* The program, which runs in idle threads and in -dealloc methods.  It    *)
(* calls with objects it owns, or with the object a -dealloc is for.       *)

Runs(t) == stack[t] = <<>> \/ At(t, "dealloc")
Holds(t, o) == held[t][o] > 0
MayUse(t, o) == Holds(t, o) \/ (At(t, "dealloc") /\ Top(t).obj = o)
MayPass(t, v) == IF v = nil THEN TRUE ELSE Holds(t, v)
MayHold(t) == MapThenSumSet(LAMBDA o : held[t][o], Instances) < MaxHeld

(* A -dealloc method makes one call at most.                               *)
Begin(t, call) ==
  IF stack[t] = <<>> THEN stack' = [stack EXCEPT ![t] = <<call>>]
  ELSE Continue(t, <<[Top(t) EXCEPT !.at = "destruct"], call>>)

RefsInit ==
  /\ alive = {}
  /\ count = [o \in Instances |-> 0]
  /\ held = [t \in Threads |-> [o \in Instances |-> 0]]
  /\ flag = [o \in Instances |-> FALSE]
  /\ tables = {}
  /\ assoc = [o \in Instances |-> [k \in Keys |-> NoEntry]]
  /\ assocLock = NoThread
  /\ slot = [o \in Instances |-> nil]
  /\ slotLock = [o \in Instances |-> NoThread]
  /\ stack = [t \in Threads |-> <<>>]

Alloc(t, o) ==
  /\ stack[t] = <<>> /\ o \notin alive /\ MayHold(t)
  /\ alive' = alive \cup {o}
  /\ count' = [count EXCEPT ![o] = 1]
  /\ held' = [held EXCEPT ![t][o] = 1]
  /\ UNCHANGED <<associations, properties, stack>>

(* Another thread is given a reference.                                    *)
Give(t, u, o) ==
  /\ stack[t] = <<>> /\ t # u /\ Holds(t, o) /\ ~Holds(u, o) /\ MayHold(u)
  /\ Retain(o)
  /\ held' = [held EXCEPT ![u][o] = @ + 1]
  /\ UNCHANGED <<alive, associations, properties, stack>>

(* objc_release, or the end of the pool an object was autoreleased to.     *)
Drop(t, o) ==
  /\ stack[t] = <<>> /\ Holds(t, o)
  /\ held' = [held EXCEPT ![t][o] = @ - 1]
  /\ stack' = [stack EXCEPT ![t] = <<Releases(Present(o))>>]
  /\ UNCHANGED <<alive, count, associations, properties>>

-----------------------------------------------------------------------------
(* Associations                                                            *)

(* _object_set_associative_reference retains the new value.                *)
SetAssociation(t, o, k, v, policy) ==
  /\ Runs(t) /\ MayUse(t, o) /\ MayPass(t, v)
  /\ IF policy = "retain" THEN Retain(v) ELSE UNCHANGED count
  /\ Begin(t, Call("swap", o, k, v, policy))
  /\ UNCHANGED <<alive, held, associations, properties>>

(* Mutant: the old value is released as the new policy says.               *)
Swap_NewPolicy(t) ==
  /\ At(t, "swap") /\ assocLock = NoThread
  /\ LET o == Top(t).obj
         k == Top(t).key
         new == [policy |-> Top(t).policy, val |-> Top(t).val] IN
     /\ Continue(t, ReleaseAll(Present(Owned([assoc[o][k] EXCEPT !.policy = new.policy]))))
     /\ IF new.val # nil THEN
             /\ assoc' = [assoc EXCEPT ![o][k] = new]
             /\ tables' = tables \cup {o}
             /\ flag' = IF o \in tables THEN flag ELSE [flag EXCEPT ![o] = TRUE]
        ELSE /\ assoc' = [assoc EXCEPT ![o][k] = NoEntry]
             /\ UNCHANGED <<tables, flag>>
  /\ UNCHANGED <<objects, assocLock, properties>>

(* With the lock, the value is stored, and the object flagged when it had  *)
(* no table; nil removes the key and leaves the table.                     *)
Swap(t) ==
  /\ At(t, "swap") /\ assocLock = NoThread
  /\ LET o == Top(t).obj
         k == Top(t).key
         new == [policy |-> Top(t).policy, val |-> Top(t).val] IN
     /\ Continue(t, ReleaseAll(Present(Owned(assoc[o][k]))))
     /\ IF new.val # nil THEN
             /\ assoc' = [assoc EXCEPT ![o][k] = new]
             /\ tables' = tables \cup {o}
             /\ flag' = IF o \in tables THEN flag ELSE [flag EXCEPT ![o] = TRUE]
        ELSE /\ assoc' = [assoc EXCEPT ![o][k] = NoEntry]
             /\ UNCHANGED <<tables, flag>>
  /\ UNCHANGED <<objects, assocLock, properties>>

(* _object_get_associative_reference: the value is retained with the lock, *)
(* when its policy says so, and autoreleased without.  A getter that finds *)
(* nothing to retain changes nothing, and is left out.                     *)
GetAssociation(t, o, k) ==
  /\ Runs(t) /\ MayUse(t, o) /\ MayHold(t) /\ assocLock = NoThread
  /\ Owned(assoc[o][k]) # nil
  /\ assocLock' = t
  /\ Begin(t, Call("getassoc", o, k, assoc[o][k].val, "retain"))
  /\ UNCHANGED <<objects, flag, tables, assoc, properties>>

(* Mutant: the lock is kept.                                               *)
RetainAssociation_KeepsLock(t) ==
  /\ At(t, "getassoc")
  /\ Retain(Top(t).val)
  /\ held' = [held EXCEPT ![t][Top(t).val] = @ + 1]
  /\ Continue(t, <<>>)
  /\ UNCHANGED <<alive, associations, properties>>

RetainAssociation(t) ==
  /\ At(t, "getassoc")
  /\ Retain(Top(t).val)
  /\ held' = [held EXCEPT ![t][Top(t).val] = @ + 1]
  /\ assocLock' = NoThread
  /\ Continue(t, <<>>)
  /\ UNCHANGED <<alive, flag, tables, assoc, properties>>

-----------------------------------------------------------------------------
(* Atomic properties                                                       *)

(* reallySetProperty compares without the lock, then retains.              *)
SetProperty(t, o, v) ==
  /\ Runs(t) /\ MayUse(t, o) /\ MayPass(t, v)
  /\ slot[o] # v
  /\ Retain(v)
  /\ Begin(t, Call("swapslot", o, nil, v, "retain"))
  /\ UNCHANGED <<alive, held, associations, properties>>

SwapSlot(t) ==
  /\ At(t, "swapslot") /\ slotLock[Top(t).obj] = NoThread
  /\ slot' = [slot EXCEPT ![Top(t).obj] = Top(t).val]
  /\ Continue(t, ReleaseAll(Present(slot[Top(t).obj])))
  /\ UNCHANGED <<objects, associations, slotLock>>

(* Mutant: the value is read without the lock.                             *)
GetProperty_Unlocked(t, o) ==
  /\ Runs(t) /\ MayUse(t, o) /\ MayHold(t)
  /\ slot[o] # nil
  /\ Begin(t, Call("getslot", o, nil, slot[o], "retain"))
  /\ UNCHANGED <<objects, associations, properties>>

(* objc_getProperty                                                        *)
GetProperty(t, o) ==
  /\ Runs(t) /\ MayUse(t, o) /\ MayHold(t) /\ slotLock[o] = NoThread
  /\ slot[o] # nil
  /\ slotLock' = [slotLock EXCEPT ![o] = t]
  /\ Begin(t, Call("getslot", o, nil, slot[o], "retain"))
  /\ UNCHANGED <<objects, associations, slot>>

RetainProperty(t) ==
  /\ At(t, "getslot")
  /\ Retain(Top(t).val)
  /\ held' = [held EXCEPT ![t][Top(t).val] = @ + 1]
  /\ slotLock' = [slotLock EXCEPT ![Top(t).obj] = NoThread]
  /\ Continue(t, <<>>)
  /\ UNCHANGED <<alive, associations, slot>>

-----------------------------------------------------------------------------
(* Releasing and deallocating                                              *)

(* objc_release, of one object after the other, in any order: that of a    *)
(* hash table.  The last reference begins the deallocation.                *)
Release(t) ==
  /\ At(t, "release")
  /\ \E e \in Top(t).todo :
       /\ count' = [count EXCEPT ![e[2]] = @ - 1]
       /\ Continue(t, ReleaseAll(Top(t).todo \ {e})
                      \o (IF count[e[2]] = 1 THEN <<Dealloc(e[2])>> ELSE <<>>))
  /\ UNCHANGED <<alive, held, associations, properties>>

(* The -dealloc method ends in that of NSObject.                           *)
EndDealloc(t) ==
  /\ At(t, "dealloc")
  /\ Continue(t, <<[Top(t) EXCEPT !.at = "destruct"]>>)
  /\ UNCHANGED <<objects, associations, properties>>

(* objc_destructInstance reads has_assoc first, then has the compiler's    *)
(* destructor release the properties.                                      *)
Destruct(t) ==
  /\ At(t, "destruct")
  /\ LET o == Top(t).obj IN
     /\ slot' = [slot EXCEPT ![o] = nil]
     /\ Continue(t, <<[Top(t) EXCEPT !.at = "remove", !.flag = flag[o]]>>
                    \o ReleaseAll(Present(slot[o])))
  /\ UNCHANGED <<objects, associations, slotLock>>

(* Mutant: the table of a flagged object is kept.                          *)
RemoveAssociations_Keeps(t) ==
  /\ At(t, "remove")
  /\ Continue(t, <<[Top(t) EXCEPT !.at = "free"]>>)
  /\ UNCHANGED <<objects, associations, properties>>

(* _object_remove_assocations takes the table away with the lock, and      *)
(* releases its values without.                                            *)
RemoveAssociations(t) ==
  /\ At(t, "remove")
  /\ LET o == Top(t).obj
         rest == <<[Top(t) EXCEPT !.at = "free"]>> IN
     \/ /\ Top(t).flag /\ assocLock = NoThread
        /\ tables' = tables \ {o}
        /\ assoc' = [assoc EXCEPT ![o] = [k \in Keys |-> NoEntry]]
        /\ Continue(t, rest \o ReleaseAll(OwnedBy(o)))
     \/ /\ ~Top(t).flag
        /\ Continue(t, rest)
        /\ UNCHANGED <<tables, assoc>>
  /\ UNCHANGED <<objects, flag, assocLock, properties>>

(* object_dispose                                                          *)
Free(t) ==
  /\ At(t, "free")
  /\ alive' = alive \ {Top(t).obj}
  /\ flag' = [flag EXCEPT ![Top(t).obj] = FALSE]
  /\ Continue(t, <<>>)
  /\ UNCHANGED <<count, held, tables, assoc, assocLock, properties>>

-----------------------------------------------------------------------------
(* What a thread does by itself once it has called the runtime.            *)
Step(t) ==
  \/ Swap(t) \/ RetainAssociation(t) \/ SwapSlot(t) \/ RetainProperty(t)
  \/ Release(t) \/ EndDealloc(t) \/ Destruct(t) \/ RemoveAssociations(t) \/ Free(t)

Program(t) ==
  \/ \E o \in Instances : Alloc(t, o) \/ Drop(t, o) \/ (\E u \in Threads : Give(t, u, o))
  \/ \E a \in Associable :
       \/ GetAssociation(t, a[1], a[2])
       \/ \E v \in {a[3], nil}, policy \in Policies : SetAssociation(t, a[1], a[2], v, policy)
  \/ \E p \in Properties :
       GetProperty(t, p[1]) \/ (\E v \in {p[2], nil} : SetProperty(t, p[1], v))

RefsNext == \E t \in Threads : Step(t) \/ Program(t)

RefsSpec == RefsInit /\ [][RefsNext]_refsVars

(* A thread that is in the runtime goes on, and gets a lock that is free   *)
(* again and again; what the program calls is left open.                   *)
RefsFairSpec == RefsSpec /\ \A t \in Threads : SF_refsVars(Step(t))

-----------------------------------------------------------------------------
Labels == {"swap", "getassoc", "swapslot", "getslot", "release", "dealloc", "destruct", "remove", "free"}

EntryType == [policy : Policies, val : Instances \cup {nil}]
CallType ==
  [at : Labels, obj : Instances \cup {nil}, key : Keys \cup {nil}, val : Instances \cup {nil},
   policy : Policies, flag : BOOLEAN, todo : SUBSET ((Keys \cup {nil}) \X Instances)]

(* Type invariant: references are to objects, counts are numbers, locks    *)
(* are held by threads, and the calls of a thread are at known steps, with *)
(* objects to release that are objects.                                    *)
RefsTypeOK ==
  /\ alive \subseteq Instances
  /\ count \in [Instances -> Nat] /\ held \in [Threads -> [Instances -> Nat]]
  /\ flag \in [Instances -> BOOLEAN]
  /\ tables \subseteq Instances /\ assoc \in [Instances -> [Keys -> EntryType]]
  /\ assocLock \in Threads \cup {NoThread}
  /\ slot \in [Instances -> Instances \cup {nil}]
  /\ slotLock \in [Instances -> Threads \cup {NoThread}]
  /\ stack \in [Threads -> Seq(CallType)]

(* The references to o: those the program owns, those of calls (a setter   *)
(* owns the new value until it is stored, and then the old one until it is *)
(* released), associations that retain, and properties.                    *)
HeldRefs(o) == UNION {{t} \X (1..held[t][o]) : t \in Threads}
Owns(call) ==
  call.todo \cup (IF call.at \in {"swap", "swapslot"} /\ call.policy = "retain"
                  THEN Present(call.val) ELSE {})
RefsOfCall(t, i, o) == {<<t, i, e>> : e \in {d \in Owns(stack[t][i]) : d[2] = o}}
CallRefs(o) == UNION {UNION {RefsOfCall(t, i, o) : i \in DOMAIN stack[t]} : t \in Threads}
AssocRefs(o) == {p \in Instances \X Keys : Owned(assoc[p[1]][p[2]]) = o}
SlotRefs(o) == {p \in Instances : slot[p] = o}

(* Each count is the number of references there are: those the program     *)
(* owns, associations that retain, properties, new values on their way     *)
(* into one of these and old values on their way out, in calls of all      *)
(* threads, nested as they may be.                                         *)
CountsExplained ==
  \A o \in Instances :
    count[o] = Cardinality(HeldRefs(o)) + Cardinality(CallRefs(o))
               + Cardinality(AssocRefs(o)) + Cardinality(SlotRefs(o))

DeallocLabels == {"dealloc", "destruct", "remove", "free"}
DeallocCalls(t, o) ==
  {i \in DOMAIN stack[t] : stack[t][i].obj = o /\ stack[t][i].at \in DeallocLabels}
Deallocations(o) == UNION {{t} \X DeallocCalls(t, o) : t \in Threads}

(* An object nothing refers to is being deallocated, by one call of one    *)
(* thread, or its memory is free; an object that has been freed, or is     *)
(* about to be, is never retained or released again.                       *)
DeallocatedByOne ==
  \A o \in Instances :
    Cardinality(Deallocations(o)) = IF o \in alive /\ count[o] = 0 THEN 1 ELSE 0

(* References are counted, and the object goes with the last of them.      *)
CountsSound == RefsTypeOK /\ CountsExplained /\ DeallocatedByOne

(* A value that a getter has read, and is about to retain, still has a     *)
(* reference: that of the association or property, which cannot be         *)
(* released meanwhile.                                                     *)
GettersFindLiving ==
  \A t \in Threads :
    At(t, "getassoc") \/ At(t, "getslot") => Top(t).val \in alive /\ count[Top(t).val] > 0

(* Associations go with their object: memory that is free, and may be      *)
(* given to a new object, has none, and an object that has any is flagged, *)
(* or they would be left behind.                                           *)
AssociationsEndWithObject == \A o \in tables : o \in alive /\ flag[o]

(* Every call returns, whatever -dealloc methods call: old values are      *)
(* released without the lock that these calls take again.                  *)
CallsReturn == \A t \in Threads : stack[t] # <<>> ~> stack[t] = <<>>
=============================================================================
