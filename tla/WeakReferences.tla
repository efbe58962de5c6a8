--------------------------- MODULE WeakReferences ---------------------------
(***************************************************************************)
(* __weak variables (NSObject.mm): storeWeak, objc_initWeak, destroyWeak,  *)
(* loadWeakRetained, copyWeak and moveWeak by several threads, while       *)
(* others release the objects and dealloc clears the variables.            *)
(*                                                                         *)
(* The weak table is a set of (object, location) pairs; how objc-weak.mm   *)
(* keeps that set is module WeakTable.  Retain counts are the strong       *)
(* references of the threads; module RefCount has their bits.  Each object *)
(* stands for a class of its own too, which may still have to run          *)
(* +initialize.                                                            *)
(*                                                                         *)
(* A thread has a stack of calls: code of the program runs inside          *)
(* +initialize and -dealloc and uses weak variables there.  One step is    *)
(* one access to memory that other threads use without the lock, or one    *)
(* operation on a lock.                                                    *)
(***************************************************************************)
EXTENDS Integers, Sequences, SequencesExt, FiniteSets, FiniteSetsExt

CONSTANTS Threads, Objects, Locations,
          Nil,          \* no object
          Raw,          \* what the specification says of storage that is
                        \* not a __weak variable
          NoThread,     \* the owner of a lock that is free
          Stripe,       \* the side table of each object, and of Nil
          CustomRR,     \* objects whose class overrides retain or release
          Initialized,  \* objects whose class is +initialized at the start
          Calls,        \* the functions that the program calls
          MaxDepth,     \* bound on the stack where the program calls one
          MaxHold       \* bound on one thread's references to one object

Functions == {"storeWeak", "storeWeakOrNil", "initWeak", "initWeakOrNil",
              "destroyWeak", "loadWeak", "copyWeak", "moveWeak", "message"}

ASSUME WeakAssumption ==
  /\ Stripe \in [Objects \cup {Nil} -> Nat]
  /\ Nil \notin Objects \cup Locations
  /\ Raw \notin Objects \cup {Nil}
  /\ NoThread \notin Threads /\ IsFiniteSet(Threads)
  /\ CustomRR \subseteq Objects
  /\ Initialized \subseteq Objects
  /\ Calls \subseteq Functions
  /\ MaxDepth \in Nat
  /\ MaxHold \in Nat \ {0}

VARIABLES value,    \* value[l]: what is stored at location l
          isWeak,   \* is there a __weak variable at l?
          table,    \* the pairs in the weak tables
          weakBit,  \* isa.weakly_referenced
          memory,   \* "free", "live" or "dealloc"
          held,     \* held[t][o]: the strong references of t to o
          class,    \* "no", "initializing", "defaultRR" or "initialized"
          lock,     \* who holds each side table
          stack     \* the calls of each thread, innermost last

vars == <<value, isWeak, table, weakBit, memory, held, class, lock, stack>>
storage == <<value, isWeak>>
objects == <<weakBit, memory, held>>

Stripes == {Stripe[o] : o \in Objects \cup {Nil}}

(* Locals of a call.  prev: previouslyInitializedClass is the class of new.*)
Frame(fn, l, s, old, new, pc) ==
  [fn |-> fn, loc |-> l, src |-> s, old |-> old, new |-> new, prev |-> FALSE, pc |-> pc]

HaveOld(f) == f.fn \in {"storeWeak", "storeWeakOrNil", "destroyWeak"}
HaveNew(f) == f.fn \in {"storeWeak", "storeWeakOrNil", "initWeak", "initWeakOrNil"}
StoreFns == {"storeWeak", "storeWeakOrNil", "initWeak", "initWeakOrNil", "destroyWeak"}

-----------------------------------------------------------------------------
(* Stacks                                                                  *)

Top(t) == Last(stack[t])
At(t, fns, pc) == stack[t] # <<>> /\ Top(t).fn \in fns /\ Top(t).pc = pc

Become(t, f) == stack' = [stack EXCEPT ![t] = Append(Front(@), f)]
Goto(t, pc) == Become(t, [Top(t) EXCEPT !.pc = pc])
Enter(t, f) == stack' = [stack EXCEPT ![t] = Append(@, f)]
GotoAndEnter(t, pc, f) ==
  stack' = [stack EXCEPT ![t] = Append(Append(Front(@), [Top(t) EXCEPT !.pc = pc]), f)]

Return(t) == stack' = [stack EXCEPT ![t] = Front(@)]

(* copyWeak goes on with what loadWeakRetained returned.                   *)
ReturnValue(t, v) ==
  LET rest == Front(stack[t]) IN
  IF rest # <<>> /\ Last(rest).fn \in {"copyWeak", "moveWeak"}
  THEN stack' = [stack EXCEPT ![t] =
                   Append(Front(rest), [Last(rest) EXCEPT !.new = v, !.pc = "init"])]
  ELSE Return(t)

(* The thread that runs the class's +initialize is allowed to message it.  *)
IsInitializing(t, o) ==
  \E i \in DOMAIN stack[t] :
    stack[t][i].fn = "initialize" /\ stack[t][i].old = o /\ stack[t][i].pc # "enter"

InitializeFrame(o) == Frame("initialize", Nil, Nil, o, Nil, "enter")

-----------------------------------------------------------------------------
(* Side tables                                                             *)

Wanted(f) ==
  {Stripe[o] : o \in (IF HaveNew(f) THEN {f.new} ELSE {})
                     \cup (IF f.fn \in {"initWeak", "initWeakOrNil"} THEN {} ELSE {f.old})}

Holds(t) == {s \in Stripes : lock[s] = t}

(* Mutant: in the order of the arguments.                                  *)
NextLock_OldFirst(t) ==
  IF HaveOld(Top(t)) /\ Stripe[Top(t).old] \notin Holds(t)
  THEN Stripe[Top(t).old]
  ELSE Min(Wanted(Top(t)) \ Holds(t))

(* lockTwo takes the locks one after the other, the lower address first.   *)
NextLock(t) == Min(Wanted(Top(t)) \ Holds(t))

Unlock(t) == lock' = [s \in Stripes |-> IF lock[s] = t THEN NoThread ELSE lock[s]]

LockTwo(t) ==
  /\ At(t, StoreFns \cup {"loadWeak", "dealloc"}, "lock")
  /\ lock[NextLock(t)] = NoThread
  /\ lock' = [lock EXCEPT ![NextLock(t)] = t]
  /\ IF Wanted(Top(t)) \subseteq Holds(t) \cup {NextLock(t)}
     THEN Goto(t, "check")
     ELSE UNCHANGED stack
  /\ UNCHANGED <<storage, table, objects, class>>

-----------------------------------------------------------------------------
(* storeWeak                                                               *)

ReadOld(t) ==
  /\ At(t, StoreFns, "read")
  /\ Become(t, [Top(t) EXCEPT !.pc = "lock",
                              !.old = IF HaveOld(Top(t)) THEN value[Top(t).loc] ELSE Nil])
  /\ UNCHANGED <<storage, table, objects, class, lock>>

OldChanged(f) == HaveOld(f) /\ value[f.loc] # f.old

(* Mutant: the class that is being initialized is not remembered.          *)
MustInitialize_Forgets(f) == HaveNew(f) /\ f.new # Nil /\ class[f.new] # "initialized"

MustInitialize(f) ==
  HaveNew(f) /\ f.new # Nil /\ ~f.prev /\ class[f.new] # "initialized"

(* Mutant: the old value is not looked at again under the lock.            *)
CheckOld_NoRetry(t) ==
  /\ ~MustInitialize(Top(t))
  /\ Goto(t, "unregister")
  /\ UNCHANGED lock

CheckOld(t) ==
  \/ /\ OldChanged(Top(t))
     /\ Unlock(t)
     /\ Goto(t, "read")
  \/ /\ ~OldChanged(Top(t))
     /\ MustInitialize(Top(t))
     /\ Unlock(t)
     /\ stack' = [stack EXCEPT ![t] = Append(Append(Front(@),
                    [Top(t) EXCEPT !.pc = "read", !.prev = TRUE]),
                    InitializeFrame(Top(t).new))]
  \/ /\ ~OldChanged(Top(t))
     /\ ~MustInitialize(Top(t))
     /\ Goto(t, "unregister")
     /\ UNCHANGED lock

Check(t) ==
  /\ At(t, StoreFns, "check")
  /\ CheckOld(t)
  /\ UNCHANGED <<storage, table, objects, class>>

Unregister(t) ==
  /\ At(t, StoreFns, "unregister")
  /\ table' = IF HaveOld(Top(t)) THEN table \ {<<Top(t).old, Top(t).loc>>} ELSE table
  /\ Goto(t, IF HaveNew(Top(t)) THEN "register" ELSE "assign")
  /\ UNCHANGED <<storage, objects, class, lock>>

(* weak_register_no_lock gives nil for an object that is deallocating and, *)
(* if the class overrides these methods, when it has no allowsWeakReference*)
(* or that says no; where it would halt the process instead, the program   *)
(* does not call it.                                                       *)
OrNil(f) == f.fn \in {"storeWeakOrNil", "initWeakOrNil"}

StoresNil(f) ==
  \/ f.new = Nil
  \/ f.new # Nil /\ OrNil(f) /\ memory[f.new] = "dealloc"

MayStoreNil(f) == StoresNil(f) \/ f.new \in CustomRR

(* Mutant: the weakly-referenced bit is not set.                           *)
WeakRegister_NoBit(t) ==
  \/ /\ ~StoresNil(Top(t))
     /\ table' = table \cup {<<Top(t).new, Top(t).loc>>}
     /\ Goto(t, "assign")
     /\ UNCHANGED weakBit
  \/ /\ MayStoreNil(Top(t))
     /\ Become(t, [Top(t) EXCEPT !.pc = "assign", !.new = Nil])
     /\ UNCHANGED <<table, weakBit>>

WeakRegister(t) ==
  \/ /\ ~StoresNil(Top(t))
     /\ table' = table \cup {<<Top(t).new, Top(t).loc>>}
     /\ Goto(t, "setBit")
     /\ UNCHANGED weakBit
  \/ /\ MayStoreNil(Top(t))
     /\ Become(t, [Top(t) EXCEPT !.pc = "assign", !.new = Nil])
     /\ UNCHANGED <<table, weakBit>>

Register(t) ==
  /\ At(t, StoreFns, "register")
  /\ WeakRegister(t)
  /\ UNCHANGED <<storage, memory, held, class, lock>>

SetWeaklyReferenced(t) ==
  /\ At(t, StoreFns, "setBit")
  /\ weakBit' = [weakBit EXCEPT ![Top(t).new] = TRUE]
  /\ Goto(t, "assign")
  /\ UNCHANGED <<storage, table, memory, held, class, lock>>

(* The variable gets its value, or its storage goes away, and the tables   *)
(* are unlocked.                                                           *)
Assign(t) ==
  /\ At(t, StoreFns, "assign")
  /\ IF HaveNew(Top(t))
     THEN /\ value' = [value EXCEPT ![Top(t).loc] = Top(t).new]
          /\ isWeak' = [isWeak EXCEPT ![Top(t).loc] = TRUE]
     ELSE /\ isWeak' = [isWeak EXCEPT ![Top(t).loc] = FALSE]
          /\ UNCHANGED value
  /\ Unlock(t)
  /\ Return(t)
  /\ UNCHANGED <<table, objects, class>>

-----------------------------------------------------------------------------
(* objc_loadWeakRetained                                                   *)

LoadRead(t) ==
  /\ At(t, {"loadWeak"}, "read")
  /\ IF value[Top(t).loc] = Nil
     THEN ReturnValue(t, Nil)
     ELSE Become(t, [Top(t) EXCEPT !.pc = "lock", !.old = value[Top(t).loc]])
  /\ UNCHANGED <<storage, table, objects, class, lock>>

HasCustomRR(o) == o \in CustomRR \/ class[o] \in {"no", "initializing"}

(* Mutant: the variable is not read again under the lock.                  *)
LoadCheck_NoRetry(t) ==
  /\ At(t, {"loadWeak"}, "check")
  /\ Goto(t, IF HasCustomRR(Top(t).old) THEN "slow" ELSE "fast")
  /\ UNCHANGED <<storage, table, objects, class, lock>>

LoadCheck(t) ==
  /\ At(t, {"loadWeak"}, "check")
  /\ IF value[Top(t).loc] # Top(t).old
     THEN Unlock(t) /\ Goto(t, "read")
     ELSE /\ Goto(t, IF HasCustomRR(Top(t).old) THEN "slow" ELSE "fast")
          /\ UNCHANGED lock
  /\ UNCHANGED <<storage, table, objects, class>>

TryRetain(t, o) ==
  IF memory[o] = "live"
  THEN held' = [held EXCEPT ![t][o] = @ + 1] /\ ReturnValue(t, o)
  ELSE ReturnValue(t, Nil) /\ UNCHANGED held

LoadFast(t) ==
  /\ At(t, {"loadWeak"}, "fast")
  /\ TryRetain(t, Top(t).old)
  /\ Unlock(t)
  /\ UNCHANGED <<storage, table, weakBit, memory, class>>

(* retainWeakReference may be the program's own, and refuse.               *)
LoadSlow(t) ==
  /\ At(t, {"loadWeak"}, "slow")
  /\ LET o == Top(t).old IN
     IF class[o] = "initialized" \/ IsInitializing(t, o)
     THEN \/ TryRetain(t, o)
          \/ o \in CustomRR /\ ReturnValue(t, Nil) /\ UNCHANGED held
     ELSE GotoAndEnter(t, "read", InitializeFrame(o)) /\ UNCHANGED held
  /\ Unlock(t)
  /\ UNCHANGED <<storage, table, weakBit, memory, class>>

-----------------------------------------------------------------------------
(* copyWeak and moveWeak                                                   *)

CopyInit(t) ==
  /\ At(t, {"copyWeak", "moveWeak"}, "init")
  /\ IF Top(t).new = Nil
     THEN /\ value' = [value EXCEPT ![Top(t).loc] = Nil]
          /\ isWeak' = [isWeak EXCEPT ![Top(t).loc] = TRUE]
          /\ Goto(t, "release")
     ELSE /\ GotoAndEnter(t, "release",
                          Frame("initWeak", Top(t).loc, Nil, Nil, Top(t).new, "read"))
          /\ UNCHANGED storage
  /\ UNCHANGED <<table, objects, class, lock>>

(* One reference fewer; the last one to go is the start of -dealloc.       *)
LastReference(t, o) == held[t][o] = 1 /\ \A u \in Threads \ {t} : held[u][o] = 0

Drop(t, o) ==
  /\ held' = [held EXCEPT ![t][o] = @ - 1]
  /\ memory' = IF LastReference(t, o) THEN [memory EXCEPT ![o] = "dealloc"] ELSE memory

DeallocFrame(o) == Frame("dealloc", Nil, Nil, o, Nil, "run")

CopyRelease(t) ==
  /\ At(t, {"copyWeak", "moveWeak"}, "release")
  /\ LET o == Top(t).new IN
     IF o = Nil
     THEN Goto(t, "end") /\ UNCHANGED <<held, memory>>
     ELSE /\ Drop(t, o)
          /\ IF LastReference(t, o) THEN GotoAndEnter(t, "end", DeallocFrame(o)) ELSE Goto(t, "end")
  /\ UNCHANGED <<storage, table, weakBit, class, lock>>

CopyEnd(t) ==
  /\ At(t, {"copyWeak", "moveWeak"}, "end")
  /\ IF Top(t).fn = "copyWeak"
     THEN Return(t)
     ELSE GotoAndEnter(t, "setNil", Frame("destroyWeak", Top(t).src, Nil, Nil, Nil, "read"))
  /\ UNCHANGED <<storage, table, objects, class, lock>>

MoveSetNil(t) ==
  /\ At(t, {"moveWeak"}, "setNil")
  /\ value' = [value EXCEPT ![Top(t).src] = Nil]
  /\ isWeak' = [isWeak EXCEPT ![Top(t).src] = TRUE]
  /\ Return(t)
  /\ UNCHANGED <<table, objects, class, lock>>

-----------------------------------------------------------------------------
(* dealloc: rootDealloc and clearDeallocating                              *)

(* The program's -dealloc is over.                                         *)
RootDealloc(t) ==
  /\ At(t, {"dealloc"}, "run")
  /\ Goto(t, IF weakBit[Top(t).old] THEN "lock" ELSE "free")
  /\ UNCHANGED <<storage, table, objects, class, lock>>

Referrers(o) == {l \in Locations : <<o, l>> \in table}

(* weak_clear_no_lock goes over the referrers in the order of their table, *)
(* then removes them all.                                                  *)
ClearOne(t) ==
  /\ At(t, {"dealloc"}, "check")
  /\ \E l \in Referrers(Top(t).old) :
       /\ value[l] = Top(t).old
       /\ value' = [value EXCEPT ![l] = Nil]
  /\ UNCHANGED <<isWeak, table, objects, class, lock, stack>>

ClearDone(t) ==
  /\ At(t, {"dealloc"}, "check")
  /\ \A l \in Referrers(Top(t).old) : value[l] # Top(t).old
  /\ table' = table \ {<<Top(t).old, l>> : l \in Locations}
  /\ Unlock(t)
  /\ Goto(t, "free")
  /\ UNCHANGED <<storage, objects, class>>

Free(t) ==
  /\ At(t, {"dealloc"}, "free")
  /\ memory' = [memory EXCEPT ![Top(t).old] = "free"]
  /\ weakBit' = [weakBit EXCEPT ![Top(t).old] = FALSE]
  /\ Return(t)
  /\ UNCHANGED <<storage, table, held, class, lock>>

-----------------------------------------------------------------------------
(* _class_initialize, for a class whose superclass is initialized          *)

InitializeEnter(t) ==
  /\ At(t, {"initialize"}, "enter")
  /\ LET o == Top(t).old IN
     \/ /\ class[o] = "no"
        /\ class' = [class EXCEPT ![o] = "initializing"]
        /\ Goto(t, "run")
     \/ /\ class[o] = "initialized" \/ IsInitializing(t, o)
        /\ Return(t)
        /\ UNCHANGED class
  /\ UNCHANGED <<storage, table, objects, lock>>

(* setInitialized writes the default-RR bit and then the initialized bit.  *)
SetDefaultRR(t) ==
  /\ At(t, {"initialize"}, "run")
  /\ class' = [class EXCEPT ![Top(t).old] = "defaultRR"]
  /\ Goto(t, "finish")
  /\ UNCHANGED <<storage, table, objects, lock>>

SetInitialized(t) ==
  /\ At(t, {"initialize"}, "finish")
  /\ class' = [class EXCEPT ![Top(t).old] = "initialized"]
  /\ Return(t)
  /\ UNCHANGED <<storage, table, objects, lock>>

-----------------------------------------------------------------------------
(* The program                                                             *)

ProgramRuns(t) ==
  \/ stack[t] = <<>>
  \/ Len(stack[t]) < MaxDepth /\ At(t, {"dealloc", "initialize"}, "run")

Frames == UNION {Range(stack[t]) : t \in Threads}
Owns(f) ==   \* the variables nobody else may modify meanwhile
  CASE f.fn = "moveWeak" -> {f.loc, f.src}
    [] f.fn \in {"initWeak", "initWeakOrNil", "destroyWeak", "copyWeak"} -> {f.loc}
    [] OTHER -> {}
Unused(l) == \A f \in Frames : l \notin {f.loc, f.src}
Shared(l) == isWeak[l] /\ \A f \in Frames : l \notin Owns(f)

(* The objects whose address t may use: those it has a reference to and,   *)
(* where a refusal is no error, those whose -dealloc it runs.              *)
Mine(t) == {o \in Objects : held[t][o] > 0}
Deallocating(t) == {f.old : f \in {g \in Range(stack[t]) : g.fn = "dealloc"}}
MayStore(t, fn) ==
  {Nil} \cup Mine(t) \cup IF fn \in {"storeWeakOrNil", "initWeakOrNil"}
                          THEN Deallocating(t) ELSE {}
(* Calls that are under way keep the references they were given.           *)
MayRelease(t, o) == held[t][o] > Cardinality({i \in DOMAIN stack[t] : stack[t][i].new = o})
HasRoom(t) == \A o \in Objects : held[t][o] < MaxHold

CallStore(t) ==
  /\ ProgramRuns(t)
  /\ \E fn \in {"storeWeak", "storeWeakOrNil"} \cap Calls, l \in Locations :
       \E v \in MayStore(t, fn) :
         /\ Shared(l)
         /\ Enter(t, Frame(fn, l, Nil, Nil, v, "read"))
  /\ UNCHANGED <<storage, table, objects, class, lock>>

CallInit(t) ==
  /\ ProgramRuns(t)
  /\ \E fn \in {"initWeak", "initWeakOrNil"} \cap Calls, l \in Locations :
       \E v \in MayStore(t, fn) :
         /\ Unused(l) /\ ~isWeak[l]
         /\ IF v = Nil
            THEN /\ value' = [value EXCEPT ![l] = Nil]
                 /\ isWeak' = [isWeak EXCEPT ![l] = TRUE]
                 /\ UNCHANGED stack
            ELSE /\ Enter(t, Frame(fn, l, Nil, Nil, v, "read"))
                 /\ UNCHANGED storage
  /\ UNCHANGED <<table, objects, class, lock>>

CallDestroy(t) ==
  /\ ProgramRuns(t)
  /\ "destroyWeak" \in Calls
  /\ \E l \in Locations :
       /\ Unused(l) /\ isWeak[l]
       /\ Enter(t, Frame("destroyWeak", l, Nil, Nil, Nil, "read"))
  /\ UNCHANGED <<storage, table, objects, class, lock>>

CallLoad(t) ==
  /\ ProgramRuns(t)
  /\ HasRoom(t)
  /\ "loadWeak" \in Calls
  /\ \E l \in Locations :
       /\ Shared(l)
       /\ Enter(t, Frame("loadWeak", l, Nil, Nil, Nil, "read"))
  /\ UNCHANGED <<storage, table, objects, class, lock>>

CallCopy(t) ==
  /\ ProgramRuns(t)
  /\ HasRoom(t)
  /\ \E fn \in {"copyWeak", "moveWeak"} \cap Calls, d, s \in Locations :
       /\ d # s
       /\ Unused(d) /\ ~isWeak[d]
       /\ IF fn = "moveWeak" THEN Unused(s) /\ isWeak[s] ELSE Shared(s)
       /\ stack' = [stack EXCEPT ![t] = @ \o <<Frame(fn, d, s, Nil, Nil, "load"),
                                              Frame("loadWeak", s, Nil, Nil, Nil, "read")>>]
  /\ UNCHANGED <<storage, table, objects, class, lock>>

CallAlloc(t) ==
  /\ ProgramRuns(t)
  /\ \E o \in Objects :
       /\ memory[o] = "free"
       /\ memory' = [memory EXCEPT ![o] = "live"]
       /\ held' = [held EXCEPT ![t][o] = 1]
  /\ UNCHANGED <<storage, table, weakBit, class, lock, stack>>

CallRelease(t) ==
  /\ ProgramRuns(t)
  /\ \E o \in Mine(t) :
       /\ MayRelease(t, o)
       /\ class[o] = "initialized" \/ IsInitializing(t, o)
       /\ Drop(t, o)
       /\ IF LastReference(t, o) THEN Enter(t, DeallocFrame(o)) ELSE UNCHANGED stack
  /\ UNCHANGED <<storage, table, weakBit, class, lock>>

(* Any message makes its class run +initialize.                            *)
CallMessage(t) ==
  /\ ProgramRuns(t)
  /\ "message" \in Calls
  /\ \E o \in Objects :
       /\ class[o] # "initialized" /\ ~IsInitializing(t, o)
       /\ Enter(t, InitializeFrame(o))
  /\ UNCHANGED <<storage, table, objects, class, lock>>

-----------------------------------------------------------------------------
Call(t) ==
  CallStore(t) \/ CallInit(t) \/ CallDestroy(t) \/ CallLoad(t) \/ CallCopy(t)
    \/ CallAlloc(t) \/ CallRelease(t) \/ CallMessage(t)

Run(t) ==
  \/ LockTwo(t)
  \/ ReadOld(t) \/ Check(t) \/ Unregister(t) \/ Register(t) \/ SetWeaklyReferenced(t) \/ Assign(t)
  \/ LoadRead(t) \/ LoadCheck(t) \/ LoadFast(t) \/ LoadSlow(t)
  \/ CopyInit(t) \/ CopyRelease(t) \/ CopyEnd(t) \/ MoveSetNil(t)
  \/ RootDealloc(t) \/ ClearOne(t) \/ ClearDone(t) \/ Free(t)
  \/ InitializeEnter(t) \/ SetDefaultRR(t) \/ SetInitialized(t)

Init ==
  /\ value = [l \in Locations |-> Nil]
  /\ isWeak = [l \in Locations |-> TRUE]
  /\ table = {}
  /\ weakBit = [o \in Objects |-> FALSE]
  /\ memory = [o \in Objects |-> "free"]
  /\ held = [t \in Threads |-> [o \in Objects |-> 0]]
  /\ class = [o \in Objects |-> IF o \in Initialized THEN "initialized" ELSE "no"]
  /\ lock = [s \in Stripes |-> NoThread]
  /\ stack = [t \in Threads |-> <<>>]

Next == \E t \in Threads : Call(t) \/ Run(t)

Spec == Init /\ [][Next]_vars

(* The scheduler runs every thread, and os_unfair_lock lets every thread   *)
(* in that keeps trying; in the end the program makes no more calls.       *)
LiveSpec ==
  /\ Spec
  /\ \A t \in Threads : WF_vars(Run(t)) /\ SF_vars(LockTwo(t))
  /\ <>[][~ \E t \in Threads : Call(t)]_vars

-----------------------------------------------------------------------------
(* Properties                                                              *)

FrameType ==
  [fn : Functions \cup {"initialize", "dealloc"}, loc : Locations \cup {Nil},
   src : Locations \cup {Nil}, old : Objects \cup {Nil}, new : Objects \cup {Nil},
   prev : BOOLEAN,
   pc : {"read", "lock", "check", "unregister", "register", "setBit", "assign", "fast",
         "slow", "load", "init", "release", "end", "setNil", "run", "free", "enter", "finish"}]

(* Variables hold objects or nil, and each call is at one of its own       *)
(* places.                                                                 *)
TypeOK ==
  /\ value \in [Locations -> Objects \cup {Nil}]
  /\ isWeak \in [Locations -> BOOLEAN]
  /\ table \subseteq Objects \X Locations
  /\ weakBit \in [Objects -> BOOLEAN]
  /\ memory \in [Objects -> {"free", "live", "dealloc"}]
  /\ held \in [Threads -> [Objects -> Nat]]
  /\ class \in [Objects -> {"no", "initializing", "defaultRR", "initialized"}]
  /\ lock \in [Stripes -> Threads \cup {NoThread}]
  /\ \A t \in Threads : \A i \in DOMAIN stack[t] : stack[t][i] \in FrameType

(* Whenever its side table is unlocked, an object's pairs are exactly the  *)
(* variables that hold it, across stores that race, retries, moves and     *)
(* variables that come and go: dealloc misses no variable and writes to no *)
(* storage that is not one.                                                *)
RegisteredExactly ==
  \A o \in Objects, l \in Locations :
    lock[Stripe[o]] = NoThread => (<<o, l>> \in table <=> isWeak[l] /\ value[l] = o)

(* A __weak variable never holds an object whose memory was freed.         *)
NoDanglingVariable ==
  \A l \in Locations : isWeak[l] /\ value[l] # Nil => memory[value[l]] # "free"

(* A load that has locked the side table and read the variable again may   *)
(* read the object's isa and retain it: it cannot be freed meanwhile.      *)
LoadTouchesMemory ==
  \A t \in Threads :
    At(t, {"loadWeak"}, "fast") \/ At(t, {"loadWeak"}, "slow") => memory[Top(t).old] # "free"

(* The side tables and the variables agree, and what they lead to is alive.*)
TablesSound == TypeOK /\ RegisteredExactly /\ LoadTouchesMemory

(* Threads do not wait for each other's side tables in a circle.           *)
NoLockCycle ==
  \A t, u \in Threads :
    At(t, StoreFns, "lock") /\ At(u, StoreFns, "lock")
      => ~(NextLock(t) \in Holds(u) /\ NextLock(u) \in Holds(t))

(* Every call returns once the program makes no more: no deadlock of the   *)
(* side tables with each other or with +initialize, and no retry for ever. *)
CallsReturn == \A t \in Threads : stack[t] # <<>> ~> stack[t] = <<>>

(* The variables behave as WeakVariables says.  They go to nil where the   *)
(* deallocating thread locks the side table.                               *)
Strong(o) == Cardinality(UNION {{t} \X (1..held[t][o]) : t \in Threads})
Clearing(o) == \E t \in Threads : At(t, {"dealloc"}, "check") /\ Top(t).old = o
Seen(l) ==
  CASE ~isWeak[l] -> Raw
    [] isWeak[l] /\ value[l] # Nil /\ Clearing(value[l]) -> Nil
    [] OTHER -> value[l]
Abstract == INSTANCE WeakVariables
              WITH var <- [l \in Locations |-> Seen(l)], strong <- [o \in Objects |-> Strong(o)]
(* What clients see of weak variables, with stripes, retries and           *)
(* callbacks, is what single variables that turn nil at deallocation would *)
(* show.                                                                   *)
WeakSpec == Abstract!Spec

=============================================================================
