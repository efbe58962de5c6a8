--------------------------- MODULE WeakVariables ---------------------------
(***************************************************************************)
(* What __weak variables promise: each is an atomic register that goes to  *)
(* nil, together with all others that hold the same object, before the     *)
(* object's memory is freed, and that can give out a strong reference only *)
(* while the object is live.                                               *)
(*                                                                         *)
(* Module WeakReferences, with its tables, locks and retries, implements   *)
(* this specification.                                                     *)
(***************************************************************************)
EXTENDS Naturals

CONSTANTS Locations,  \* where a __weak variable can be
          Objects,
          Nil,        \* the value of a variable that holds no object
          Raw         \* the value of storage that is not a __weak variable

VARIABLES var,     \* var[l]: an object, Nil or Raw
          memory,  \* memory[o]: "free", "live" or "dealloc"
          strong   \* the number of strong references to each object

weakVars == <<var, memory, strong>>

Init ==
  /\ var = [l \in Locations |-> Nil]
  /\ memory = [o \in Objects |-> "free"]
  /\ strong = [o \in Objects |-> 0]

Alloc(o) ==
  /\ memory[o] = "free"
  /\ memory' = [memory EXCEPT ![o] = "live"]
  /\ strong' = [strong EXCEPT ![o] = 1]
  /\ UNCHANGED var

(* A store, or the initialization of a variable; only live objects go in.  *)
Write(l, v) ==
  /\ v = Nil \/ v \in {o \in Objects : memory[o] = "live"}
  /\ var' = [var EXCEPT ![l] = v]
  /\ UNCHANGED <<memory, strong>>

Destroy(l) ==
  /\ var[l] # Raw
  /\ var' = [var EXCEPT ![l] = Raw]
  /\ UNCHANGED <<memory, strong>>

(* A load that gives an object: the variable holds it at that moment, and  *)
(* it is live.                                                             *)
Load(l) ==
  /\ var[l] \in {o \in Objects : memory[o] = "live"}
  /\ strong' = [strong EXCEPT ![var[l]] = @ + 1]
  /\ UNCHANGED <<var, memory>>

Release(o) ==
  /\ memory[o] = "live"
  /\ strong' = [strong EXCEPT ![o] = @ - 1]
  /\ memory' = [memory EXCEPT ![o] = IF strong[o] = 1 THEN "dealloc" ELSE "live"]
  /\ UNCHANGED var

(* All variables that hold the object go to nil in one step.               *)
Clear(o) ==
  /\ memory[o] = "dealloc"
  /\ var' = [l \in Locations |-> IF var[l] = o THEN Nil ELSE var[l]]
  /\ UNCHANGED <<memory, strong>>

Free(o) ==
  /\ memory[o] = "dealloc"
  /\ \A l \in Locations : var[l] # o
  /\ memory' = [memory EXCEPT ![o] = "free"]
  /\ UNCHANGED <<var, strong>>

Next ==
  \/ \E o \in Objects : Alloc(o) \/ Release(o) \/ Clear(o) \/ Free(o)
  \/ \E l \in Locations, v \in Objects \cup {Nil} : Write(l, v)
  \/ \E l \in Locations : Destroy(l) \/ Load(l)

Spec == Init /\ [][Next]_weakVars

=============================================================================
