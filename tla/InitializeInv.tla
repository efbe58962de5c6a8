--------------------------- MODULE InitializeInv ---------------------------
(***************************************************************************)
(* The inductive invariant of Initialize.                                  *)
(*                                                                         *)
(* It says, for each call, what is known at its place; that the list of a  *)
(* thread is closed upwards, up to what is initialized; that a class is    *)
(* pending in the list of the thread that is to finish it; and who has the *)
(* classes that are being initialized, before a fork and after it.         *)
(***************************************************************************)
EXTENDS Initialize

Labels == {"enter", "try", "record", "body", "finish", "check", "recheck", "wait", "fork"}
Frames == [cls : Classes, pc : Labels, todo : SUBSET Classes]

(* Where a call has the class in the list of its thread.                   *)
Active == {"body", "finish", "fork"}

(* Where it has taken or read the state of its class.                      *)
Tried == {"record", "check", "recheck", "wait"}

Types ==
  /\ uses \in Uses
  /\ state \in [Classes -> {"no", "initializing", "initialized"}]
  /\ mine \in [Threads -> SUBSET Classes]
  /\ pending \in [Classes -> 0..1]
  /\ stack \in [Threads -> Seq(Frames)]
  /\ unwinding \subseteq Threads /\ asleep \subseteq Threads
  /\ forkChild \in BOOLEAN
  /\ halted \in {"no", "afterFork"}

IsActive(t, i) == i \in DOMAIN stack[t] /\ stack[t][i].pc \in Active

(* The innermost call of t has c in the list of t.                         *)
Working(t, c) == stack[t] # <<>> /\ Top(t).cls = c /\ Top(t).pc \in Active

(* The superclass of c is initialized, or t is doing it.                   *)
Begun(t, c) == c = Root \/ state[Super[c]] = "initialized" \/ Super[c] \in mine[t]

-----------------------------------------------------------------------------
(* A call waits for one that initializes the superclass, or its            *)
(* +initialize method for one that it made.                                *)
Nested(t) ==
  \A i \in DOMAIN stack[t] : i # Len(stack[t]) =>
    \/ /\ stack[t][i].pc = "try" /\ stack[t][i].cls # Root
       /\ stack[t][i + 1].cls = Super[stack[t][i].cls]
    \/ stack[t][i].pc = "body" /\ stack[t][i].cls \notin Trivial

(* No two calls of a thread initialize one class, and none initializes one *)
(* that has been put off.                                                  *)
Works(t) ==
  \A i \in DOMAIN stack[t] : stack[t][i].pc \in Active =>
    /\ stack[t][i].cls \in mine[t] /\ pending[stack[t][i].cls] = 0
    /\ stack[t][i].pc = "fork" => forkChild
    /\ stack[t][i].pc = "body" /\ stack[t][i].cls \in Trivial => stack[t][i].todo = {}
    /\ \A j \in DOMAIN stack[t] :
         stack[t][j].pc \in Active /\ stack[t][j].cls = stack[t][i].cls => i = j

(* What the innermost call knows.                                          *)
Knows(t) ==
  stack[t] # <<>> =>
    LET c == Top(t).cls
        pc == Top(t).pc IN
    /\ pc \in Tried \/ (pc = "try" /\ t \notin unwinding) => Begun(t, c)
    /\ pc \in Tried => state[c] # "no"
    /\ pc = "record" => c \notin mine[t]
    /\ pc = "recheck" => state[c] = "initialized"
    /\ pc = "wait" => /\ ~forkChild
                      /\ \A d \in mine[t] : d \notin Ancestors[c] /\ c \notin Ancestors[d]

(* The list of a thread: trivial classes are finished or put off at once.  *)
List(t) ==
  \A c \in mine[t] :
    /\ state[c] # "no" /\ Begun(t, c)
    /\ c \in Trivial /\ state[c] = "initializing" => pending[c] > 0 \/ Working(t, c)

Tree ==
  \A c \in Classes \ {Root} :
    /\ state[c] = "initialized" => state[Super[c]] = "initialized"
    /\ state[c] = "initializing" => state[Super[c]] # "no"

(* A class is put off because its superclass is being initialized, by its  *)
(* method or because it was put off itself; and who has the superclass has *)
(* the class, except that the child of a fork may be about to stop.        *)
Pending ==
  \A d \in Classes : pending[d] > 0 =>
    /\ d # Root /\ state[d] = "initializing" /\ state[Super[d]] = "initializing"
    /\ Super[d] \in Trivial => pending[Super[d]] > 0
    /\ \A t \in Threads : Super[d] \in mine[t] =>
         \/ d \in mine[t]
         \/ forkChild /\ Label(t) = "fork" /\ Top(t).cls = Super[d] /\ Super[d] \notin Trivial

(* Before a fork each class that is being initialized is so by one thread. *)
Owns(t, c) == c \in mine[t] \/ (Label(t) = "record" /\ Top(t).cls = c)

Owners ==
  \A c \in Classes :
    /\ state[c] = "initializing" => \E t \in Threads : Owns(t, c)
    /\ \A t \in Threads : Owns(t, c) =>
         state[c] = "initializing" /\ \A u \in Threads \ {t} : ~Owns(u, c)

(* After it only one thread has more than the class of its innermost call. *)
Child ==
  \E t \in Threads : \A u \in Threads \ {t} : \A c \in mine[u] :
    state[c] = "initialized" \/ (Label(u) = "fork" /\ Top(u).cls = c)

IInv ==
  /\ Types /\ Tree /\ Pending
  /\ \A t \in Threads : Nested(t) /\ Works(t) /\ Knows(t) /\ List(t)
  /\ IF forkChild THEN Child ELSE Owners
=============================================================================
