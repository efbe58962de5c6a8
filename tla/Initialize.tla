----------------------------- MODULE Initialize -----------------------------
(***************************************************************************)
(* +initialize (objc-initialize.mm): the first message to a class runs its *)
(* +initialize method, once, in one thread, after that of its superclass,  *)
(* and other threads that message the class wait until it is done.         *)
(*                                                                         *)
(* A class whose +initialize ran inside that of its superclass is not done *)
(* before the superclass is; a thread may message the classes it is        *)
(* initializing itself; +initialize methods message other classes and may  *)
(* throw; and a fork leaves classes behind that no thread will ever finish.*)
(* One step is one critical section of classInitLock, one read of the      *)
(* state of a class without it, or one message of a +initialize method.    *)
(***************************************************************************)
EXTENDS Integers, Sequences, SequencesExt, FiniteSets

CONSTANTS Threads,
          Classes,
          Root,          \* the root class
          NoClass,       \* the superclass of the root class
          Super,         \* the superclass of each class
          Trivial,       \* classes without a +initialize method, or an empty one
          Early,         \* classes that are initialized before the threads begin
          Uses           \* programs: what the +initialize methods message

(* A root class counts as trivial for classHasTrivialInitialize; a class   *)
(* with no or an empty +initialize messages nothing.  Each set of classes  *)
(* has one whose superclass is not in it, as chains of superclasses end.   *)
ASSUME InitializeAssumption ==
  /\ Root \in Trivial /\ Trivial \subseteq Classes
  /\ NoClass \notin Classes
  /\ Early \subseteq Classes /\ \A c \in Early \ {Root} : Super[c] \in Early
  /\ Super \in [Classes -> Classes \cup {NoClass}]
  /\ \A c \in Classes : Super[c] = NoClass <=> c = Root
  /\ \A S \in (SUBSET Classes) \ {{}} : \E c \in S : Super[c] \notin S
  /\ \A u \in Uses : /\ u \in [Classes -> SUBSET Classes]
                     /\ \A c \in Trivial : u[c] = {}

VARIABLES uses,       \* the program that runs
          state,      \* CLS_INITIALIZING and CLS_INITIALIZED of each class
          mine,       \* the list of classes each thread is initializing
          pending,    \* pendingInitializeMap: the entries for each class, all
                      \* of them in the list of its superclass
          stack,      \* the calls of _class_initialize each thread is in
          unwinding,  \* threads in which an exception is under way
          asleep,     \* threads that wait on classInitLock
          forkChild,  \* MultithreadedForkChild
          halted      \* whether the process was stopped, and why

vars == <<uses, state, mine, pending, stack, unwinding, asleep, forkChild, halted>>

(* A call of _class_initialize: where it is, and, in the +initialize       *)
(* method, which classes it has yet to message.                            *)
Frame(c) == [cls |-> c, pc |-> "enter", todo |-> {}]

Top(t) == Last(stack[t])
Label(t) == IF stack[t] = <<>> THEN "program" ELSE Top(t).pc
At(t, label) == halted = "no" /\ t \notin unwinding /\ Label(t) = label

(* What a thread does next in the call it is in.                           *)
GoOn(t, label) == stack' = [stack EXCEPT ![t][Len(stack[t])].pc = label]
Return(t) == stack' = [stack EXCEPT ![t] = Front(@)]
Halt(why) == halted' = why

Ancestors[c \in Classes] ==
  IF c = Root THEN {} ELSE {Super[c]} \cup Ancestors[Super[c]]

SuperDone(c) == \A s \in {Super[c]} \ {NoClass} : state[s] = "initialized"

-----------------------------------------------------------------------------
Init ==
  /\ uses \in Uses
  /\ state = [c \in Classes |-> IF c \in Early THEN "initialized" ELSE "no"]
  /\ mine = [t \in Threads |-> {}]
  /\ pending = [c \in Classes |-> 0]
  /\ stack = [t \in Threads |-> <<>>]
  /\ unwinding = {}
  /\ asleep = {}
  /\ forkChild = FALSE
  /\ halted = "no"

(* lookUpImpOrForward finds that the class is not initialized: in a        *)
(* message of the program, or in one of a +initialize method.  A message   *)
(* to a class that is initialized leaves everything alone.                 *)
Message(t, c) ==
  /\ At(t, "program") /\ state[c] # "initialized"
  /\ stack' = [stack EXCEPT ![t] = <<Frame(c)>>]
  /\ UNCHANGED <<uses, state, mine, pending, unwinding, asleep, forkChild, halted>>

(* Mutant: the superclass is left alone.                                   *)
Enter_SkipsSuper(t) ==
  /\ At(t, "enter")
  /\ GoOn(t, "try")
  /\ UNCHANGED <<uses, state, mine, pending, unwinding, asleep, forkChild, halted>>

Enter(t) ==
  /\ At(t, "enter")
  /\ LET c == Top(t).cls
         tried == Append(Front(stack[t]), [Top(t) EXCEPT !.pc = "try"])
     IN  stack' = [stack EXCEPT ![t] = IF SuperDone(c) THEN tried
                                       ELSE Append(tried, Frame(Super[c]))]
  /\ UNCHANGED <<uses, state, mine, pending, unwinding, asleep, forkChild, halted>>

Try(t) ==
  /\ At(t, "try")
  /\ \/ /\ state[Top(t).cls] = "no"
        /\ state' = [state EXCEPT ![Top(t).cls] = "initializing"]
        /\ GoOn(t, "record")
     \/ /\ state[Top(t).cls] # "no"
        /\ GoOn(t, "check")
        /\ UNCHANGED state
  /\ UNCHANGED <<uses, mine, pending, unwinding, asleep, forkChild, halted>>

(* _setThisThreadIsInitializingClass, then +initialize or what takes its   *)
(* place in the child of a fork.                                           *)
Record(t) ==
  /\ At(t, "record")
  /\ LET c == Top(t).cls IN
     IF c \in mine[t]
     THEN Halt("fatal") /\ UNCHANGED <<mine, stack>>
     ELSE /\ mine' = [mine EXCEPT ![t] = @ \cup {c}]
          /\ stack' = [stack EXCEPT ![t] = Append(Front(@),
                [cls |-> c, pc |-> IF forkChild THEN "fork" ELSE "body",
                 todo |-> IF forkChild THEN {} ELSE uses[c]])]
          /\ UNCHANGED halted
  /\ UNCHANGED <<uses, state, pending, unwinding, asleep, forkChild>>

-----------------------------------------------------------------------------
(* The +initialize method                                                  *)

BodyMessages(t, c) ==
  /\ At(t, "body") /\ c \in Top(t).todo
  /\ LET rest == Append(Front(stack[t]), [Top(t) EXCEPT !.todo = @ \ {c}])
     IN  stack' = [stack EXCEPT ![t] = IF state[c] = "initialized" THEN rest
                                       ELSE Append(rest, Frame(c))]
  /\ UNCHANGED <<uses, state, mine, pending, unwinding, asleep, forkChild, halted>>

BodyEnds(t) ==
  /\ At(t, "body") /\ Top(t).todo = {}
  /\ GoOn(t, "finish")
  /\ UNCHANGED <<uses, state, mine, pending, unwinding, asleep, forkChild, halted>>

-----------------------------------------------------------------------------
(* lockAndFinishInitializing                                               *)

(* What is done when c is: the subclasses that were waiting for it too,    *)
(* and the ones that were waiting for these.                               *)
FinishedWith(c) ==
  {c} \cup {d \in Classes : /\ c \in Ancestors[d]
                            /\ \A e \in {d} \cup Ancestors[d] :
                                 c \in Ancestors[e] => pending[e] > 0}

(* Mutant: the threads that wait are not woken.                            *)
FinishInitializing_NotifiesNobody(t, c) ==
  IF /\ FinishedWith(c) \subseteq mine[t]
     /\ \A d \in FinishedWith(c) \ {c} : pending[d] = 1
  THEN /\ state' = [d \in Classes |-> IF d \in FinishedWith(c) THEN "initialized"
                                      ELSE state[d]]
       /\ mine' = [mine EXCEPT ![t] = @ \ FinishedWith(c)]
       /\ pending' = [d \in Classes |-> IF d \in FinishedWith(c) \ {c} THEN 0
                                        ELSE pending[d]]
       /\ UNCHANGED <<asleep, halted>>
  ELSE Halt("fatal") /\ UNCHANGED <<state, mine, pending, asleep>>

(* _finishInitializing: _setThisThreadIsNotInitializingClass stops the     *)
(* process when the thread does not have a class that it is to finish, or  *)
(* is to finish it twice.                                                  *)
FinishInitializing(t, c) ==
  IF /\ FinishedWith(c) \subseteq mine[t]
     /\ \A d \in FinishedWith(c) \ {c} : pending[d] = 1
  THEN /\ state' = [d \in Classes |-> IF d \in FinishedWith(c) THEN "initialized"
                                      ELSE state[d]]
       /\ mine' = [mine EXCEPT ![t] = @ \ FinishedWith(c)]
       /\ pending' = [d \in Classes |-> IF d \in FinishedWith(c) \ {c} THEN 0
                                        ELSE pending[d]]
       /\ asleep' = {}
       /\ UNCHANGED halted
  ELSE Halt("fatal") /\ UNCHANGED <<state, mine, pending, asleep>>

FinishInitializingAfter(c) ==
  /\ pending' = [pending EXCEPT ![c] = @ + 1]
  /\ UNCHANGED <<state, mine, asleep, halted>>

LockAndFinish(t, c) ==
  \/ SuperDone(c) /\ FinishInitializing(t, c)
  \/ ~SuperDone(c) /\ FinishInitializingAfter(c)

Finish(t) ==
  /\ halted = "no" /\ Label(t) = "finish"
  /\ LockAndFinish(t, Top(t).cls)
  /\ Return(t)
  /\ UNCHANGED <<uses, unwinding, forkChild>>

(* The method throws: the handler in _class_initialize finishes the class  *)
(* all the same, and throws again.                                         *)
BodyThrows(t) ==
  /\ At(t, "body") /\ Top(t).cls \notin Trivial
  /\ GoOn(t, "finish")
  /\ unwinding' = unwinding \cup {t}
  /\ UNCHANGED <<uses, state, mine, pending, asleep, forkChild, halted>>

(* The exception arrives in a caller: a +initialize method that catches it *)
(* or does not, a call that was initializing its superclass and has done   *)
(* nothing yet, or the program.                                            *)
Unwind(t) ==
  /\ halted = "no" /\ t \in unwinding
  /\ \/ /\ Label(t) \in {"program", "body"}
        /\ unwinding' = unwinding \ {t}
        /\ UNCHANGED stack
     \/ /\ Label(t) = "body"
        /\ GoOn(t, "finish")
        /\ UNCHANGED unwinding
     \/ /\ Label(t) = "try"
        /\ Return(t)
        /\ UNCHANGED unwinding
  /\ UNCHANGED <<uses, state, mine, pending, asleep, forkChild, halted>>

-----------------------------------------------------------------------------
(* The class was not in its first state.  Its state is read again, without *)
(* classInitLock.                                                          *)

(* Mutant: the two questions are asked the other way round.                *)
Check_InitializedFirst(t) ==
  /\ At(t, "check")
  /\ IF state[Top(t).cls] = "initialized" THEN Return(t) ELSE GoOn(t, "recheck")
  /\ UNCHANGED <<uses, state, mine, pending, unwinding, asleep, forkChild, halted>>

(* Mutant: a class that is being initialized may be messaged.              *)
Check_NeverWaits(t) ==
  /\ At(t, "check")
  /\ IF state[Top(t).cls] = "initializing" THEN Return(t) ELSE GoOn(t, "recheck")
  /\ UNCHANGED <<uses, state, mine, pending, unwinding, asleep, forkChild, halted>>

Check(t) ==
  /\ At(t, "check")
  /\ \/ state[Top(t).cls] # "initializing" /\ GoOn(t, "recheck")
     \/ /\ state[Top(t).cls] = "initializing"
        /\ \/ Top(t).cls \in mine[t] /\ Return(t)
           \/ Top(t).cls \notin mine[t] /\ ~forkChild /\ GoOn(t, "wait")
           \/ Top(t).cls \notin mine[t] /\ forkChild /\ GoOn(t, "record")
  /\ UNCHANGED <<uses, state, mine, pending, unwinding, asleep, forkChild, halted>>

Recheck(t) ==
  /\ At(t, "recheck")
  /\ IF state[Top(t).cls] = "initialized"
     THEN Return(t) /\ UNCHANGED halted
     ELSE Halt("fatal") /\ UNCHANGED stack
  /\ UNCHANGED <<uses, state, mine, pending, unwinding, asleep, forkChild>>

(* waitForInitializeToComplete: one turn of its loop under classInitLock.  *)
Wait(t) ==
  /\ At(t, "wait") /\ t \notin asleep
  /\ IF state[Top(t).cls] = "initialized"
     THEN Return(t) /\ UNCHANGED asleep
     ELSE asleep' = asleep \cup {t} /\ UNCHANGED stack
  /\ UNCHANGED <<uses, state, mine, pending, unwinding, forkChild, halted>>

-----------------------------------------------------------------------------
(* Fork                                                                    *)

(* performForkChildInitialize                                              *)
ForkChildInitialize(t) ==
  /\ At(t, "fork")
  /\ IF Top(t).cls \in Trivial
     THEN LockAndFinish(t, Top(t).cls) /\ Return(t)
     ELSE Halt("afterFork") /\ UNCHANGED <<state, mine, pending, stack, asleep>>
  /\ UNCHANGED <<uses, unwinding, forkChild>>

(* Thread t forks, in the program or in a +initialize method, when it and  *)
(* others run; what is followed from here on is the child.  The fork takes *)
(* classInitLock, so no thread is inside a critical section.  The other    *)
(* threads are gone, and those of the child that take their names begin    *)
(* with nothing; the state of the classes stays.                           *)
Fork(t) ==
  /\ ~forkChild
  /\ At(t, "program") \/ (At(t, "body") /\ Top(t).cls \notin Trivial)
  /\ forkChild' = TRUE
  /\ mine' = [u \in Threads |-> IF u = t THEN mine[t] ELSE {}]
  /\ stack' = [u \in Threads |-> IF u = t THEN stack[t] ELSE <<>>]
  /\ unwinding' = {}
  /\ asleep' = {}
  /\ UNCHANGED <<uses, state, pending, halted>>

-----------------------------------------------------------------------------
(* What a thread does once it has sent a message.                          *)
Step(t) ==
  \/ Enter(t) \/ Try(t) \/ Record(t)
  \/ \E c \in Classes : BodyMessages(t, c)
  \/ BodyEnds(t) \/ BodyThrows(t)
  \/ Finish(t) \/ Unwind(t)
  \/ Check(t) \/ Recheck(t) \/ Wait(t)
  \/ ForkChildInitialize(t)

Next ==
  \E t \in Threads :
    \/ \E c \in Classes : Message(t, c)
    \/ Step(t)
    \/ Fork(t)

Spec == Init /\ [][Next]_vars

(* A thread that can go on does, and +initialize methods come to an end.   *)
FairSpec == Spec /\ \A t \in Threads : WF_vars(Step(t))

-----------------------------------------------------------------------------
(* The state of the classes, the lists of the threads and the calls they   *)
(* are in are what _class_initialize can make of them.                     *)
TypeOK ==
  /\ uses \in Uses
  /\ state \in [Classes -> {"no", "initializing", "initialized"}]
  /\ mine \in [Threads -> SUBSET Classes]
  /\ pending \in [Classes -> 0..1]
  /\ \A t \in Threads : \A i \in DOMAIN stack[t] :
       /\ stack[t][i].cls \in Classes /\ stack[t][i].todo \subseteq Classes
       /\ stack[t][i].pc \in {"enter", "try", "record", "body", "finish", "check",
                              "recheck", "wait", "fork"}
       /\ i < Len(stack[t]) => stack[t][i].pc \in {"try", "body"}
  /\ unwinding \subseteq Threads /\ asleep \subseteq Threads
  /\ forkChild \in BOOLEAN
  /\ halted \in {"no", "fatal", "afterFork"}

(* The classes that are initialized or being initialized are a contiguous  *)
(* part of the tree from the root on, as the head of the file promises:    *)
(* the superclass of an initialized class is initialized, and that of a    *)
(* class a thread is initializing is initialized or one that the same      *)
(* thread is initializing, so that no other thread can get between the two.*)
Contiguous ==
  \A c \in Classes \ {Root} :
    /\ state[c] = "initialized" => state[Super[c]] = "initialized"
    /\ state[c] = "initializing" => state[Super[c]] # "no"
    /\ \A t \in Threads :
         c \in mine[t] /\ state[c] = "initializing" =>
           state[Super[c]] = "initialized" \/ Super[c] \in mine[t]

(* Nobody waits for a class of the family it is initializing: a thread     *)
(* that waits for c is initializing neither a superclass nor a subclass of *)
(* c.  This is the deadlock the head of the file tells of.                 *)
NoWaitWithinFamily ==
  \A t \in Threads : Label(t) = "wait" =>
    \A d \in mine[t] : state[d] = "initializing" =>
      d \notin Ancestors[Top(t).cls] /\ Top(t).cls \notin Ancestors[d]

(* Threads take families of classes from the top, and never wait inside.   *)
FamiliesSound == TypeOK /\ Contiguous /\ NoWaitWithinFamily

(* The runtime does not stop the process by a check of its own: no thread  *)
(* begins a class twice, finishes one it does not have, or finds a class   *)
(* neither initialized nor being so after it could not begin it; not even  *)
(* in the child of a fork, with what the parent left behind.               *)
NeverFatal == halted # "fatal"

(* A call of _class_initialize returns to the sender only when the class   *)
(* and its superclasses are initialized, or are being initialized by the   *)
(* same thread: no other thread sees a class whose +initialize is not over.*)
ReturnsInitialized ==
  [][\A t \in Threads :
       forkChild' = forkChild /\ t \notin unwinding' /\ Len(stack'[t]) < Len(stack[t]) =>
       \A c \in {Top(t).cls} \cup Ancestors[Top(t).cls] :
         state'[c] = "initialized" \/ c \in mine'[t]]_vars

(* A class needs its superclass and the classes its method messages.       *)
Needs(u, c) == u[c] \cup IF c = Root THEN {} ELSE {Super[c]}

(* Classes each of which needs, directly or not, all the others.           *)
InCircle(u, S) ==
  \A P \in SUBSET S : P # {} /\ P # S => \E c \in P : Needs(u, c) \cap (S \ P) # {}

(* Programs in which the classes of every circle have one of them as a     *)
(* superclass, as when a +initialize method messages a subclass.           *)
OrderlyUses ==
  {u \in Uses : \A S \in SUBSET Classes :
     S # {} /\ InCircle(u, S) => \E top \in S : \A c \in S \ {top} : top \in Ancestors[c]}

(* Every message returns, or the child of a fork is halted, unless the     *)
(* +initialize methods of classes that are not one another's superclasses  *)
(* need each other.                                                        *)
CallsReturn ==
  \A t \in Threads :
    stack[t] # <<>> /\ uses \in OrderlyUses ~> stack[t] = <<>> \/ halted # "no"
=============================================================================
