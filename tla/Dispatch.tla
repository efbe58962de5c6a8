------------------------------ MODULE Dispatch ------------------------------
(***************************************************************************)
(* What sending a message promises: the implementation it is answered with *)
(* is one that the class had for the selector, by itself or by inheritance,*)
(* at some time while the message was sent.  While a call that changes the *)
(* methods has not returned, what was before the change counts too; a      *)
(* message that is sent after it returned never runs what was replaced.    *)
(***************************************************************************)
EXTENDS Naturals

CONSTANTS Threads,
          Messages,          \* pairs of a class and a selector
          Result(_, _),      \* what a message finds in the methods
          None               \* no message, or no answer yet

VARIABLES methods,  \* the methods of the classes
          before,   \* the methods before the change under way, if there is one
          sent,     \* the message each thread is sending
          may,      \* the implementations it may be answered with
          answer    \* the one it is answered with

vars == <<methods, before, sent, may, answer>>

Init ==
  /\ before = methods
  /\ sent = [t \in Threads |-> None]
  /\ may = [t \in Threads |-> {}]
  /\ answer = [t \in Threads |-> None]

Send(t, m) ==
  /\ sent[t] = None
  /\ sent' = [sent EXCEPT ![t] = m]
  /\ may' = [may EXCEPT ![t] = {Result(methods, m), Result(before, m)}]
  /\ UNCHANGED <<methods, before, answer>>

Answer(t) ==
  /\ sent[t] # None /\ answer[t] = None
  /\ \E imp \in may[t] : answer' = [answer EXCEPT ![t] = imp]
  /\ UNCHANGED <<methods, before, sent, may>>

Return(t) ==
  /\ answer[t] # None
  /\ sent' = [sent EXCEPT ![t] = None]
  /\ may' = [may EXCEPT ![t] = {}]
  /\ answer' = [answer EXCEPT ![t] = None]
  /\ UNCHANGED <<methods, before>>

(* One change at a time.                                                   *)
BeginChange ==
  /\ before = methods
  /\ may' = [t \in Threads |-> IF sent[t] = None THEN {}
                               ELSE may[t] \cup {Result(methods', sent[t])}]
  /\ UNCHANGED <<before, sent, answer>>

EndChange ==
  /\ before' = methods
  /\ UNCHANGED <<methods, sent, may, answer>>

Next ==
  \/ \E t \in Threads :
       (\E m \in Messages : Send(t, m)) \/ Answer(t) \/ Return(t)
  \/ BeginChange
  \/ EndChange

Spec == Init /\ [][Next]_vars
=============================================================================
