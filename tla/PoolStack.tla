------------------------------ MODULE PoolStack ------------------------------
(***************************************************************************)
(* What a thread's autorelease pools promise, with no page in sight.       *)
(*                                                                         *)
(* Autoreleased objects and pool boundaries form one stack.  Popping a     *)
(* pool releases what is above its boundary, the latest first; each        *)
(* release may run code that uses the stack again, and the pop is over     *)
(* only when the stack is as high as it was when the pool was pushed.      *)
(*                                                                         *)
(* Module AutoreleasePool, where the stack is cut into pages that are      *)
(* allocated, reused and freed, implements this specification.             *)
(***************************************************************************)
EXTENDS Integers, Sequences, SequencesExt

CONSTANTS Objects,        \* what can be autoreleased
          POOL_BOUNDARY   \* the entry that begins a pool

VARIABLES stack,   \* the pending releases and boundaries
          calls    \* open pools and pops in progress, the outermost first

stackVars == <<stack, calls>>

(* The height of the stack when the pool was pushed, and what becomes of   *)
(* it: "open"; "popping"; or "releasing", while an object that its pop has *)
(* released is running its -dealloc.                                       *)
Scope(h, s) == [height |-> h, state |-> s]

(* Clients run outside any pop, or in the -dealloc of a released object.   *)
ClientRuns == calls # <<>> => Last(calls).state # "popping"

Init == stack = <<>> /\ calls = <<>>

Push ==
  /\ ClientRuns
  /\ stack' = Append(stack, POOL_BOUNDARY)
  /\ calls' = Append(calls, Scope(Len(stack), "open"))

Autorelease(o) ==
  /\ ClientRuns
  /\ stack' = Append(stack, o)
  /\ UNCHANGED calls

(* A pop also pops the pools opened after it and not popped (an exception  *)
(* left their scope).                                                      *)
Pop(k) ==
  /\ ClientRuns
  /\ \A i \in k..Len(calls) : calls[i].state = "open"
  /\ calls' = Append(SubSeq(calls, 1, k - 1), Scope(calls[k].height, "popping"))
  /\ UNCHANGED stack

PopEmpty(k) ==
  /\ ClientRuns
  /\ \A i \in k..Len(calls) : calls[i].state = "open"
  /\ Len(stack) = calls[k].height + 1
  /\ stack' = Front(stack)
  /\ calls' = SubSeq(calls, 1, k - 1)

Release ==
  /\ calls # <<>> /\ Last(calls).state = "popping"
  /\ Len(stack) > Last(calls).height
  /\ stack' = Front(stack)
  /\ calls' = IF Last(stack) = POOL_BOUNDARY THEN calls
              ELSE [calls EXCEPT ![Len(calls)].state = "releasing"]

(* -dealloc returns; pools it has left open stay on the stack.             *)
Return(k) ==
  /\ calls[k].state = "releasing"
  /\ \A i \in k + 1 .. Len(calls) : calls[i].state = "open"
  /\ calls' = Append(SubSeq(calls, 1, k - 1), Scope(calls[k].height, "popping"))
  /\ UNCHANGED stack

PopEnds ==
  /\ calls # <<>> /\ Last(calls).state = "popping"
  /\ Len(stack) = Last(calls).height
  /\ calls' = Front(calls)
  /\ UNCHANGED stack

(* A thread that exits pops everything, at once if no object is pending.   *)
Exit ==
  /\ \A i \in DOMAIN calls : calls[i].state = "open"
  /\ \/ /\ calls' = <<Scope(0, "popping")>>
        /\ UNCHANGED stack
     \/ /\ \A i \in DOMAIN stack : stack[i] = POOL_BOUNDARY
        /\ stack' = <<>> /\ calls' = <<>>

Next ==
  \/ Push
  \/ \E o \in Objects : Autorelease(o)
  \/ \E k \in DOMAIN calls : Pop(k) \/ PopEmpty(k) \/ Return(k)
  \/ Release
  \/ PopEnds
  \/ Exit

Spec == Init /\ [][Next]_stackVars

=============================================================================
