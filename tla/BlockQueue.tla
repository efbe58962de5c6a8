----------------------------- MODULE BlockQueue -----------------------------
(***************************************************************************)
(* What CFRunLoopPerformBlock promises: blocks wait in the order in which  *)
(* they were handed over, and a run of the loop in a mode takes the first  *)
(* one that may run in this mode.                                          *)
(***************************************************************************)
EXTENDS Sequences, SequencesExt

CONSTANTS Modes, Blocks,
          BlockModes     \* the modes in which a block may run

VARIABLE queue

Init == queue = <<>>

Post(b) == b \notin Range(queue) /\ queue' = Append(queue, b)

(* The places of the blocks that may run in mode m.                        *)
Eligible(m) == {i \in DOMAIN queue : m \in BlockModes[queue[i]]}

Perform(m) ==
  \E i \in Eligible(m) :
    /\ \A j \in Eligible(m) : i <= j
    /\ queue' = RemoveAt(queue, i)

Next == (\E b \in Blocks : Post(b)) \/ (\E m \in Modes : Perform(m))

Spec == Init /\ [][Next]_queue

=============================================================================
