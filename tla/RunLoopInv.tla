----------------------------- MODULE RunLoopInv -----------------------------
(***************************************************************************)
(* The inductive invariant of RunLoop.                                     *)
(*                                                                         *)
(* While an activation looks for work, what it would miss has a wake-up on *)
(* its way: each kind of work from the step that has looked for it on, and *)
(* a stop from the beginning of the pass.  A callout that runs the loop    *)
(* again may lose the wake-ups of the activation below; there are steps    *)
(* where that does no harm.                                                *)
(***************************************************************************)
EXTENDS RunLoop

(* The callouts after which the loop looks for everything again, or knows  *)
(* that it does not wait in this pass.                                     *)
Harmless == {"entry", "sources0", "afterWaiting", "handle", "exit"}

(* The locals of an activation at each step.                               *)
Placed(r) ==
  /\ r.out = "walk" => r.at \in BlockSteps \cup {"sources0"}
  /\ r.out = "call" => r.at \in Activities \cup BlockSteps \cup {"sources0", "handle"}
  /\ r.at \notin BlockSteps \/ r.out = "no" => r.items = <<>> /\ r.kept = <<>>
  /\ \A i \in DOMAIN r.kept : r.mode \notin BlockModes[r.kept[i]]
  /\ r.at = "sources0" /\ r.out = "call" => r.handled
  /\ r.at = "blocks2" => r.handled
  /\ r.at = "beforeWaiting" => ~r.handled /\ ~r.poll
  /\ r.at = "wait" /\ ~r.poll => ~r.handled

Nested ==
  /\ \A i \in DOMAIN runs : Placed(runs[i])
  /\ \A i \in 1..Len(runs) - 1 : runs[i].at \in NestFrom

-----------------------------------------------------------------------------
(* A wake-up is on its way.                                                *)
Awaited == wakeUpPort \/ waking > 0

(* From the top of the loop to the place where it waits, unless the pass   *)
(* has handled a source and does not wait.                                 *)
LooksForWork(r) ==
  /\ r.at \in {"beforeTimers", "beforeSources", "blocks1", "sources0", "poll",
               "beforeWaiting", "wait"}
  /\ ~r.handled

(* It has looked at the blocks, the sources or the time.                   *)
SawBlocks(r) ==
  r.at \in {"sources0", "poll", "beforeWaiting", "wait"} \/ (r.at = "blocks1" /\ r.out # "no")
SawSources(r) ==
  r.at \in {"poll", "beforeWaiting", "wait"} \/ (r.at = "sources0" /\ r.out # "no")
SawTime(r) == r.at \in {"beforeWaiting", "wait"} /\ ~r.poll

HasBlocks(r) == \E i \in DOMAIN blocks : r.mode \in BlockModes[blocks[i]]
HasSources(r) ==
  \E s \in sources[r.mode] \cap Version0 \cap signaled : r.at = "sources0" => s \notin r.collected

(* Work that came after the loop had looked for it.                        *)
CameLate(r) ==
  \/ r.stopped \/ r.mode \in modeStopped
  \/ SawBlocks(r) /\ HasBlocks(r)
  \/ SawSources(r) /\ HasSources(r)
  \/ SawTime(r) /\ r.timeout = "zero"

Attends(r) ==
  /\ r.at = "top" => ~(r.stopped \/ r.mode \in modeStopped)
  /\ LooksForWork(r) => ~r.ignoreWakeUps
  /\ LooksForWork(r) /\ CameLate(r) => Awaited

NothingMissed == runs # <<>> => Attends(Top)

IInv == TypeOK /\ Nested /\ (NestFrom \subseteq Harmless => NothingMissed)

=============================================================================
