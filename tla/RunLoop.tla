------------------------------ MODULE RunLoop ------------------------------
(***************************************************************************)
(* One CFRunLoop (CFRunLoop.c): the activations of __CFRunLoopRun on its   *)
(* thread, which nest when a callout runs the loop again, and what other   *)
(* threads do to it: hand over blocks, signal sources, stop it, wake it.   *)
(*                                                                         *)
(* The loop holds its own lock and that of its mode except while it calls  *)
(* out, while it walks over what it has collected and while it waits.      *)
(* What a callout itself does to the loop is not told apart from what      *)
(* another thread does meanwhile, except that only a callout can run it.   *)
(***************************************************************************)
EXTENDS Integers, Sequences, FiniteSets, SequencesExt

CONSTANTS
  Modes,
  Blocks, BlockModes,    \* the modes in which a block runs, common modes resolved
  Sources, Version1,     \* version 1 sources are ports
  Order,                 \* of the version 0 sources
  Observed,              \* the activities that each mode has an observer for
  Homes,                 \* bound: the modes to which each source is added
  StopModes,             \* bound: the modes that are stopped
  Calls,                 \* bound: the arguments with which the loop is run
  NestFrom,              \* bound: the callouts that run the loop again
  MaxDepth,              \* bound: activations at once
  MaxWaking              \* bound: threads about to wake the loop up

Activities ==
  {"entry", "beforeTimers", "beforeSources", "beforeWaiting", "afterWaiting", "exit"}
BlockSteps == {"blocks1", "blocks2", "blocks3"}
Version0 == Sources \ Version1

ASSUME RunLoopAssumption ==
  /\ BlockModes \in [Blocks -> SUBSET Modes]
  /\ Version1 \subseteq Sources
  /\ Order \in [Version0 -> Int]
  /\ Observed \in [Modes -> SUBSET Activities]
  /\ Homes \in [Sources -> SUBSET Modes]
  /\ StopModes \subseteq Modes
  /\ Calls \subseteq Modes \X {"never", "armed", "zero"} \X BOOLEAN
  /\ MaxDepth \in Nat /\ MaxWaking \in Nat

VARIABLES
  blocks,        \* _blocks_head to _blocks_tail
  sources,       \* _sources0 and _sources1 of each mode
  valid,         \* the sources that have not been invalidated
  signaled,      \* the sources that are; of version 1, those with a message
  modeStopped,   \* the modes with _stopped
  wakeUpPort,    \* whether there is a message; the queue is of length 1
  runs,          \* the activations, the current one last
  waking         \* threads that are about to call CFRunLoopWakeUp

vars == <<blocks, sources, valid, signaled, modeStopped, wakeUpPort, runs, waking>>

(* An activation: its per-run data (stopped, ignoreWakeUps) and the locals *)
(* of __CFRunLoopRun.  `at` is where it is; `out` says that it has given   *)
(* up the locks to walk over what it has collected or to call out.         *)
Activation(m, seconds, stopAfterHandle) ==
  [mode |-> m, stopped |-> FALSE, ignoreWakeUps |-> FALSE,
   stopAfterHandle |-> stopAfterHandle, timeout |-> seconds,
   at |-> "entry", out |-> "no",
   items |-> <<>>, kept |-> <<>>,    \* of the detached list of blocks
   collected |-> {}, handled |-> FALSE, poll |-> FALSE,
   livePort |-> {}]                  \* the version 1 source to perform, if any

Top == Last(runs)

(* The observer of an activity is not called while it is being called.     *)
Observes(activity) ==
  /\ activity \in Observed[Top.mode]
  /\ ~\E i \in DOMAIN runs : runs[i].at = activity /\ runs[i].out = "call"

(* The step after each step that does not decide otherwise.                *)
After(step) ==
  CASE step = "entry" -> "start"
    [] step = "beforeTimers" -> "beforeSources"
    [] step = "beforeSources" -> "blocks1"
    [] step = "blocks1" -> "sources0"
    [] step = "sources0" -> IF Top.handled THEN "blocks2" ELSE "poll"
    [] step = "blocks2" -> "poll"
    [] step = "beforeWaiting" -> "wait"
    [] step = "afterWaiting" -> "handle"
    [] step = "handle" -> "blocks3"
    [] step = "blocks3" -> "decide"
    [] step = "exit" -> "leave"

(* From one step to the next that is not an activity nobody observes.      *)
Skipped(step) == step \in Activities /\ ~Observes(step)
Reach(step) ==
  LET next == IF Skipped(step) THEN After(step) ELSE step
  IN IF Skipped(next) THEN After(next) ELSE next

Becomes(r) == runs' = [runs EXCEPT ![Len(runs)] = r]
At(step) == runs # <<>> /\ Top.at = step /\ Top.out = "no"
GoTo(step) == Becomes([Top EXCEPT !.at = Reach(step)])

(* Whether other threads can have the lock of the loop.                    *)
Unlocked == runs # <<>> => Top.out # "no" \/ Top.at \in {"wait", "awake"}

-----------------------------------------------------------------------------
(* What other threads do                                                   *)

(* Blocks that were handed over and have not run.                          *)
Waiting ==
  Range(blocks) \cup UNION {Range(runs[i].items) \cup Range(runs[i].kept) : i \in DOMAIN runs}

(* Who gives the loop something to do wakes it up afterwards.              *)
WakeLater == waking < MaxWaking /\ waking' = waking + 1

CFRunLoopPerformBlock(b) ==
  /\ Unlocked /\ b \notin Waiting
  /\ blocks' = Append(blocks, b)
  /\ WakeLater
  /\ UNCHANGED <<sources, valid, signaled, modeStopped, wakeUpPort, runs>>

(* Takes the lock of the source only.  For a port, a message arrives.      *)
CFRunLoopSourceSignal(s) ==
  /\ s \in valid \ signaled
  /\ signaled' = signaled \cup {s}
  /\ IF s \in Version1 THEN UNCHANGED waking ELSE WakeLater
  /\ UNCHANGED <<blocks, sources, valid, modeStopped, wakeUpPort, runs>>

(* Whether the source is valid is asked before the lock is taken: any      *)
(* number of threads may have asked before it was invalidated, and removed *)
(* from all modes, and add it now.                                         *)
CFRunLoopAddSource(s, m) ==
  /\ Unlocked /\ m \in Homes[s] /\ s \notin sources[m]
  /\ sources' = [sources EXCEPT ![m] = @ \cup {s}]
  /\ WakeLater
  /\ UNCHANGED <<blocks, valid, signaled, modeStopped, wakeUpPort, runs>>

CFRunLoopRemoveSource(s, m) ==
  /\ Unlocked /\ s \in sources[m]
  /\ sources' = [sources EXCEPT ![m] = @ \ {s}]
  /\ UNCHANGED <<blocks, valid, signaled, modeStopped, wakeUpPort, runs, waking>>

(* Mutant: the source stays signaled.                                      *)
CFRunLoopSourceInvalidate_StaysSignaled(s) ==
  /\ s \in valid
  /\ valid' = valid \ {s}
  /\ UNCHANGED <<blocks, sources, signaled, modeStopped, wakeUpPort, runs, waking>>

(* With the source's lock, which is given up before the loop's is taken.   *)
CFRunLoopSourceInvalidate(s) ==
  /\ s \in valid
  /\ valid' = valid \ {s}
  /\ signaled' = signaled \ {s}
  /\ UNCHANGED <<blocks, sources, modeStopped, wakeUpPort, runs, waking>>

RemoveInvalidated(s) ==
  /\ Unlocked /\ s \notin valid
  /\ sources' = [m \in Modes |-> sources[m] \ {s}]
  /\ UNCHANGED <<blocks, valid, signaled, modeStopped, wakeUpPort, runs, waking>>

CFRunLoopStop ==
  /\ Unlocked /\ runs # <<>>
  /\ Becomes([Top EXCEPT !.stopped = TRUE])
  /\ WakeLater
  /\ UNCHANGED <<blocks, sources, valid, signaled, modeStopped, wakeUpPort>>

CFRunLoopStopMode(m) ==
  /\ Unlocked
  /\ modeStopped' = modeStopped \cup {m}
  /\ WakeLater
  /\ UNCHANGED <<blocks, sources, valid, signaled, wakeUpPort, runs>>

(* A message is sent unless the current activation ignores wake-ups, as    *)
(* the per-run data of a loop that does not run do, or one is in the port. *)
CFRunLoopWakeUp ==
  /\ Unlocked /\ waking > 0
  /\ waking' = waking - 1
  /\ wakeUpPort' = (wakeUpPort \/ (runs # <<>> /\ ~Top.ignoreWakeUps))
  /\ UNCHANGED <<blocks, sources, valid, signaled, modeStopped, runs>>

(* Time has come to termTSR, for the loop and for the dispatch timer.      *)
TimePasses(i) ==
  /\ runs[i].timeout = "armed" /\ runs[i].at \notin {"entry", "start", "exit", "leave"}
  /\ runs' = [runs EXCEPT ![i].timeout = "passed"]
  /\ UNCHANGED <<blocks, sources, valid, signaled, modeStopped, wakeUpPort, waking>>

(* Mutant: the loop is left to find out by itself.                         *)
CFRunLoopTimeout_NoWakeUp(i) ==
  /\ runs[i].timeout = "passed"
  /\ runs' = [runs EXCEPT ![i].timeout = "zero"]
  /\ UNCHANGED <<blocks, sources, valid, signaled, modeStopped, wakeUpPort, waking>>

(* termTSR becomes 0 without any lock, then the loop is woken up.          *)
CFRunLoopTimeout(i) ==
  /\ runs[i].timeout = "passed"
  /\ runs' = [runs EXCEPT ![i].timeout = "zero"]
  /\ WakeLater
  /\ UNCHANGED <<blocks, sources, valid, signaled, modeStopped, wakeUpPort>>

-----------------------------------------------------------------------------
(* CFRunLoopRunSpecific                                                    *)

ModeIsEmpty(m) ==
  /\ sources[m] = {}
  /\ \A i \in DOMAIN blocks : m \notin BlockModes[blocks[i]]

(* The thread runs its loop: from outside, or again from a callout.  In an *)
(* empty mode nothing happens.                                             *)
CFRunLoopRunSpecific(m, seconds, stopAfterHandle) ==
  /\ runs # <<>> => Top.out = "call" /\ Top.at \in NestFrom
  /\ Len(runs) < MaxDepth
  /\ ~ModeIsEmpty(m)
  /\ runs' = Append(runs, Activation(m, seconds, stopAfterHandle))
  /\ UNCHANGED <<blocks, sources, valid, signaled, modeStopped, wakeUpPort, waking>>

DoObservers(activity) ==
  /\ At(activity)
  /\ IF Observes(activity) THEN Becomes([Top EXCEPT !.out = "call"]) ELSE GoTo(After(activity))
  /\ UNCHANGED <<blocks, sources, valid, signaled, modeStopped, wakeUpPort, waking>>

(* A callout returns: the loop goes on, or goes on with its walk.          *)
CalloutReturns ==
  /\ runs # <<>> /\ Top.out = "call"
  /\ Becomes(IF Top.at \in Activities \cup {"handle"}
             THEN [Top EXCEPT !.out = "no", !.at = Reach(After(@))]
             ELSE [Top EXCEPT !.out = "walk"])
  /\ UNCHANGED <<blocks, sources, valid, signaled, modeStopped, wakeUpPort, waking>>

-----------------------------------------------------------------------------
(* __CFRunLoopRun                                                          *)

Stops == Top.stopped \/ Top.mode \in modeStopped

(* One stop is used up, that of the activation before that of the mode.    *)
UseStop(step) ==
  /\ Becomes([Top EXCEPT !.stopped = FALSE, !.at = Reach(step)])
  /\ modeStopped' = IF Top.stopped THEN modeStopped ELSE modeStopped \ {Top.mode}

Start ==
  /\ At("start")
  /\ IF Stops THEN UseStop("exit") ELSE GoTo("top") /\ UNCHANGED modeStopped
  /\ UNCHANGED <<blocks, sources, valid, signaled, wakeUpPort, waking>>

(* Mutant: wake-ups are still ignored while the loop looks for work.       *)
LoopTop_IgnoresWakeUps ==
  /\ At("top")
  /\ Becomes([Top EXCEPT !.handled = FALSE, !.poll = FALSE, !.livePort = {}, !.at = Reach("beforeTimers")])
  /\ UNCHANGED <<blocks, sources, valid, signaled, modeStopped, wakeUpPort, waking>>

LoopTop ==
  /\ At("top")
  /\ Becomes([Top EXCEPT !.ignoreWakeUps = FALSE, !.handled = FALSE, !.poll = FALSE,
                         !.livePort = {}, !.at = Reach("beforeTimers")])
  /\ UNCHANGED <<blocks, sources, valid, signaled, modeStopped, wakeUpPort, waking>>

(* __CFRunLoopDoBlocks detaches the list, walks over it without the locks, *)
(* and puts back before newer blocks what may not run in this mode.        *)
DetachBlocks ==
  /\ \E step \in BlockSteps : At(step)
  /\ IF blocks = <<>>
     THEN GoTo(After(Top.at)) /\ UNCHANGED blocks
     ELSE /\ Becomes([Top EXCEPT !.items = blocks, !.out = "walk"])
          /\ blocks' = <<>>
  /\ UNCHANGED <<sources, valid, signaled, modeStopped, wakeUpPort, waking>>

WalksBlocks == runs # <<>> /\ Top.out = "walk" /\ Top.at \in BlockSteps
RunnableItems == {i \in DOMAIN Top.items : Top.mode \in BlockModes[Top.items[i]]}

CallBlock ==
  /\ WalksBlocks
  /\ \E i \in RunnableItems :
       /\ \A j \in RunnableItems : i <= j
       /\ Becomes([Top EXCEPT !.kept = @ \o SubSeq(Top.items, 1, i - 1),
                              !.items = SubSeq(@, i + 1, Len(@)),
                              !.out = "call"])
  /\ UNCHANGED <<blocks, sources, valid, signaled, modeStopped, wakeUpPort, waking>>

(* Mutant: what was left over goes to the end of the list.                 *)
ReattachBlocks_AtTail ==
  /\ WalksBlocks /\ RunnableItems = {}
  /\ blocks' = blocks \o Top.kept \o Top.items
  /\ Becomes([Top EXCEPT !.items = <<>>, !.kept = <<>>, !.out = "no", !.at = Reach(After(@))])
  /\ UNCHANGED <<sources, valid, signaled, modeStopped, wakeUpPort, waking>>

ReattachBlocks ==
  /\ WalksBlocks /\ RunnableItems = {}
  /\ blocks' = Top.kept \o Top.items \o blocks
  /\ Becomes([Top EXCEPT !.items = <<>>, !.kept = <<>>, !.out = "no", !.at = Reach(After(@))])
  /\ UNCHANGED <<sources, valid, signaled, modeStopped, wakeUpPort, waking>>

(* __CFRunLoopDoSources0 collects with the locks and performs without.     *)
CollectSources0 ==
  /\ At("sources0")
  /\ LET found == sources[Top.mode] \cap Version0 \cap valid \cap signaled
     IN IF found = {} THEN GoTo(After("sources0"))
        ELSE Becomes([Top EXCEPT !.collected = found, !.out = "walk"])
  /\ UNCHANGED <<blocks, sources, valid, signaled, modeStopped, wakeUpPort, waking>>

WalksSources == runs # <<>> /\ Top.out = "walk" /\ Top.at = "sources0"
SourcesDone == Top.collected = {} \/ (Top.stopAfterHandle /\ Top.handled)

(* A source may have been performed or invalidated since it was collected. *)
PerformSource0 ==
  /\ WalksSources /\ ~SourcesDone
  /\ \E s \in Top.collected :
       /\ \A q \in Top.collected : Order[s] <= Order[q]
       /\ signaled' = signaled \ {s}
       /\ LET rest == [Top EXCEPT !.collected = @ \ {s}]
          IN Becomes(IF s \in signaled \cap valid
                     THEN [rest EXCEPT !.out = "call", !.handled = TRUE] ELSE rest)
  /\ UNCHANGED <<blocks, sources, valid, modeStopped, wakeUpPort, waking>>

EndSources0 ==
  /\ WalksSources /\ SourcesDone
  /\ Becomes([Top EXCEPT !.collected = {}, !.out = "no", !.at = Reach(After(@))])
  /\ UNCHANGED <<blocks, sources, valid, signaled, modeStopped, wakeUpPort, waking>>

(* Mutant: the loop waits although it has just handled a source.           *)
DecidePoll_IgnoresHandled ==
  /\ At("poll")
  /\ LET poll == Top.timeout = "zero"
     IN Becomes([Top EXCEPT !.poll = poll, !.at = IF poll THEN "wait" ELSE Reach("beforeWaiting")])
  /\ UNCHANGED <<blocks, sources, valid, signaled, modeStopped, wakeUpPort, waking>>

(* The loop does not wait after it has handled a source, nor when the      *)
(* dispatch timer has fired.                                               *)
DecidePoll ==
  /\ At("poll")
  /\ LET poll == Top.handled \/ Top.timeout = "zero"
     IN Becomes([Top EXCEPT !.poll = poll, !.at = IF poll THEN "wait" ELSE Reach("beforeWaiting")])
  /\ UNCHANGED <<blocks, sources, valid, signaled, modeStopped, wakeUpPort, waking>>

(* __CFRunLoopServiceMachPort takes a message from one of the ports of the *)
(* mode, or none if it only polls.                                         *)
Messages == sources[Top.mode] \cap Version1 \cap signaled

ReceiveWakeUp ==
  /\ At("wait") /\ wakeUpPort
  /\ wakeUpPort' = FALSE
  /\ GoTo("awake")
  /\ UNCHANGED <<blocks, sources, valid, signaled, modeStopped, waking>>

ReceiveMessage ==
  /\ At("wait")
  /\ \E s \in Messages :
       /\ signaled' = signaled \ {s}
       /\ Becomes([Top EXCEPT !.livePort = {s}, !.at = "awake"])
  /\ UNCHANGED <<blocks, sources, valid, modeStopped, wakeUpPort, waking>>

ReceiveNothing ==
  /\ At("wait") /\ Top.poll /\ ~wakeUpPort /\ Messages = {}
  /\ GoTo("awake")
  /\ UNCHANGED <<blocks, sources, valid, signaled, modeStopped, wakeUpPort, waking>>

Awake ==
  /\ At("awake")
  /\ Becomes([Top EXCEPT !.ignoreWakeUps = TRUE,
                         !.at = IF Top.poll THEN "handle" ELSE Reach("afterWaiting")])
  /\ UNCHANGED <<blocks, sources, valid, signaled, modeStopped, wakeUpPort, waking>>

(* __CFRunLoopDoSource1, if the port still belongs to a source of the mode.*)
HandleMessage ==
  /\ At("handle")
  /\ IF Top.livePort \cap sources[Top.mode] \cap valid # {}
     THEN Becomes([Top EXCEPT !.out = "call", !.handled = TRUE])
     ELSE GoTo(After("handle"))
  /\ UNCHANGED <<blocks, sources, valid, signaled, modeStopped, wakeUpPort, waking>>

Decide ==
  /\ At("decide")
  /\ IF (Top.handled /\ Top.stopAfterHandle) \/ Top.timeout \in {"passed", "zero"}
     THEN GoTo("exit") /\ UNCHANGED modeStopped
     ELSE IF Stops THEN UseStop("exit")
     ELSE GoTo(IF ModeIsEmpty(Top.mode) THEN "exit" ELSE "top") /\ UNCHANGED modeStopped
  /\ UNCHANGED <<blocks, sources, valid, signaled, wakeUpPort, waking>>

(* The per-run data go, with whatever stop they hold by now.               *)
Leave ==
  /\ At("leave")
  /\ runs' = Front(runs)
  /\ UNCHANGED <<blocks, sources, valid, signaled, modeStopped, wakeUpPort, waking>>

-----------------------------------------------------------------------------
Init ==
  /\ blocks = <<>>
  /\ sources = [m \in Modes |-> {}]
  /\ valid = Sources
  /\ signaled = {}
  /\ modeStopped = {}
  /\ wakeUpPort = FALSE
  /\ runs = <<>>
  /\ waking = 0

Others ==
  \/ \E b \in Blocks : CFRunLoopPerformBlock(b)
  \/ \E s \in Sources : CFRunLoopSourceSignal(s) \/ CFRunLoopSourceInvalidate(s) \/ RemoveInvalidated(s)
  \/ \E s \in Sources, m \in Modes : CFRunLoopAddSource(s, m) \/ CFRunLoopRemoveSource(s, m)
  \/ CFRunLoopStop
  \/ \E m \in StopModes : CFRunLoopStopMode(m)
  \/ \E i \in DOMAIN runs : TimePasses(i)

(* Threads that have begun something.                                      *)
Helpers == CFRunLoopWakeUp \/ (\E i \in DOMAIN runs : CFRunLoopTimeout(i))

Run ==
  \E call \in Calls : CFRunLoopRunSpecific(call[1], call[2], call[3])

Loop ==
  \/ \E activity \in Activities : DoObservers(activity)
  \/ CalloutReturns \/ Start \/ LoopTop
  \/ DetachBlocks \/ CallBlock \/ ReattachBlocks
  \/ CollectSources0 \/ PerformSource0 \/ EndSources0
  \/ DecidePoll \/ ReceiveWakeUp \/ ReceiveMessage \/ ReceiveNothing
  \/ Awake \/ HandleMessage \/ Decide \/ Leave

Next == Others \/ Helpers \/ Run \/ Loop

Spec == Init /\ [][Next]_vars

(* The loop's thread runs and its callouts return; who has to wake up a    *)
(* loop that waits gets the lock, which is free then.                      *)
FairSpec == Spec /\ WF_vars(Loop) /\ WF_vars(CFRunLoopWakeUp)
                 /\ \A i \in 1..MaxDepth : WF_vars(i \in DOMAIN runs /\ CFRunLoopTimeout(i))

-----------------------------------------------------------------------------
(* Properties                                                              *)

ActivationType ==
  [mode : Modes, stopped : BOOLEAN, ignoreWakeUps : BOOLEAN, stopAfterHandle : BOOLEAN,
   timeout : {"never", "armed", "passed", "zero"},
   at : Activities \cup BlockSteps \cup
        {"start", "top", "sources0", "poll", "wait", "awake", "handle", "decide", "leave"},
   out : {"no", "walk", "call"}, items : Seq(Blocks), kept : Seq(Blocks),
   collected : SUBSET Version0, handled : BOOLEAN, poll : BOOLEAN, livePort : SUBSET Version1]

(* Types; an invalid source is not signaled, and an activation that has    *)
(* another one above it is in a callout.                                   *)
TypeOK ==
  /\ blocks \in Seq(Blocks)
  /\ sources \in [Modes -> SUBSET Sources]
  /\ valid \subseteq Sources
  /\ signaled \subseteq valid
  /\ modeStopped \subseteq Modes
  /\ wakeUpPort \in BOOLEAN
  /\ runs \in Seq(ActivationType)
  /\ \A i \in 1..Len(runs) - 1 : runs[i].out = "call"
  /\ waking \in 0..MaxWaking

(* CFRunLoop.c:2669: no wake-up is lost.  A loop that sleeps, with nobody  *)
(* about to wake it up, has nothing to do: no block, no signaled source,   *)
(* no stop and no timeout has been missed between the place where the loop *)
(* looks for it and the place where it falls asleep.                       *)
NoLostWakeUp ==
  At("wait") /\ ~Top.poll /\ ~wakeUpPort /\ waking = 0 =>
    /\ \A b \in Waiting : Top.mode \notin BlockModes[b]
    /\ sources[Top.mode] \cap Version0 \cap signaled = {}
    /\ ~Stops
    /\ Top.timeout # "zero"

(* All blocks that wait, those of the outermost activation first.          *)
DetachedBy[n \in Nat] ==
  IF n = 0 THEN <<>> ELSE DetachedBy[n - 1] \o runs[n].kept \o runs[n].items
Detached == DetachedBy[Len(runs)]
Pending == Detached \o blocks
Queue == INSTANCE BlockQueue WITH queue <- Pending

(* Blocks run once, in the mode of the run, and in the order in which they *)
(* were handed over, although the loop takes the list apart, lets others   *)
(* add to it while it calls out, and puts the rest of it back.             *)
BlocksSpec ==
  /\ Queue!Init
  /\ [][\/ \E b \in Blocks : Queue!Post(b)
        \/ runs # <<>> /\ Queue!Perform(Top.mode)]_Pending

(* An activation that is told to stop, or whose time is over, ends, unless *)
(* one of its callouts runs the loop again.                                *)
EndsWhenTold ==
  \A n \in 1..MaxDepth :
    (Len(runs) = n /\ (Stops \/ Top.timeout \in {"passed", "zero"})) ~> (Len(runs) # n)

(* A block that may run in the mode of the only activation does, unless    *)
(* the activation ends or one of its callouts runs the loop again.         *)
BlocksGetRun ==
  \A b \in Blocks :
    (Len(runs) = 1 /\ b \in Waiting /\ Top.mode \in BlockModes[b])
      ~> (Len(runs) # 1 \/ b \notin Waiting)

=============================================================================
