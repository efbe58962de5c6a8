---------------------------- MODULE RunLoopProof ----------------------------
(***************************************************************************)
(* Proofs about RunLoop: the types of the loop's state, that no wake-up is *)
(* lost as long as only callouts that are Harmless run the loop again, and *)
(* that blocks run in the order in which they were handed over.            *)
(***************************************************************************)
EXTENDS RunLoopInv, TLAPS, SequenceTheorems, WellFoundedInduction

(* A step leaves all of the state outside the activations in its types.    *)
Typed ==
  /\ blocks \in Seq(Blocks)
  /\ sources \in [Modes -> SUBSET Sources]
  /\ valid \subseteq Sources
  /\ signaled \subseteq valid
  /\ modeStopped \subseteq Modes
  /\ wakeUpPort \in BOOLEAN
  /\ waking \in 0..MaxWaking

LEMMA Tops ==
  ASSUME TypeOK, runs # <<>>
  PROVE  /\ Len(runs) \in Nat \ {0} /\ DOMAIN runs = 1..Len(runs)
         /\ Len(runs) \in DOMAIN runs
         /\ Top = runs[Len(runs)] /\ Top \in ActivationType
         /\ \A i \in DOMAIN runs : runs[i] \in ActivationType
BY DEF TypeOK, Top, Last

LEMMA BecomesRuns ==
  ASSUME TypeOK, runs # <<>>, NEW r \in ActivationType, Becomes(r)
  PROVE  /\ runs' \in Seq(ActivationType) /\ runs' # <<>>
         /\ Len(runs') = Len(runs) /\ DOMAIN runs' = DOMAIN runs
         /\ Top' = r /\ runs'[Len(runs)] = r
         /\ \A i \in 1..Len(runs) - 1 : runs'[i] = runs[i]
<1>1. Len(runs) \in Nat \ {0} /\ DOMAIN runs = 1..Len(runs) /\ runs \in Seq(ActivationType)
  BY Tops DEF TypeOK
<1>2. runs' = [runs EXCEPT ![Len(runs)] = r]
  BY DEF Becomes
<1>3. runs' \in Seq(ActivationType) /\ Len(runs') = Len(runs) /\ DOMAIN runs' = DOMAIN runs
  BY <1>1, <1>2
<1>4. \A j \in 1..Len(runs) : runs'[j] = IF j = Len(runs) THEN r ELSE runs[j]
  BY <1>1, <1>2, ExceptSeq
<1>5. runs'[Len(runs)] = r /\ \A i \in 1..Len(runs) - 1 : runs'[i] = runs[i]
  <2>1. PICK n \in Nat \ {0} : n = Len(runs)
    BY <1>1
  <2>2. \A j \in 1..n : runs'[j] = IF j = n THEN r ELSE runs[j]
    BY <1>4, <2>1
  <2>3. n \in 1..n /\ \A i \in 1..n - 1 : i \in 1..n /\ i # n
    OBVIOUS
  <2> QED
    BY <2>1, <2>2, <2>3
<1> QED
  BY <1>1, <1>3, <1>5 DEF Top, Last

(* The current activation goes on.                                         *)
LEMMA GoesOn ==
  ASSUME IInv, runs # <<>>, NEW r \in ActivationType, Becomes(r), Placed(r), Typed',
         NestFrom \subseteq Harmless => Attends(r)'
  PROVE  IInv'
<1>1. TypeOK /\ Nested
  BY DEF IInv
<1>2. /\ runs' \in Seq(ActivationType) /\ runs' # <<>>
      /\ Len(runs') = Len(runs) /\ DOMAIN runs' = DOMAIN runs
      /\ Top' = r /\ runs'[Len(runs)] = r
      /\ \A i \in 1..Len(runs) - 1 : runs'[i] = runs[i]
  BY <1>1, BecomesRuns
<1>3. Len(runs) \in Nat \ {0} /\ DOMAIN runs = 1..Len(runs)
  BY <1>1, Tops
<1>4. TypeOK'
  BY <1>1, <1>2, <1>3 DEF TypeOK, Typed
<1>5. Nested'
  <2>1. \A i \in DOMAIN runs' : Placed(runs'[i])
    BY <1>1, <1>2, <1>3 DEF Nested
  <2> QED
    BY <1>1, <1>2, <1>3, <2>1 DEF Nested
<1>6. (NestFrom \subseteq Harmless => NothingMissed)'
  BY <1>2 DEF NothingMissed
<1> QED
  BY <1>4, <1>5, <1>6 DEF IInv

(* What an activation has missed depends on the state outside it.          *)
Outside == <<blocks, sources, signaled, modeStopped, wakeUpPort, waking>>
LEMMA AttendsStays ==
  ASSUME NEW r, Attends(r), UNCHANGED Outside
  PROVE  Attends(r)'
<1>1. UNCHANGED <<blocks, sources, signaled, modeStopped, wakeUpPort, waking>>
  BY DEF Outside
<1> QED
  BY <1>1 DEF Attends, LooksForWork, CameLate, SawBlocks, SawSources, SawTime, HasBlocks,
     HasSources, Awaited

(* Where the current activation is.                                        *)
LEMMA Knows ==
  ASSUME IInv, runs # <<>>
  PROVE  /\ TypeOK /\ Typed /\ Top \in ActivationType /\ Placed(Top)
         /\ NestFrom \subseteq Harmless => Attends(Top)
<1>1. TypeOK /\ Nested
  BY DEF IInv
<1>2. Len(runs) \in DOMAIN runs /\ Top = runs[Len(runs)] /\ Top \in ActivationType
  BY <1>1, Tops
<1>3. Placed(Top)
  BY <1>1, <1>2 DEF Nested
<1> QED
  BY <1>1, <1>2, <1>3 DEF IInv, NothingMissed, TypeOK, Typed

LEMMA Reaches ==
  ASSUME NEW step
  PROVE  /\ step \notin Activities => Reach(step) = step
         /\ step = "beforeTimers" => Reach(step) \in {"beforeTimers", "beforeSources", "blocks1"}
         /\ step = "beforeSources" => Reach(step) \in {"beforeSources", "blocks1"}
         /\ step = "beforeWaiting" => Reach(step) \in {"beforeWaiting", "wait"}
         /\ step = "afterWaiting" => Reach(step) \in {"afterWaiting", "handle"}
         /\ step = "exit" => Reach(step) \in {"exit", "leave"}
<1>1. /\ After("beforeTimers") = "beforeSources" /\ After("beforeSources") = "blocks1"
      /\ After("beforeWaiting") = "wait" /\ After("afterWaiting") = "handle"
      /\ After("exit") = "leave"
  BY DEF After
<1>2. ~Skipped("blocks1") /\ ~Skipped("wait") /\ ~Skipped("handle") /\ ~Skipped("leave")
  BY DEF Skipped, Activities
<1>3. step \notin Activities => ~Skipped(step)
  BY DEF Skipped
<1> QED
  BY <1>1, <1>2, <1>3 DEF Reach

(* A step of the loop that touches nothing outside the activation.         *)
LEMMA GoesOnInside ==
  ASSUME IInv, runs # <<>>, NEW r \in ActivationType, Becomes(r), Placed(r),
         UNCHANGED <<blocks, sources, valid, signaled, modeStopped, wakeUpPort, waking>>,
         Attends(Top) => Attends(r)
  PROVE  IInv'
<1>1. Typed' /\ UNCHANGED Outside
  BY Knows DEF Typed, Outside
<1>2. NestFrom \subseteq Harmless => Attends(r)'
  BY <1>1, Knows, AttendsStays
<1> QED
  BY <1>1, <1>2, GoesOn


-----------------------------------------------------------------------------
(* What other threads do                                                   *)

(* The activations stay as they are.                                       *)
LEMMA Undisturbed ==
  ASSUME IInv, UNCHANGED runs, Typed',
         runs # <<>> /\ Top.at = "top" => UNCHANGED modeStopped,
         \A f : f = Top /\ runs # <<>> /\ Attends(f) /\ LooksForWork(f) /\ CameLate(f)' => Awaited'
  PROVE  IInv'
<1>1. TypeOK /\ Nested
  BY DEF IInv
<1>2. TypeOK'
  BY <1>1 DEF TypeOK, Typed
<1>3. Nested'
  BY <1>1 DEF Nested
<1>4. NothingMissed => NothingMissed'
  <2> SUFFICES ASSUME runs # <<>>, Attends(Top) PROVE Attends(Top)'
    BY DEF NothingMissed
  <2>1. PICK f : f = Top
    OBVIOUS
  <2>2. Attends(f)'
    BY <2>1 DEF Attends, LooksForWork
  <2> QED
    BY <2>1, <2>2 DEF Top
<1> QED
  BY <1>2, <1>3, <1>4 DEF IInv

LEMMA WokenLater ==
  ASSUME Typed, WakeLater
  PROVE  waking' \in 0..MaxWaking /\ Awaited'
BY RunLoopAssumption DEF Typed, WakeLater, Awaited

(* The loop does not give up its lock at the top.                          *)
LEMMA LockedAtTop ==
  ASSUME IInv, runs # <<>>, Top.at = "top"
  PROVE  ~Unlocked
BY Knows DEF Unlocked, Placed, Activities, BlockSteps, ActivationType

LEMMA TypedNow ==
  ASSUME IInv
  PROVE  Typed
BY DEF IInv, TypeOK, Typed

LEMMA PerformBlockStep ==
  ASSUME IInv, NEW b \in Blocks, CFRunLoopPerformBlock(b)
  PROVE  IInv'
<1>1. /\ blocks' = Append(blocks, b) /\ WakeLater
      /\ UNCHANGED <<sources, valid, signaled, modeStopped, wakeUpPort, runs>>
  BY DEF CFRunLoopPerformBlock
<1>2. Typed /\ waking' \in 0..MaxWaking /\ Awaited'
  BY <1>1, TypedNow, WokenLater
<1>3. Typed'
  BY <1>1, <1>2, AppendProperties DEF Typed
<1> QED
  BY <1>1, <1>2, <1>3, Undisturbed

LEMMA SourceSignalStep ==
  ASSUME IInv, NEW s \in Sources, CFRunLoopSourceSignal(s)
  PROVE  IInv'
<1>1. /\ s \in valid \ signaled /\ signaled' = signaled \cup {s}
      /\ IF s \in Version1 THEN UNCHANGED waking ELSE WakeLater
      /\ UNCHANGED <<blocks, sources, valid, modeStopped, wakeUpPort, runs>>
  BY DEF CFRunLoopSourceSignal
<1>2. Typed
  BY TypedNow
<1>3. Typed'
  BY <1>1, <1>2, WokenLater DEF Typed
<1>4. ASSUME NEW f, Attends(f), LooksForWork(f), CameLate(f)'
      PROVE  Awaited'
  <2>1. CASE s \notin Version1
    BY <1>1, <1>2, <2>1, WokenLater
  <2>2. CASE s \in Version1
    <3>1. HasSources(f)' => HasSources(f)
      BY <1>1, <2>2 DEF HasSources, Version0
    <3>2. CameLate(f)
      BY <1>1, <1>4, <3>1 DEF CameLate, SawBlocks, SawSources, SawTime, HasBlocks
    <3> QED
      BY <1>1, <1>4, <2>2, <3>2 DEF Attends, Awaited
  <2> QED
    BY <2>1, <2>2
<1> QED
  BY <1>1, <1>3, <1>4, Undisturbed

LEMMA AddSourceStep ==
  ASSUME IInv, NEW s \in Sources, NEW m \in Modes, CFRunLoopAddSource(s, m)
  PROVE  IInv'
<1>1. /\ sources' = [sources EXCEPT ![m] = @ \cup {s}] /\ WakeLater
      /\ UNCHANGED <<blocks, valid, signaled, modeStopped, wakeUpPort, runs>>
  BY DEF CFRunLoopAddSource
<1>2. Typed /\ waking' \in 0..MaxWaking /\ Awaited'
  BY <1>1, TypedNow, WokenLater
<1>3. Typed'
  BY <1>1, <1>2 DEF Typed
<1> QED
  BY <1>1, <1>2, <1>3, Undisturbed

(* There is less to do than before.                                        *)
LEMMA LessToDo ==
  ASSUME IInv, UNCHANGED <<blocks, modeStopped, wakeUpPort, runs, waking>>,
         \A m \in Modes : sources'[m] \subseteq sources[m], signaled' \subseteq signaled,
         Typed'
  PROVE  IInv'
<1>1. ASSUME NEW f, f = Top, runs # <<>>, Attends(f), LooksForWork(f), CameLate(f)'
      PROVE  Awaited'
  <2>1. f.mode \in Modes
    BY <1>1, Knows DEF ActivationType
  <2>2. HasSources(f)' => HasSources(f)
    BY <2>1 DEF HasSources
  <2>3. CameLate(f)
    BY <1>1, <2>2 DEF CameLate, SawBlocks, SawSources, SawTime, HasBlocks
  <2> QED
    BY <1>1, <2>3 DEF Attends, Awaited
<1> QED
  BY <1>1, Undisturbed

LEMMA RemoveSourceStep ==
  ASSUME IInv, NEW s \in Sources, NEW m \in Modes, CFRunLoopRemoveSource(s, m)
  PROVE  IInv'
<1>1. /\ sources' = [sources EXCEPT ![m] = @ \ {s}]
      /\ UNCHANGED <<blocks, valid, signaled, modeStopped, wakeUpPort, runs, waking>>
  BY DEF CFRunLoopRemoveSource
<1>2. Typed' /\ \A n \in Modes : sources'[n] \subseteq sources[n]
  BY <1>1, TypedNow DEF Typed
<1> QED
  BY <1>1, <1>2, LessToDo

LEMMA SourceInvalidateStep ==
  ASSUME IInv, NEW s \in Sources, CFRunLoopSourceInvalidate(s)
  PROVE  IInv'
<1>1. /\ valid' = valid \ {s} /\ signaled' = signaled \ {s}
      /\ UNCHANGED <<blocks, sources, modeStopped, wakeUpPort, runs, waking>>
  BY DEF CFRunLoopSourceInvalidate
<1>2. Typed'
  BY <1>1, TypedNow DEF Typed
<1> QED
  BY <1>1, <1>2, LessToDo

LEMMA RemoveInvalidatedStep ==
  ASSUME IInv, NEW s \in Sources, RemoveInvalidated(s)
  PROVE  IInv'
<1>1. /\ sources' = [m \in Modes |-> sources[m] \ {s}]
      /\ UNCHANGED <<blocks, valid, signaled, modeStopped, wakeUpPort, runs, waking>>
  BY DEF RemoveInvalidated
<1>2. Typed' /\ \A n \in Modes : sources'[n] \subseteq sources[n]
  BY <1>1, TypedNow DEF Typed
<1> QED
  BY <1>1, <1>2, LessToDo

LEMMA StopStep ==
  ASSUME IInv, CFRunLoopStop
  PROVE  IInv'
<1>1. PICK f \in ActivationType : f = Top /\ Placed(f) /\ Typed
  BY Knows DEF CFRunLoopStop
<1>2. /\ Unlocked /\ runs # <<>> /\ WakeLater
      /\ UNCHANGED <<blocks, sources, valid, signaled, modeStopped, wakeUpPort>>
  BY DEF CFRunLoopStop
<1>3. PICK r : r = [f EXCEPT !.stopped = TRUE]
  OBVIOUS
<1>4. /\ r \in ActivationType /\ r.at = f.at /\ r.out = f.out /\ r.items = f.items
      /\ r.kept = f.kept /\ r.mode = f.mode /\ r.handled = f.handled /\ r.poll = f.poll
      /\ r.ignoreWakeUps = f.ignoreWakeUps
  BY <1>3 DEF ActivationType
<1>5. Becomes(r)
  BY <1>1, <1>3 DEF CFRunLoopStop
<1>6. waking' \in 0..MaxWaking /\ Awaited'
  BY <1>1, <1>2, WokenLater
<1>7. Typed' /\ Placed(r)
  BY <1>1, <1>2, <1>4, <1>6 DEF Typed, Placed
<1>8. ASSUME NestFrom \subseteq Harmless PROVE Attends(r)'
  <2>1. Attends(f) /\ f.at # "top"
    BY <1>1, <1>2, <1>8, Knows, LockedAtTop
  <2> QED
    BY <1>4, <1>6, <2>1 DEF Attends, LooksForWork
<1> QED
  BY <1>2, <1>4, <1>5, <1>7, <1>8, GoesOn

LEMMA StopModeStep ==
  ASSUME IInv, NEW m \in StopModes, CFRunLoopStopMode(m)
  PROVE  IInv'
<1>1. /\ Unlocked /\ modeStopped' = modeStopped \cup {m} /\ WakeLater
      /\ UNCHANGED <<blocks, sources, valid, signaled, wakeUpPort, runs>>
  BY DEF CFRunLoopStopMode
<1>2. Typed /\ waking' \in 0..MaxWaking /\ Awaited'
  BY <1>1, TypedNow, WokenLater
<1>3. Typed'
  BY <1>1, <1>2, RunLoopAssumption DEF Typed
<1>4. ~(runs # <<>> /\ Top.at = "top")
  BY <1>1, LockedAtTop
<1> QED
  BY <1>1, <1>2, <1>3, <1>4, Undisturbed

LEMMA WakeUpStep ==
  ASSUME IInv, CFRunLoopWakeUp
  PROVE  IInv'
<1>1. /\ waking > 0 /\ waking' = waking - 1
      /\ wakeUpPort' = (wakeUpPort \/ (runs # <<>> /\ ~Top.ignoreWakeUps))
      /\ UNCHANGED <<blocks, sources, valid, signaled, modeStopped, runs>>
  BY DEF CFRunLoopWakeUp
<1>2. Typed'
  <2>1. wakeUpPort' \in BOOLEAN
    BY <1>1
  <2>2. waking' \in 0..MaxWaking
    BY <1>1, TypedNow, RunLoopAssumption DEF Typed
  <2> QED
    BY <1>1, <2>1, <2>2, TypedNow DEF Typed
<1>3. ASSUME NEW f, f = Top, runs # <<>>, Attends(f), LooksForWork(f), CameLate(f)'
      PROVE  Awaited'
  BY <1>1, <1>3 DEF Attends, Awaited
<1> QED
  BY <1>1, <1>2, <1>3, Undisturbed

(* The time of an activation, which need not be the current one, passes.   *)
LEMMA TimeoutChanges ==
  ASSUME IInv, NEW i \in DOMAIN runs, NEW x \in {"passed", "zero"},
         runs' = [runs EXCEPT ![i].timeout = x], Typed',
         UNCHANGED <<blocks, sources, signaled, modeStopped, wakeUpPort>>,
         (x = "passed" /\ UNCHANGED waking) \/ Awaited'
  PROVE  IInv'
<1>1. TypeOK /\ Nested /\ runs \in Seq(ActivationType) /\ runs # <<>>
  BY DEF IInv, TypeOK
<1>2. Len(runs) \in Nat \ {0} /\ DOMAIN runs = 1..Len(runs) /\ runs[i] \in ActivationType
  BY <1>1, Tops
<1>3. PICK f \in ActivationType : f = runs[i]
  BY <1>2
<1>4. PICK g : g = [f EXCEPT !.timeout = x]
  OBVIOUS
<1>5. /\ g \in ActivationType /\ g.at = f.at /\ g.out = f.out /\ g.items = f.items
      /\ g.kept = f.kept /\ g.mode = f.mode /\ g.handled = f.handled /\ g.poll = f.poll
      /\ g.ignoreWakeUps = f.ignoreWakeUps /\ g.stopped = f.stopped
      /\ g.collected = f.collected /\ g.timeout = x
  BY <1>4 DEF ActivationType
<1>6. runs' = [runs EXCEPT ![i] = g]
  BY <1>3, <1>4
<1>7. /\ runs' \in Seq(ActivationType) /\ Len(runs') = Len(runs) /\ DOMAIN runs' = DOMAIN runs
      /\ \A j \in 1..Len(runs) : runs'[j] = IF j = i THEN g ELSE runs[j]
  BY <1>1, <1>2, <1>5, <1>6, ExceptSeq
<1>8. TypeOK'
  <2>1. \A j \in 1..Len(runs') - 1 : runs'[j].out = "call"
    BY <1>1, <1>2, <1>3, <1>5, <1>7 DEF TypeOK
  <2> QED
    BY <1>7, <2>1 DEF TypeOK, Typed
<1>9. Nested'
  <2>1. Placed(g)
    BY <1>1, <1>3, <1>5 DEF Nested, Placed
  <2>2. \A j \in DOMAIN runs' : Placed(runs'[j])
    BY <1>1, <1>2, <1>7, <2>1 DEF Nested
  <2>3. \A j \in 1..Len(runs') - 1 : runs'[j].at \in NestFrom
    BY <1>1, <1>2, <1>3, <1>5, <1>7 DEF Nested
  <2> QED
    BY <2>2, <2>3 DEF Nested
<1>10. ASSUME NestFrom \subseteq Harmless PROVE NothingMissed'
  <2>1. PICK h : h = Top
    OBVIOUS
  <2>2. Attends(h) /\ h = runs[Len(runs)]
    BY <1>1, <1>10, <2>1, Knows, Tops
  <2>3. PICK r : r = Top'
    OBVIOUS
  <2>4. r = IF Len(runs) = i THEN g ELSE h
    BY <1>2, <1>7, <2>2, <2>3 DEF Top, Last
  <2>5. Attends(r)'
    <3>1. CASE Len(runs) # i /\ UNCHANGED waking
      BY <2>2, <2>4, <3>1, AttendsStays DEF Outside
    <3>2. CASE Len(runs) = i /\ x = "passed" /\ UNCHANGED waking
      <4>1. h = f /\ r = g
        BY <1>3, <2>2, <2>4, <3>2
      <4>2. Attends(g)
        BY <1>5, <2>2, <3>2, <4>1 DEF Attends, LooksForWork, CameLate, SawBlocks, SawSources,
           SawTime, HasBlocks, HasSources
      <4> QED
        BY <3>2, <4>1, <4>2, AttendsStays DEF Outside
    <3>3. CASE Awaited'
      <4>1. /\ r.at = h.at /\ r.handled = h.handled /\ r.ignoreWakeUps = h.ignoreWakeUps
            /\ r.stopped = h.stopped /\ r.mode = h.mode
        BY <1>3, <1>5, <2>2, <2>4
      <4> QED
        BY <2>2, <3>3, <4>1 DEF Attends, LooksForWork
    <3> QED
      BY <3>1, <3>2, <3>3
  <2> QED
    BY <2>3, <2>5 DEF NothingMissed
<1> QED
  BY <1>8, <1>9, <1>10 DEF IInv

LEMMA TimePassesStep ==
  ASSUME IInv, NEW i \in DOMAIN runs, TimePasses(i)
  PROVE  IInv'
<1>1. /\ runs' = [runs EXCEPT ![i].timeout = "passed"]
      /\ UNCHANGED <<blocks, sources, valid, signaled, modeStopped, wakeUpPort, waking>>
  BY DEF TimePasses
<1>2. Typed'
  BY <1>1, TypedNow DEF Typed
<1> QED
  BY <1>1, <1>2, TimeoutChanges

LEMMA TimeoutStep ==
  ASSUME IInv, NEW i \in DOMAIN runs, CFRunLoopTimeout(i)
  PROVE  IInv'
<1>1. /\ runs' = [runs EXCEPT ![i].timeout = "zero"] /\ WakeLater
      /\ UNCHANGED <<blocks, sources, valid, signaled, modeStopped, wakeUpPort>>
  BY DEF CFRunLoopTimeout
<1>2. Typed /\ waking' \in 0..MaxWaking /\ Awaited'
  BY <1>1, TypedNow, WokenLater
<1>3. Typed'
  BY <1>1, <1>2 DEF Typed
<1> QED
  BY <1>1, <1>2, <1>3, TimeoutChanges


-----------------------------------------------------------------------------
(* Activations begin and end                                               *)

LEMMA RunSpecificStep ==
  ASSUME IInv, NEW call \in Calls, CFRunLoopRunSpecific(call[1], call[2], call[3])
  PROVE  IInv'
<1>1. PICK r : r = Activation(call[1], call[2], call[3])
  OBVIOUS
<1>2. /\ runs # <<>> => Top.out = "call" /\ Top.at \in NestFrom
      /\ runs' = Append(runs, r)
      /\ UNCHANGED <<blocks, sources, valid, signaled, modeStopped, wakeUpPort, waking>>
  BY <1>1 DEF CFRunLoopRunSpecific
<1>3. /\ r \in ActivationType /\ r.at = "entry" /\ r.out = "no" /\ r.items = <<>>
      /\ r.kept = <<>>
  <2>1. call[1] \in Modes /\ call[2] \in {"never", "armed", "zero"} /\ call[3] \in BOOLEAN
    BY RunLoopAssumption
  <2> QED
    BY <1>1, <2>1 DEF Activation, ActivationType, Activities
<1>4. Placed(r)
  BY <1>3 DEF Placed, BlockSteps
<1>5. TypeOK /\ Nested /\ runs \in Seq(ActivationType)
  BY DEF IInv, TypeOK
<1>6. PICK n \in Nat : n = Len(runs)
  BY <1>5
<1>7. /\ runs' \in Seq(ActivationType) /\ Len(runs') = n + 1 /\ DOMAIN runs' = 1..n + 1
      /\ runs'[n + 1] = r /\ \A i \in 1..n : runs'[i] = runs[i]
  BY <1>2, <1>3, <1>5, <1>6, AppendProperties
<1>8. Top' = r
  BY <1>6, <1>7 DEF Top, Last
<1>9. \A i \in 1..n : runs'[i].out = "call" /\ runs'[i].at \in NestFrom
  <2> SUFFICES ASSUME NEW i \in 1..n PROVE runs[i].out = "call" /\ runs[i].at \in NestFrom
    BY <1>7
  <2>1. CASE i \in 1..n - 1
    BY <1>5, <1>6, <2>1 DEF TypeOK, Nested
  <2>2. CASE i = n
    BY <1>2, <1>5, <1>6, <2>2, Tops
  <2> QED
    BY <2>1, <2>2
<1>10. TypeOK'
  BY <1>2, <1>5, <1>7, <1>9 DEF TypeOK
<1>11. Nested'
  <2>1. \A i \in DOMAIN runs' : Placed(runs'[i])
    <3>1. \A i \in 1..n : Placed(runs[i])
      BY <1>5, <1>6 DEF Nested
    <3> QED
      BY <1>4, <1>6, <1>7, <3>1
  <2> QED
    BY <1>6, <1>7, <1>9, <2>1 DEF Nested
<1>12. NothingMissed'
  <2>1. Attends(r)'
    BY <1>3 DEF Attends, LooksForWork
  <2> QED
    BY <1>8, <2>1 DEF NothingMissed
<1> QED
  BY <1>10, <1>11, <1>12 DEF IInv

(* The activation below, which is in a callout that does no harm, has      *)
(* nothing to miss.                                                        *)
LEMMA LeaveStep ==
  ASSUME IInv, Leave
  PROVE  IInv'
<1>1. /\ runs # <<>> /\ runs' = Front(runs)
      /\ UNCHANGED <<blocks, sources, valid, signaled, modeStopped, wakeUpPort, waking>>
  BY DEF Leave, At
<1>2. TypeOK /\ Nested /\ runs \in Seq(ActivationType)
  BY DEF IInv, TypeOK
<1>3. PICK n \in Nat : n = Len(runs) /\ n > 0
  <2>1. Len(runs) \in Nat \ {0}
    BY <1>1, <1>2, Tops
  <2> QED
    BY <2>1
<1>4. /\ runs' \in Seq(ActivationType) /\ Len(runs') = n - 1 /\ DOMAIN runs' = 1..n - 1
      /\ \A i \in 1..n - 1 : runs'[i] = runs[i]
  BY <1>1, <1>2, <1>3, SubSeqProperties DEF Front
<1>5. TypeOK'
  BY <1>1, <1>2, <1>3, <1>4 DEF TypeOK
<1>6. Nested'
  <2>1. \A i \in DOMAIN runs' : Placed(runs'[i])
    BY <1>2, <1>3, <1>4, Tops, <1>1 DEF Nested
  <2> QED
    BY <1>2, <1>3, <1>4, <2>1 DEF Nested
<1>7. ASSUME NestFrom \subseteq Harmless PROVE NothingMissed'
  <2> SUFFICES ASSUME runs' # <<>> PROVE Attends(Top)'
    BY DEF NothingMissed
  <2>1. PICK f : f = Top'
    OBVIOUS
  <2>2. n - 1 > 0 /\ f = runs[n - 1]
    BY <1>3, <1>4, <2>1 DEF Top, Last
  <2>3. f.out = "call" /\ f.at \in Harmless /\ Placed(f)
    <3>1. PICK i \in 1..Len(runs) - 1 : i = n - 1
      BY <1>3, <2>2
    <3>2. runs[i].out = "call"
      BY <1>2 DEF TypeOK
    <3>3. runs[i].at \in NestFrom
      BY <1>2 DEF Nested
    <3>4. i \in DOMAIN runs'
      BY <1>3, <1>4, <3>1
    <3>5. runs'[i] = runs[i] /\ Placed(runs'[i])
      BY <1>3, <1>4, <1>6, <3>1, <3>4 DEF Nested
    <3> QED
      BY <1>7, <2>2, <3>1, <3>2, <3>3, <3>5
  <2>4. Attends(f)'
    BY <2>3 DEF Attends, LooksForWork, Harmless, Placed
  <2> QED
    BY <2>1, <2>4
<1> QED
  BY <1>5, <1>6, <1>7 DEF IInv

-----------------------------------------------------------------------------
(* The steps of the loop                                                   *)

(* Where activities, and callouts of the loop, lead to.                    *)
Next1(step) ==
  CASE step = "entry" -> {"start"}
    [] step = "beforeTimers" -> {"beforeSources", "blocks1"}
    [] step = "beforeSources" -> {"blocks1"}
    [] step = "beforeWaiting" -> {"wait"}
    [] step = "afterWaiting" -> {"handle"}
    [] step = "handle" -> {"blocks3"}
    [] step = "exit" -> {"leave"}

LEMMA AfterActivities ==
  ASSUME NEW step \in Activities \cup {"handle"}
  PROVE  Reach(After(step)) \in Next1(step)
<1>1. After(step) \in {"start", "beforeSources", "blocks1", "wait", "handle", "blocks3", "leave"}
  BY DEF After, Activities
<1>2. step = "beforeTimers" => After(step) = "beforeSources"
  BY DEF After
<1>3. CASE step = "beforeTimers"
  BY <1>2, <1>3, Reaches DEF Next1
<1>4. CASE step # "beforeTimers"
  <2>1. After(step) \in Next1(step) /\ After(step) \notin Activities
    BY <1>4 DEF After, Next1, Activities
  <2> QED
    BY <2>1, Reaches
<1> QED
  BY <1>3, <1>4

(* An activity, or a callout that returns, is over.                        *)
LEMMA IsOver ==
  ASSUME IInv, runs # <<>>, Top.at \in Activities \cup {"handle"}, NEW f, f = Top,
         Becomes([f EXCEPT !.out = "no", !.at = Reach(After(@))]),
         UNCHANGED <<blocks, sources, valid, signaled, modeStopped, wakeUpPort, waking>>
  PROVE  IInv'
<1>1. f \in ActivationType /\ Placed(f)
  BY Knows
<1>2. PICK step : step = Reach(After(f.at))
  OBVIOUS
<1>3. step \in Next1(f.at)
  BY <1>2, AfterActivities
<1>4. PICK r : r = [f EXCEPT !.at = step, !.out = "no"]
  OBVIOUS
<1>5. Becomes(r)
  BY <1>1, <1>2, <1>4 DEF ActivationType
<1>6. step \in {"start", "beforeSources", "blocks1", "wait", "handle", "blocks3", "leave"}
  BY <1>3 DEF Next1, Activities
<1>7. /\ r \in ActivationType /\ r.at = step /\ r.out = "no"
      /\ r.items = f.items /\ r.kept = f.kept /\ r.mode = f.mode
      /\ r.handled = f.handled /\ r.poll = f.poll /\ r.ignoreWakeUps = f.ignoreWakeUps
      /\ r.stopped = f.stopped /\ r.timeout = f.timeout /\ r.collected = f.collected
  <2>1. PICK q : q = [f EXCEPT !.at = step]
    OBVIOUS
  <2>2. /\ q \in ActivationType /\ q.at = step
        /\ q.items = f.items /\ q.kept = f.kept /\ q.mode = f.mode
        /\ q.handled = f.handled /\ q.poll = f.poll /\ q.ignoreWakeUps = f.ignoreWakeUps
        /\ q.stopped = f.stopped /\ q.timeout = f.timeout /\ q.collected = f.collected
    BY <1>1, <1>6, <2>1 DEF ActivationType, BlockSteps, Activities
  <2>3. r = [q EXCEPT !.out = "no"]
    BY <1>1, <1>4, <2>1 DEF ActivationType
  <2> QED
    BY <2>2, <2>3 DEF ActivationType
<1>8. Placed(r)
  <2>1. step = "wait" => f.at = "beforeWaiting"
    BY <1>3 DEF Next1, Activities
  <2> QED
    BY <1>1, <1>6, <1>7, <2>1 DEF Placed, Activities, BlockSteps
<1>9. Attends(f) => Attends(r)
  <2>1. LooksForWork(r) => f.at \in {"beforeTimers", "beforeSources", "beforeWaiting"}
    BY <1>3, <1>7 DEF Next1, Activities, LooksForWork
  <2>2. step = "wait" <=> f.at = "beforeWaiting"
    BY <1>3 DEF Next1, Activities
  <2>3. HasBlocks(r) = HasBlocks(f)
    BY <1>7 DEF HasBlocks
  <2>4. step = "wait" => (HasSources(r) <=> HasSources(f))
    BY <1>7, <2>2 DEF HasSources
  <2> QED
    BY <1>6, <1>7, <2>1, <2>2, <2>3, <2>4
    DEF Attends, LooksForWork, CameLate, SawBlocks, SawSources, SawTime
<1> QED
  BY <1>5, <1>7, <1>8, <1>9, GoesOnInside

LEMMA DoObserversStep ==
  ASSUME IInv, NEW activity \in Activities, DoObservers(activity)
  PROVE  IInv'
<1>1. PICK f \in ActivationType : f = Top /\ Placed(f) /\ f.at = activity /\ f.out = "no"
  BY Knows DEF DoObservers, At
<1>2. runs # <<>>
      /\ UNCHANGED <<blocks, sources, valid, signaled, modeStopped, wakeUpPort, waking>>
  BY DEF DoObservers, At
<1>3. CASE Becomes([f EXCEPT !.out = "call"])
  <2>1. PICK r : r = [f EXCEPT !.out = "call"]
    OBVIOUS
  <2>2. /\ r \in ActivationType /\ r.at = f.at /\ r.out = "call"
        /\ r.items = f.items /\ r.kept = f.kept /\ r.mode = f.mode
        /\ r.handled = f.handled /\ r.poll = f.poll /\ r.ignoreWakeUps = f.ignoreWakeUps
        /\ r.stopped = f.stopped /\ r.timeout = f.timeout /\ r.collected = f.collected
    BY <2>1 DEF ActivationType
  <2>3. Placed(r)
    BY <1>1, <2>2 DEF Placed, Activities, BlockSteps
  <2>4. Attends(f) => Attends(r)
    BY <1>1, <2>2 DEF Attends, LooksForWork, CameLate, SawBlocks, SawSources, SawTime,
       HasBlocks, HasSources, Activities
  <2> QED
    BY <1>1, <1>2, <1>3, <2>1, <2>2, <2>3, <2>4, GoesOnInside
<1>4. CASE GoTo(After(activity))
  <2>1. [f EXCEPT !.at = Reach(After(activity))] = [f EXCEPT !.out = "no", !.at = Reach(After(@))]
    BY <1>1 DEF ActivationType
  <2>2. Becomes([f EXCEPT !.out = "no", !.at = Reach(After(@))])
    BY <1>1, <1>4, <2>1 DEF GoTo
  <2> QED
    BY <1>1, <1>2, <2>2, IsOver
<1> QED
  BY <1>1, <1>3, <1>4 DEF DoObservers

LEMMA CalloutReturnsStep ==
  ASSUME IInv, CalloutReturns
  PROVE  IInv'
<1>1. PICK f \in ActivationType : f = Top /\ Placed(f) /\ f.out = "call"
  BY Knows DEF CalloutReturns
<1>2. runs # <<>>
      /\ UNCHANGED <<blocks, sources, valid, signaled, modeStopped, wakeUpPort, waking>>
  BY DEF CalloutReturns
<1>3. CASE f.at \in Activities \cup {"handle"}
  <2>1. Becomes([f EXCEPT !.out = "no", !.at = Reach(After(@))])
    BY <1>1, <1>3 DEF CalloutReturns
  <2> QED
    BY <1>1, <1>2, <1>3, <2>1, IsOver
<1>4. CASE f.at \notin Activities \cup {"handle"}
  <2>1. PICK r : r = [f EXCEPT !.out = "walk"]
    OBVIOUS
  <2>2. Becomes(r)
    BY <1>1, <1>4, <2>1 DEF CalloutReturns
  <2>3. /\ r \in ActivationType /\ r.at = f.at /\ r.out = "walk"
        /\ r.items = f.items /\ r.kept = f.kept /\ r.mode = f.mode
        /\ r.handled = f.handled /\ r.poll = f.poll /\ r.ignoreWakeUps = f.ignoreWakeUps
        /\ r.stopped = f.stopped /\ r.timeout = f.timeout /\ r.collected = f.collected
    BY <2>1 DEF ActivationType
  <2>4. Placed(r)
    BY <1>1, <1>4, <2>3 DEF Placed
  <2>5. Attends(f) => Attends(r)
    BY <1>1, <2>3 DEF Attends, LooksForWork, CameLate, SawBlocks, SawSources, SawTime,
       HasBlocks, HasSources
  <2> QED
    BY <1>1, <1>2, <2>2, <2>3, <2>4, <2>5, GoesOnInside
<1> QED
  BY <1>3, <1>4


(* A step that leads out of the search for work, or to its beginning.      *)
LEMMA TurnsAway ==
  ASSUME IInv, runs # <<>>, NEW r \in ActivationType, Becomes(r), Placed(r), Typed',
         ~LooksForWork(r), r.at # "top"
  PROVE  IInv'
<1>1. Attends(r)'
  BY DEF Attends, LooksForWork
<1> QED
  BY <1>1, GoesOn

LEMMA StartStep ==
  ASSUME IInv, Start
  PROVE  IInv'
<1>1. PICK f \in ActivationType : f = Top /\ Placed(f) /\ f.at = "start" /\ f.out = "no"
  BY Knows DEF Start, At
<1>2. runs # <<>> /\ UNCHANGED <<blocks, sources, valid, signaled, wakeUpPort, waking>>
  BY DEF Start, At
<1>3. CASE Stops /\ UseStop("exit")
  <2>1. PICK r : r = [f EXCEPT !.stopped = FALSE, !.at = Reach("exit")]
    OBVIOUS
  <2>2. Becomes(r) /\ modeStopped' \subseteq modeStopped
    BY <1>1, <1>3, <2>1 DEF UseStop
  <2>3. Reach("exit") \in {"exit", "leave"}
    BY Reaches
  <2>4. /\ r \in ActivationType /\ r.at \in {"exit", "leave"} /\ r.out = "no"
        /\ r.items = f.items /\ r.kept = f.kept /\ r.mode = f.mode
    BY <1>1, <2>1, <2>3 DEF ActivationType, Activities
  <2>5. Placed(r)
    BY <1>1, <2>4 DEF Placed
  <2>6. Typed'
    BY <1>2, <2>2, TypedNow DEF Typed
  <2>7. ~LooksForWork(r) /\ r.at # "top"
    BY <2>4 DEF LooksForWork
  <2> QED
    BY <1>2, <2>2, <2>4, <2>5, <2>6, <2>7, TurnsAway
<1>4. CASE ~Stops /\ GoTo("top") /\ UNCHANGED modeStopped
  <2>1. Reach("top") = "top"
    BY Reaches DEF Activities
  <2>2. PICK r : r = [f EXCEPT !.at = "top"]
    OBVIOUS
  <2>3. Becomes(r)
    BY <1>1, <1>4, <2>1, <2>2 DEF GoTo
  <2>4. /\ r \in ActivationType /\ r.at = "top" /\ r.out = "no"
        /\ r.items = f.items /\ r.kept = f.kept /\ r.mode = f.mode /\ r.stopped = f.stopped
    BY <1>1, <2>2 DEF ActivationType
  <2>5. Placed(r)
    BY <1>1, <2>4 DEF Placed
  <2>6. Attends(r)
    BY <1>1, <1>4, <2>4 DEF Attends, LooksForWork, Stops
  <2> QED
    BY <1>2, <1>4, <2>3, <2>4, <2>5, <2>6, GoesOnInside
<1> QED
  BY <1>3, <1>4 DEF Start

LEMMA LoopTopStep ==
  ASSUME IInv, LoopTop
  PROVE  IInv'
<1>1. PICK f \in ActivationType : f = Top /\ Placed(f) /\ f.at = "top" /\ f.out = "no"
  BY Knows DEF LoopTop, At
<1>2. runs # <<>>
      /\ UNCHANGED <<blocks, sources, valid, signaled, modeStopped, wakeUpPort, waking>>
  BY DEF LoopTop, At
<1>3. PICK r : r = [f EXCEPT !.ignoreWakeUps = FALSE, !.handled = FALSE, !.poll = FALSE,
                             !.livePort = {}, !.at = Reach("beforeTimers")]
  OBVIOUS
<1>4. Becomes(r)
  BY <1>1, <1>3 DEF LoopTop
<1>5. Reach("beforeTimers") \in {"beforeTimers", "beforeSources", "blocks1"}
  BY Reaches
<1>6. /\ r \in ActivationType /\ r.at \in {"beforeTimers", "beforeSources", "blocks1"}
      /\ r.out = "no" /\ r.items = f.items /\ r.kept = f.kept /\ r.mode = f.mode
      /\ r.stopped = f.stopped /\ ~r.ignoreWakeUps /\ ~r.handled /\ ~r.poll
  BY <1>1, <1>3, <1>5 DEF ActivationType, Activities, BlockSteps
<1>7. Placed(r)
  BY <1>1, <1>6 DEF Placed
<1>8. Attends(f) => Attends(r)
  BY <1>1, <1>6 DEF Attends, LooksForWork, CameLate, SawBlocks, SawSources, SawTime
<1> QED
  BY <1>1, <1>2, <1>4, <1>6, <1>7, <1>8, GoesOnInside

(* Where __CFRunLoopDoBlocks leads to.                                     *)
LEMMA AfterBlocks ==
  ASSUME NEW step \in BlockSteps
  PROVE  /\ Reach(After(step)) = After(step)
         /\ step = "blocks1" => After(step) = "sources0"
         /\ step = "blocks2" => After(step) = "poll"
         /\ step = "blocks3" => After(step) = "decide"
<1>1. /\ step = "blocks1" => After(step) = "sources0"
      /\ step = "blocks2" => After(step) = "poll"
      /\ step = "blocks3" => After(step) = "decide"
  BY DEF After
<1>2. After(step) \notin Activities
  BY <1>1 DEF BlockSteps, Activities
<1> QED
  BY <1>1, <1>2, Reaches

LEMMA DetachBlocksStep ==
  ASSUME IInv, DetachBlocks
  PROVE  IInv'
<1>1. PICK f \in ActivationType : f = Top /\ Placed(f) /\ f.at \in BlockSteps /\ f.out = "no"
  BY Knows DEF DetachBlocks, At
<1>2. runs # <<>> /\ UNCHANGED <<sources, valid, signaled, modeStopped, wakeUpPort, waking>>
  BY DEF DetachBlocks, At
<1>3. CASE blocks = <<>> /\ GoTo(After(f.at)) /\ UNCHANGED blocks
  <2>1. PICK r : r = [f EXCEPT !.at = After(f.at)]
    OBVIOUS
  <2>2. Becomes(r)
    BY <1>1, <1>3, <2>1, AfterBlocks DEF GoTo
  <2>3. After(f.at) \in {"sources0", "poll", "decide"}
    BY <1>1, AfterBlocks DEF BlockSteps
  <2>4. /\ r \in ActivationType /\ r.at = After(f.at) /\ r.out = "no"
        /\ r.items = f.items /\ r.kept = f.kept /\ r.mode = f.mode
        /\ r.handled = f.handled /\ r.poll = f.poll /\ r.ignoreWakeUps = f.ignoreWakeUps
        /\ r.stopped = f.stopped /\ r.timeout = f.timeout /\ r.collected = f.collected
    BY <1>1, <2>1, <2>3 DEF ActivationType
  <2>5. Placed(r)
    BY <1>1, <2>3, <2>4 DEF Placed
  <2>6. Attends(f) => Attends(r)
    <3>1. ~HasBlocks(r)
      BY <1>3 DEF HasBlocks
    <3>2. LooksForWork(r) => f.at = "blocks1" /\ r.at = "sources0" /\ LooksForWork(f)
      BY <1>1, <2>4, AfterBlocks DEF LooksForWork, Placed, BlockSteps
    <3> QED
      BY <2>3, <2>4, <3>1, <3>2 DEF Attends, CameLate, SawSources, SawTime
  <2> QED
    BY <1>1, <1>2, <1>3, <2>2, <2>4, <2>5, <2>6, GoesOnInside
<1>4. CASE Becomes([f EXCEPT !.items = blocks, !.out = "walk"]) /\ blocks' = <<>>
  <2>1. PICK r : r = [f EXCEPT !.items = blocks, !.out = "walk"]
    OBVIOUS
  <2>2. blocks \in Seq(Blocks)
    BY TypedNow DEF Typed
  <2>3. /\ r \in ActivationType /\ r.at = f.at /\ r.out = "walk"
        /\ r.kept = f.kept /\ r.mode = f.mode
        /\ r.handled = f.handled /\ r.poll = f.poll /\ r.ignoreWakeUps = f.ignoreWakeUps
        /\ r.stopped = f.stopped /\ r.timeout = f.timeout /\ r.collected = f.collected
    BY <2>1, <2>2 DEF ActivationType
  <2>4. Placed(r)
    BY <1>1, <2>3 DEF Placed, BlockSteps
  <2>5. Typed'
    BY <1>2, <1>4, TypedNow DEF Typed
  <2>6. ASSUME NestFrom \subseteq Harmless PROVE Attends(r)'
    <3>1. Attends(f)
      BY <1>1, <1>2, <2>6, Knows
    <3>2. ~HasBlocks(r)'
      BY <1>4 DEF HasBlocks
    <3>3. LooksForWork(r) => f.at = "blocks1" /\ LooksForWork(f)
      BY <1>1, <2>3 DEF LooksForWork, BlockSteps
    <3>4. r.at # "top"
      BY <1>1, <2>3 DEF BlockSteps
    <3>5. LooksForWork(r) /\ CameLate(r)' => f.stopped \/ f.mode \in modeStopped
      BY <1>2, <2>3, <3>2, <3>3 DEF CameLate, SawSources, SawTime
    <3>6. LooksForWork(r) /\ CameLate(r)' => Awaited
      BY <3>1, <3>3, <3>5 DEF Attends, CameLate
    <3>7. LooksForWork(r)' <=> LooksForWork(r)
      BY DEF LooksForWork
    <3>8. Awaited' <=> Awaited
      BY <1>2 DEF Awaited
    <3> QED
      BY <2>3, <3>1, <3>3, <3>4, <3>6, <3>7, <3>8 DEF Attends
  <2> QED
    BY <1>2, <1>4, <2>1, <2>3, <2>4, <2>5, <2>6, GoesOn
<1> QED
  BY <1>1, <1>3, <1>4 DEF DetachBlocks


(* What is in two lists one after the other is in one of them.             *)
LEMMA Joined ==
  ASSUME NEW s \in Seq(Blocks), NEW t \in Seq(Blocks)
  PROVE  /\ s \o t \in Seq(Blocks)
         /\ \A j \in DOMAIN (s \o t) : \/ \E i \in DOMAIN s : (s \o t)[j] = s[i]
                                       \/ \E i \in DOMAIN t : (s \o t)[j] = t[i]
<1>1. PICK k \in Nat, n \in Nat : k = Len(s) /\ n = Len(t)
  OBVIOUS
<1>2. DOMAIN s = 1..k /\ DOMAIN t = 1..n
  BY <1>1
<1>3. PICK u : u = s \o t
  OBVIOUS
<1>4. /\ u \in Seq(Blocks) /\ Len(u) = Len(s) + Len(t)
      /\ \A j \in 1..Len(s) + Len(t) : u[j] = IF j <= Len(s) THEN s[j] ELSE t[j - Len(s)]
  BY <1>3, ConcatProperties, ZenonT(60)
<1>5. \A j \in 1..k + n : u[j] = IF j <= k THEN s[j] ELSE t[j - k]
  BY <1>1, <1>4, ZenonT(60)
<1>6. DOMAIN u = 1..k + n
  <2>1. Len(u) = k + n
    BY <1>1, <1>4, ZenonT(60)
  <2>2. DOMAIN u = 1..Len(u)
    BY <1>4, LenProperties, ZenonT(60)
  <2> QED
    BY <2>1, <2>2, ZenonT(60)
<1>7. ASSUME NEW j \in 1..k + n
      PROVE  (\E i \in DOMAIN s : u[j] = s[i]) \/ (\E i \in DOMAIN t : u[j] = t[i])
  <2>1. CASE j <= k
    <3>1. u[j] = s[j] /\ j \in 1..k
      BY <1>1, <1>5, <2>1
    <3> QED
      BY <1>2, <3>1
  <2>2. CASE ~(j <= k)
    <3>1. u[j] = t[j - k] /\ j - k \in 1..n
      BY <1>1, <1>5, <2>2
    <3> QED
      BY <1>2, <3>1
  <2> QED
    BY <2>1, <2>2
<1> QED
  BY <1>3, <1>4, <1>6, <1>7

LEMMA CallBlockStep ==
  ASSUME IInv, CallBlock
  PROVE  IInv'
<1>1. PICK f \in ActivationType : f = Top /\ Placed(f) /\ f.at \in BlockSteps /\ f.out = "walk"
  BY Knows DEF CallBlock, WalksBlocks
<1>2. runs # <<>>
      /\ UNCHANGED <<blocks, sources, valid, signaled, modeStopped, wakeUpPort, waking>>
  BY DEF CallBlock, WalksBlocks
<1>3. PICK i \in DOMAIN f.items :
        /\ f.mode \in BlockModes[f.items[i]]
        /\ \A j \in DOMAIN f.items : f.mode \in BlockModes[f.items[j]] => i <= j
        /\ Becomes([f EXCEPT !.kept = @ \o SubSeq(f.items, 1, i - 1),
                             !.items = SubSeq(@, i + 1, Len(@)),
                             !.out = "call"])
  BY <1>1 DEF CallBlock, RunnableItems
<1>4. f.items \in Seq(Blocks) /\ f.kept \in Seq(Blocks)
  BY <1>1 DEF ActivationType
<1>5. PICK n \in Nat : n = Len(f.items) /\ DOMAIN f.items = 1..n /\ i \in 1..n
  BY <1>3, <1>4
<1>6. PICK left : left = SubSeq(f.items, 1, i - 1)
  OBVIOUS
<1>7. /\ left \in Seq(Blocks) /\ Len(left) = i - 1
      /\ \A j \in 1..i - 1 : left[j] = f.items[j]
  BY <1>4, <1>5, <1>6, SubSeqProperties
<1>8. PICK rest : rest = SubSeq(f.items, i + 1, Len(f.items))
  OBVIOUS
<1>9. rest \in Seq(Blocks)
  BY <1>4, <1>5, <1>8, SubSeqProperties
<1>10. PICK kept : kept = f.kept \o left
  OBVIOUS
<1>11. /\ kept \in Seq(Blocks)
       /\ \A j \in DOMAIN kept : \/ \E q \in DOMAIN f.kept : kept[j] = f.kept[q]
                                 \/ \E q \in DOMAIN left : kept[j] = left[q]
  BY <1>4, <1>7, <1>10, Joined
<1>12. \A j \in DOMAIN kept : f.mode \notin BlockModes[kept[j]]
  <2>1. \A q \in DOMAIN f.kept : f.mode \notin BlockModes[f.kept[q]]
    BY <1>1 DEF Placed
  <2>2. ASSUME NEW q \in DOMAIN left PROVE f.mode \notin BlockModes[left[q]]
    <3>1. q \in 1..i - 1
      BY <1>5, <1>7, <2>2
    <3>2. left[q] = f.items[q] /\ q \in DOMAIN f.items /\ ~(i <= q)
      BY <1>5, <1>7, <3>1
    <3> QED
      BY <1>3, <3>2
  <2> QED
    BY <1>11, <2>1, <2>2
<1>13. PICK r : r = [f EXCEPT !.kept = kept, !.items = rest, !.out = "call"]
  OBVIOUS
<1>14. Becomes(r)
  <2>1. r = [f EXCEPT !.kept = @ \o SubSeq(f.items, 1, i - 1),
                      !.items = SubSeq(@, i + 1, Len(@)), !.out = "call"]
    BY <1>1, <1>6, <1>8, <1>10, <1>13 DEF ActivationType
  <2> QED
    BY <1>3, <2>1
<1>15. /\ r \in ActivationType /\ r.at = f.at /\ r.out = "call" /\ r.kept = kept
       /\ r.mode = f.mode
       /\ r.handled = f.handled /\ r.poll = f.poll /\ r.ignoreWakeUps = f.ignoreWakeUps
       /\ r.stopped = f.stopped /\ r.timeout = f.timeout /\ r.collected = f.collected
  BY <1>1, <1>9, <1>11, <1>13 DEF ActivationType
<1>16. Placed(r)
  BY <1>1, <1>12, <1>15 DEF Placed, BlockSteps
<1>17. Attends(f) => Attends(r)
  BY <1>1, <1>15 DEF Attends, LooksForWork, CameLate, SawBlocks, SawSources, SawTime,
     HasBlocks, HasSources, BlockSteps
<1> QED
  BY <1>1, <1>2, <1>14, <1>15, <1>16, <1>17, GoesOnInside

(* What is put back may not run in this mode.                              *)
LEMMA ReattachBlocksStep ==
  ASSUME IInv, ReattachBlocks
  PROVE  IInv'
<1>1. PICK f \in ActivationType : f = Top /\ Placed(f) /\ f.at \in BlockSteps /\ f.out = "walk"
  BY Knows DEF ReattachBlocks, WalksBlocks
<1>2. /\ runs # <<>> /\ blocks' = f.kept \o f.items \o blocks
      /\ \A i \in DOMAIN f.items : f.mode \notin BlockModes[f.items[i]]
      /\ UNCHANGED <<sources, valid, signaled, modeStopped, wakeUpPort, waking>>
  BY <1>1 DEF ReattachBlocks, WalksBlocks, RunnableItems
<1>3. f.items \in Seq(Blocks) /\ f.kept \in Seq(Blocks) /\ blocks \in Seq(Blocks)
  BY <1>1, TypedNow DEF ActivationType, Typed
<1>4. PICK s : s = f.kept \o f.items
  OBVIOUS
<1>5. /\ s \in Seq(Blocks)
      /\ \A j \in DOMAIN s : \/ \E q \in DOMAIN f.kept : s[j] = f.kept[q]
                             \/ \E q \in DOMAIN f.items : s[j] = f.items[q]
  <2>1. PICK kept \in Seq(Blocks), items \in Seq(Blocks) : kept = f.kept /\ items = f.items
    BY <1>3
  <2>2. s = kept \o items
    BY <1>4, <2>1
  <2>3. /\ s \in Seq(Blocks)
        /\ \A j \in DOMAIN s : \/ \E q \in DOMAIN kept : s[j] = kept[q]
                               \/ \E q \in DOMAIN items : s[j] = items[q]
    BY <2>2, Joined, ZenonT(60)
  <2> QED
    BY <2>1, <2>3, ZenonT(60)
<1>6. \A j \in DOMAIN s : f.mode \notin BlockModes[s[j]]
  BY <1>1, <1>2, <1>5 DEF Placed
<1>7. PICK c : c = blocks'
  OBVIOUS
<1>8. /\ c \in Seq(Blocks)
      /\ \A j \in DOMAIN c : \/ \E q \in DOMAIN s : c[j] = s[q]
                             \/ \E q \in DOMAIN blocks : c[j] = blocks[q]
  <2>1. c = s \o blocks
    BY <1>2, <1>4, <1>7
  <2>2. blocks \in Seq(Blocks) /\ s \in Seq(Blocks)
    BY <1>3, <1>5
  <2> QED
    BY <2>1, <2>2, Joined, ZenonT(60)
<1>9. PICK q : q = [f EXCEPT !.items = <<>>, !.kept = <<>>]
  OBVIOUS
<1>10. PICK r : r = [q EXCEPT !.out = "no", !.at = After(f.at)]
  OBVIOUS
<1>11. After(f.at) \in {"sources0", "poll", "decide"}
  BY <1>1, AfterBlocks DEF BlockSteps
<1>12. /\ q \in ActivationType /\ q.at = f.at /\ q.out = f.out /\ q.items = <<>>
       /\ q.kept = <<>> /\ q.mode = f.mode
       /\ q.handled = f.handled /\ q.poll = f.poll /\ q.ignoreWakeUps = f.ignoreWakeUps
       /\ q.stopped = f.stopped /\ q.timeout = f.timeout /\ q.collected = f.collected
  <2>0. PICK none : none = <<>> /\ none \in Seq(Blocks)
    BY EmptySeq, ZenonT(60)
  <2>1. PICK p : p = [f EXCEPT !.items = none]
    OBVIOUS
  <2>2. /\ p \in ActivationType /\ p.items = <<>> /\ p.at = f.at /\ p.out = f.out
        /\ p.mode = f.mode
        /\ p.handled = f.handled /\ p.poll = f.poll /\ p.ignoreWakeUps = f.ignoreWakeUps
        /\ p.stopped = f.stopped /\ p.timeout = f.timeout /\ p.collected = f.collected
    BY <1>1, <2>0, <2>1 DEF ActivationType
  <2>3. q = [p EXCEPT !.kept = none]
    BY <1>1, <1>9, <2>0, <2>1 DEF ActivationType
  <2> QED
    BY <2>0, <2>2, <2>3 DEF ActivationType
<1>13. /\ r \in ActivationType /\ r.at = After(f.at) /\ r.out = "no" /\ r.items = <<>>
       /\ r.kept = <<>> /\ r.mode = f.mode
       /\ r.handled = f.handled /\ r.poll = f.poll /\ r.ignoreWakeUps = f.ignoreWakeUps
       /\ r.stopped = f.stopped /\ r.timeout = f.timeout /\ r.collected = f.collected
  BY <1>10, <1>11, <1>12 DEF ActivationType
<1>14. Becomes(r)
  <2>1. Reach(After(f.at)) = After(f.at)
    BY <1>1, AfterBlocks
  <2>2. Becomes([f EXCEPT !.items = <<>>, !.kept = <<>>, !.out = "no", !.at = After(f.at)])
    BY <1>1, <2>1 DEF ReattachBlocks
  <2>3. r = [f EXCEPT !.items = <<>>, !.kept = <<>>, !.out = "no", !.at = After(f.at)]
    BY <1>1, <1>9, <1>10 DEF ActivationType
  <2> QED
    BY <2>2, <2>3
<1>15. Placed(r)
  BY <1>11, <1>13 DEF Placed, BlockSteps
<1>16. Typed'
  BY <1>2, <1>7, <1>8, TypedNow DEF Typed
<1>17. ASSUME NestFrom \subseteq Harmless PROVE Attends(r)'
  <2>1. Attends(f)
    BY <1>1, <1>2, <1>17, Knows
  <2>2. HasBlocks(r)' => HasBlocks(f)
    BY <1>6, <1>7, <1>8, <1>13 DEF HasBlocks
  <2>3. LooksForWork(r) => f.at = "blocks1" /\ r.at = "sources0" /\ LooksForWork(f)
    BY <1>1, <1>13, AfterBlocks DEF LooksForWork, Placed, BlockSteps
  <2>4. r.at = "sources0" => ~SawTime(r) /\ ~SawSources(r)
    BY <1>13 DEF SawTime, SawSources
  <2>5. LooksForWork(r) /\ CameLate(r)' => f.stopped \/ f.mode \in modeStopped \/ HasBlocks(f)
    <3>1. SawTime(r)' <=> SawTime(r)
      BY DEF SawTime
    <3>2. SawSources(r)' <=> SawSources(r)
      BY DEF SawSources
    <3> QED
      BY <1>2, <1>13, <2>2, <2>3, <2>4, <3>1, <3>2 DEF CameLate
  <2>6. LooksForWork(r) /\ CameLate(r)' => Awaited
    BY <1>1, <2>1, <2>3, <2>5 DEF Attends, CameLate, SawBlocks
  <2>7. LooksForWork(r)' <=> LooksForWork(r)
    BY DEF LooksForWork
  <2>8. Awaited' <=> Awaited
    BY <1>2 DEF Awaited
  <2>9. r.at # "top"
    BY <1>11, <1>13
  <2> QED
    BY <1>13, <2>1, <2>3, <2>6, <2>7, <2>8, <2>9 DEF Attends
<1> QED
  BY <1>2, <1>13, <1>14, <1>15, <1>16, <1>17, GoesOn

(* Where __CFRunLoopDoSources0 leads to.                                   *)
LEMMA AfterSources ==
  ASSUME NEW step, step = After("sources0")
  PROVE  Reach(step) = step /\ step = IF Top.handled THEN "blocks2" ELSE "poll"
<1>1. step = IF Top.handled THEN "blocks2" ELSE "poll"
  BY DEF After
<1> QED
  BY <1>1, Reaches DEF Activities

LEMMA CollectSources0Step ==
  ASSUME IInv, CollectSources0
  PROVE  IInv'
<1>1. PICK f \in ActivationType : f = Top /\ Placed(f) /\ f.at = "sources0" /\ f.out = "no"
  BY Knows DEF CollectSources0, At
<1>2. runs # <<>>
      /\ UNCHANGED <<blocks, sources, valid, signaled, modeStopped, wakeUpPort, waking>>
  BY DEF CollectSources0, At
<1>3. PICK found : found = sources[f.mode] \cap Version0 \cap valid \cap signaled
  OBVIOUS
<1>4. found = sources[f.mode] \cap Version0 \cap signaled
  BY <1>3, TypedNow DEF Typed
<1>5. CASE found = {} /\ GoTo(After("sources0"))
  <2>1. PICK step : step = After("sources0")
    OBVIOUS
  <2>2. Reach(step) = step /\ step = IF f.handled THEN "blocks2" ELSE "poll"
    BY <1>1, <2>1, AfterSources
  <2>3. PICK r : r = [f EXCEPT !.at = step]
    OBVIOUS
  <2>4. Becomes(r)
    BY <1>1, <1>5, <2>1, <2>2, <2>3 DEF GoTo
  <2>5. /\ r \in ActivationType /\ r.at = step /\ r.out = "no"
        /\ r.items = f.items /\ r.kept = f.kept /\ r.mode = f.mode
        /\ r.handled = f.handled /\ r.poll = f.poll /\ r.ignoreWakeUps = f.ignoreWakeUps
        /\ r.stopped = f.stopped /\ r.timeout = f.timeout /\ r.collected = f.collected
    BY <1>1, <2>2, <2>3 DEF ActivationType, BlockSteps
  <2>6. Placed(r)
    BY <1>1, <2>2, <2>5 DEF Placed
  <2>7. Attends(f) => Attends(r)
    <3>1. ~HasSources(r)
      BY <1>4, <1>5, <2>5 DEF HasSources
    <3> QED
      BY <1>1, <2>2, <2>5, <3>1 DEF Attends, LooksForWork, CameLate, SawBlocks, SawTime, HasBlocks
  <2> QED
    BY <1>1, <1>2, <2>4, <2>5, <2>6, <2>7, GoesOnInside
<1>6. CASE Becomes([f EXCEPT !.collected = found, !.out = "walk"])
  <2>1. PICK r : r = [f EXCEPT !.collected = found, !.out = "walk"]
    OBVIOUS
  <2>2. /\ r \in ActivationType /\ r.at = f.at /\ r.out = "walk"
        /\ r.items = f.items /\ r.kept = f.kept /\ r.mode = f.mode
        /\ r.handled = f.handled /\ r.poll = f.poll /\ r.ignoreWakeUps = f.ignoreWakeUps
        /\ r.stopped = f.stopped /\ r.timeout = f.timeout /\ r.collected = found
    BY <1>3, <2>1 DEF ActivationType
  <2>3. Placed(r)
    BY <1>1, <2>2 DEF Placed, BlockSteps
  <2>4. Attends(f) => Attends(r)
    <3>1. ~HasSources(r)
      BY <1>1, <1>4, <2>2 DEF HasSources
    <3> QED
      BY <1>1, <2>2, <3>1 DEF Attends, LooksForWork, CameLate, SawBlocks, SawTime, HasBlocks
  <2> QED
    BY <1>1, <1>2, <1>6, <2>1, <2>2, <2>3, <2>4, GoesOnInside
<1> QED
  BY <1>1, <1>3, <1>5, <1>6 DEF CollectSources0

LEMMA PerformSource0Step ==
  ASSUME IInv, PerformSource0
  PROVE  IInv'
<1>1. PICK f \in ActivationType : f = Top /\ Placed(f) /\ f.at = "sources0" /\ f.out = "walk"
  BY Knows DEF PerformSource0, WalksSources
<1>2. runs # <<>> /\ UNCHANGED <<blocks, sources, valid, modeStopped, wakeUpPort, waking>>
  BY DEF PerformSource0, WalksSources
<1>3. PICK s \in f.collected :
        /\ signaled' = signaled \ {s}
        /\ LET rest == [f EXCEPT !.collected = @ \ {s}]
           IN Becomes(IF s \in signaled \cap valid
                      THEN [rest EXCEPT !.out = "call", !.handled = TRUE] ELSE rest)
  BY <1>1 DEF PerformSource0
<1>4. PICK rest : rest = [f EXCEPT !.collected = f.collected \ {s}]
  OBVIOUS
<1>5. /\ rest \in ActivationType /\ rest.at = f.at /\ rest.out = f.out
      /\ rest.items = f.items /\ rest.kept = f.kept /\ rest.mode = f.mode
      /\ rest.handled = f.handled /\ rest.poll = f.poll /\ rest.ignoreWakeUps = f.ignoreWakeUps
      /\ rest.stopped = f.stopped /\ rest.timeout = f.timeout
      /\ rest.collected = f.collected \ {s}
  BY <1>4 DEF ActivationType
<1>6. Typed'
  BY <1>2, <1>3, TypedNow DEF Typed
<1>7. CASE Becomes([rest EXCEPT !.out = "call", !.handled = TRUE])
  <2>1. PICK r : r = [rest EXCEPT !.out = "call", !.handled = TRUE]
    OBVIOUS
  <2>2. /\ r \in ActivationType /\ r.at = f.at /\ r.out = "call" /\ r.handled
        /\ r.items = f.items /\ r.kept = f.kept /\ r.mode = f.mode /\ r.poll = f.poll
    BY <1>5, <2>1 DEF ActivationType
  <2>3. Placed(r)
    BY <1>1, <2>2 DEF Placed, BlockSteps
  <2>4. ~LooksForWork(r) /\ r.at # "top"
    BY <1>1, <2>2 DEF LooksForWork
  <2> QED
    BY <1>2, <1>6, <1>7, <2>1, <2>2, <2>3, <2>4, TurnsAway
<1>8. CASE Becomes(rest)
  <2>1. Placed(rest)
    BY <1>1, <1>5 DEF Placed, BlockSteps
  <2>2. ASSUME NestFrom \subseteq Harmless PROVE Attends(rest)'
    <3>1. Attends(f)
      BY <1>1, <1>2, <2>2, Knows
    <3>2. HasSources(rest)' => HasSources(f)
      BY <1>1, <1>2, <1>3, <1>5 DEF HasSources
    <3>3. CameLate(rest)' => CameLate(f)
      BY <1>1, <1>2, <1>5, <3>2 DEF CameLate, SawBlocks, SawSources, SawTime, HasBlocks
    <3> QED
      BY <1>1, <1>2, <1>5, <3>1, <3>3 DEF Attends, LooksForWork, Awaited
  <2> QED
    BY <1>2, <1>5, <1>6, <1>8, <2>1, <2>2, GoesOn
<1> QED
  BY <1>3, <1>4, <1>7, <1>8

LEMMA EndSources0Step ==
  ASSUME IInv, EndSources0
  PROVE  IInv'
<1>1. PICK f \in ActivationType : f = Top /\ Placed(f) /\ f.at = "sources0" /\ f.out = "walk"
  BY Knows DEF EndSources0, WalksSources
<1>2. runs # <<>> /\ (f.collected = {} \/ (f.stopAfterHandle /\ f.handled))
      /\ UNCHANGED <<blocks, sources, valid, signaled, modeStopped, wakeUpPort, waking>>
  BY <1>1 DEF EndSources0, WalksSources, SourcesDone
<1>3. PICK step : step = After("sources0")
  OBVIOUS
<1>4. Reach(step) = step /\ step = IF f.handled THEN "blocks2" ELSE "poll"
  BY <1>1, <1>3, AfterSources
<1>5. PICK r : r = [f EXCEPT !.collected = {}, !.out = "no", !.at = step]
  OBVIOUS
<1>6. Becomes(r)
  <2>1. r = [f EXCEPT !.collected = {}, !.out = "no", !.at = Reach(After(@))]
    BY <1>1, <1>3, <1>4, <1>5 DEF ActivationType
  <2> QED
    BY <1>1, <2>1 DEF EndSources0
<1>7. /\ r \in ActivationType /\ r.at = step /\ r.out = "no"
      /\ r.items = f.items /\ r.kept = f.kept /\ r.mode = f.mode
      /\ r.handled = f.handled /\ r.poll = f.poll /\ r.ignoreWakeUps = f.ignoreWakeUps
      /\ r.stopped = f.stopped /\ r.timeout = f.timeout /\ r.collected = {}
  <2>1. step \in {"blocks2", "poll"}
    BY <1>4
  <2> QED
    BY <1>1, <1>5, <2>1 DEF ActivationType, BlockSteps
<1>8. Placed(r)
  BY <1>1, <1>4, <1>7 DEF Placed, BlockSteps
<1>9. Attends(f) => Attends(r)
  <2>1. HasSources(r) /\ ~f.handled => HasSources(f)
    BY <1>2, <1>7 DEF HasSources
  <2> QED
    BY <1>1, <1>4, <1>7, <2>1
    DEF Attends, LooksForWork, CameLate, SawBlocks, SawSources, SawTime, HasBlocks
<1> QED
  BY <1>1, <1>2, <1>6, <1>7, <1>8, <1>9, GoesOnInside

LEMMA DecidePollStep ==
  ASSUME IInv, DecidePoll
  PROVE  IInv'
<1>1. PICK f \in ActivationType : f = Top /\ Placed(f) /\ f.at = "poll" /\ f.out = "no"
  BY Knows DEF DecidePoll, At
<1>2. runs # <<>>
      /\ UNCHANGED <<blocks, sources, valid, signaled, modeStopped, wakeUpPort, waking>>
  BY DEF DecidePoll, At
<1>3. PICK poll : poll = (f.handled \/ f.timeout = "zero")
  OBVIOUS
<1>4. PICK step : step = IF poll THEN "wait" ELSE Reach("beforeWaiting")
  OBVIOUS
<1>5. PICK r : r = [f EXCEPT !.poll = poll, !.at = step]
  OBVIOUS
<1>6. Becomes(r)
  BY <1>1, <1>3, <1>4, <1>5 DEF DecidePoll
<1>7. /\ poll \in BOOLEAN /\ step \in {"beforeWaiting", "wait"}
      /\ step = "beforeWaiting" => ~poll
  BY <1>1, <1>3, <1>4, Reaches DEF ActivationType
<1>8. /\ r \in ActivationType /\ r.at = step /\ r.poll = poll /\ r.out = "no"
      /\ r.items = f.items /\ r.kept = f.kept /\ r.mode = f.mode
      /\ r.handled = f.handled /\ r.ignoreWakeUps = f.ignoreWakeUps
      /\ r.stopped = f.stopped /\ r.timeout = f.timeout /\ r.collected = f.collected
  BY <1>1, <1>5, <1>7 DEF ActivationType, Activities
<1>9. Placed(r)
  BY <1>1, <1>3, <1>7, <1>8 DEF Placed, BlockSteps
<1>10. Attends(f) => Attends(r)
  <2>1. HasSources(r) => HasSources(f)
    BY <1>1, <1>8 DEF HasSources
  <2>2. ~(SawTime(r) /\ r.timeout = "zero")
    BY <1>3, <1>8 DEF SawTime
  <2>3. CameLate(r) => CameLate(f)
    BY <1>1, <1>8, <2>1, <2>2 DEF CameLate, SawBlocks, SawSources, HasBlocks
  <2> QED
    BY <1>1, <1>7, <1>8, <2>3 DEF Attends, LooksForWork
<1> QED
  BY <1>1, <1>2, <1>6, <1>8, <1>9, <1>10, GoesOnInside

(* A step of an activation with no list of blocks to one that leads out of *)
(* the search.                                                             *)
LEMMA Proceeds ==
  ASSUME IInv, runs # <<>>, NEW f, f = Top, f.out = "no", NEW step,
         step \in {"awake", "afterWaiting", "handle", "blocks3", "exit", "leave"},
         NEW r, r \in ActivationType, r.at = step, r.out = "no",
         r.items = f.items, r.kept = f.kept, r.mode = f.mode,
         Becomes(r), Typed'
  PROVE  IInv'
<1>1. Placed(f)
  BY Knows
<1>2. Placed(r)
  BY <1>1 DEF Placed, BlockSteps
<1>3. ~LooksForWork(r) /\ r.at # "top"
  BY DEF LooksForWork
<1> QED
  BY <1>2, <1>3, TurnsAway

LEMMA ReceiveWakeUpStep ==
  ASSUME IInv, ReceiveWakeUp
  PROVE  IInv'
<1>1. PICK f \in ActivationType : f = Top /\ f.at = "wait" /\ f.out = "no"
  BY Knows DEF ReceiveWakeUp, At
<1>2. /\ runs # <<>> /\ wakeUpPort' = FALSE
      /\ UNCHANGED <<blocks, sources, valid, signaled, modeStopped, waking>>
  BY DEF ReceiveWakeUp, At
<1>3. Reach("awake") = "awake"
  BY Reaches DEF Activities
<1>4. PICK r : r = [f EXCEPT !.at = "awake"]
  OBVIOUS
<1>5. Becomes(r)
  BY <1>1, <1>3, <1>4 DEF ReceiveWakeUp, GoTo
<1>6. /\ r \in ActivationType /\ r.at = "awake" /\ r.out = "no"
      /\ r.items = f.items /\ r.kept = f.kept /\ r.mode = f.mode
  BY <1>1, <1>4 DEF ActivationType
<1>7. Typed'
  BY <1>2, TypedNow DEF Typed
<1> QED
  BY <1>1, <1>2, <1>5, <1>6, <1>7, Proceeds

LEMMA ReceiveMessageStep ==
  ASSUME IInv, ReceiveMessage
  PROVE  IInv'
<1>1. PICK f \in ActivationType : f = Top /\ f.at = "wait" /\ f.out = "no"
  BY Knows DEF ReceiveMessage, At
<1>2. PICK s \in Version1 :
        /\ runs # <<>> /\ signaled' = signaled \ {s}
        /\ UNCHANGED <<blocks, sources, valid, modeStopped, wakeUpPort, waking>>
        /\ Becomes([f EXCEPT !.livePort = {s}, !.at = "awake"])
  BY <1>1 DEF ReceiveMessage, At, Messages
<1>3. PICK r : r = [f EXCEPT !.livePort = {s}, !.at = "awake"]
  OBVIOUS
<1>4. /\ r \in ActivationType /\ r.at = "awake" /\ r.out = "no"
      /\ r.items = f.items /\ r.kept = f.kept /\ r.mode = f.mode
  BY <1>1, <1>3 DEF ActivationType
<1>5. Typed'
  BY <1>2, TypedNow DEF Typed
<1> QED
  BY <1>1, <1>2, <1>3, <1>4, <1>5, Proceeds

LEMMA ReceiveNothingStep ==
  ASSUME IInv, ReceiveNothing
  PROVE  IInv'
<1>1. PICK f \in ActivationType : f = Top /\ f.at = "wait" /\ f.out = "no"
  BY Knows DEF ReceiveNothing, At
<1>2. runs # <<>>
      /\ UNCHANGED <<blocks, sources, valid, signaled, modeStopped, wakeUpPort, waking>>
  BY DEF ReceiveNothing, At
<1>3. Reach("awake") = "awake"
  BY Reaches DEF Activities
<1>4. PICK r : r = [f EXCEPT !.at = "awake"]
  OBVIOUS
<1>5. Becomes(r)
  BY <1>1, <1>3, <1>4 DEF ReceiveNothing, GoTo
<1>6. /\ r \in ActivationType /\ r.at = "awake" /\ r.out = "no"
      /\ r.items = f.items /\ r.kept = f.kept /\ r.mode = f.mode
  BY <1>1, <1>4 DEF ActivationType
<1>7. Typed'
  BY <1>2, TypedNow DEF Typed
<1> QED
  BY <1>1, <1>2, <1>5, <1>6, <1>7, Proceeds

LEMMA AwakeStep ==
  ASSUME IInv, Awake
  PROVE  IInv'
<1>1. PICK f \in ActivationType : f = Top /\ f.at = "awake" /\ f.out = "no"
  BY Knows DEF Awake, At
<1>2. runs # <<>>
      /\ UNCHANGED <<blocks, sources, valid, signaled, modeStopped, wakeUpPort, waking>>
  BY DEF Awake, At
<1>3. PICK step : step = IF f.poll THEN "handle" ELSE Reach("afterWaiting")
  OBVIOUS
<1>4. step \in {"afterWaiting", "handle"}
  BY <1>3, Reaches
<1>5. PICK r : r = [f EXCEPT !.ignoreWakeUps = TRUE, !.at = step]
  OBVIOUS
<1>6. Becomes(r)
  BY <1>1, <1>3, <1>5 DEF Awake
<1>7. /\ r \in ActivationType /\ r.at = step /\ r.out = "no"
      /\ r.items = f.items /\ r.kept = f.kept /\ r.mode = f.mode
  BY <1>1, <1>4, <1>5 DEF ActivationType, Activities
<1>8. Typed'
  BY <1>2, TypedNow DEF Typed
<1> QED
  BY <1>1, <1>2, <1>4, <1>6, <1>7, <1>8, Proceeds

LEMMA HandleMessageStep ==
  ASSUME IInv, HandleMessage
  PROVE  IInv'
<1>1. PICK f \in ActivationType : f = Top /\ Placed(f) /\ f.at = "handle" /\ f.out = "no"
  BY Knows DEF HandleMessage, At
<1>2. runs # <<>>
      /\ UNCHANGED <<blocks, sources, valid, signaled, modeStopped, wakeUpPort, waking>>
  BY DEF HandleMessage, At
<1>3. Typed'
  BY <1>2, TypedNow DEF Typed
<1>4. CASE Becomes([f EXCEPT !.out = "call", !.handled = TRUE])
  <2>1. PICK r : r = [f EXCEPT !.out = "call", !.handled = TRUE]
    OBVIOUS
  <2>2. /\ r \in ActivationType /\ r.at = "handle" /\ r.out = "call" /\ r.handled
        /\ r.items = f.items /\ r.kept = f.kept /\ r.mode = f.mode
    BY <1>1, <2>1 DEF ActivationType
  <2>3. Placed(r)
    BY <1>1, <2>2 DEF Placed, BlockSteps
  <2>4. ~LooksForWork(r) /\ r.at # "top"
    BY <2>2 DEF LooksForWork
  <2> QED
    BY <1>2, <1>3, <1>4, <2>1, <2>2, <2>3, <2>4, TurnsAway
<1>5. CASE GoTo(After("handle"))
  <2>1. After("handle") = "blocks3" /\ Reach("blocks3") = "blocks3"
    BY Reaches DEF After, Activities
  <2>2. PICK r : r = [f EXCEPT !.at = "blocks3"]
    OBVIOUS
  <2>3. Becomes(r)
    BY <1>1, <1>5, <2>1, <2>2 DEF GoTo
  <2>4. /\ r \in ActivationType /\ r.at = "blocks3" /\ r.out = "no"
        /\ r.items = f.items /\ r.kept = f.kept /\ r.mode = f.mode
    BY <1>1, <2>2 DEF ActivationType, BlockSteps
  <2> QED
    BY <1>1, <1>2, <1>3, <2>3, <2>4, Proceeds
<1> QED
  BY <1>1, <1>4, <1>5 DEF HandleMessage


LEMMA DecideStep ==
  ASSUME IInv, Decide
  PROVE  IInv'
<1>1. PICK f \in ActivationType : f = Top /\ Placed(f) /\ f.at = "decide" /\ f.out = "no"
  BY Knows DEF Decide, At
<1>2. runs # <<>> /\ UNCHANGED <<blocks, sources, valid, signaled, wakeUpPort, waking>>
  BY DEF Decide, At
<1>3. Reach("exit") \in {"exit", "leave"}
  BY Reaches
<1>4. CASE GoTo("exit") /\ UNCHANGED modeStopped
  <2>1. PICK r : r = [f EXCEPT !.at = Reach("exit")]
    OBVIOUS
  <2>2. Becomes(r)
    BY <1>1, <1>4, <2>1 DEF GoTo
  <2>3. /\ r \in ActivationType /\ r.at = Reach("exit") /\ r.out = "no"
        /\ r.items = f.items /\ r.kept = f.kept /\ r.mode = f.mode
    BY <1>1, <1>3, <2>1 DEF ActivationType, Activities
  <2>4. Typed'
    BY <1>2, <1>4, TypedNow DEF Typed
  <2> QED
    BY <1>1, <1>2, <1>3, <2>2, <2>3, <2>4, Proceeds
<1>5. CASE UseStop("exit")
  <2>1. PICK r : r = [f EXCEPT !.stopped = FALSE, !.at = Reach("exit")]
    OBVIOUS
  <2>2. Becomes(r) /\ modeStopped' \subseteq modeStopped
    BY <1>1, <1>5, <2>1 DEF UseStop
  <2>3. /\ r \in ActivationType /\ r.at = Reach("exit") /\ r.out = "no"
        /\ r.items = f.items /\ r.kept = f.kept /\ r.mode = f.mode
    BY <1>1, <1>3, <2>1 DEF ActivationType, Activities
  <2>4. Typed'
    BY <1>2, <2>2, TypedNow DEF Typed
  <2> QED
    BY <1>1, <1>2, <1>3, <2>2, <2>3, <2>4, Proceeds
<1>6. CASE ~Stops /\ GoTo("top") /\ UNCHANGED modeStopped
  <2>1. Reach("top") = "top"
    BY Reaches DEF Activities
  <2>2. PICK r : r = [f EXCEPT !.at = "top"]
    OBVIOUS
  <2>3. Becomes(r)
    BY <1>1, <1>6, <2>1, <2>2 DEF GoTo
  <2>4. /\ r \in ActivationType /\ r.at = "top" /\ r.out = "no"
        /\ r.items = f.items /\ r.kept = f.kept /\ r.mode = f.mode /\ r.stopped = f.stopped
    BY <1>1, <2>2 DEF ActivationType
  <2>5. Placed(r)
    BY <1>1, <2>4 DEF Placed, BlockSteps
  <2>6. Attends(r)
    BY <1>1, <1>6, <2>4 DEF Attends, LooksForWork, Stops
  <2> QED
    BY <1>2, <1>6, <2>3, <2>4, <2>5, <2>6, GoesOnInside
<1>7. \/ GoTo("exit") /\ UNCHANGED modeStopped
      \/ UseStop("exit")
      \/ ~Stops /\ GoTo("top") /\ UNCHANGED modeStopped
  BY DEF Decide
<1> QED
  BY <1>4, <1>5, <1>6, <1>7

-----------------------------------------------------------------------------
LEMMA InitIInv == Init => IInv
<1> SUFFICES ASSUME Init PROVE IInv
  OBVIOUS
<1>1. runs = <<>> /\ Len(runs) = 0 /\ DOMAIN runs = {} /\ runs \in Seq(ActivationType)
  BY DEF Init
<1>2. TypeOK
  <2>1. blocks \in Seq(Blocks)
    BY EmptySeq DEF Init
  <2>2. \A i \in 1..Len(runs) - 1 : runs[i].out = "call"
    BY <1>1
  <2>3. waking \in 0..MaxWaking
    BY RunLoopAssumption DEF Init
  <2> QED
    BY <1>1, <2>1, <2>2, <2>3 DEF Init, TypeOK
<1>3. Nested /\ NothingMissed
  BY <1>1 DEF Nested, NothingMissed
<1> QED
  BY <1>2, <1>3 DEF IInv

LEMMA Stutter ==
  ASSUME IInv, UNCHANGED vars
  PROVE  IInv'
<1>1. UNCHANGED <<blocks, modeStopped, wakeUpPort, runs, waking>> /\ sources' = sources
      /\ signaled' = signaled /\ valid' = valid
  BY DEF vars
<1>2. Typed'
  BY <1>1, TypedNow DEF Typed
<1> QED
  BY <1>1, <1>2, LessToDo

LEMMA Invariance ==
  ASSUME IInv, [Next]_vars
  PROVE  IInv'
<1>1. CASE Others
  <2>1. ASSUME NEW b \in Blocks, CFRunLoopPerformBlock(b) PROVE IInv'
    BY <2>1, PerformBlockStep
  <2>2. ASSUME NEW s \in Sources, CFRunLoopSourceSignal(s) PROVE IInv'
    BY <2>2, SourceSignalStep
  <2>3. ASSUME NEW s \in Sources, CFRunLoopSourceInvalidate(s) PROVE IInv'
    BY <2>3, SourceInvalidateStep
  <2>4. ASSUME NEW s \in Sources, RemoveInvalidated(s) PROVE IInv'
    BY <2>4, RemoveInvalidatedStep
  <2>5. ASSUME NEW s \in Sources, NEW m \in Modes, CFRunLoopAddSource(s, m) PROVE IInv'
    BY <2>5, AddSourceStep
  <2>6. ASSUME NEW s \in Sources, NEW m \in Modes, CFRunLoopRemoveSource(s, m) PROVE IInv'
    BY <2>6, RemoveSourceStep
  <2>7. ASSUME CFRunLoopStop PROVE IInv'
    BY <2>7, StopStep
  <2>8. ASSUME NEW m \in StopModes, CFRunLoopStopMode(m) PROVE IInv'
    BY <2>8, StopModeStep
  <2>9. ASSUME NEW i \in DOMAIN runs, TimePasses(i) PROVE IInv'
    BY <2>9, TimePassesStep
  <2> QED
    BY <1>1, <2>1, <2>2, <2>3, <2>4, <2>5, <2>6, <2>7, <2>8, <2>9 DEF Others
<1>2. CASE Helpers
  <2>1. ASSUME NEW i \in DOMAIN runs, CFRunLoopTimeout(i) PROVE IInv'
    BY <2>1, TimeoutStep
  <2> QED
    BY <1>2, <2>1, WakeUpStep DEF Helpers
<1>3. CASE Run
  <2>1. PICK call \in Calls : CFRunLoopRunSpecific(call[1], call[2], call[3])
    BY <1>3 DEF Run
  <2> QED
    BY <2>1, RunSpecificStep
<1>4. CASE Loop
  <2>1. ASSUME NEW activity \in Activities, DoObservers(activity) PROVE IInv'
    BY <2>1, DoObserversStep
  <2> QED
    BY <1>4, <2>1, CalloutReturnsStep, StartStep, LoopTopStep, DetachBlocksStep, CallBlockStep,
       ReattachBlocksStep, CollectSources0Step, PerformSource0Step, EndSources0Step,
       DecidePollStep, ReceiveWakeUpStep, ReceiveMessageStep, ReceiveNothingStep, AwakeStep,
       HandleMessageStep, DecideStep, LeaveStep
    DEF Loop
<1>5. CASE UNCHANGED vars
  BY <1>5, Stutter
<1> QED
  BY <1>1, <1>2, <1>3, <1>4, <1>5 DEF Next

-----------------------------------------------------------------------------
(* The invariant holds of every run loop: where its activations are, and,  *)
(* if only Harmless callouts run the loop again, that whatever came after  *)
(* the loop had looked for it has a wake-up on its way.                    *)
THEOREM SpecIInv == Spec => []IInv
<1>1. Init => IInv
  BY InitIInv
<1>2. IInv /\ [Next]_vars => IInv'
  BY Invariance
<1> QED
  BY <1>1, <1>2, PTL DEF Spec

(* The state stays in its types, no source that has been invalidated is    *)
(* signaled, and an activation below another one is in a callout, whatever *)
(* callouts run the loop again and however deep.                           *)
THEOREM TypesCorrect == Spec => []TypeOK
<1>1. IInv => TypeOK
  BY DEF IInv
<1> QED
  BY <1>1, SpecIInv, PTL

(* A loop that sleeps has looked at all blocks that wait: the activations  *)
(* below are in callouts in which they have detached none.                 *)
LEMMA BlocksOfOthers ==
  ASSUME IInv, NestFrom \subseteq Harmless, At("wait")
  PROVE  Waiting = Range(blocks)
<1>1. TypeOK /\ Nested /\ runs # <<>>
  BY DEF IInv, At
<1>2. PICK n \in Nat \ {0} : n = Len(runs) /\ DOMAIN runs = 1..n /\ Top = runs[n]
  BY <1>1, Tops
<1>3. ASSUME NEW i \in DOMAIN runs
      PROVE  runs[i].items = <<>> /\ runs[i].kept = <<>>
  <2>1. Placed(runs[i])
    BY <1>1 DEF Nested
  <2>2. runs[i].at \notin BlockSteps
    <3>1. CASE i = n
      BY <1>2, <3>1 DEF At, BlockSteps
    <3>2. CASE i # n
      <4>1. i \in 1..Len(runs) - 1
        BY <1>2, <3>2
      <4>2. runs[i].at \in Harmless
        BY <1>1, <4>1 DEF Nested
      <4> QED
        BY <4>2 DEF Harmless, BlockSteps
    <3> QED
      BY <3>1, <3>2
  <2> QED
    BY <2>1, <2>2 DEF Placed
<1>4. Range(<<>>) = {}
  BY DEF Range
<1>5. \A i \in DOMAIN runs : Range(runs[i].items) \cup Range(runs[i].kept) = {}
  BY <1>3, <1>4
<1> QED
  BY <1>5 DEF Waiting

(* What the invariant says of a loop that sleeps.                          *)
LEMMA NothingCameLate ==
  ASSUME IInv, NestFrom \subseteq Harmless
  PROVE  NoLostWakeUp
<1> SUFFICES ASSUME At("wait"), ~Top.poll, ~wakeUpPort, waking = 0
             PROVE  /\ \A b \in Waiting : Top.mode \notin BlockModes[b]
                    /\ sources[Top.mode] \cap Version0 \cap signaled = {}
                    /\ ~Stops
                    /\ Top.timeout # "zero"
  BY DEF NoLostWakeUp
<1>1. PICK f \in ActivationType : f = Top /\ Placed(f) /\ Attends(f) /\ f.at = "wait" /\ ~f.poll
  BY Knows DEF At
<1>2. ~Awaited
  BY DEF Awaited
<1>3. LooksForWork(f)
  BY <1>1 DEF LooksForWork, Placed
<1>4. ~CameLate(f)
  BY <1>1, <1>2, <1>3 DEF Attends
<1>5. ~HasBlocks(f) /\ ~HasSources(f) /\ ~f.stopped /\ f.mode \notin modeStopped
      /\ f.timeout # "zero"
  BY <1>1, <1>4 DEF CameLate, SawBlocks, SawSources, SawTime
<1>6. \A b \in Waiting : f.mode \notin BlockModes[b]
  BY <1>5, BlocksOfOthers DEF HasBlocks, Range
<1>7. sources[f.mode] \cap Version0 \cap signaled = {}
  BY <1>1, <1>5 DEF HasSources
<1> QED
  BY <1>1, <1>5, <1>6, <1>7 DEF Stops

(* CFRunLoop.c:2669: no wake-up is lost, for any blocks, sources, modes,   *)
(* observers, timeouts and number of threads, if the callouts that run the *)
(* loop again are Harmless.  Without the hypothesis it is false: a callout *)
(* from between the search for work and the wait uses up the wake-up of    *)
(* its caller.                                                             *)
THEOREM NoWakeUpIsLost ==
  ASSUME NestFrom \subseteq Harmless
  PROVE  Spec => []NoLostWakeUp
<1>1. IInv => NoLostWakeUp
  BY NothingCameLate
<1> QED
  BY <1>1, SpecIInv, PTL

-----------------------------------------------------------------------------
(* The blocks                                                              *)

(* A set of numbers has a smallest one, because < is well-founded; with it,*)
(* what holds of 0 and of the successor holds of all numbers.              *)
LEMMA NatMin ==
  ASSUME NEW T, T \subseteq Nat, T # {}
  PROVE  \E x \in T : \A y \in T : x <= y
<1>1. PICK R : R = {ss \in Nat \X Nat : ss[1] < ss[2]}
  OBVIOUS
<1>2. IsWellFoundedOn(R, Nat)
  <2>1. IsWellFoundedOn(OpToRel(<, Nat), Nat)
    BY NatLessThanWellFounded
  <2>2. OpToRel(<, Nat) = {ss \in Nat \X Nat : ss[1] < ss[2]}
    BY Zenon DEF OpToRel
  <2> QED
    BY <1>1, <2>1, <2>2, ZenonT(60)
<1>3. \E x \in T : \A y \in T : ~ (<<y, x>> \in R)
  BY <1>2, WFMin
<1>4. \A x, y \in Nat : x < y => <<x, y>> \in R
  BY <1>1
<1>5. PICK x \in T : \A y \in T : ~ (<<y, x>> \in R)
  BY <1>3
<1>6. ASSUME NEW y \in T PROVE x <= y
  <2>1. x \in Nat /\ y \in Nat
    OBVIOUS
  <2>2. ~ (y < x)
    BY <1>4, <1>5, <2>1
  <2> QED
    BY <2>1, <2>2
<1> QED
  BY <1>6

LEMMA SetInduction ==
  ASSUME NEW S, 0 \in S, \A n \in Nat : n \in S => n + 1 \in S
  PROVE  Nat \subseteq S
<1> SUFFICES ASSUME Nat \ S # {} PROVE FALSE
  OBVIOUS
<1>1. PICK x \in Nat \ S : \A y \in Nat \ S : x <= y
  <2>1. Nat \ S \subseteq Nat
    OBVIOUS
  <2> QED
  BY NatMin, <2>1
<1>2. x # 0 /\ x - 1 \in Nat
  OBVIOUS
<1>3. x - 1 \in S
  BY <1>1, <1>2
<1> QED
  BY <1>1, <1>2, <1>3

(* What concatenates the lists of the activations rs.                      *)
Lists(rs, g, D) ==
  g = [n \in D |-> IF n = 0 THEN <<>> ELSE g[n - 1] \o rs[n].kept \o rs[n].items]

(* There is one such function, of all numbers.                             *)
LEMMA ListsAgree ==
  ASSUME NEW rs, NEW m \in Nat, NEW n \in Nat, m <= n, NEW g, NEW h,
         Lists(rs, g, 0..m), Lists(rs, h, 0..n)
  PROVE  g[m] = h[m]
<1>1. PICK S : S = {i \in Nat : i <= m => g[i] = h[i]}
  OBVIOUS
<1>2. g[0] = h[0]
  BY DEF Lists
<1>3. ASSUME NEW i \in Nat, i \in S PROVE i + 1 \in S
  <2> SUFFICES ASSUME i + 1 <= m PROVE g[i + 1] = h[i + 1]
    BY <1>1
  <2>1. g[i] = h[i]
    BY <1>1, <1>3
  <2>2. i + 1 \in 0..m /\ i + 1 \in 0..n /\ i + 1 # 0 /\ (i + 1) - 1 = i
    OBVIOUS
  <2>3. g[i + 1] = g[i] \o rs[i + 1].kept \o rs[i + 1].items
    BY <2>2 DEF Lists
  <2>4. h[i + 1] = h[i] \o rs[i + 1].kept \o rs[i + 1].items
    BY <2>2 DEF Lists
  <2> QED
    BY <2>1, <2>3, <2>4
<1>4. Nat \subseteq S
  <2>1. 0 \in S
    BY <1>1, <1>2
  <2> QED
    BY <1>3, <2>1, SetInduction
<1> QED
  BY <1>1, <1>4

LEMMA ListsExist ==
  ASSUME NEW rs
  PROVE  \A n \in Nat : \E g : Lists(rs, g, 0..n)
<1>1. PICK S : S = {n \in Nat : \E g : Lists(rs, g, 0..n)}
  OBVIOUS
<1>2. 0 \in S
  <2>1. PICK g : g = [i \in 0..0 |-> <<>>]
    OBVIOUS
  <2>2. Lists(rs, g, 0..0)
    BY <2>1 DEF Lists
  <2> QED
    BY <1>1, <2>2
<1>3. ASSUME NEW n \in Nat, n \in S PROVE n + 1 \in S
  <2>1. PICK g : Lists(rs, g, 0..n)
    BY <1>1, <1>3
  <2>2. PICK h : h = [i \in 0..n + 1 |-> IF i = n + 1 THEN g[n] \o rs[n + 1].kept \o rs[n + 1].items
                                          ELSE g[i]]
    OBVIOUS
  <2>3. \A i \in 0..n + 1 : h[i] = IF i = 0 THEN <<>> ELSE h[i - 1] \o rs[i].kept \o rs[i].items
    <3> SUFFICES ASSUME NEW i \in 0..n + 1
                 PROVE  h[i] = IF i = 0 THEN <<>> ELSE h[i - 1] \o rs[i].kept \o rs[i].items
      OBVIOUS
    <3>1. CASE i = n + 1
      <4>1. i # 0 /\ i - 1 = n /\ n \in 0..n + 1 /\ n # n + 1
        BY <3>1
      <4>2. h[i] = g[n] \o rs[n + 1].kept \o rs[n + 1].items /\ h[n] = g[n]
        BY <2>2, <3>1, <4>1
      <4> QED
        BY <3>1, <4>1, <4>2
    <3>2. CASE i # n + 1
      <4>1. i \in 0..n
        BY <3>2
      <4>2. h[i] = g[i]
        BY <2>2, <3>2
      <4>3. g[i] = IF i = 0 THEN <<>> ELSE g[i - 1] \o rs[i].kept \o rs[i].items
        BY <2>1, <4>1 DEF Lists
      <4>4. i # 0 => h[i - 1] = g[i - 1]
        BY <2>2, <4>1
      <4> QED
        BY <4>2, <4>3, <4>4
    <3> QED
      BY <3>1, <3>2
  <2>4. Lists(rs, h, 0..n + 1)
    BY <2>2, <2>3 DEF Lists
  <2> QED
    BY <1>1, <2>4
<1>4. Nat \subseteq S
  BY <1>2, <1>3, SetInduction
<1> QED
  BY <1>1, <1>4

LEMMA ListsDefined ==
  ASSUME NEW rs
  PROVE  \E g : Lists(rs, g, Nat)
<1>1. PICK a : a = [n \in Nat |-> CHOOSE g : Lists(rs, g, 0..n)]
  OBVIOUS
<1>2. \A n \in Nat : Lists(rs, a[n], 0..n)
  BY <1>1, ListsExist
<1>3. PICK f : f = [n \in Nat |-> a[n][n]]
  OBVIOUS
<1>4. ASSUME NEW n \in Nat
      PROVE  f[n] = IF n = 0 THEN <<>> ELSE f[n - 1] \o rs[n].kept \o rs[n].items
  <2>1. a[n][n] = IF n = 0 THEN <<>> ELSE a[n][n - 1] \o rs[n].kept \o rs[n].items
    <3>1. n \in 0..n /\ Lists(rs, a[n], 0..n)
      BY <1>2
    <3> QED
      BY <3>1 DEF Lists
  <2>2. n # 0 => n - 1 \in Nat /\ f[n - 1] = a[n][n - 1]
    <3> SUFFICES ASSUME n # 0 PROVE n - 1 \in Nat /\ f[n - 1] = a[n][n - 1]
      OBVIOUS
    <3>1. PICK m \in Nat : m = n - 1 /\ m <= n
      OBVIOUS
    <3>2. a[m][m] = a[n][m]
      BY <1>2, <3>1, ListsAgree
    <3> QED
      BY <1>3, <3>1, <3>2
  <2> QED
    BY <1>3, <2>1, <2>2
<1>5. Lists(rs, f, Nat)
  BY <1>3, <1>4 DEF Lists
<1> QED
  BY <1>5

(* DetachedBy obeys its equation.                                          *)
LEMMA DetachedStep ==
  \A n \in Nat : DetachedBy[n] = IF n = 0 THEN <<>> ELSE DetachedBy[n - 1] \o runs[n].kept \o runs[n].items
<1>1. DetachedBy = CHOOSE g : Lists(runs, g, Nat)
  BY Zenon DEF DetachedBy, Lists
<1>2. Lists(runs, DetachedBy, Nat)
  BY <1>1, ListsDefined
<1> QED
  BY <1>2 DEF Lists

(* Two sequences, one after the other.                                     *)
LEMMA Concat ==
  ASSUME NEW s \in Seq(Blocks), NEW t \in Seq(Blocks)
  PROVE  /\ s \o t \in Seq(Blocks) /\ Len(s \o t) = Len(s) + Len(t)
         /\ \A j \in 1..Len(s) : (s \o t)[j] = s[j]
         /\ \A j \in 1..Len(t) : (s \o t)[Len(s) + j] = t[j]
<1>1. PICK m \in Nat, n \in Nat : m = Len(s) /\ n = Len(t)
  OBVIOUS
<1>2. PICK u : u = s \o t
  OBVIOUS
<1>3. /\ u \in Seq(Blocks) /\ Len(u) = Len(s) + Len(t)
      /\ \A j \in 1..Len(s) + Len(t) : u[j] = IF j <= Len(s) THEN s[j] ELSE t[j - Len(s)]
  BY <1>2, ConcatProperties, ZenonT(60)
<1>4. \A j \in 1..m + n : u[j] = IF j <= m THEN s[j] ELSE t[j - m]
  BY <1>1, <1>3, ZenonT(60)
<1>5. \A j \in 1..m : u[j] = s[j]
  BY <1>4
<1>6. ASSUME NEW j \in 1..n PROVE u[m + j] = t[j]
  <2>1. m + j \in 1..m + n /\ ~(m + j <= m) /\ (m + j) - m = j
    OBVIOUS
  <2> QED
    BY <1>4, <2>1
<1> QED
  BY <1>1, <1>2, <1>3, <1>5, <1>6, ZenonT(60)

(* A block is taken from the middle of three lists.                        *)
LEMMA TakesOne ==
  ASSUME NEW k \in Seq(Blocks), NEW s \in Seq(Blocks), NEW b \in Seq(Blocks),
         NEW c \in Nat, c = Len(k), NEW i \in 1..Len(s)
  PROVE  (k \o SubSeq(s, 1, i - 1)) \o SubSeq(s, i + 1, Len(s)) \o b = RemoveAt(k \o s \o b, c + i)
<1>1. PICK n \in Nat, d \in Nat : n = Len(s) /\ d = Len(b) /\ i \in 1..n /\ i \in Nat
  OBVIOUS
<1>2. PICK left : left = SubSeq(s, 1, i - 1)
  OBVIOUS
<1>3. PICK right : right = SubSeq(s, i + 1, n)
  OBVIOUS
<1>4. \A j \in 1..n : s[j] \in Blocks
  BY <1>1
<1>5. left \in Seq(Blocks) /\ Len(left) = i - 1 /\ \A j \in 1..i - 1 : left[j] = s[j]
  BY <1>1, <1>2, <1>4, SubSeqProperties
<1>6. right \in Seq(Blocks) /\ Len(right) = n - i /\ \A j \in 1..n - i : right[j] = s[i + j]
  BY <1>1, <1>3, <1>4, SubSeqProperties
<1>7. PICK a \in Nat, e \in Nat : a = i - 1 /\ e = n - i
  <2>1. i - 1 \in Nat /\ n - i \in Nat
    BY <1>1
  <2> QED
    BY <2>1
<1>8. PICK x : x = k \o left
  OBVIOUS
<1>9. /\ x \in Seq(Blocks) /\ Len(x) = c + a
      /\ \A j \in 1..c : x[j] = k[j]
      /\ \A j \in 1..a : x[c + j] = left[j]
  <2>1. left \in Seq(Blocks) /\ a = Len(left)
    BY <1>5, <1>7
  <2> QED
    BY <1>8, <2>1, Concat, ZenonT(60)
<1>10. PICK y : y = x \o right
  OBVIOUS
<1>11. /\ y \in Seq(Blocks) /\ Len(y) = (c + a) + e
       /\ \A j \in 1..c + a : y[j] = x[j]
       /\ \A j \in 1..e : y[(c + a) + j] = right[j]
  <2>1. PICK w \in Nat : w = c + a
    OBVIOUS
  <2>2. Len(x) = w
    BY <1>9, <2>1
  <2>3. /\ y \in Seq(Blocks) /\ Len(y) = w + e
        /\ \A j \in 1..w : y[j] = x[j]
        /\ \A j \in 1..e : y[w + j] = right[j]
    <3>1. right \in Seq(Blocks) /\ x \in Seq(Blocks) /\ e = Len(right) /\ w = Len(x)
      BY <1>6, <1>7, <1>9, <2>2
    <3> QED
      BY <1>10, <3>1, Concat, ZenonT(60)
  <2> QED
    BY <2>1, <2>3
<1>12. PICK z : z = y \o b
  OBVIOUS
<1>13. PICK g \in Nat : g = (c + a) + e
  OBVIOUS
<1>14. /\ z \in Seq(Blocks) /\ Len(z) = g + d
       /\ \A j \in 1..g : z[j] = y[j]
       /\ \A j \in 1..d : z[g + j] = b[j]
  <2>1. g = Len(y) /\ y \in Seq(Blocks)
    BY <1>11, <1>13
  <2> QED
    BY <1>1, <1>12, <2>1, Concat, ZenonT(60)
<1>15. PICK p : p = k \o s
  OBVIOUS
<1>16. /\ p \in Seq(Blocks) /\ Len(p) = c + n
       /\ \A j \in 1..c : p[j] = k[j]
       /\ \A j \in 1..n : p[c + j] = s[j]
  BY <1>1, <1>15, Concat
<1>17. PICK h \in Nat : h = c + n
  BY <1>1
<1>18. PICK q : q = p \o b
  OBVIOUS
<1>19. /\ q \in Seq(Blocks) /\ Len(q) = h + d
       /\ \A j \in 1..h : q[j] = p[j]
       /\ \A j \in 1..d : q[h + j] = b[j]
  <2>1. h = Len(p) /\ p \in Seq(Blocks)
    BY <1>16, <1>17
  <2> QED
    BY <1>1, <1>18, <2>1, Concat, ZenonT(60)
<1>20. PICK m \in Nat : m = c + i
  BY <1>1
<1>21. PICK r : r = RemoveAt(q, m)
  OBVIOUS
<1>22. PICK lo : lo = SubSeq(q, 1, m - 1)
  OBVIOUS
<1>23. PICK hi : hi = SubSeq(q, m + 1, h + d)
  OBVIOUS
<1>24. r = lo \o hi
  <2>1. Len(q) = h + d
    BY <1>19
  <2> QED
    BY <1>21, <1>22, <1>23, <2>1 DEF RemoveAt
<1>25. \A j \in 1..h + d : q[j] \in Blocks
  BY <1>19
<1>26. m - 1 \in Nat /\ m <= h + d
  BY <1>1, <1>17, <1>20
<1>27. lo \in Seq(Blocks) /\ Len(lo) = m - 1 /\ \A j \in 1..m - 1 : lo[j] = q[j]
  BY <1>22, <1>25, <1>26, SubSeqProperties
<1>28. PICK v \in Nat, o \in Nat : v = m - 1 /\ o = (h + d) - m
  BY <1>26
<1>29. hi \in Seq(Blocks) /\ Len(hi) = o /\ \A j \in 1..o : hi[j] = q[m + j]
  BY <1>23, <1>25, <1>26, <1>28, SubSeqProperties
<1>30. /\ r \in Seq(Blocks) /\ Len(r) = v + o
       /\ \A j \in 1..v : r[j] = lo[j]
       /\ \A j \in 1..o : r[v + j] = hi[j]
  <2>1. Len(lo) = v /\ Len(hi) = o /\ lo \in Seq(Blocks) /\ hi \in Seq(Blocks)
    BY <1>27, <1>28, <1>29
  <2>2. /\ lo \o hi \in Seq(Blocks) /\ Len(lo \o hi) = Len(lo) + Len(hi)
        /\ \A j \in 1..Len(lo) : (lo \o hi)[j] = lo[j]
        /\ \A j \in 1..Len(hi) : (lo \o hi)[Len(lo) + j] = hi[j]
    BY <2>1, Concat, ZenonT(60)
  <2>3. /\ r \in Seq(Blocks) /\ Len(r) = Len(lo) + Len(hi)
        /\ \A j \in 1..Len(lo) : r[j] = lo[j]
        /\ \A j \in 1..Len(hi) : r[Len(lo) + j] = hi[j]
    BY <1>24, <2>2
  <2> QED
    BY <2>1, <2>3
<1>31. Len(z) = Len(r)
  BY <1>1, <1>7, <1>13, <1>14, <1>17, <1>20, <1>28, <1>30
<1>32. ASSUME NEW j \in 1..g + d PROVE z[j] = r[j]
  <2>1. CASE j <= c + a
    <3>1. j \in 1..v /\ j \in 1..m - 1 /\ j \in 1..h /\ j \in 1..g /\ j \in 1..c + a
      BY <1>1, <1>7, <1>13, <1>17, <1>20, <1>28, <2>1
    <3>2. r[j] = p[j] /\ z[j] = x[j]
      BY <1>11, <1>14, <1>19, <1>27, <1>30, <3>1
    <3>3. CASE j <= c
      <4>1. j \in 1..c
        BY <3>3
      <4> QED
        BY <1>9, <1>16, <3>2, <4>1
    <3>4. CASE ~(j <= c)
      <4>1. PICK l \in 1..a : j = c + l
        BY <2>1, <3>4
      <4>2. l \in 1..n /\ l \in 1..i - 1
        BY <1>1, <1>7
      <4>3. x[c + l] = left[l] /\ p[c + l] = s[l] /\ left[l] = s[l]
        BY <1>5, <1>9, <1>16, <4>2
      <4> QED
        BY <3>2, <4>1, <4>3
    <3> QED
      BY <3>3, <3>4
  <2>2. CASE ~(j <= c + a) /\ j <= g
    <3>1. PICK l \in 1..e : j = (c + a) + l
      <4>1. j - (c + a) \in 1..e /\ j = (c + a) + (j - (c + a))
        BY <1>13, <2>2
      <4> QED
        BY <4>1
    <3>2. l \in 1..n - i /\ l \in 1..o /\ j = v + l /\ j \in 1..g
      BY <1>1, <1>7, <1>17, <1>20, <1>28, <2>2, <3>1
    <3>3. z[j] = s[i + l]
      <4>1. y[(c + a) + l] = right[l] /\ right[l] = s[i + l]
        BY <1>6, <1>11, <3>1, <3>2
      <4> QED
        BY <1>14, <3>1, <3>2, <4>1
    <3>4. r[j] = q[m + l]
      BY <1>29, <1>30, <3>2
    <3>5. m + l \in 1..h /\ i + l \in 1..n /\ m + l = c + (i + l)
      BY <1>1, <1>7, <1>17, <1>20, <3>1
    <3>6. q[m + l] = p[c + (i + l)] /\ p[c + (i + l)] = s[i + l]
      BY <1>16, <1>19, <3>5
    <3> QED
      BY <3>3, <3>4, <3>6
  <2>3. CASE ~(j <= g)
    <3>1. PICK l \in 1..d : j = g + l
      BY <2>3
    <3>2. PICK l2 \in 1..o : j = v + l2 /\ m + l2 = h + l
      <4>1. PICK l2 \in Int : l2 = j - v
        BY <3>1
      <4>2. l2 \in 1..o /\ j = v + l2 /\ m + l2 = h + l
        BY <1>1, <1>7, <1>13, <1>17, <1>20, <1>28, <3>1, <4>1
      <4> QED
        BY <4>2
    <3>3. z[j] = b[l]
      BY <1>14, <3>1
    <3>4. r[j] = q[h + l]
      BY <1>29, <1>30, <3>2
    <3>5. q[h + l] = b[l]
      BY <1>19, <3>1
    <3> QED
      BY <3>3, <3>4, <3>5
  <2> QED
    BY <2>1, <2>2, <2>3
<1>33. z = r
  <2>1. \A j \in 1..Len(z) : z[j] = r[j]
    BY <1>14, <1>32
  <2> QED
    BY <1>14, <1>30, <1>31, <2>1, SeqEqual
<1> QED
  BY <1>1, <1>2, <1>3, <1>8, <1>10, <1>12, <1>15, <1>18, <1>20, <1>21, <1>33

(* The lists of the activation n alone.                                    *)
LEMMA ListsOfTop ==
  ASSUME NEW rs, NEW n \in Nat, NEW f, f = CHOOSE g : Lists(rs, g, Nat),
         \A i \in 1..n - 1 : rs[i].kept = <<>> /\ rs[i].items = <<>>,
         n # 0 => rs[n].kept \in Seq(Blocks) /\ rs[n].items \in Seq(Blocks)
  PROVE  f[n] = IF n = 0 THEN <<>> ELSE rs[n].kept \o rs[n].items
<1>1. Lists(rs, f, Nat)
  BY ListsDefined
<1>2. \A i \in Nat : f[i] = IF i = 0 THEN <<>> ELSE f[i - 1] \o rs[i].kept \o rs[i].items
  BY <1>1 DEF Lists
<1>3. PICK S : S = {i \in Nat : i < n => f[i] = <<>>}
  OBVIOUS
<1>4. 0 \in S
  BY <1>2, <1>3
<1>5. ASSUME NEW i \in Nat, i \in S PROVE i + 1 \in S
  <2> SUFFICES ASSUME i + 1 < n PROVE f[i + 1] = <<>>
    BY <1>3
  <2>1. f[i] = <<>>
    BY <1>3, <1>5
  <2>2. i + 1 \in 1..n - 1 /\ i + 1 # 0 /\ (i + 1) - 1 = i /\ i + 1 \in Nat
    OBVIOUS
  <2>3. f[i + 1] = f[i] \o rs[i + 1].kept \o rs[i + 1].items
    BY <1>2, <2>2
  <2>4. f[i + 1] = <<>> \o <<>> \o <<>>
    BY <2>1, <2>2, <2>3
  <2> QED
    BY <2>4
<1>6. Nat \subseteq S
  BY <1>4, <1>5, SetInduction
<1>7. CASE n = 0
  BY <1>2, <1>7
<1>8. CASE n # 0
  <2>1. n - 1 \in Nat /\ n - 1 < n
    BY <1>8
  <2>2. f[n - 1] = <<>>
    BY <1>3, <1>6, <2>1
  <2>3. f[n] = <<>> \o rs[n].kept \o rs[n].items
    BY <1>2, <1>8, <2>2
  <2>4. PICK kept \in Seq(Blocks) : kept = rs[n].kept
    BY <1>8
  <2>5. <<>> \o kept = kept
    BY <2>4, ConcatEmptySeq
  <2> QED
    BY <1>8, <2>3, <2>4, <2>5
<1> QED
  BY <1>7, <1>8

(* No callout runs the loop again from within its walk over the blocks,    *)
(* where it would take newer blocks before those that are detached.        *)
Apart == NestFrom \cap BlockSteps = {}

(* Only the current activation has detached blocks.                        *)
LEMMA PendingIs ==
  Apart /\ TypeOK /\ Nested =>
    Pending = IF runs = <<>> THEN <<>> \o blocks ELSE Top.kept \o Top.items \o blocks
<1> SUFFICES ASSUME Apart, TypeOK, Nested
             PROVE  Pending = IF runs = <<>> THEN <<>> \o blocks ELSE Top.kept \o Top.items \o blocks
  OBVIOUS
<1>1. PICK n \in Nat : n = Len(runs) /\ DOMAIN runs = 1..n
  BY DEF TypeOK
<1>2. \A i \in 1..n - 1 : runs[i].kept = <<>> /\ runs[i].items = <<>>
  <2> SUFFICES ASSUME NEW i \in 1..n - 1 PROVE runs[i].kept = <<>> /\ runs[i].items = <<>>
    OBVIOUS
  <2>1. i \in DOMAIN runs /\ i \in 1..Len(runs) - 1
    BY <1>1
  <2>2. Placed(runs[i]) /\ runs[i].at \in NestFrom
    BY <2>1 DEF Nested
  <2>3. runs[i].at \notin BlockSteps
    BY <2>2 DEF Apart
  <2> QED
    BY <2>2, <2>3 DEF Placed
<1>3. runs # <<>> => n # 0 /\ Top = runs[n] /\ Top \in ActivationType
  BY <1>1, Tops
<1>4. runs = <<>> => n = 0
  BY <1>1
<1>5. DetachedBy = CHOOSE g : Lists(runs, g, Nat)
  BY Zenon DEF DetachedBy, Lists
<1>6. CASE runs = <<>>
  <2>1. DetachedBy[n] = <<>>
    BY <1>2, <1>4, <1>5, <1>6, ListsOfTop
  <2> QED
    BY <1>1, <1>6, <2>1 DEF Pending, Detached
<1>7. CASE runs # <<>>
  <2>1. runs[n].kept \in Seq(Blocks) /\ runs[n].items \in Seq(Blocks)
    BY <1>3, <1>7 DEF ActivationType
  <2>2. DetachedBy[n] = runs[n].kept \o runs[n].items
    BY <1>2, <1>3, <1>5, <1>7, <2>1, ListsOfTop
  <2> QED
    BY <1>1, <1>3, <1>7, <2>2 DEF Pending, Detached
<1> QED
  BY <1>6, <1>7

LEMMA PendingWas ==
  ASSUME Apart, TypeOK', Nested'
  PROVE  Pending' = IF runs' = <<>> THEN <<>> \o blocks' ELSE Top'.kept \o Top'.items \o blocks'
<1>1. (Apart /\ TypeOK /\ Nested =>
        Pending = IF runs = <<>> THEN <<>> \o blocks ELSE Top.kept \o Top.items \o blocks)'
  BY PendingIs, PTL
<1> QED
  BY <1>1 DEF Apart

(* No activation has detached any blocks.                                  *)
AllAttached == runs # <<>> => Top.at \notin BlockSteps \/ Top.out = "no"

LEMMA PendingAttached ==
  Apart /\ IInv /\ AllAttached => Pending = blocks
<1> SUFFICES ASSUME Apart, IInv, AllAttached PROVE Pending = blocks
  OBVIOUS
<1>1. TypeOK /\ Nested /\ blocks \in Seq(Blocks)
  BY DEF IInv, TypeOK
<1>2. CASE runs = <<>>
  <2>1. Pending = <<>> \o blocks
    BY <1>1, <1>2, PendingIs
  <2> QED
    BY <1>1, <2>1, ConcatEmptySeq
<1>3. CASE runs # <<>>
  <2>1. Placed(Top)
    BY <1>3, Knows
  <2>2. Top.kept = <<>> /\ Top.items = <<>>
    BY <1>3, <2>1 DEF Placed, AllAttached
  <2>3. Pending = <<>> \o <<>> \o blocks
    BY <1>1, <1>3, <2>2, PendingIs
  <2>4. <<>> \o <<>> \o blocks = blocks
    BY <1>1, ConcatEmptySeq
  <2> QED
    BY <2>3, <2>4
<1> QED
  BY <1>2, <1>3

LEMMA StaysAttached ==
  ASSUME Apart, IInv, IInv', AllAttached, AllAttached', blocks' = blocks
  PROVE  Pending' = Pending
<1>1. (Apart /\ IInv /\ AllAttached => Pending = blocks)'
  BY PendingAttached, PTL
<1>2. Apart'
  BY DEF Apart
<1> QED
  BY <1>1, <1>2, PendingAttached

(* The lists of the current activation stay as they are.                   *)
LEMMA SameLists ==
  ASSUME Apart, IInv, IInv', runs # <<>>, runs' # <<>>, NEW f, f = Top, NEW r, r = Top',
         r.kept = f.kept, r.items = f.items, blocks' = blocks
  PROVE  Pending' = Pending
<1>1. Pending = f.kept \o f.items \o blocks
  BY PendingIs DEF IInv
<1>2. Pending' = r.kept \o r.items \o blocks'
  BY PendingWas DEF IInv
<1> QED
  BY <1>1, <1>2

(* A step of the abstract queue.                                           *)
QueueStep == (\E b \in Blocks : Queue!Post(b)) \/ (runs # <<>> /\ Queue!Perform(Top.mode))

(* A new block goes to the end of all that wait.                           *)
LEMMA PerformBlockPosts ==
  ASSUME Apart, IInv, IInv', NEW b \in Blocks, CFRunLoopPerformBlock(b)
  PROVE  QueueStep
<1>1. b \notin Waiting /\ blocks' = Append(blocks, b) /\ runs' = runs
  BY DEF CFRunLoopPerformBlock
<1>2. blocks \in Seq(Blocks) /\ TypeOK /\ Nested
  BY DEF IInv, TypeOK
<1>3. PICK s \in Seq(Blocks) :
        /\ Pending = s \o blocks /\ Pending' = s \o blocks'
        /\ \A j \in DOMAIN s : s[j] \in Waiting
  <2>1. CASE runs = <<>>
    <3>1. PICK none : none = <<>> /\ none \in Seq(Blocks)
      BY EmptySeq, ZenonT(60)
    <3>2. Pending = none \o blocks /\ Pending' = none \o blocks'
      BY <1>1, <1>2, <2>1, <3>1, PendingIs, PendingWas DEF IInv
    <3>3. DOMAIN none = {}
      BY <3>1
    <3> QED
      BY <3>1, <3>2, <3>3
  <2>2. CASE runs # <<>>
    <3>1. PICK f \in ActivationType : f = Top /\ f = runs[Len(runs)] /\ Len(runs) \in DOMAIN runs
      BY <1>2, <2>2, Tops
    <3>2. Top' = f
      BY <1>1, <3>1 DEF Top
    <3>3. PICK kept \in Seq(Blocks), items \in Seq(Blocks) : kept = f.kept /\ items = f.items
      BY <3>1 DEF ActivationType
    <3>4. PICK s : s = kept \o items
      OBVIOUS
    <3>5. /\ s \in Seq(Blocks)
          /\ \A j \in DOMAIN s : \/ \E q \in DOMAIN kept : s[j] = kept[q]
                                 \/ \E q \in DOMAIN items : s[j] = items[q]
      BY <3>4, Joined, ZenonT(60)
    <3>6. Range(items) \cup Range(kept) \subseteq Waiting
      BY <3>1, <3>3 DEF Waiting
    <3>7. \A j \in DOMAIN s : s[j] \in Waiting
      BY <3>5, <3>6 DEF Range
    <3>8. Pending = s \o blocks
      BY <1>2, <2>2, <3>1, <3>3, <3>4, PendingIs
    <3>9. Pending' = s \o blocks'
      BY <1>1, <2>2, <3>2, <3>3, <3>4, PendingWas DEF IInv
    <3> QED
      BY <3>5, <3>7, <3>8, <3>9
  <2> QED
    BY <2>1, <2>2
<1>4. b \notin Range(Pending)
  <2>1. \A j \in DOMAIN (s \o blocks) : \/ \E i \in DOMAIN s : (s \o blocks)[j] = s[i]
                                        \/ \E i \in DOMAIN blocks : (s \o blocks)[j] = blocks[i]
    BY <1>2, Joined
  <2>2. \A i \in DOMAIN blocks : blocks[i] \in Waiting
    BY DEF Waiting, Range
  <2>3. \A j \in DOMAIN Pending : Pending[j] \in Waiting
    BY <1>3, <2>1, <2>2
  <2> QED
    BY <1>1, <2>3 DEF Range
<1>5. Pending' = Append(Pending, b)
  <2>1. PICK one : one = <<b>> /\ one \in Seq(Blocks)
    <3>1. PICK none : none = <<>> /\ none \in Seq(Blocks)
      BY EmptySeq, ZenonT(60)
    <3>2. Append(none, b) \in Seq(Blocks) /\ Append(none, b) = none \o <<b>>
      BY <3>1, AppendProperties, AppendIsConcat
    <3>3. Append(none, b) = <<b>>
      BY <3>1
    <3> QED
      BY <3>2, <3>3
  <2>2. blocks' = blocks \o one
    BY <1>1, <1>2, <2>1, AppendIsConcat
  <2>3. (s \o blocks) \o one = s \o (blocks \o one)
    BY <1>2, <2>1, ConcatAssociative
  <2>4. Append(s \o blocks, b) = (s \o blocks) \o one
    <3>1. s \o blocks \in Seq(Blocks)
      BY <1>2, Joined
    <3> QED
      BY <2>1, <3>1, AppendIsConcat
  <2> QED
    BY <1>3, <2>2, <2>3, <2>4
<1> QED
  BY <1>4, <1>5 DEF QueueStep, Queue!Post, Queue!Range, Range

(* The block that is called is the first of all that may run: those kept   *)
(* may not, and the newer ones come after those detached.                  *)
LEMMA CallBlockPerforms ==
  ASSUME Apart, IInv, IInv', CallBlock
  PROVE  QueueStep
<1>1. PICK f \in ActivationType : f = Top /\ Placed(f) /\ f.at \in BlockSteps /\ f.out = "walk"
  BY Knows DEF CallBlock, WalksBlocks
<1>2. runs # <<>> /\ blocks' = blocks /\ TypeOK /\ blocks \in Seq(Blocks)
  BY DEF CallBlock, WalksBlocks, IInv, TypeOK
<1>3. PICK i \in DOMAIN f.items :
        /\ f.mode \in BlockModes[f.items[i]]
        /\ \A j \in DOMAIN f.items : f.mode \in BlockModes[f.items[j]] => i <= j
        /\ Becomes([f EXCEPT !.kept = @ \o SubSeq(f.items, 1, i - 1),
                             !.items = SubSeq(@, i + 1, Len(@)),
                             !.out = "call"])
  BY <1>1 DEF CallBlock, RunnableItems
<1>4. PICK k \in Seq(Blocks), s \in Seq(Blocks) : k = f.kept /\ s = f.items
  BY <1>1 DEF ActivationType
<1>5. PICK c \in Nat, n \in Nat : /\ c = Len(k) /\ n = Len(s) /\ i \in 1..n /\ i \in 1..Len(s)
                                  /\ DOMAIN s = 1..n /\ DOMAIN k = 1..c
  BY <1>3, <1>4
<1>6. PICK x : x = k \o SubSeq(s, 1, i - 1)
  OBVIOUS
<1>7. PICK y : y = SubSeq(s, i + 1, Len(s))
  OBVIOUS
<1>8. x \in Seq(Blocks) /\ y \in Seq(Blocks)
  <2>1. SubSeq(s, 1, i - 1) \in Seq(Blocks)
    BY <1>5, SubSeqProperties
  <2> QED
    BY <1>5, <1>6, <1>7, <2>1, SubSeqProperties, ConcatProperties
<1>9. Top'.kept = x /\ Top'.items = y /\ runs' # <<>>
  <2>1. PICK r : r = [f EXCEPT !.kept = x, !.items = y, !.out = "call"]
    OBVIOUS
  <2>2. r \in ActivationType /\ r.kept = x /\ r.items = y
    BY <1>1, <1>8, <2>1 DEF ActivationType
  <2>3. Becomes(r)
    <3>1. r = [f EXCEPT !.kept = @ \o SubSeq(f.items, 1, i - 1),
                        !.items = SubSeq(@, i + 1, Len(@)), !.out = "call"]
      BY <1>1, <1>4, <1>6, <1>7, <2>1 DEF ActivationType
    <3> QED
      BY <1>3, <3>1
  <2> QED
    BY <1>2, <2>2, <2>3, BecomesRuns
<1>10. PICK q : q = k \o s \o blocks
  OBVIOUS
<1>11. Pending = q
  BY <1>1, <1>2, <1>4, <1>10, PendingIs DEF IInv
<1>12. Pending' = RemoveAt(q, c + i)
  <2>1. Pending' = x \o y \o blocks
    BY <1>2, <1>9, PendingWas DEF IInv
  <2>2. (k \o SubSeq(s, 1, i - 1)) \o SubSeq(s, i + 1, Len(s)) \o blocks = RemoveAt(k \o s \o blocks, c + i)
    <3>1. c = Len(k) /\ i \in 1..Len(s) /\ blocks \in Seq(Blocks)
      BY <1>2, <1>5
    <3> QED
      BY <3>1, TakesOne, ZenonT(60)
  <2> QED
    BY <1>6, <1>7, <1>10, <2>1, <2>2
<1>13. PICK p : p = k \o s
  OBVIOUS
<1>14. /\ p \in Seq(Blocks) /\ Len(p) = c + n
       /\ \A j \in 1..c : p[j] = k[j]
       /\ \A j \in 1..n : p[c + j] = s[j]
  BY <1>5, <1>13, Concat
<1>15. PICK d \in Nat : d = Len(blocks)
  BY <1>2
<1>16. /\ DOMAIN q = 1..(c + n) + d
       /\ \A j \in 1..c + n : q[j] = p[j]
  <2>1. PICK h \in Nat : h = c + n
    OBVIOUS
  <2>2. h = Len(p) /\ p \in Seq(Blocks) /\ blocks \in Seq(Blocks) /\ q = p \o blocks
    BY <1>2, <1>10, <1>13, <1>14, <2>1
  <2>3. /\ p \o blocks \in Seq(Blocks) /\ Len(p \o blocks) = Len(p) + Len(blocks)
        /\ \A j \in 1..Len(p) : (p \o blocks)[j] = p[j]
    BY <2>2, Concat, ZenonT(60)
  <2>4. q \in Seq(Blocks) /\ Len(q) = h + d /\ \A j \in 1..h : q[j] = p[j]
    BY <1>15, <2>2, <2>3
  <2> QED
    BY <2>1, <2>4
<1>17. c + i \in DOMAIN q /\ f.mode \in BlockModes[q[c + i]]
  <2>1. c + i \in 1..c + n /\ c + i \in 1..(c + n) + d
    BY <1>5
  <2>2. q[c + i] = s[i]
    BY <1>5, <1>14, <1>16, <2>1
  <2> QED
    BY <1>3, <1>4, <1>16, <2>1, <2>2
<1>18. ASSUME NEW j \in DOMAIN q, f.mode \in BlockModes[q[j]] PROVE c + i <= j
  <2>1. j \in Nat /\ j >= 1 /\ j <= (c + n) + d
    BY <1>16
  <2>2. CASE j <= c
    <3>1. j \in 1..c /\ j \in 1..c + n
      BY <2>1, <2>2
    <3>2. q[j] = k[j]
      BY <1>14, <1>16, <3>1
    <3>3. f.mode \notin BlockModes[k[j]]
      BY <1>1, <1>4, <1>5, <3>1 DEF Placed
    <3> QED
      BY <1>18, <3>2, <3>3
  <2>3. CASE ~(j <= c) /\ j <= c + n
    <3>1. PICK l \in Nat : l = j - c /\ j = c + l /\ l \in 1..n /\ j \in 1..c + n
      BY <2>1, <2>3
    <3>2. q[j] = s[l]
      BY <1>14, <1>16, <3>1
    <3>3. i <= l
      BY <1>3, <1>4, <1>5, <1>18, <3>1, <3>2
    <3> QED
      BY <1>5, <3>1, <3>3
  <2>4. CASE ~(j <= c + n)
    BY <1>5, <2>1, <2>4
  <2> QED
    BY <2>2, <2>3, <2>4
<1>19. PICK m : m = c + i
  OBVIOUS
<1>20. Queue!Perform(Top.mode)
  <2>1. m \in Queue!Eligible(Top.mode)
    BY <1>1, <1>11, <1>17, <1>19 DEF Queue!Eligible
  <2>2. \A j \in Queue!Eligible(Top.mode) : m <= j
    BY <1>1, <1>11, <1>18, <1>19 DEF Queue!Eligible
  <2>3. Pending' = RemoveAt(Pending, m)
    BY <1>11, <1>12, <1>19
  <2> QED
    BY <2>1, <2>2, <2>3 DEF Queue!Perform, Queue!RemoveAt, RemoveAt
<1> QED
  BY <1>2, <1>20 DEF QueueStep

LEMMA BecomesTop ==
  ASSUME TypeOK, runs # <<>>, NEW r, Becomes(r)
  PROVE  Top' = r /\ runs' # <<>>
<1>1. PICK n \in Nat \ {0} : n = Len(runs) /\ DOMAIN runs = 1..n
  BY Tops
<1>2. PICK T : T = ActivationType \cup {r}
  OBVIOUS
<1>3. runs \in Seq(T) /\ r \in T /\ n \in 1..n
  BY <1>1, <1>2 DEF TypeOK
<1>4. runs' = [runs EXCEPT ![n] = r]
  BY <1>1 DEF Becomes
<1>5. /\ Len(runs') = Len(runs) /\ runs' \in Seq(T)
      /\ \A j \in 1..Len(runs) : runs'[j] = IF j = n THEN r ELSE runs[j]
  BY <1>1, <1>3, <1>4, ExceptSeq
<1> QED
  BY <1>1, <1>3, <1>5 DEF Top, Last

(* The current activation goes on with the lists that it has.              *)
LEMMA KeepsLists ==
  ASSUME Apart, IInv, IInv', runs # <<>>, blocks' = blocks, NEW f, f = Top,
         \E r : Becomes(r) /\ r.kept = f.kept /\ r.items = f.items
  PROVE  Pending' = Pending
<1>1. PICK r : Becomes(r) /\ r.kept = f.kept /\ r.items = f.items
  OBVIOUS
<1>2. Top' = r /\ runs' # <<>>
  BY <1>1, BecomesTop DEF IInv
<1> QED
  BY <1>1, <1>2, SameLists

LEMMA NoneTouched ==
  ASSUME UNCHANGED <<runs, blocks>>
  PROVE  Pending' = Pending
BY DEF Pending, Detached, DetachedBy

(* The time of an activation passes.                                       *)
LEMMA TimeKeeps ==
  ASSUME Apart, IInv, IInv', NEW i \in DOMAIN runs, NEW x, blocks' = blocks,
         runs' = [runs EXCEPT ![i].timeout = x]
  PROVE  Pending' = Pending
<1>1. runs # <<>> /\ TypeOK /\ TypeOK'
  BY DEF IInv, TypeOK
<1>2. PICK n \in Nat \ {0} : /\ n = Len(runs) /\ DOMAIN runs = 1..n /\ n \in DOMAIN runs
                             /\ Top = runs[n] /\ runs[n] \in ActivationType
                             /\ runs[i] \in ActivationType
  BY <1>1, Tops
<1>3. DOMAIN runs' = 1..n
  BY <1>2
<1>4. runs' \in Seq(ActivationType)
  BY <1>1 DEF TypeOK
<1>5. Len(runs') = n /\ runs' # <<>> /\ Top' = runs'[n]
  <2>1. Len(runs') = n
    BY <1>3, <1>4, LenProperties
  <2> QED
    BY <1>2, <2>1 DEF Top, Last
<1>6. runs'[n].kept = runs[n].kept /\ runs'[n].items = runs[n].items
  BY <1>2 DEF ActivationType
<1> QED
  BY <1>1, <1>2, <1>5, <1>6, SameLists

LEMMA OthersKeep ==
  ASSUME Apart, IInv, IInv', Others
  PROVE  QueueStep \/ Pending' = Pending
<1>1. ASSUME NEW b \in Blocks, CFRunLoopPerformBlock(b) PROVE QueueStep
  BY <1>1, PerformBlockPosts
<1>2. ASSUME NEW s \in Sources,
             CFRunLoopSourceSignal(s) \/ CFRunLoopSourceInvalidate(s) \/ RemoveInvalidated(s)
      PROVE  Pending' = Pending
  BY <1>2, NoneTouched DEF CFRunLoopSourceSignal, CFRunLoopSourceInvalidate, RemoveInvalidated
<1>3. ASSUME NEW s \in Sources, NEW m \in Modes,
             CFRunLoopAddSource(s, m) \/ CFRunLoopRemoveSource(s, m)
      PROVE  Pending' = Pending
  BY <1>3, NoneTouched DEF CFRunLoopAddSource, CFRunLoopRemoveSource
<1>4. ASSUME CFRunLoopStop PROVE Pending' = Pending
  <2>1. PICK f \in ActivationType : f = Top /\ runs # <<>> /\ blocks' = blocks
    BY <1>4, Knows DEF CFRunLoopStop
  <2>2. Becomes([f EXCEPT !.stopped = TRUE])
    BY <1>4, <2>1 DEF CFRunLoopStop
  <2>3. [f EXCEPT !.stopped = TRUE].kept = f.kept /\ [f EXCEPT !.stopped = TRUE].items = f.items
    BY <2>1 DEF ActivationType
  <2> QED
    BY <2>1, <2>2, <2>3, KeepsLists
<1>5. ASSUME NEW m \in StopModes, CFRunLoopStopMode(m) PROVE Pending' = Pending
  BY <1>5, NoneTouched DEF CFRunLoopStopMode
<1>6. ASSUME NEW i \in DOMAIN runs, TimePasses(i) PROVE Pending' = Pending
  BY <1>6, TimeKeeps DEF TimePasses
<1> QED
  BY <1>1, <1>2, <1>3, <1>4, <1>5, <1>6 DEF Others

LEMMA GoToKeeps ==
  ASSUME Apart, IInv, IInv', runs # <<>>, blocks' = blocks, NEW step, GoTo(step)
  PROVE  Pending' = Pending
<1>1. PICK f \in ActivationType : f = Top
  BY Knows
<1>2. Becomes([f EXCEPT !.at = Reach(step)])
  BY <1>1 DEF GoTo
<1>3. PICK r : r = [f EXCEPT !.at = Reach(step)]
  OBVIOUS
<1>4. r.kept = f.kept /\ r.items = f.items
  BY <1>1, <1>3 DEF ActivationType
<1> QED
  BY <1>1, <1>2, <1>3, <1>4, KeepsLists

LEMMA UseStopKeeps ==
  ASSUME Apart, IInv, IInv', runs # <<>>, blocks' = blocks, NEW step, UseStop(step)
  PROVE  Pending' = Pending
<1>1. PICK f \in ActivationType : f = Top
  BY Knows
<1>2. Becomes([f EXCEPT !.stopped = FALSE, !.at = Reach(step)])
  BY <1>1 DEF UseStop
<1>3. PICK r : r = [f EXCEPT !.stopped = FALSE, !.at = Reach(step)]
  OBVIOUS
<1>4. r.kept = f.kept /\ r.items = f.items
  BY <1>1, <1>3 DEF ActivationType
<1> QED
  BY <1>1, <1>2, <1>3, <1>4, KeepsLists

(* The steps that only change other parts of the activation.               *)
LEMMA LoopKeeps ==
  ASSUME Apart, IInv, IInv', runs # <<>>, blocks' = blocks, NEW f, f = Top,
         \/ \E x : Becomes([f EXCEPT !.out = x])
         \/ \E x, y : Becomes([f EXCEPT !.out = x, !.at = y])
         \/ \E x, y : Becomes([f EXCEPT !.out = x, !.handled = y])
         \/ \E x, y, z : Becomes([f EXCEPT !.collected = x, !.out = y, !.at = z])
         \/ \E x, y : Becomes([f EXCEPT !.collected = x, !.out = y])
         \/ \E x : Becomes([f EXCEPT !.collected = x])
         \/ \E x, y, z : Becomes([f EXCEPT !.collected = x, !.out = y, !.handled = z])
         \/ \E x, y : Becomes([f EXCEPT !.poll = x, !.at = y])
         \/ \E x, y : Becomes([f EXCEPT !.livePort = x, !.at = y])
         \/ \E x, y : Becomes([f EXCEPT !.ignoreWakeUps = x, !.at = y])
         \/ \E x, y, z, u, v : Becomes([f EXCEPT !.ignoreWakeUps = x, !.handled = y, !.poll = z,
                                                 !.livePort = u, !.at = v])
  PROVE  Pending' = Pending
<1>1. f \in ActivationType
  BY Knows
<1>2. CASE \E x : Becomes([f EXCEPT !.out = x])
  <2>1. PICK x, r : Becomes(r) /\ r = [f EXCEPT !.out = x]
    BY <1>2
  <2>2. r.kept = f.kept /\ r.items = f.items
    BY <1>1, <2>1 DEF ActivationType
  <2> QED
    BY <2>1, <2>2, KeepsLists
<1>3. CASE \E x, y : Becomes([f EXCEPT !.out = x, !.at = y])
  <2>1. PICK x, y, r : Becomes(r) /\ r = [f EXCEPT !.out = x, !.at = y]
    BY <1>3
  <2>2. r.kept = f.kept /\ r.items = f.items
    BY <1>1, <2>1 DEF ActivationType
  <2> QED
    BY <2>1, <2>2, KeepsLists
<1>4. CASE \E x, y : Becomes([f EXCEPT !.out = x, !.handled = y])
  <2>1. PICK x, y, r : Becomes(r) /\ r = [f EXCEPT !.out = x, !.handled = y]
    BY <1>4
  <2>2. r.kept = f.kept /\ r.items = f.items
    BY <1>1, <2>1 DEF ActivationType
  <2> QED
    BY <2>1, <2>2, KeepsLists
<1>5. CASE \E x, y, z : Becomes([f EXCEPT !.collected = x, !.out = y, !.at = z])
  <2>1. PICK x, y, z, r : Becomes(r) /\ r = [f EXCEPT !.collected = x, !.out = y, !.at = z]
    BY <1>5
  <2>2. r.kept = f.kept /\ r.items = f.items
    BY <1>1, <2>1 DEF ActivationType
  <2> QED
    BY <2>1, <2>2, KeepsLists
<1>6. CASE \E x, y : Becomes([f EXCEPT !.collected = x, !.out = y])
  <2>1. PICK x, y, r : Becomes(r) /\ r = [f EXCEPT !.collected = x, !.out = y]
    BY <1>6
  <2>2. r.kept = f.kept /\ r.items = f.items
    BY <1>1, <2>1 DEF ActivationType
  <2> QED
    BY <2>1, <2>2, KeepsLists
<1>7. CASE \E x : Becomes([f EXCEPT !.collected = x])
  <2>1. PICK x, r : Becomes(r) /\ r = [f EXCEPT !.collected = x]
    BY <1>7
  <2>2. r.kept = f.kept /\ r.items = f.items
    BY <1>1, <2>1 DEF ActivationType
  <2> QED
    BY <2>1, <2>2, KeepsLists
<1>8. CASE \E x, y, z : Becomes([f EXCEPT !.collected = x, !.out = y, !.handled = z])
  <2>1. PICK x, y, z, r : Becomes(r) /\ r = [f EXCEPT !.collected = x, !.out = y, !.handled = z]
    BY <1>8
  <2>2. r.kept = f.kept /\ r.items = f.items
    BY <1>1, <2>1 DEF ActivationType
  <2> QED
    BY <2>1, <2>2, KeepsLists
<1>9. CASE \E x, y : Becomes([f EXCEPT !.poll = x, !.at = y])
  <2>1. PICK x, y, r : Becomes(r) /\ r = [f EXCEPT !.poll = x, !.at = y]
    BY <1>9
  <2>2. r.kept = f.kept /\ r.items = f.items
    BY <1>1, <2>1 DEF ActivationType
  <2> QED
    BY <2>1, <2>2, KeepsLists
<1>10. CASE \E x, y : Becomes([f EXCEPT !.livePort = x, !.at = y])
  <2>1. PICK x, y, r : Becomes(r) /\ r = [f EXCEPT !.livePort = x, !.at = y]
    BY <1>10
  <2>2. r.kept = f.kept /\ r.items = f.items
    BY <1>1, <2>1 DEF ActivationType
  <2> QED
    BY <2>1, <2>2, KeepsLists
<1>11. CASE \E x, y : Becomes([f EXCEPT !.ignoreWakeUps = x, !.at = y])
  <2>1. PICK x, y, r : Becomes(r) /\ r = [f EXCEPT !.ignoreWakeUps = x, !.at = y]
    BY <1>11
  <2>2. r.kept = f.kept /\ r.items = f.items
    BY <1>1, <2>1 DEF ActivationType
  <2> QED
    BY <2>1, <2>2, KeepsLists
<1>12. CASE \E x, y, z, u, v : Becomes([f EXCEPT !.ignoreWakeUps = x, !.handled = y, !.poll = z,
                                       !.livePort = u, !.at = v])
  <2>1. PICK x, y, z, u, v, r : Becomes(r) /\ r = [f EXCEPT !.ignoreWakeUps = x, !.handled = y, !.poll = z,
                                       !.livePort = u, !.at = v]
    BY <1>12
  <2>2. r.kept = f.kept /\ r.items = f.items
    BY <1>1, <2>1 DEF ActivationType
  <2> QED
    BY <2>1, <2>2, KeepsLists
<1> QED
  BY <1>2, <1>3, <1>4, <1>5, <1>6, <1>7, <1>8, <1>9, <1>10, <1>11, <1>12

LEMMA DoObserversKeeps ==
  ASSUME Apart, IInv, IInv', NEW activity \in Activities, DoObservers(activity)
  PROVE  Pending' = Pending
<1>1. PICK f : f = Top /\ runs # <<>> /\ blocks' = blocks
  BY DEF DoObservers, At
<1>2. Becomes([f EXCEPT !.out = "call"]) \/ GoTo(After(activity))
  BY <1>1 DEF DoObservers
<1> QED
  BY <1>1, <1>2, GoToKeeps, LoopKeeps

LEMMA CalloutReturnsKeeps ==
  ASSUME Apart, IInv, IInv', CalloutReturns
  PROVE  Pending' = Pending
<1>1. PICK f \in ActivationType : f = Top /\ runs # <<>> /\ blocks' = blocks
  BY Knows DEF CalloutReturns
<1>2. \/ Becomes([f EXCEPT !.out = "no", !.at = Reach(After(f.at))])
      \/ Becomes([f EXCEPT !.out = "walk"])
  BY <1>1 DEF CalloutReturns, ActivationType
<1> QED
  BY <1>1, <1>2, LoopKeeps

LEMMA StartKeeps ==
  ASSUME Apart, IInv, IInv', Start
  PROVE  Pending' = Pending
<1>1. runs # <<>> /\ blocks' = blocks /\ (UseStop("exit") \/ GoTo("top"))
  BY DEF Start, At
<1> QED
  BY <1>1, UseStopKeeps, GoToKeeps

LEMMA LoopTopKeeps ==
  ASSUME Apart, IInv, IInv', LoopTop
  PROVE  Pending' = Pending
<1>1. PICK f : f = Top /\ runs # <<>> /\ blocks' = blocks
  BY DEF LoopTop, At
<1>2. Becomes([f EXCEPT !.ignoreWakeUps = FALSE, !.handled = FALSE, !.poll = FALSE,
                        !.livePort = {}, !.at = Reach("beforeTimers")])
  BY <1>1 DEF LoopTop
<1> QED
  BY <1>1, <1>2, LoopKeeps

(* To take the list apart and to put it back does not change the order.    *)
LEMMA DetachBlocksKeeps ==
  ASSUME Apart, IInv, IInv', DetachBlocks
  PROVE  Pending' = Pending
<1>1. PICK f \in ActivationType : f = Top /\ Placed(f) /\ f.at \in BlockSteps /\ f.out = "no"
  BY Knows DEF DetachBlocks, At
<1>2. runs # <<>> /\ blocks \in Seq(Blocks) /\ TypeOK /\ AllAttached
  BY <1>1 DEF DetachBlocks, At, IInv, TypeOK, AllAttached
<1>3. CASE GoTo(After(f.at)) /\ UNCHANGED blocks
  BY <1>2, <1>3, GoToKeeps
<1>4. CASE Becomes([f EXCEPT !.items = blocks, !.out = "walk"]) /\ blocks' = <<>>
  <2>1. PICK r : r = [f EXCEPT !.items = blocks, !.out = "walk"]
    OBVIOUS
  <2>2. r.kept = f.kept /\ r.items = blocks
    BY <1>1, <2>1 DEF ActivationType
  <2>3. Top' = r /\ runs' # <<>>
    BY <1>2, <1>4, <2>1, BecomesTop
  <2>4. f.kept = <<>>
    BY <1>1 DEF Placed
  <2>5. Pending' = <<>> \o blocks \o <<>>
    BY <1>4, <2>2, <2>3, <2>4, PendingWas DEF IInv
  <2>6. <<>> \o blocks \o <<>> = blocks
    BY <1>2, ConcatEmptySeq
  <2>7. Pending = blocks
    BY <1>2, PendingAttached
  <2> QED
    BY <2>5, <2>6, <2>7
<1> QED
  BY <1>1, <1>3, <1>4 DEF DetachBlocks

LEMMA ReattachBlocksKeeps ==
  ASSUME Apart, IInv, IInv', ReattachBlocks
  PROVE  Pending' = Pending
<1>1. PICK f \in ActivationType : f = Top /\ f.at \in BlockSteps
  BY Knows DEF ReattachBlocks, WalksBlocks
<1>2. /\ runs # <<>> /\ TypeOK /\ blocks' = f.kept \o f.items \o blocks
      /\ Becomes([f EXCEPT !.items = <<>>, !.kept = <<>>, !.out = "no", !.at = Reach(After(@))])
  BY <1>1 DEF ReattachBlocks, WalksBlocks, IInv
<1>3. PICK r : r = [f EXCEPT !.items = <<>>, !.kept = <<>>, !.out = "no", !.at = Reach(After(@))]
  OBVIOUS
<1>4. r.out = "no"
  BY <1>1, <1>3 DEF ActivationType
<1>5. AllAttached'
  <2>1. Top' = r
    BY <1>2, <1>3, BecomesTop
  <2> QED
    BY <1>4, <2>1 DEF AllAttached
<1>6. Pending' = blocks'
  <2>1. (Apart /\ IInv /\ AllAttached => Pending = blocks)'
    BY PendingAttached, PTL
  <2>2. Apart'
    BY DEF Apart
  <2> QED
    BY <1>5, <2>1, <2>2
<1> QED
  BY <1>1, <1>2, <1>6, PendingIs DEF IInv

LEMMA CollectSources0Keeps ==
  ASSUME Apart, IInv, IInv', CollectSources0
  PROVE  Pending' = Pending
<1>1. PICK f : f = Top /\ runs # <<>> /\ blocks' = blocks
  BY DEF CollectSources0, At
<1>2. GoTo(After("sources0")) \/ \E x : Becomes([f EXCEPT !.collected = x, !.out = "walk"])
  BY <1>1 DEF CollectSources0
<1> QED
  BY <1>1, <1>2, GoToKeeps, LoopKeeps

LEMMA PerformSource0Keeps ==
  ASSUME Apart, IInv, IInv', PerformSource0
  PROVE  Pending' = Pending
<1>1. PICK f \in ActivationType : f = Top /\ runs # <<>> /\ blocks' = blocks
  BY Knows DEF PerformSource0, WalksSources
<1>2. PICK s \in f.collected :
        \/ Becomes([[f EXCEPT !.collected = @ \ {s}] EXCEPT !.out = "call", !.handled = TRUE])
        \/ Becomes([f EXCEPT !.collected = @ \ {s}])
  BY <1>1 DEF PerformSource0
<1>3. PICK x : x = f.collected \ {s}
  OBVIOUS
<1>4. \/ Becomes([f EXCEPT !.collected = x, !.out = "call", !.handled = TRUE])
      \/ Becomes([f EXCEPT !.collected = x])
  BY <1>1, <1>2, <1>3 DEF ActivationType
<1> QED
  BY <1>1, <1>4, LoopKeeps

LEMMA EndSources0Keeps ==
  ASSUME Apart, IInv, IInv', EndSources0
  PROVE  Pending' = Pending
<1>1. PICK f \in ActivationType : f = Top /\ runs # <<>> /\ blocks' = blocks
  BY Knows DEF EndSources0, WalksSources
<1>2. Becomes([f EXCEPT !.collected = {}, !.out = "no", !.at = Reach(After(f.at))])
  BY <1>1 DEF EndSources0, ActivationType
<1> QED
  BY <1>1, <1>2, LoopKeeps

LEMMA DecidePollKeeps ==
  ASSUME Apart, IInv, IInv', DecidePoll
  PROVE  Pending' = Pending
<1>1. PICK f : f = Top /\ runs # <<>> /\ blocks' = blocks
  BY DEF DecidePoll, At
<1>2. \E x, y : Becomes([f EXCEPT !.poll = x, !.at = y])
  BY <1>1 DEF DecidePoll
<1> QED
  BY <1>1, <1>2, LoopKeeps

LEMMA ReceiveKeeps ==
  ASSUME Apart, IInv, IInv', ReceiveWakeUp \/ ReceiveMessage \/ ReceiveNothing
  PROVE  Pending' = Pending
<1>1. PICK f : f = Top /\ runs # <<>> /\ blocks' = blocks
  BY DEF ReceiveWakeUp, ReceiveMessage, ReceiveNothing, At
<1>2. GoTo("awake") \/ \E x : Becomes([f EXCEPT !.livePort = x, !.at = "awake"])
  BY <1>1 DEF ReceiveWakeUp, ReceiveMessage, ReceiveNothing
<1> QED
  BY <1>1, <1>2, GoToKeeps, LoopKeeps

LEMMA AwakeKeeps ==
  ASSUME Apart, IInv, IInv', Awake
  PROVE  Pending' = Pending
<1>1. PICK f : f = Top /\ runs # <<>> /\ blocks' = blocks
  BY DEF Awake, At
<1>2. \E y : Becomes([f EXCEPT !.ignoreWakeUps = TRUE, !.at = y])
  BY <1>1 DEF Awake
<1> QED
  BY <1>1, <1>2, LoopKeeps

LEMMA HandleMessageKeeps ==
  ASSUME Apart, IInv, IInv', HandleMessage
  PROVE  Pending' = Pending
<1>1. PICK f : f = Top /\ runs # <<>> /\ blocks' = blocks
  BY DEF HandleMessage, At
<1>2. Becomes([f EXCEPT !.out = "call", !.handled = TRUE]) \/ GoTo(After("handle"))
  BY <1>1 DEF HandleMessage
<1> QED
  BY <1>1, <1>2, GoToKeeps, LoopKeeps

LEMMA DecideKeeps ==
  ASSUME Apart, IInv, IInv', Decide
  PROVE  Pending' = Pending
<1>1. runs # <<>> /\ blocks' = blocks
  BY DEF Decide, At
<1>2. GoTo("exit") \/ UseStop("exit") \/ GoTo("top")
  BY DEF Decide
<1> QED
  BY <1>1, <1>2, UseStopKeeps, GoToKeeps

(* The activation below the one that leaves has not detached any blocks.   *)
LEMMA LeaveKeeps ==
  ASSUME Apart, IInv, IInv', Leave
  PROVE  Pending' = Pending
<1>1. runs # <<>> /\ blocks' = blocks /\ TypeOK /\ Nested /\ runs' = Front(runs)
  BY DEF Leave, At, IInv
<1>2. AllAttached
  BY DEF Leave, At, AllAttached
<1>3. PICK n \in Nat \ {0} : n = Len(runs) /\ DOMAIN runs = 1..n /\ runs \in Seq(ActivationType)
  BY <1>1, Tops DEF TypeOK
<1>4. Len(runs') = n - 1 /\ \A j \in 1..n - 1 : runs'[j] = runs[j]
  BY <1>1, <1>3, SubSeqProperties DEF Front
<1>5. AllAttached'
  <2> SUFFICES ASSUME runs' # <<>> PROVE Top'.at \notin BlockSteps
    BY DEF AllAttached
  <2>1. runs' \in Seq(ActivationType)
    BY DEF IInv, TypeOK
  <2>2. n - 1 \in 1..n - 1
    BY <1>4, <2>1
  <2>3. Top' = runs[n - 1]
    BY <1>4, <2>2 DEF Top, Last
  <2>4. runs[n - 1].at \in NestFrom
    BY <1>1, <1>3, <2>2 DEF Nested
  <2> QED
    BY <2>3, <2>4 DEF Apart
<1> QED
  BY <1>1, <1>2, <1>5, StaysAttached

LEMMA RunSpecificKeeps ==
  ASSUME Apart, IInv, IInv', NEW call \in Calls, CFRunLoopRunSpecific(call[1], call[2], call[3])
  PROVE  Pending' = Pending
<1>1. PICK r : r = Activation(call[1], call[2], call[3])
  OBVIOUS
<1>2. /\ runs # <<>> => Top.at \in NestFrom
      /\ runs' = Append(runs, r) /\ blocks' = blocks
  BY <1>1 DEF CFRunLoopRunSpecific
<1>3. AllAttached
  BY <1>2 DEF AllAttached, Apart
<1>4. r.out = "no"
  BY <1>1 DEF Activation
<1>5. Top' = r
  <2>1. PICK n \in Nat : n = Len(runs)
    BY DEF IInv, TypeOK
  <2>2. PICK T : T = ActivationType \cup {r}
    OBVIOUS
  <2>3. runs \in Seq(T) /\ r \in T
    BY <2>2 DEF IInv, TypeOK
  <2>4. Len(runs') = n + 1 /\ runs'[n + 1] = r
    BY <1>2, <2>1, <2>3, AppendProperties
  <2> QED
    BY <2>4 DEF Top, Last
<1>6. AllAttached'
  BY <1>4, <1>5 DEF AllAttached
<1> QED
  BY <1>2, <1>3, <1>6, StaysAttached

LEMMA LoopQueues ==
  ASSUME Apart, IInv, IInv', Loop
  PROVE  QueueStep \/ Pending' = Pending
<1>1. ASSUME NEW activity \in Activities, DoObservers(activity) PROVE Pending' = Pending
  BY <1>1, DoObserversKeeps
<1> QED
  BY <1>1, CalloutReturnsKeeps, StartKeeps, LoopTopKeeps, DetachBlocksKeeps, CallBlockPerforms,
     ReattachBlocksKeeps, CollectSources0Keeps, PerformSource0Keeps, EndSources0Keeps,
     DecidePollKeeps, ReceiveKeeps, AwakeKeeps, HandleMessageKeeps, DecideKeeps, LeaveKeeps
  DEF Loop

LEMMA StepsQueue ==
  ASSUME Apart, IInv, IInv', [Next]_vars
  PROVE  [QueueStep]_Pending
<1>1. CASE Others
  BY <1>1, OthersKeep
<1>2. CASE Helpers
  <2>1. ASSUME CFRunLoopWakeUp PROVE Pending' = Pending
    BY <2>1, NoneTouched DEF CFRunLoopWakeUp
  <2>2. ASSUME NEW i \in DOMAIN runs, CFRunLoopTimeout(i) PROVE Pending' = Pending
    BY <2>2, TimeKeeps DEF CFRunLoopTimeout
  <2> QED
    BY <1>2, <2>1, <2>2 DEF Helpers
<1>3. CASE Run
  BY <1>3, RunSpecificKeeps DEF Run
<1>4. CASE Loop
  BY <1>4, LoopQueues
<1>5. CASE UNCHANGED vars
  BY <1>5, NoneTouched DEF vars
<1> QED
  BY <1>1, <1>2, <1>3, <1>4, <1>5 DEF Next

LEMMA BeginsEmpty ==
  ASSUME Apart, Init
  PROVE  Queue!Init
<1>1. IInv
  BY InitIInv
<1>2. Pending = blocks
  BY <1>1, PendingAttached DEF Init, AllAttached
<1> QED
  BY <1>2 DEF Init, Queue!Init

(* Blocks run once, in the mode of the run and in the order in which they  *)
(* were handed over: the loop implements the queue of BlockQueue, for any  *)
(* blocks and modes, if no callout of the walk over the blocks runs the    *)
(* loop again.  Without the hypothesis it is false: the nested run takes   *)
(* newer blocks before those that the outer one has detached.              *)
THEOREM BlocksInOrder ==
  ASSUME NestFrom \cap BlockSteps = {}
  PROVE  Spec => BlocksSpec
<1>1. Apart
  BY DEF Apart
<1>2. Init => Queue!Init
  BY <1>1, BeginsEmpty
<1>3. IInv /\ IInv' /\ [Next]_vars => [QueueStep]_Pending
  BY <1>1, StepsQueue
<1> QED
  BY <1>2, <1>3, SpecIInv, PTL DEF Spec, BlocksSpec, QueueStep

=============================================================================
