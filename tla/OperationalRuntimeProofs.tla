---------------------- MODULE OperationalRuntimeProofs ----------------------
(***************************************************************************)
(* Theorems about OperationalRuntime for every simulation, every policy,   *)
(* every window and every capacity of the log: the log tells the timeline  *)
(* a rollback goes back along, a rollback that is asked for can be done as *)
(* long as the host pauses when told to, and the traces of a call say what *)
(* it did.                                                                 *)
(***************************************************************************)
EXTENDS OperationalRuntime, RecoveryLemmas

EngineProofs == INSTANCE RollbackEngineProofs

-----------------------------------------------------------------------------
(* The inductive invariant *)

\* The engine is never in the middle of a correction: the runtime makes none.
EngineAtRest == EngineProofs!EngineInv /\ pc = "idle" /\ aborted = FALSE

\* What that says of the frames
CurrentIsRetained ==
  /\ current.frame \in DOMAIN snapshots
  /\ current.world = snapshots[current.frame]
  /\ DOMAIN snapshots \subseteq Nat
  /\ \A f \in DOMAIN snapshots : f <= current.frame

\* No multiple of the interval lies between the checkpoint and the current
\* frame, the checkpoint is retained, and it is the one the runtime asks for.
CheckpointPart ==
  /\ controller.checkpoint <= current.frame
  /\ current.frame - controller.checkpoint <= current.frame % CheckpointInterval
  /\ controller.checkpoint \in DOMAIN snapshots
  /\ RollingBack => bridge.pending.signal.checkpoint = controller.checkpoint

RuntimeInv ==
  /\ EngineAtRest
  /\ RecoverySound(controller, bridge)
  /\ DOMAIN log \subseteq Nat
  /\ LogIsTimeline
  /\ heeded \in BOOLEAN
  /\ heeded => CheckpointPart

-----------------------------------------------------------------------------
(* The engine inside the runtime *)

LEMMA SameEngine ==
  /\ Engine!EngineInit => EngineProofs!EngineInit
  /\ \A input : Engine!Advance(input) => EngineProofs!Advance(input)
  /\ \A input : Engine!AdvanceThrows(input) => EngineProofs!AdvanceThrows(input)
  /\ \A frame :
       Engine!RestoreCheckpoint(frame) => EngineProofs!RestoreCheckpoint(frame)
<1>1. Engine!EngineInit => EngineProofs!EngineInit
  BY DEF Engine!EngineInit, EngineProofs!EngineInit, Engine!Put, EngineProofs!Put
<1>2. ASSUME NEW input, Engine!Advance(input) PROVE EngineProofs!Advance(input)
  BY <1>2 DEF Engine!Advance, EngineProofs!Advance, Engine!FollowsLatest,
     EngineProofs!FollowsLatest, Engine!Captured, EngineProofs!Captured,
     Engine!Put, EngineProofs!Put, Engine!Keep, EngineProofs!Keep,
     Engine!Trimmed, EngineProofs!Trimmed
<1>3. ASSUME NEW input, Engine!AdvanceThrows(input)
      PROVE  EngineProofs!AdvanceThrows(input)
  BY <1>3 DEF Engine!AdvanceThrows, EngineProofs!AdvanceThrows, Engine!Put,
     EngineProofs!Put
<1>4. ASSUME NEW frame, Engine!RestoreCheckpoint(frame)
      PROVE  EngineProofs!RestoreCheckpoint(frame)
  BY <1>4 DEF Engine!RestoreCheckpoint, EngineProofs!RestoreCheckpoint,
     Engine!Keep, EngineProofs!Keep
<1> QED BY <1>1, <1>2, <1>3, <1>4

LEMMA AtRestFacts == EngineAtRest => CurrentIsRetained
BY DEF EngineAtRest, CurrentIsRetained, EngineProofs!EngineInv,
   EngineProofs!Frames, EngineProofs!CurrentIsNewest

\* Every operation of the engine that the runtime uses leaves it at rest.
LEMMA EngineStaysAtRest ==
  ASSUME EngineAtRest,
         \/ \E input \in Inputs :
              Engine!Advance(input) \/ Engine!AdvanceThrows(input)
         \/ \E frame \in 0..MaxFrame : Engine!RestoreCheckpoint(frame)
         \/ UNCHANGED engineVars
  PROVE  EngineAtRest'
<1>1. [EngineProofs!EngineNext]_engineVars
  BY SameEngine DEF EngineProofs!EngineNext
<1>2. EngineProofs!EngineInv'
  BY <1>1, EngineProofs!StepInv, RuntimeAssumption
     DEF EngineAtRest, engineVars, EngineProofs!engineVars
<1>3. pc' = "idle" /\ aborted' = FALSE
  BY DEF EngineAtRest, Engine!Advance, Engine!AdvanceThrows,
     Engine!RestoreCheckpoint, engineVars
<1> QED BY <1>2, <1>3 DEF EngineAtRest

LEMMA AdvanceFacts ==
  ASSUME CurrentIsRetained, NEW input, Engine!Advance(input)
  PROVE  /\ current' = [frame |-> current.frame + 1,
                        world |-> Step(current.world, input)]
         /\ \A f : f \in DOMAIN snapshots' <=>
                    \/ /\ f \in DOMAIN snapshots
                       /\ current.frame + 1 - Capacity < f
                    \/ f = current.frame + 1
         /\ \A f \in DOMAIN snapshots' : f # current.frame + 1 =>
              snapshots'[f] = snapshots[f]
         /\ snapshots'[current.frame + 1] = Step(current.world, input)
<1>1. /\ current' = [frame |-> current.frame + 1,
                     world |-> Step(current.world, input)]
      /\ snapshots' = Engine!Captured(current.frame + 1,
                                      Step(current.world, input))
  BY DEF Engine!Advance
<1>2. current.frame \in Nat /\ Capacity \in Nat \ {0}
  BY RuntimeAssumption DEF CurrentIsRetained
<1>3. \A f : f \in DOMAIN snapshots' <=>
               \/ /\ f \in DOMAIN snapshots
                  /\ current.frame + 1 - Capacity < f
               \/ f = current.frame + 1
  BY <1>1, <1>2 DEF CurrentIsRetained, Engine!Captured, Engine!Keep, Engine!Put
<1>4. \A f \in DOMAIN snapshots' :
        snapshots'[f] = IF f = current.frame + 1
                        THEN Step(current.world, input) ELSE snapshots[f]
  BY <1>1, <1>2 DEF CurrentIsRetained, Engine!Captured, Engine!Keep, Engine!Put
<1> QED BY <1>1, <1>3, <1>4

LEMMA RestoreFacts ==
  ASSUME CurrentIsRetained, NEW frame, Engine!RestoreCheckpoint(frame)
  PROVE  /\ frame \in DOMAIN snapshots /\ frame \in Nat
         /\ current' = [frame |-> frame, world |-> snapshots[frame]]
         /\ \A f : f \in DOMAIN snapshots' <=> f \in DOMAIN snapshots /\ f <= frame
         /\ \A f \in DOMAIN snapshots' : snapshots'[f] = snapshots[f]
BY DEF CurrentIsRetained, Engine!RestoreCheckpoint, Engine!Keep

\* Counting in the interval.
LEMMA NextModulo ==
  ASSUME NEW m \in Nat, m > 0, NEW n \in Nat
  PROVE  /\ n % m \in 0..(m - 1)
         /\ (n + 1) % m # 0 => (n + 1) % m = (n % m) + 1
OBVIOUS

LEMMA NextInInterval ==
  ASSUME NEW n \in Nat
  PROVE  /\ n % CheckpointInterval \in Nat
         /\ n % CheckpointInterval < CheckpointInterval
         /\ (n + 1) % CheckpointInterval # 0 =>
              (n + 1) % CheckpointInterval = (n % CheckpointInterval) + 1
<1>1. CheckpointInterval \in Nat /\ CheckpointInterval > 0
  BY RuntimeAssumption
<1>2. /\ n % CheckpointInterval \in 0..(CheckpointInterval - 1)
      /\ (n + 1) % CheckpointInterval # 0 =>
           (n + 1) % CheckpointInterval = (n % CheckpointInterval) + 1
  BY <1>1, NextModulo
<1> QED BY <1>1, <1>2

-----------------------------------------------------------------------------
(* Every call keeps the invariant *)

LEMMA RuntimeInitInv ==
  ASSUME Init
  PROVE  RuntimeInv
<1>1. EngineAtRest
  <2>1. EngineProofs!EngineInv
    BY SameEngine, EngineProofs!InitInv, RuntimeAssumption DEF Init
  <2> QED BY <2>1 DEF Init, Engine!EngineInit, EngineAtRest
<1>2. /\ RecoverySound(controller, bridge) /\ controller.checkpoint = 0
      /\ bridge.pending.signal.mode = "Normal"
  BY InitialIsSound DEF Init
<1>3. /\ current = [frame |-> 0, world |-> InitialWorld]
      /\ \A f : f \in DOMAIN snapshots <=> f = 0
      /\ snapshots[0] = InitialWorld
  BY DEF Init, Engine!EngineInit, Engine!Put
<1>4. /\ \A f : f \in DOMAIN log <=> f = 0
      /\ log[0].world = InitialWorld
      /\ heeded = TRUE
  BY DEF Init
<1>5. LogIsTimeline
  BY <1>3, <1>4 DEF LogIsTimeline
<1>6. CheckpointPart
  BY <1>2, <1>3, NextInInterval DEF CheckpointPart, RollingBack
<1>7. DOMAIN log \subseteq Nat
  BY <1>4
<1>8. heeded \in BOOLEAN
  BY <1>4, Zenon
<1> QED BY <1>1, <1>2, <1>5, <1>6, <1>7, <1>8 DEF RuntimeInv

\* A record of the frame just reached continues the timeline; a log without
\* one has a gap there.
LEMMA AdvanceKeepsTimeline ==
  ASSUME RuntimeInv, NEW input \in Inputs,
         Engine!Advance(input),
         \/ log' = Recorded(current'.world, current'.frame, input)
         \/ log' = log
  PROVE  DOMAIN log' \subseteq Nat /\ LogIsTimeline'
<1>0. CurrentIsRetained /\ DOMAIN log \subseteq Nat /\ LogIsTimeline
  BY AtRestFacts DEF RuntimeInv
<1>1. PICK n \in Nat : n = current.frame
  BY <1>0 DEF CurrentIsRetained
<1>2. /\ current'.frame = n + 1
      /\ current'.world = Step(current.world, input)
      /\ current.world = snapshots[n] /\ n \in DOMAIN snapshots
      /\ \A f \in DOMAIN snapshots' :
           f # n + 1 => f \in DOMAIN snapshots /\ snapshots'[f] = snapshots[f]
      /\ snapshots'[n + 1] = Step(current.world, input)
  BY <1>0, <1>1, AdvanceFacts DEF CurrentIsRetained
<1>3. \A f \in DOMAIN log : f \in Nat /\ f <= n
  BY <1>0, <1>1 DEF LogIsTimeline
<1>4. /\ \A f \in DOMAIN log' : f \in DOMAIN log \/ f = n + 1
      /\ \A f \in DOMAIN log' : f # n + 1 => log'[f] = log[f]
      /\ n + 1 \in DOMAIN log' =>
           /\ log'[n + 1].world = Step(current.world, input)
           /\ log'[n + 1].input = input
  BY <1>2, <1>3 DEF Recorded
<1>5. DOMAIN log' \subseteq Nat
  BY <1>3, <1>4
<1>6. LogIsTimeline'
  <2> SUFFICES ASSUME NEW f \in DOMAIN log'
               PROVE  /\ f <= current'.frame
                      /\ f + 1 \in DOMAIN log' =>
                           log'[f + 1].world = Step(log'[f].world, log'[f + 1].input)
                      /\ f \in DOMAIN snapshots' => log'[f].world = snapshots'[f]
    BY DEF LogIsTimeline
  <2>1. CASE f = n + 1
    <3>1. n + 1 + 1 \notin DOMAIN log'
      BY <1>1, <1>3, <1>4
    <3> QED BY <1>2, <1>4, <2>1, <3>1
  <2>2. CASE f # n + 1
    <3>1. f \in DOMAIN log /\ f \in Nat /\ f <= n /\ log'[f] = log[f]
      BY <1>3, <1>4, <2>2
    <3>2. f \in DOMAIN snapshots' => log'[f].world = snapshots'[f]
      BY <1>0, <1>2, <2>2, <3>1 DEF LogIsTimeline
    <3>3. ASSUME f + 1 \in DOMAIN log'
          PROVE  log'[f + 1].world = Step(log'[f].world, log'[f + 1].input)
      <4>1. CASE f = n
        BY <1>0, <1>2, <1>4, <3>1, <3>3, <4>1 DEF LogIsTimeline
      <4>2. CASE f # n
        <5>1. f + 1 \in DOMAIN log /\ log'[f + 1] = log[f + 1]
          BY <1>1, <1>4, <3>1, <3>3, <4>2
        <5> QED BY <1>0, <3>1, <5>1 DEF LogIsTimeline
      <4> QED BY <4>1, <4>2
    <3> QED BY <1>1, <1>2, <3>1, <3>2, <3>3
  <2> QED BY <2>1, <2>2
<1> QED BY <1>5, <1>6

\* An advance in a mode that allows one keeps the checkpoint in reach, once
\* the mark has been made.
LEMMA AdvanceKeepsCheckpoint ==
  ASSUME RuntimeInv, NEW input \in Inputs,
         Engine!Advance(input)
  PROVE  LET c == Marked(current'.frame) IN
         /\ RecoverySound(c, bridge)
         /\ CheckpointPart =>
              /\ c.checkpoint <= current'.frame
              /\ current'.frame - c.checkpoint
                   <= current'.frame % CheckpointInterval
              /\ c.checkpoint \in DOMAIN snapshots'
         /\ c.checkpoint = controller.checkpoint \/ c.checkpoint = current'.frame
<1>0. /\ CurrentIsRetained /\ RecoverySound(controller, bridge)
      /\ controller.checkpoint \in Nat
  BY AtRestFacts DEF RuntimeInv, RecoverySound, RecoveryController
<1>1. PICK n \in Nat : n = current.frame
  BY <1>0 DEF CurrentIsRetained
<1>2. /\ current'.frame = n + 1
      /\ \A f : f \in DOMAIN snapshots' <=>
                 \/ f \in DOMAIN snapshots /\ n + 1 - Capacity < f
                 \/ f = n + 1
  BY <1>0, <1>1, AdvanceFacts
<1>a. /\ CheckpointInterval \in Nat /\ Capacity \in Nat
      /\ CheckpointInterval <= Capacity
  BY RuntimeAssumption
<1>3. PICK c : c = Marked(n + 1) OBVIOUS
<1>4. CASE (n + 1) % CheckpointInterval = 0
  <2>1. RecoverySound(c, bridge) /\ c.checkpoint = n + 1
    BY <1>0, <1>3, <1>4, MarkKeepsSound DEF Marked
  <2> QED BY <1>2, <1>3, <1>4, <2>1
<1>5. CASE (n + 1) % CheckpointInterval # 0
  <2>1. c = controller
    BY <1>3, <1>5 DEF Marked
  <2>2. ASSUME CheckpointPart
        PROVE  /\ c.checkpoint <= n + 1
               /\ n + 1 - c.checkpoint <= (n + 1) % CheckpointInterval
               /\ c.checkpoint \in DOMAIN snapshots'
    <3>1. PICK m \in Nat : m = n % CheckpointInterval
      BY NextInInterval
    <3>2. /\ (n + 1) % CheckpointInterval = m + 1
          /\ m + 1 < CheckpointInterval
      BY <1>5, <3>1, NextInInterval
    <3>3. /\ c.checkpoint <= n /\ n - c.checkpoint <= m
          /\ c.checkpoint \in DOMAIN snapshots
      BY <1>1, <2>1, <2>2, <3>1 DEF CheckpointPart
    <3>4. n + 1 - Capacity < c.checkpoint
      BY <1>0, <1>a, <2>1, <3>2, <3>3
    <3> QED BY <1>0, <1>2, <2>1, <3>2, <3>3, <3>4
  <2> QED BY <1>0, <1>2, <1>3, <2>1, <2>2
<1> QED BY <1>4, <1>5

\* The engine goes back and the log with it.
LEMMA RestoreKeepsTimeline ==
  ASSUME RuntimeInv, NEW frame, Engine!RestoreCheckpoint(frame),
         log' = LogUpTo(frame)
  PROVE  DOMAIN log' \subseteq Nat /\ LogIsTimeline'
<1>0. CurrentIsRetained /\ DOMAIN log \subseteq Nat /\ LogIsTimeline
  BY AtRestFacts DEF RuntimeInv
<1>1. /\ current'.frame = frame
      /\ \A f \in DOMAIN snapshots' :
           f \in DOMAIN snapshots /\ snapshots'[f] = snapshots[f]
  BY <1>0, RestoreFacts
<1>2. \A f \in DOMAIN log' : f \in DOMAIN log /\ f <= frame /\ log'[f] = log[f]
  BY DEF LogUpTo
<1>3. ASSUME NEW f \in DOMAIN log', f + 1 \in DOMAIN log'
      PROVE  log'[f + 1].world = Step(log'[f].world, log'[f + 1].input)
  BY <1>0, <1>2, <1>3 DEF LogIsTimeline
<1>4. ASSUME NEW f \in DOMAIN log', f \in DOMAIN snapshots'
      PROVE  log'[f].world = snapshots'[f]
  BY <1>0, <1>1, <1>2, <1>4 DEF LogIsTimeline
<1>5. DOMAIN log' \subseteq Nat
  BY <1>0, <1>2
<1>6. \A f \in DOMAIN log' : f <= current'.frame
  BY <1>1, <1>2
<1> QED BY <1>3, <1>4, <1>5, <1>6 DEF LogIsTimeline

\* What a report leaves of the controller c, which is the runtime's or the
\* one with the mark of the frame just reached.
LEMMA ReportFacts ==
  ASSUME NEW c, RecoverySound(c, bridge), NEW fault \in FaultKind,
         Report(c, fault)
  PROVE  /\ RecoverySound(controller', bridge')
         /\ controller'.checkpoint = c.checkpoint
         /\ \/ bridge'.pending.signal.checkpoint = c.checkpoint
            \/ bridge'.pending \in {bridge.pending, NoEvent}
<1>1. /\ controller' = ControllerAfterFault(c, fault)
      /\ bridge' = Publish(bridge, SignalOfFault(c, fault))
  BY DEF Report
<1> QED BY <1>1, ReportKeepsSound

\* A call that leaves the frames and the log alone, whatever it reports.
LEMMA QuietStepInv ==
  ASSUME RuntimeInv,
         UNCHANGED <<current, snapshots, log>>, EngineAtRest',
         RecoverySound(controller', bridge'),
         controller'.checkpoint = controller.checkpoint,
         \/ bridge'.pending.signal.checkpoint = controller.checkpoint
         \/ bridge'.pending \in {bridge.pending, NoEvent},
         heeded' \in BOOLEAN, heeded' => heeded
  PROVE  RuntimeInv'
<1>1. current' = current /\ snapshots' = snapshots /\ log' = log
  OBVIOUS
<1>2. DOMAIN log' \subseteq Nat /\ LogIsTimeline'
  BY <1>1 DEF RuntimeInv, LogIsTimeline
<1>3. heeded' => CheckpointPart'
  <2>1. RollingBack' =>
          \/ bridge'.pending.signal.checkpoint = controller.checkpoint
          \/ RollingBack /\ bridge'.pending = bridge.pending
    BY DEF RollingBack, NoEvent
  <2> QED BY <1>1, <2>1 DEF RuntimeInv, CheckpointPart
<1> QED BY <1>2, <1>3 DEF RuntimeInv

\* An ingest that advances, in any mode.
LEMMA AdvanceStepInv ==
  ASSUME RuntimeInv, NEW input \in Inputs,
         Ingest(input) \/ IngestUnrecorded(input)
  PROVE  RuntimeInv'
<1>0. /\ Engine!Advance(input)
      /\ heeded' = (heeded /\ MayAdvance(controller.mode))
      /\ heeded \in BOOLEAN
  BY DEF Ingest, IngestUnrecorded, IngestCall, RuntimeInv
<1>1. EngineAtRest'
  BY <1>0, EngineStaysAtRest DEF RuntimeInv
<1>2. DOMAIN log' \subseteq Nat /\ LogIsTimeline'
  <2>1. \/ log' = Recorded(current'.world, current'.frame, input)
        \/ log' = log
    BY DEF Ingest, IngestUnrecorded
  <2> QED BY <1>0, <2>1, AdvanceKeepsTimeline
<1>3. PICK c : c = Marked(current'.frame) OBVIOUS
<1>4. /\ RecoverySound(c, bridge)
      /\ CheckpointPart =>
           /\ c.checkpoint <= current'.frame
           /\ current'.frame - c.checkpoint
                <= current'.frame % CheckpointInterval
           /\ c.checkpoint \in DOMAIN snapshots'
  BY <1>0, <1>3, AdvanceKeepsCheckpoint
<1>5. /\ RecoverySound(controller', bridge')
      /\ controller'.checkpoint = c.checkpoint
      /\ \/ bridge'.pending.signal.checkpoint = c.checkpoint
         \/ bridge'.pending \in {bridge.pending, NoEvent}
  <2>1. CASE Ingest(input)
    BY <1>3, <1>4, <2>1 DEF Ingest
  <2>2. CASE IngestUnrecorded(input)
    <3>1. Report(c, "OutOfMemory") /\ "OutOfMemory" \in FaultKind
      BY <1>3, <2>2 DEF IngestUnrecorded, FaultKind
    <3> QED BY <1>4, <3>1, ReportFacts
  <2> QED BY <2>1, <2>2
<1>6. heeded' \in BOOLEAN
  BY <1>0 DEF MayAdvance
<1>7. ASSUME heeded' PROVE CheckpointPart'
  <2>1. CheckpointPart /\ MayAdvance(controller.mode)
    BY <1>0, <1>7 DEF RuntimeInv
  <2>2. ~RollingBack
    BY <2>1, RollbackStops DEF RuntimeInv, RollingBack
  <2>3. RollingBack' => bridge'.pending.signal.checkpoint = c.checkpoint
    BY <1>5, <2>2 DEF RollingBack, NoEvent
  <2> QED BY <1>4, <1>5, <2>1, <2>3 DEF CheckpointPart
<1> QED BY <1>1, <1>2, <1>5, <1>6, <1>7 DEF RuntimeInv

\* An acknowledgement, with the restore that comes before it.
LEMMA AcknowledgeStepInv ==
  ASSUME RuntimeInv, NEW g \in Nat,
         NEW ack \in RecoveryAcknowledgement, NEW frame \in 0..MaxFrame,
         Acknowledge(g, ack, frame)
  PROVE  RuntimeInv'
<1>0. frame \in Nat
  BY RuntimeAssumption
<1>1. /\ RecoverySound(controller', bridge')
      /\ controller'.checkpoint = controller.checkpoint
      /\ bridge'.pending \in {bridge.pending, NoEvent}
  <2>1. /\ controller' = ControllerAfterAck(controller, bridge, g, ack, frame)
        /\ bridge' = BridgeAfterAck(controller, bridge, g, ack, frame)
    BY DEF Acknowledge
  <2> QED BY <1>0, <2>1, AckKeepsSound DEF RuntimeInv
<1>2. heeded' = heeded /\ heeded \in BOOLEAN
  BY DEF Acknowledge, RuntimeInv
<1>3. CASE RestoresFirst(g, ack, frame)
  <2>1. Engine!RestoreCheckpoint(frame) /\ log' = LogUpTo(frame)
    BY <1>3 DEF Acknowledge
  <2>2. EngineAtRest'
    BY <2>1, EngineStaysAtRest DEF RuntimeInv
  <2>3. DOMAIN log' \subseteq Nat /\ LogIsTimeline'
    BY <2>1, RestoreKeepsTimeline
  <2>4. ASSUME heeded PROVE CheckpointPart'
    <3>1. controller.checkpoint = frame
      BY <1>3, <2>4 DEF RestoresFirst, RuntimeInv, CheckpointPart
    <3>2. /\ current'.frame = frame /\ frame \in DOMAIN snapshots
          /\ frame \in DOMAIN snapshots'
      BY <1>0, <2>1, AtRestFacts, RestoreFacts DEF RuntimeInv
    <3>3. 0 <= frame % CheckpointInterval
      BY <1>0, NextInInterval
    <3>4. RollingBack' => bridge'.pending.signal.checkpoint = frame
      BY <1>1, <1>3 DEF RestoresFirst, RollingBack, NoEvent
    <3> QED BY <1>0, <1>1, <3>1, <3>2, <3>3, <3>4 DEF CheckpointPart
  <2> QED BY <1>1, <1>2, <2>2, <2>3, <2>4 DEF RuntimeInv
<1>4. CASE ~RestoresFirst(g, ack, frame)
  <2>1. UNCHANGED engineVars /\ log' = log
    BY <1>4 DEF Acknowledge
  <2>2. EngineAtRest'
    BY <2>1, EngineStaysAtRest DEF RuntimeInv
  <2>3. UNCHANGED <<current, snapshots, log>>
    BY <2>1 DEF engineVars
  <2> QED BY <1>1, <1>2, <2>2, <2>3, QuietStepInv
<1> QED BY <1>3, <1>4

\* Every other call leaves the frames alone; at most it reports a fault.
QuietCall ==
  \/ \E reason \in PacketReasons : IngestRefused(reason)
  \/ IngestUnparsed
  \/ IngestUnauthorized
  \/ InstallAuthenticatedSession
  \/ RecordBudgetSample
  \/ \E world \in Worlds : VerifyStateAgainst(world)
  \/ \E input \in Inputs : IngestFails(input)
  \/ \E fault \in FaultKind : ReportExternalFault(fault)
  \/ \E g, ack, frame : AcknowledgeCannotRestore(g, ack, frame)
  \/ UNCHANGED vars

LEMMA QuietCallFacts ==
  ASSUME QuietCall
  PROVE  /\ UNCHANGED <<current, snapshots, log>>
         /\ \/ UNCHANGED engineVars
            \/ \E input \in Inputs : Engine!AdvanceThrows(input)
         /\ \/ \E fault \in FaultKind : Report(controller, fault)
            \/ controller' = controller /\ bridge' = bridge
         /\ heeded' \in {heeded, heeded /\ MayAdvance(controller.mode)}
<1> DEFINE Goal ==
      /\ UNCHANGED <<current, snapshots, log>>
      /\ \/ UNCHANGED engineVars
         \/ \E input \in Inputs : Engine!AdvanceThrows(input)
      /\ \/ \E fault \in FaultKind : Report(controller, fault)
         \/ controller' = controller /\ bridge' = bridge
      /\ heeded' \in {heeded, heeded /\ MayAdvance(controller.mode)}
<1>0. {"OutOfMemory", "MalformedPacket"} \subseteq FaultKind
  BY DEF FaultKind
<1>1. ASSUME NEW reason \in PacketReasons, IngestRefused(reason) PROVE Goal
  <2>1. \/ \E fault \in {"OutOfMemory", "MalformedPacket"} :
             Report(controller, fault)
        \/ controller' = controller /\ bridge' = bridge
    <3>1. CASE IsStructuralOrAuthenticationRejection(reason)
      BY <1>1, <3>1 DEF IngestRefused
    <3>2. CASE ~IsStructuralOrAuthenticationRejection(reason)
      BY <1>1, <3>2 DEF IngestRefused, recoveryVars
    <3> QED BY <3>1, <3>2
  <2> QED BY <1>0, <1>1, <2>1 DEF IngestRefused, IngestCall, engineVars
<1>2. ASSUME IngestUnparsed PROVE Goal
  BY <1>0, <1>2 DEF IngestUnparsed, IngestCall, engineVars
<1>3. ASSUME IngestUnauthorized PROVE Goal
  BY <1>3 DEF IngestUnauthorized, IngestCall, engineVars, recoveryVars
<1>4. ASSUME NEW codes, Observed(codes) PROVE Goal
  BY <1>4 DEF Observed, engineVars, recoveryVars
<1>5. ASSUME NEW input \in Inputs, IngestFails(input) PROVE Goal
  <2>1. /\ Engine!AdvanceThrows(input) /\ log' = log
        /\ heeded' = (heeded /\ MayAdvance(controller.mode))
    BY <1>5 DEF IngestFails, IngestCall
  <2>2. UNCHANGED <<current, snapshots>>
    BY <2>1 DEF Engine!AdvanceThrows
  <2>3. \/ Report(controller, "OutOfMemory")
        \/ controller' = controller /\ bridge' = bridge
    <3>1. Report(controller, "OutOfMemory") \/ UNCHANGED recoveryVars
      BY <1>5 DEF IngestFails
    <3> QED BY <3>1 DEF recoveryVars
  <2> QED BY <1>0, <2>1, <2>2, <2>3
<1>6. ASSUME NEW fault \in FaultKind, ReportExternalFault(fault) PROVE Goal
  BY <1>6 DEF ReportExternalFault, engineVars
<1>7. ASSUME NEW g, NEW ack, NEW frame, AcknowledgeCannotRestore(g, ack, frame)
      PROVE  Goal
  BY <1>7 DEF AcknowledgeCannotRestore, engineVars, recoveryVars
<1>8. ASSUME UNCHANGED vars PROVE Goal
  BY <1>8 DEF vars, engineVars, recoveryVars
<1> HIDE DEF Goal
<1>9. Goal
  BY <1>1, <1>2, <1>3, <1>4, <1>5, <1>6, <1>7, <1>8
     DEF QuietCall, InstallAuthenticatedSession, RecordBudgetSample,
         VerifyStateAgainst
<1> QED BY <1>9 DEF Goal

LEMMA NextCases ==
  ASSUME RuntimeInv, [Next]_vars
  PROVE  \/ \E input \in Inputs : Ingest(input) \/ IngestUnrecorded(input)
         \/ \E g \in Nat, ack \in RecoveryAcknowledgement, frame \in 0..MaxFrame :
              Acknowledge(g, ack, frame)
         \/ QuietCall
<1>1. \A g \in 0..bridge.generation : g \in Nat
  BY DEF RuntimeInv, RecoverySound, RecoveryHostBridge, Generation
<1> QED BY <1>1 DEF Next, QuietCall

LEMMA RuntimeStepInv == RuntimeInv /\ [Next]_vars => RuntimeInv'
<1> SUFFICES ASSUME RuntimeInv, [Next]_vars PROVE RuntimeInv'
  OBVIOUS
<1>1. CASE QuietCall
  <2>1. EngineAtRest'
    BY <1>1, QuietCallFacts, EngineStaysAtRest DEF RuntimeInv
  <2>2. /\ RecoverySound(controller', bridge')
        /\ controller'.checkpoint = controller.checkpoint
        /\ \/ bridge'.pending.signal.checkpoint = controller.checkpoint
           \/ bridge'.pending \in {bridge.pending, NoEvent}
    <3>1. CASE controller' = controller /\ bridge' = bridge
      BY <3>1 DEF RuntimeInv
    <3>2. CASE \E fault \in FaultKind : Report(controller, fault)
      BY <3>2, ReportFacts DEF RuntimeInv
    <3> QED BY <1>1, <3>1, <3>2, QuietCallFacts
  <2>3. heeded' \in BOOLEAN /\ (heeded' => heeded)
    BY <1>1, QuietCallFacts DEF RuntimeInv, MayAdvance
  <2>4. UNCHANGED <<current, snapshots, log>>
    BY <1>1, QuietCallFacts
  <2> QED BY <2>1, <2>2, <2>3, <2>4, QuietStepInv
<1> QED BY <1>1, NextCases, AdvanceStepInv, AcknowledgeStepInv

LEMMA RuntimeInvariance == Spec => []RuntimeInv
<1>1. Init => RuntimeInv
  BY RuntimeInitInv
<1>2. RuntimeInv /\ [Next]_vars => RuntimeInv'
  BY RuntimeStepInv
<1> QED BY <1>1, <1>2, PTL DEF Spec

-----------------------------------------------------------------------------
(* What the traces of a call say *)

Codes(events) == {events[i] : i \in DOMAIN events}

LEMMA CodesOfFew ==
  /\ Codes(<<>>) = {}
  /\ \A a : Codes(<<a>>) = {a}
  /\ \A a, b : Codes(<<a, b>>) = {a, b}
<1>1. Codes(<<>>) = {}
  BY DEF Codes
<1>2. ASSUME NEW a PROVE Codes(<<a>>) = {a}
  BY DEF Codes
<1>3. ASSUME NEW a, NEW b PROVE Codes(<<a, b>>) = {a, b}
  BY DEF Codes
<1> QED BY <1>1, <1>2, <1>3

LEMMA CodesOfBoth ==
  ASSUME NEW S, NEW s \in Seq(S), NEW t \in Seq(S)
  PROVE  Codes(s \o t) = Codes(s) \cup Codes(t)
<1>1. /\ DOMAIN s = 1..Len(s) /\ DOMAIN t = 1..Len(t)
      /\ Len(s) \in Nat /\ Len(t) \in Nat
      /\ DOMAIN (s \o t) = 1..(Len(s) + Len(t))
      /\ \A i \in 1..(Len(s) + Len(t)) :
           (s \o t)[i] = IF i <= Len(s) THEN s[i] ELSE t[i - Len(s)]
  OBVIOUS
<1>2. ASSUME NEW i \in 1..(Len(s) + Len(t))
      PROVE  (s \o t)[i] \in Codes(s) \cup Codes(t)
  BY <1>1 DEF Codes
<1>3. ASSUME NEW i \in 1..Len(s) PROVE  s[i] \in Codes(s \o t)
  BY <1>1 DEF Codes
<1>4. ASSUME NEW i \in 1..Len(t) PROVE  t[i] \in Codes(s \o t)
  <2>1. /\ Len(s) + i \in 1..(Len(s) + Len(t))
        /\ (s \o t)[Len(s) + i] = t[i]
    BY <1>1
  <2> QED BY <1>1, <2>1 DEF Codes
<1>5. Codes(s \o t) \subseteq Codes(s) \cup Codes(t)
  BY <1>1, <1>2 DEF Codes
<1>6. Codes(s) \cup Codes(t) \subseteq Codes(s \o t)
  BY <1>1, <1>3, <1>4 DEF Codes
<1> QED BY <1>5, <1>6
\* The traces of a call are recorded one after the other.
LEMMA CodesOfJoined ==
  ASSUME NEW a, NEW b
  PROVE  /\ Codes(<<>> \o <<a>>) = {a}
         /\ Codes(<<a>> \o <<>>) = {a}
         /\ Codes(<<a>> \o <<b>>) = {a, b}
<1>1. PICK S : S = {a, b} OBVIOUS
<1>2. {<<>>, <<a>>, <<b>>} \subseteq Seq(S)
  BY <1>1
<1>3. PICK e, x, y : e = <<>> /\ x = <<a>> /\ y = <<b>>
  OBVIOUS
<1>4. /\ Codes(e) = {} /\ Codes(x) = {a} /\ Codes(y) = {b}
      /\ e \in Seq(S) /\ x \in Seq(S) /\ y \in Seq(S)
  BY <1>2, <1>3, CodesOfFew
<1>5. /\ Codes(e \o x) = {a}
      /\ Codes(x \o e) = {a}
      /\ Codes(x \o y) = {a, b}
  <2>1. /\ Codes(e \o x) = Codes(e) \cup Codes(x)
        /\ Codes(x \o e) = Codes(x) \cup Codes(e)
        /\ Codes(x \o y) = Codes(x) \cup Codes(y)
    BY <1>4, CodesOfBoth
  <2> QED BY <1>4, <2>1
<1> QED BY <1>3, <1>5, Zenon

LEMMA CodesOfThree ==
  ASSUME NEW a, NEW b, NEW c
  PROVE  Codes(<<a, b>> \o <<c>>) = {a, b, c}
<1>1. PICK S : S = {a, b, c} OBVIOUS
<1>2. <<a, b>> \in Seq(S) /\ <<c>> \in Seq(S)
  BY <1>1
<1>3. PICK x, y : x = <<a, b>> /\ y = <<c>>
  OBVIOUS
<1>4. Codes(x) = {a, b} /\ Codes(y) = {c} /\ x \in Seq(S) /\ y \in Seq(S)
  BY <1>2, <1>3, CodesOfFew
<1>5. Codes(x \o y) = {a, b, c}
  <2>1. Codes(x \o y) = Codes(x) \cup Codes(y)
    BY <1>4, CodesOfBoth
  <2> QED BY <1>4, <2>1
<1> QED BY <1>3, <1>5, Zenon

\* A report hands out a generation of its own.
LEMMA ReportIsNew ==
  ASSUME bridge \in RecoveryHostBridge,
         NEW c, NEW fault, Report(c, fault)
  PROVE  bridge'.generation # bridge.generation
<1>1. /\ bridge.generation \in Nat /\ bridge.generation # UInt64Max
      /\ bridge' = Publish(bridge, SignalOfFault(c, fault))
  BY RecoveryAssumption, RuntimeAssumption
     DEF Report, RecoveryHostBridge, Generation
<1>2. Publish(bridge, SignalOfFault(c, fault)).generation = bridge.generation + 1
  BY <1>1 DEF Publish
<1> QED BY <1>1, <1>2

\* What TellsTheStep asks of a call whose codes are those.
Tells(codes) ==
  /\ "StateAdvanced" \in codes <=> current'.frame > current.frame
  /\ {"StateAdvanced", "RollbackCompleted"} \cap codes = {} =>
       UNCHANGED <<current, snapshots, log>>
  /\ "RecoverySignal" \in codes <=> bridge'.generation # bridge.generation
  /\ verdict' # "None" => UNCHANGED <<engineVars, log, recoveryVars>>

LEMMA TellsFromCodes ==
  ASSUME NEW codes, Codes(trace') = codes, Tells(codes)
  PROVE  TellsTheStep
BY DEF Tells, TellsTheStep, Codes

\* A call that leaves the frames and the log alone and names neither.
LEMMA QuietTells ==
  ASSUME RuntimeInv, NEW codes, Codes(trace') = codes,
         UNCHANGED <<current, snapshots, log>>, "StateAdvanced" \notin codes,
         "RecoverySignal" \in codes <=> bridge'.generation # bridge.generation,
         verdict' = "None" \/ UNCHANGED <<engineVars, log, recoveryVars>>
  PROVE  TellsTheStep
<1>1. ~(current'.frame > current.frame)
  BY AtRestFacts DEF RuntimeInv, CurrentIsRetained
<1> QED BY <1>1, TellsFromCodes DEF Tells

LEMMA QuietCallTells ==
  ASSUME RuntimeInv, QuietCall, ~UNCHANGED vars
  PROVE  TellsTheStep
<1>0. /\ UNCHANGED <<current, snapshots, log>>
      /\ bridge \in RecoveryHostBridge
  BY QuietCallFacts DEF RuntimeInv, RecoverySound
<1>a. \A c, fault : Report(c, fault) => bridge'.generation # bridge.generation
  BY <1>0, ReportIsNew
<1>1. ASSUME NEW reason \in PacketReasons, IngestRefused(reason)
      PROVE  TellsTheStep
  <2>1. PICK code : code = TraceCodeForPacketRejection(reason) OBVIOUS
  <2>2. code \in {"InputReplayRejected", "InputRateLimited", "InputMalformed"}
    BY <2>1 DEF TraceCodeForPacketRejection
  <2>3. verdict' = "None"
    BY <1>1 DEF IngestRefused, IngestCall
  <2>4. CASE IsStructuralOrAuthenticationRejection(reason)
    <3>1. trace' = <<code>> \o <<"RecoverySignal">>
      BY <1>1, <2>1, <2>4 DEF IngestRefused, NetworkRejection, Published
    <3>2. Codes(<<code>> \o <<"RecoverySignal">>) = {code, "RecoverySignal"}
      BY CodesOfJoined
    <3>3. bridge'.generation # bridge.generation
      BY <1>1, <1>a, <2>4 DEF IngestRefused
    <3>4. Codes(trace') = {code, "RecoverySignal"}
      BY <3>1, <3>2
    <3> QED BY <1>0, <2>2, <2>3, <3>3, <3>4, QuietTells
  <2>5. CASE ~IsStructuralOrAuthenticationRejection(reason)
    <3>1. trace' = <<code>> \o <<>> /\ bridge' = bridge
      BY <1>1, <2>1, <2>5 DEF IngestRefused, NetworkRejection, recoveryVars
    <3>2. Codes(<<code>> \o <<>>) = {code}
      BY CodesOfJoined
    <3>3. Codes(trace') = {code}
      BY <3>1, <3>2
    <3> QED BY <1>0, <2>2, <2>3, <3>1, <3>3, QuietTells
  <2> QED BY <2>4, <2>5
<1>2. ASSUME IngestUnparsed PROVE TellsTheStep
  <2>1. trace' = <<"InputMalformed">> \o <<"RecoverySignal">>
    BY <1>2 DEF IngestUnparsed, PayloadRejection, Published
  <2>2. Codes(<<"InputMalformed">> \o <<"RecoverySignal">>)
          = {"InputMalformed", "RecoverySignal"}
    BY CodesOfJoined
  <2>3. /\ Codes(trace') = {"InputMalformed", "RecoverySignal"}
        /\ verdict' = "None" /\ bridge'.generation # bridge.generation
    BY <1>2, <1>a, <2>1, <2>2 DEF IngestUnparsed, IngestCall
  <2> QED BY <1>0, <2>3, QuietTells
<1>3. ASSUME IngestUnauthorized PROVE TellsTheStep
  <2>1. PICK codes \in {{"SessionRejected"}, {}} : Codes(trace') = codes
    BY <1>3, CodesOfFew DEF IngestUnauthorized
  <2>2. bridge' = bridge /\ verdict' = "None"
    BY <1>3 DEF IngestUnauthorized, IngestCall, recoveryVars
  <2> QED BY <1>0, <2>1, <2>2, QuietTells
<1>4. ASSUME NEW code, code # "StateAdvanced", code # "RecoverySignal",
             Observed(<<code>>) \/ Observed(<<>>)
      PROVE  TellsTheStep
  <2>1. PICK codes \in {{code}, {}} : Codes(trace') = codes
    BY <1>4, CodesOfFew DEF Observed
  <2>2. bridge' = bridge /\ verdict' = "None"
    BY <1>4 DEF Observed, recoveryVars
  <2> QED BY <1>0, <1>4, <2>1, <2>2, QuietTells
<1>5. ASSUME NEW input \in Inputs, IngestFails(input) PROVE TellsTheStep
  <2>1. verdict' = "None"
    BY <1>5 DEF IngestFails, IngestCall
  <2>2. CASE /\ Report(controller, "OutOfMemory")
             /\ trace' = <<"InputAuthenticated">> \o <<"RecoverySignal">>
    <3>1. Codes(<<"InputAuthenticated">> \o <<"RecoverySignal">>)
            = {"InputAuthenticated", "RecoverySignal"}
      BY CodesOfJoined
    <3>2. /\ Codes(trace') = {"InputAuthenticated", "RecoverySignal"}
          /\ bridge'.generation # bridge.generation
      BY <1>a, <2>2, <3>1
    <3> QED BY <1>0, <2>1, <3>2, QuietTells
  <2>3. CASE UNCHANGED recoveryVars /\ trace' = <<"InputAuthenticated">>
    <3>1. Codes(trace') = {"InputAuthenticated"} /\ bridge' = bridge
      BY <2>3, CodesOfFew DEF recoveryVars
    <3> QED BY <1>0, <2>1, <3>1, QuietTells
  <2> QED BY <1>5, <2>2, <2>3 DEF IngestFails, Published
<1>6. ASSUME NEW fault \in FaultKind, ReportExternalFault(fault)
      PROVE  TellsTheStep
  <2>1. /\ Codes(trace') = {"RecoverySignal"} /\ verdict' = "None"
        /\ bridge'.generation # bridge.generation
    BY <1>6, <1>a, CodesOfFew DEF ReportExternalFault, Published
  <2> QED BY <1>0, <2>1, QuietTells
<1>7. ASSUME NEW g, NEW ack, NEW frame, AcknowledgeCannotRestore(g, ack, frame)
      PROVE  TellsTheStep
  <2>1. PICK codes \in {{"RollbackStarted"}, {}} : Codes(trace') = codes
    BY <1>7, CodesOfFew DEF AcknowledgeCannotRestore
  <2>2. UNCHANGED <<engineVars, log, recoveryVars>> /\ bridge' = bridge
    BY <1>7 DEF AcknowledgeCannotRestore, recoveryVars
  <2> QED BY <1>0, <2>1, <2>2, QuietTells
<1>8. CASE InstallAuthenticatedSession \/ RecordBudgetSample
  BY <1>4, <1>8 DEF InstallAuthenticatedSession, RecordBudgetSample
<1>9. ASSUME NEW world, VerifyStateAgainst(world) PROVE TellsTheStep
  BY <1>4, <1>9 DEF VerifyStateAgainst
<1> QED BY <1>1, <1>2, <1>3, <1>5, <1>6, <1>7, <1>8, <1>9 DEF QuietCall

\* An advance is traced as one, and the fault it ends in as well.
LEMMA AdvanceTells ==
  ASSUME RuntimeInv, NEW input \in Inputs,
         Ingest(input) \/ IngestUnrecorded(input)
  PROVE  TellsTheStep
<1>1. current'.frame > current.frame
  <2>1. /\ Engine!Advance(input) /\ CurrentIsRetained
        /\ current.frame \in Nat
    BY AtRestFacts DEF Ingest, IngestUnrecorded, RuntimeInv, CurrentIsRetained
  <2> QED BY <2>1, AdvanceFacts
<1>2. verdict' = "None" /\ bridge \in RecoveryHostBridge
  BY DEF Ingest, IngestUnrecorded, IngestCall, RuntimeInv, RecoverySound
<1>3. CASE Ingest(input)
  <2>1. Codes(trace') = {"InputAuthenticated", "StateAdvanced"} /\ bridge' = bridge
    BY <1>3, CodesOfFew DEF Ingest
  <2> QED BY <1>1, <1>2, <2>1, TellsFromCodes DEF Tells
<1>4. CASE IngestUnrecorded(input)
  <2>1. bridge'.generation # bridge.generation
    BY <1>2, <1>4, ReportIsNew DEF IngestUnrecorded
  <2>2. Codes(<<"InputAuthenticated", "StateAdvanced">> \o <<"RecoverySignal">>)
          = {"InputAuthenticated", "StateAdvanced", "RecoverySignal"}
    BY CodesOfThree
  <2>3. Codes(trace') = {"InputAuthenticated", "StateAdvanced", "RecoverySignal"}
    BY <1>4, <2>2 DEF IngestUnrecorded, Published
  <2> QED BY <1>1, <1>2, <2>1, <2>3, TellsFromCodes DEF Tells
<1> QED BY <1>3, <1>4

\* An acknowledgement that restores the engine is accepted: the bridge finds
\* none of its reasons to refuse it.
LEMMA RestoreIsAccepted ==
  ASSUME RuntimeInv, NEW g, NEW ack, NEW frame, RestoresFirst(g, ack, frame)
  PROVE  AckRejectReason(controller, bridge, g, ack, frame) = "None"
<1>1. controller.mode # "Halted"
  BY DEF RuntimeInv, RecoverySound
<1> QED BY <1>1 DEF RestoresFirst, RollingBack, AckRejectReason,
           AcknowledgementMatches

LEMMA AcknowledgeTells ==
  ASSUME RuntimeInv, NEW g, NEW ack, NEW frame, Acknowledge(g, ack, frame)
  PROVE  TellsTheStep
<1>1. PICK reason : reason = AckRejectReason(controller, bridge, g, ack, frame)
  OBVIOUS
<1>2. /\ verdict' = reason
      /\ controller' = ControllerAfterAck(controller, bridge, g, ack, frame)
      /\ bridge' = BridgeAfterAck(controller, bridge, g, ack, frame)
  BY <1>1 DEF Acknowledge
<1>3. bridge'.generation = bridge.generation
  BY <1>2 DEF BridgeAfterAck, RuntimeInv, RecoverySound, RecoveryHostBridge
<1>4. PICK answer \in {"RecoveryAcknowledged", "RecoveryAcknowledgementRejected"} :
        answer = IF reason = "None" THEN "RecoveryAcknowledged"
                                    ELSE "RecoveryAcknowledgementRejected"
  OBVIOUS
<1>5. CASE RestoresFirst(g, ack, frame)
  <2>1. reason = "None" /\ Engine!RestoreCheckpoint(frame)
    BY <1>1, <1>5, RestoreIsAccepted DEF Acknowledge
  <2>2. ~(current'.frame > current.frame)
    BY <2>1, AtRestFacts, RestoreFacts DEF RuntimeInv, CurrentIsRetained
  <2>3. trace' = <<"RollbackStarted", "RollbackCompleted">>
                   \o <<"RecoveryAcknowledged">>
    BY <1>1, <1>5, <2>1 DEF Acknowledge, AckTrace
  <2>4. Codes(<<"RollbackStarted", "RollbackCompleted">>
                \o <<"RecoveryAcknowledged">>)
          = {"RollbackStarted", "RollbackCompleted", "RecoveryAcknowledged"}
    BY CodesOfThree
  <2>5. Codes(trace')
          = {"RollbackStarted", "RollbackCompleted", "RecoveryAcknowledged"}
    BY <2>3, <2>4
  <2> QED BY <1>2, <1>3, <2>1, <2>2, <2>5, TellsFromCodes DEF Tells
<1>6. CASE ~RestoresFirst(g, ack, frame)
  <2>1. /\ UNCHANGED engineVars /\ log' = log
        /\ trace' = <<>> \o <<answer>>
    BY <1>1, <1>4, <1>6 DEF Acknowledge, AckTrace
  <2>2. Codes(<<>> \o <<answer>>) = {answer}
    BY CodesOfJoined
  <2>3. Codes(trace') = {answer} /\ UNCHANGED <<current, snapshots, log>>
    BY <2>1, <2>2 DEF engineVars
  <2>4. verdict' = "None" \/ UNCHANGED <<engineVars, log, recoveryVars>>
    BY <1>1, <1>2, <2>1
       DEF ControllerAfterAck, BridgeAfterAck, Completes, recoveryVars
  <2> QED BY <1>3, <1>4, <2>3, <2>4, QuietTells
<1> QED BY <1>5, <1>6

-----------------------------------------------------------------------------
(* The theorems *)

\* The log tells one story, the one a rollback would go back along, whatever
\* was rolled back or could not be recorded; and a server whose host pauses
\* when told to can answer every rollback it is asked for
\* (operational_runtime.cpp:267-278, 361-391), for every interval that fits
\* in the window.
THEOREM TimelineKeptAlways == Spec => []TimelineKept
<1>1. RuntimeInv => TimelineKept
  <2> SUFFICES ASSUME RuntimeInv, heeded, HasPending(bridge), RollingBack
               PROVE  /\ bridge.pending.signal.checkpoint \in DOMAIN snapshots
                      /\ Completes(controller, bridge, bridge.pending.generation,
                                   "CheckpointRestored",
                                   bridge.pending.signal.checkpoint)
    BY DEF RuntimeInv, TimelineKept, RollbackCanBeAnswered
  <2>1. bridge.pending.signal.checkpoint \in DOMAIN snapshots
    BY DEF RuntimeInv, CheckpointPart
  <2>2. controller.mode # "Halted"
    BY DEF RuntimeInv, RecoverySound
  <2> QED BY <2>1, <2>2 DEF Completes, AckRejectReason, AcknowledgementMatches,
             RollingBack
<1> QED BY <1>1, RuntimeInvariance, PTL

\* The traces of a call say what it did to the engine, to the log and to the
\* recovery event, and an acknowledgement that is refused changes none of
\* them: every reason to refuse one after the engine has been restored is
\* excluded before (operational_runtime.cpp:361-367).
THEOREM TracesTellTheStepAlways == Spec => TracesTellTheStep
<1>1. RuntimeInv /\ [Next]_vars => [TellsTheStep]_vars
  <2> SUFFICES ASSUME RuntimeInv, [Next]_vars, ~UNCHANGED vars PROVE TellsTheStep
    OBVIOUS
  <2> QED BY NextCases, QuietCallTells, AdvanceTells, AcknowledgeTells
<1> QED BY <1>1, RuntimeInvariance, PTL DEF Spec, TracesTellTheStep

=============================================================================
