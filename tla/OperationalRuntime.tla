------------------------- MODULE OperationalRuntime -------------------------
(***************************************************************************)
(* OperationalRuntime of src/operational_runtime.cpp: a RollbackEngine     *)
(* driven by datagrams, a RecoveryController with its bridge, and the      *)
(* TimeTravelDebugger (src/observability.cpp) that records every frame.    *)
(* It composes the same parts as the Host SDK and guards them differently: *)
(* ingesting an input does not ask for the mode, and an acknowledgement    *)
(* restores the engine only when the bridge will take it.                  *)
(*                                                                         *)
(* What the gateway and the authorization policy decide is a choice here;  *)
(* they are in NetworkSecurityGateway, WireFormats and SessionSecurity.    *)
(* Of a trace event only its code is kept.                                 *)
(*                                                                         *)
(* The host may go on ingesting while the directive of the pending event   *)
(* is to pause, restore or halt; heeded says that it never has.            *)
(***************************************************************************)
EXTENDS Recovery, Integers, Sequences, FiniteSets

CONSTANTS
  Worlds, InitialWorld, Inputs, EmptyInput, Step(_, _), Overflows(_, _),
  Capacity,             \* config.snapshot_capacity
  MaxFrame,             \* bound: frames of a behaviour
  LogCapacity,          \* config.time_travel_frame_capacity
  CheckpointInterval,   \* config.safe_checkpoint_interval_frames
  MaxReports            \* bound: faults of a behaviour

\* The constructors check that the numbers are positive; that the interval
\* fits in the window is left to the configuration.  The generations of a
\* behaviour stay below the value at which they saturate.
ASSUME RuntimeAssumption ==
  /\ InitialWorld \in Worlds
  /\ EmptyInput \in Inputs
  /\ \A world \in Worlds, input \in Inputs : Overflows(world, input) \in BOOLEAN
  /\ Capacity \in Nat \ {0}
  /\ MaxFrame \in Nat
  /\ CheckpointInterval \in 1..Capacity
  /\ LogCapacity \in Nat \ {0}
  /\ MaxReports \in 0..UInt64Max

VARIABLES
  current, snapshots, history, pc, restored, aborted,   \* engine_
  controller,   \* recovery_
  bridge,       \* recovery_host_bridge_
  log,          \* time_travel_: frame -> [world, input]
  heeded,       \* history: no input was ingested in a mode that forbids it
  verdict,      \* history: why the last acknowledgement was refused
  trace         \* traces_: the codes that the last call recorded

Engine == INSTANCE RollbackEngine

engineVars == <<current, snapshots, history, pc, restored, aborted>>
recoveryVars == <<controller, bridge>>
vars == <<engineVars, recoveryVars, log, heeded, verdict, trace>>

\* The reasons of PacketRejectReason, grouped as the runtime tells them apart
PacketReasons ==
  {"Malformed", "NotAuthentic", "ResourceExhausted", "RateLimited",
   "ReplayDuplicate", "ReplayTooOld"}

\* trace_code_for_packet_rejection
TraceCodeForPacketRejection(reason) ==
  CASE reason \in {"ReplayDuplicate", "ReplayTooOld"} -> "InputReplayRejected"
    [] reason = "RateLimited" -> "InputRateLimited"
    [] OTHER -> "InputMalformed"

\* record_network_rejection and record_payload_rejection
NetworkRejection(reason) == <<TraceCodeForPacketRejection(reason)>>

PayloadRejection == <<"InputMalformed">>

\* is_structural_or_authentication_rejection
IsStructuralOrAuthenticationRejection(reason) ==
  reason \notin {"RateLimited", "ReplayDuplicate", "ReplayTooOld"}

RollingBack == bridge.pending.signal.mode = "RollingBackToCheckpoint"

LogEntry == [world : Worlds, input : Inputs]

\* record_frame: a full log overwrites its oldest record.  It throws for a
\* frame that is not newer than all of them, which LogIsTimeline rules out.
Recorded(world, frame, input) ==
  LET full == Cardinality(DOMAIN log) = LogCapacity
      oldest == {f \in DOMAIN log : full /\ \A g \in DOMAIN log : f <= g}
  IN  [f \in (DOMAIN log \ oldest) \cup {frame} |->
         IF f = frame THEN [world |-> world, input |-> input] ELSE log[f]]

\* truncate_after of the log
LogUpTo(frame) == [f \in {g \in DOMAIN log : g <= frame} |-> log[f]]

-----------------------------------------------------------------------------
Init ==
  /\ Engine!EngineInit
  /\ controller = MarkSafeCheckpoint(InitialController, 0)
  /\ bridge = InitialBridge
  /\ log = [f \in {0} |-> [world |-> InitialWorld, input |-> EmptyInput]]
  /\ heeded = TRUE
  /\ verdict = "None"
  /\ trace = <<>>

\* An ingest, whatever the mode: a host that heeds the directives
\* PauseSimulation, RestoreCheckpoint, DisableTelemetryAndPause and
\* HaltSimulation makes none in the modes that have them.
IngestCall ==
  /\ heeded' = (heeded /\ MayAdvance(controller.mode))
  /\ verdict' = "None"

\* A mutant: the next checkpoint is marked before it is reached.
MarkedAhead(frame) ==
  IF (frame + 1) % CheckpointInterval = 0
  THEN MarkSafeCheckpoint(controller, frame + 1) ELSE controller

\* The checkpoint mark after an advance
Marked(frame) ==
  IF frame % CheckpointInterval = 0
  THEN MarkSafeCheckpoint(controller, frame) ELSE controller

\* The trace of publish_recovery; its code is RecoveryTraceCode of HostCalls.
Published == <<"RecoverySignal">>

\* recovery_.report_fault and publish_recovery, on the controller c
Report(c, fault) ==
  /\ bridge.generation < MaxReports
  /\ controller' = ControllerAfterFault(c, fault)
  /\ bridge' = Publish(bridge, SignalOfFault(c, fault))

\* ingest_input of a packet that the gateway refuses: record_network_rejection,
\* and a fault unless the packet is only late, repeated or one too many.
IngestRefused(reason) ==
  /\ IngestCall
  /\ IF IsStructuralOrAuthenticationRejection(reason)
     THEN Report(controller, IF reason = "ResourceExhausted"
                             THEN "OutOfMemory" ELSE "MalformedPacket")
     ELSE UNCHANGED recoveryVars
  /\ trace' = NetworkRejection(reason)
                \o (IF IsStructuralOrAuthenticationRejection(reason)
                    THEN Published ELSE <<>>)
  /\ UNCHANGED <<engineVars, log>>

\* ... of a packet whose payload parse_input_payload refuses:
\* record_payload_rejection
IngestUnparsed ==
  /\ IngestCall
  /\ Report(controller, "MalformedPacket")
  /\ trace' = PayloadRejection \o Published
  /\ UNCHANGED <<engineVars, log>>

\* ... whose commands the policy refuses; without a transport there is no
\* trace of it
IngestUnauthorized ==
  /\ IngestCall
  /\ trace' \in {<<"SessionRejected">>, <<>>}
  /\ UNCHANGED <<engineVars, recoveryVars, log>>

\* ingest_input of an accepted packet
Ingest(input) ==
  /\ IngestCall
  /\ Engine!Advance(input)
  /\ controller' = Marked(current'.frame)
  /\ log' = Recorded(current'.world, current'.frame, input)
  /\ trace' = <<"InputAuthenticated", "StateAdvanced">>
  /\ UNCHANGED bridge

\* ... when there is no memory left for the record of the frame: the engine
\* has advanced, the log has no record of it.
IngestUnrecorded(input) ==
  /\ IngestCall
  /\ Engine!Advance(input)
  /\ Report(Marked(current'.frame), "OutOfMemory")
  /\ trace' = <<"InputAuthenticated", "StateAdvanced">> \o Published
  /\ UNCHANGED log

\* ... when memory runs out while the engine advances, or when its step
\* overflows: any exception but bad_alloc goes to the caller.
IngestFails(input) ==
  /\ IngestCall
  /\ Engine!AdvanceThrows(input)
  /\ \/ /\ Report(controller, "OutOfMemory")
        /\ trace' = <<"InputAuthenticated">> \o Published
     \/ /\ UNCHANGED recoveryVars
        /\ trace' = <<"InputAuthenticated">>
  /\ UNCHANGED log

\* report_external_fault and report_external_fault_event
ReportExternalFault(fault) ==
  /\ Report(controller, fault)
  /\ verdict' = "None"
  /\ trace' = Published
  /\ UNCHANGED <<engineVars, log, heeded>>

\* A call of install_authenticated_session, record_budget_sample or
\* verify_state_against: all it leaves behind is its trace, and
\* none when the states agree.  Revocations leave none at all.
Observed(codes) ==
  /\ trace' = codes
  /\ verdict' = "None"
  /\ UNCHANGED <<engineVars, recoveryVars, log, heeded>>

\* install_authenticated_session
InstallAuthenticatedSession ==
  \/ Observed(<<"SessionEstablished">>)
  \/ Observed(<<"SessionRejected">>)

\* record_budget_sample
RecordBudgetSample ==
  Observed(<<"BudgetExceeded">>) \/ Observed(<<"BudgetSampled">>)

\* verify_state_against an expected world of the same frame
VerifyStateAgainst(expected) ==
  Observed(IF expected = current.world THEN <<>> ELSE <<"StateDivergence">>)

\* A mutant: the mode of the pending event is not checked.
RestoresFirstInAnyMode(generation, ack, frame) ==
  /\ HasPending(bridge)
  /\ generation = bridge.pending.generation
  /\ ack = "CheckpointRestored"
  /\ frame = bridge.pending.signal.checkpoint

\* The condition under which acknowledge_recovery restores the engine before
\* it asks the bridge.
RestoresFirst(generation, ack, frame) ==
  /\ HasPending(bridge)
  /\ generation = bridge.pending.generation
  /\ RollingBack
  /\ ack = "CheckpointRestored"
  /\ frame = bridge.pending.signal.checkpoint

\* acknowledge_recovery for a frame the window has lost, or when there is no
\* memory to restore it
AcknowledgeCannotRestore(generation, ack, frame) ==
  /\ RestoresFirst(generation, ack, frame)
  /\ verdict' = IF frame \in DOMAIN snapshots
                THEN "ResourceExhausted" ELSE "CheckpointUnavailable"
  /\ trace' = IF frame \in DOMAIN snapshots THEN <<"RollbackStarted">> ELSE <<>>
  /\ UNCHANGED <<engineVars, recoveryVars, log, heeded>>

\* The traces of acknowledge_recovery, once the bridge has answered
AckTrace(generation, ack, frame) ==
  (IF RestoresFirst(generation, ack, frame)
   THEN <<"RollbackStarted", "RollbackCompleted">> ELSE <<>>)
    \o (IF AckRejectReason(controller, bridge, generation, ack, frame) = "None"
        THEN <<"RecoveryAcknowledged">>
        ELSE <<"RecoveryAcknowledgementRejected">>)

\* A mutant: the log keeps the frames of the abandoned branch.
AcknowledgeKeepsLog(generation, ack, frame) ==
  /\ IF RestoresFirst(generation, ack, frame)
     THEN Engine!RestoreCheckpoint(frame) ELSE UNCHANGED engineVars
  /\ controller' =
       ControllerAfterAck(controller, bridge, generation, ack, frame)
  /\ bridge' = BridgeAfterAck(controller, bridge, generation, ack, frame)
  /\ verdict' = AckRejectReason(controller, bridge, generation, ack, frame)
  /\ trace' = AckTrace(generation, ack, frame)
  /\ UNCHANGED <<log, heeded>>

\* acknowledge_recovery.  The checkpoint is not marked again.
Acknowledge(generation, ack, frame) ==
  /\ IF RestoresFirst(generation, ack, frame)
     THEN Engine!RestoreCheckpoint(frame) /\ log' = LogUpTo(frame)
     ELSE UNCHANGED <<engineVars, log>>
  /\ controller' =
       ControllerAfterAck(controller, bridge, generation, ack, frame)
  /\ bridge' = BridgeAfterAck(controller, bridge, generation, ack, frame)
  /\ verdict' = AckRejectReason(controller, bridge, generation, ack, frame)
  /\ trace' = AckTrace(generation, ack, frame)
  /\ UNCHANGED heeded

Next ==
  \/ \E reason \in PacketReasons : IngestRefused(reason)
  \/ IngestUnparsed
  \/ IngestUnauthorized
  \/ InstallAuthenticatedSession
  \/ RecordBudgetSample
  \/ \E world \in Worlds : VerifyStateAgainst(world)
  \/ \E input \in Inputs : Ingest(input)
  \/ \E input \in Inputs : IngestUnrecorded(input)
  \/ \E input \in Inputs : IngestFails(input)
  \/ \E fault \in FaultKind : ReportExternalFault(fault)
  \/ \E generation \in 0..bridge.generation,
        ack \in RecoveryAcknowledgement, frame \in 0..MaxFrame :
       \/ AcknowledgeCannotRestore(generation, ack, frame)
       \/ Acknowledge(generation, ack, frame)

Spec == Init /\ [][Next]_vars

-----------------------------------------------------------------------------
(* Properties *)

\* Every variable keeps its type: the log never holds more than its capacity
\* and only frames of the behaviour.
TypeOK ==
  /\ Engine!EngineTypeOK
  /\ controller \in RecoveryController
  /\ bridge \in RecoveryHostBridge
  /\ heeded \in BOOLEAN
  /\ Engine!IsPartialFunction(log, LogEntry)
  /\ Cardinality(DOMAIN log) <= LogCapacity

\* The log tells one story: the world it has for a frame is the step of the
\* world it has for the frame before with the input it has for it, and the
\* world a rollback to that frame would restore.  Frames that could not be
\* recorded leave a gap; no frame of a branch that a recovery abandoned stays
\* (operational_runtime.cpp:267-278, 390-391).  No record is ahead of the
\* engine: record_frame would throw for the next frame, after the engine has
\* advanced, and the exception would leave the runtime through ingest_input
\* (observability.cpp:125-128).
LogIsTimeline ==
  \A f \in DOMAIN log :
    /\ f <= current.frame
    /\ f + 1 \in DOMAIN log =>
         log[f + 1].world = Step(log[f].world, log[f + 1].input)
    /\ f \in DOMAIN snapshots => log[f].world = snapshots[f]

\* With a host that pauses when told to, a rollback that is asked for can be
\* done as long as it is pending, whatever faults and refused or failed
\* ingests came before (operational_runtime.cpp:361-391).  One that does not
\* pause can push the checkpoint out of the window, or leave a mark on a
\* frame that a rollback then abandons.
RollbackCanBeAnswered ==
  heeded /\ HasPending(bridge) /\ RollingBack =>
    /\ bridge.pending.signal.checkpoint \in DOMAIN snapshots
    /\ Completes(controller, bridge, bridge.pending.generation,
                 "CheckpointRestored", bridge.pending.signal.checkpoint)

\* The server can go back along the timeline its log tells of.
TimelineKept == LogIsTimeline /\ RollbackCanBeAnswered

\* The traces say what happened to the engine: it advances exactly in the
\* calls that recorded StateAdvanced, changes in no others but those that
\* recorded RollbackCompleted, and a fault is reported exactly when it is
\* traced.  In particular an
\* acknowledgement that is refused leaves the engine and the log as they
\* were: every reason for which the bridge would refuse one after the engine
\* has been restored is excluded before (operational_runtime.cpp:361-367).
TellsTheStep ==
  LET codes == {trace'[i] : i \in DOMAIN trace'} IN
  /\ "StateAdvanced" \in codes <=> current'.frame > current.frame
  /\ {"StateAdvanced", "RollbackCompleted"} \cap codes = {} =>
       UNCHANGED <<current, snapshots, log>>
  /\ "RecoverySignal" \in codes <=> bridge'.generation # bridge.generation
  /\ verdict' # "None" => UNCHANGED <<engineVars, log, recoveryVars>>
TracesTellTheStep == [][TellsTheStep]_vars

=============================================================================
