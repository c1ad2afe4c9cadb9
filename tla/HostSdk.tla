------------------------------ MODULE HostSdk ------------------------------
(***************************************************************************)
(* One handle of the Host SDK (modules/host_sdk/src/dcore_host.cpp): a     *)
(* RollbackEngine, a RecoveryController and a RecoveryHostBridge behind    *)
(* the C functions.  Every function runs on the owner thread and one at a  *)
(* time; a correction spans several steps because its loop can throw.      *)
(* The calls that fail on their arguments, read-only calls and traces      *)
(* change nothing and are left out.                                        *)
(*                                                                         *)
(* FollowsDirectives says how much the host is trusted.  When it is FALSE  *)
(* the host may acknowledge anything with any generation it was told of    *)
(* and restore any retained frame at any time.  When it is TRUE it answers *)
(* CheckpointRestored only to an event that asks for it, and while such an *)
(* event is pending it restores no other frame.                            *)
(***************************************************************************)
EXTENDS Recovery, Integers

CONSTANTS
  Worlds, InitialWorld, Inputs, EmptyInput, Step(_, _), Overflows(_, _),
  Capacity,             \* config.snapshot_capacity
  MaxFrame,             \* bound: frames of a behaviour
  CheckpointInterval,   \* config.safe_checkpoint_interval_frames
  MaxReports,           \* bound: fault reports of a behaviour
  FollowsDirectives     \* how the host behaves

\* create checks that both numbers are positive; that the interval fits in
\* the window is left to the host.
ASSUME HostAssumption ==
  /\ InitialWorld \in Worlds
  /\ EmptyInput \in Inputs
  /\ \A world \in Worlds, input \in Inputs : Overflows(world, input) \in BOOLEAN
  /\ Capacity \in Nat \ {0}
  /\ MaxFrame \in Nat
  /\ CheckpointInterval \in 1..Capacity
  /\ MaxReports \in Nat
  /\ FollowsDirectives \in BOOLEAN

VARIABLES
  current, snapshots, history, pc, restored, aborted,   \* host->engine
  controller,   \* host->recovery
  bridge,       \* host->recovery_bridge
  reply         \* history: the last call, its status or reason

Engine == INSTANCE RollbackEngine

engineVars == <<current, snapshots, history, pc, restored, aborted>>
recoveryVars == <<controller, bridge>>
hostVars == <<engineVars, recoveryVars, reply>>

Replies ==
  [call : {"create", "advance", "correct", "restore", "report", "ack"},
   status : {"OK", "RECOVERY_REQUIRED", "OUT_OF_MEMORY", "FAILED",
             "running"},
   reason : {"None", "NoPendingRecovery", "RuntimeHalted",
             "StaleGeneration", "InvalidAcknowledgement",
             "CheckpointMismatch", "CheckpointUnavailable",
             "ResourceExhausted"}]

Reply(call, status) == [call |-> call, status |-> status, reason |-> "None"]

AckReply(reason) == [call |-> "ack", status |-> "OK", reason |-> reason]

\* fill_state_summary at the end of a call allocates: the status of a call
\* that did its work can be OUT_OF_MEMORY.
SummaryStatus == {"OK", "OUT_OF_MEMORY"}

AtRest == pc = "idle"

RollingBack == bridge.pending.signal.mode = "RollingBackToCheckpoint"

-----------------------------------------------------------------------------
\* A mutant: the initial frame is not a checkpoint.
HostInitUnmarked ==
  /\ Engine!EngineInit
  /\ controller = InitialController
  /\ bridge = InitialBridge
  /\ reply = Reply("create", "OK")

\* neoeng_dcore_host_create and the constructor of the handle
HostInit ==
  /\ Engine!EngineInit
  /\ controller = MarkSafeCheckpoint(InitialController, 0)
  /\ bridge = InitialBridge
  /\ reply = Reply("create", "OK")

\* A mutant: the host forgets to mark the frame it has just reached.
AdvanceUnmarked(input) ==
  /\ MayAdvance(controller.mode)
  /\ Engine!Advance(input)
  /\ \E status \in SummaryStatus : reply' = Reply("advance", status)
  /\ UNCHANGED recoveryVars

\* neoeng_dcore_host_advance
Advance(input) ==
  /\ MayAdvance(controller.mode)
  /\ Engine!Advance(input)
  /\ controller' = IF current'.frame % CheckpointInterval = 0
                   THEN MarkSafeCheckpoint(controller, current'.frame)
                   ELSE controller
  /\ \E status \in SummaryStatus : reply' = Reply("advance", status)
  /\ UNCHANGED bridge

AdvanceFails(input) ==
  /\ MayAdvance(controller.mode)
  /\ Engine!AdvanceThrows(input)
  /\ reply' = Reply("advance", "FAILED")
  /\ UNCHANGED recoveryVars

\* advance and correct_input_and_resimulate while the mode forbids them
Refuse ==
  /\ AtRest /\ ~MayAdvance(controller.mode)
  /\ \E call \in {"advance", "correct"} :
       reply' = Reply(call, "RECOVERY_REQUIRED")
  /\ UNCHANGED <<engineVars, recoveryVars>>

\* neoeng_dcore_host_correct_input_and_resimulate, up to the loop
Correct(frame, input) ==
  /\ MayAdvance(controller.mode)
  /\ Engine!BeginCorrection(frame, input)
  /\ reply' = Reply("correct", "running")
  /\ UNCHANGED recoveryVars

Resimulate ==
  /\ Engine!ResimulateFrame
  /\ UNCHANGED <<recoveryVars, reply>>

CorrectFails ==
  /\ Engine!ResimulationThrows
  /\ reply' = Reply("correct", "FAILED")
  /\ UNCHANGED recoveryVars

CorrectReturns ==
  /\ Engine!EndCorrection
  /\ \E status \in SummaryStatus : reply' = Reply("correct", status)
  /\ UNCHANGED recoveryVars

\* neoeng_dcore_host_restore_checkpoint: there is no check of the mode
RestoreCheckpoint(frame) ==
  /\ FollowsDirectives /\ RollingBack =>
       frame = bridge.pending.signal.checkpoint
  /\ Engine!RestoreCheckpoint(frame)
  /\ controller' = MarkSafeCheckpoint(controller, frame)
  /\ \E status \in SummaryStatus : reply' = Reply("restore", status)
  /\ UNCHANGED bridge

\* neoeng_dcore_host_report_fault
ReportFault(fault) ==
  /\ AtRest /\ bridge.generation < MaxReports
  /\ controller' = ControllerAfterFault(controller, fault)
  /\ bridge' = Publish(bridge, SignalOfFault(controller, fault))
  /\ reply' = Reply("report", "OK")
  /\ UNCHANGED engineVars

\* The condition under which acknowledge_recovery restores the engine before
\* it asks the bridge: the mode of the pending event is not part of it.
RestoresFirst(generation, ack, frame) ==
  /\ HasPending(bridge)
  /\ generation = bridge.pending.generation
  /\ ack = "CheckpointRestored"
  /\ frame = bridge.pending.signal.checkpoint

\* neoeng_dcore_host_acknowledge_recovery for a frame the window has lost,
\* or when there is no memory to restore it
AcknowledgeCannotRestore(generation, ack, frame) ==
  /\ AtRest
  /\ RestoresFirst(generation, ack, frame)
  /\ reply' = AckReply(IF frame \in DOMAIN snapshots
                       THEN "ResourceExhausted"
                       ELSE "CheckpointUnavailable")
  /\ UNCHANGED <<engineVars, recoveryVars>>

\* A mutant: the bridge is told of a restored checkpoint that was not.
AcknowledgeWithoutRestore(generation, ack, frame) ==
  /\ AtRest
  /\ controller' = ControllerAfterAck(controller, bridge, generation, ack, frame)
  /\ bridge' = BridgeAfterAck(controller, bridge, generation, ack, frame)
  /\ reply' = AckReply(AckRejectReason(controller, bridge, generation, ack, frame))
  /\ UNCHANGED engineVars

\* neoeng_dcore_host_acknowledge_recovery
Acknowledge(generation, ack, frame) ==
  /\ AtRest
  /\ IF RestoresFirst(generation, ack, frame)
     THEN Engine!RestoreCheckpoint(frame)
     ELSE UNCHANGED engineVars
  /\ controller' =
       ControllerAfterAck(controller, bridge, generation, ack, frame)
  /\ bridge' = BridgeAfterAck(controller, bridge, generation, ack, frame)
  /\ reply' = AckReply(AckRejectReason(controller, bridge, generation, ack,
                                       frame))

HostMayAnswer(ack) ==
  FollowsDirectives /\ ack = "CheckpointRestored" => RollingBack

HostNext ==
  \/ \E input \in Inputs : Advance(input)
  \/ \E input \in Inputs : AdvanceFails(input)
  \/ Refuse
  \/ \E frame \in 0..MaxFrame, input \in Inputs : Correct(frame, input)
  \/ Resimulate
  \/ CorrectFails
  \/ CorrectReturns
  \/ \E frame \in 0..MaxFrame : RestoreCheckpoint(frame)
  \/ \E fault \in FaultKind : ReportFault(fault)
  \/ \E generation \in 0..bridge.generation,
        ack \in RecoveryAcknowledgement, frame \in 0..MaxFrame :
       /\ HostMayAnswer(ack)
       /\ \/ AcknowledgeCannotRestore(generation, ack, frame)
          \/ Acknowledge(generation, ack, frame)

HostSpec == HostInit /\ [][HostNext]_hostVars

\* The host answers what it is asked: the acknowledgement that matches the
\* pending event, with its generation and its checkpoint.
AnswerPending ==
  \E ack \in RecoveryAcknowledgement :
    /\ Completes(controller, bridge, bridge.pending.generation, ack,
                 bridge.pending.signal.checkpoint)
    /\ HostMayAnswer(ack)
    /\ Acknowledge(bridge.pending.generation, ack,
                   bridge.pending.signal.checkpoint)

\* A correction's loop runs to its end or throws, and a host that can give
\* the answer again and again gives it at last.
HostFairSpec ==
  /\ HostSpec
  /\ WF_hostVars(Resimulate \/ CorrectFails \/ CorrectReturns)
  /\ SF_hostVars(AnswerPending)

-----------------------------------------------------------------------------
(* Properties *)

\* Every variable of the handle keeps its type; the current frame, the
\* window and the checkpoint stay in the frames of the behaviour.
HostTypeOK ==
  /\ Engine!EngineTypeOK
  /\ controller \in RecoveryController /\ controller.checkpoint \in 0..MaxFrame
  /\ bridge \in RecoveryHostBridge
  /\ reply \in Replies

\* The safe checkpoint is a retained frame, fewer than CheckpointInterval
\* frames behind the current one, whatever advances, corrections, restores
\* and recoveries came before (dcore_host.cpp:676-679, 745-746, 890-920): a
\* rollback it asks for can be done and loses no more than that.  A
\* correction cut short by an exception is the exception: it has dropped the
\* snapshots after the corrected frame and the mark stays.
SafeCheckpointRetained ==
  AtRest /\ ~aborted =>
    /\ controller.checkpoint \in DOMAIN snapshots
    /\ controller.checkpoint <= current.frame
    /\ current.frame - controller.checkpoint < CheckpointInterval

\* A runtime that asks for a rollback can be given it: the checkpoint of the
\* pending event, fixed when the fault was reported, is retained as long as
\* the event is pending.  It never halts instead: the constructor marks the
\* initial frame (dcore_host.cpp:415), so exhausted memory always has a
\* checkpoint to go back to (recovery.cpp:96-108).
PendingRollbackRetained ==
  /\ controller.mode # "Halted"
  /\ AtRest /\ ~aborted /\ HasPending(bridge) /\ RollingBack =>
       /\ bridge.pending.signal.checkpoint \in DOMAIN snapshots
       /\ Completes(controller, bridge, bridge.pending.generation,
                    "CheckpointRestored", bridge.pending.signal.checkpoint)

\* What a rollback needs is there before it is asked for and while it is.
RollbackCanBeAnswered == SafeCheckpointRetained /\ PendingRollbackRetained

\* Going back to normal operation from a rollback leaves the canonical state
\* at the checkpoint the event asked for, taken from the window, and nothing
\* after it in the window: a completed recovery is a restored one.
RecoversToCheckpoint ==
  /\ HasPending(bridge) /\ RollingBack
  /\ controller.mode # "Normal" /\ controller'.mode = "Normal"
  =>
    LET frame == bridge.pending.signal.checkpoint IN
    /\ frame \in DOMAIN snapshots
    /\ current' = [frame |-> frame, world |-> snapshots[frame]]
    /\ \A f \in DOMAIN snapshots' : f <= frame
RecoveredStateIsCheckpoint == [][RecoversToCheckpoint]_hostVars

\* A host that does what it is asked gets the runtime back to normal, unless
\* a correction was cut short and took the checkpoint with it.
RecoveryEnds ==
  (controller.mode # "Normal") ~> (controller.mode = "Normal" \/ aborted)

\* The host cannot bypass the recovery generation and checkpoint checks, and
\* acknowledgements are matched by type (HOST_SDK_C_ABI_V1.md:70,
\* HOST_SDK_BOUNDARY.md:43-50): an acknowledgement that is rejected leaves
\* the canonical state and the window as they were.
RejectedChangesNothing ==
  reply'.call = "ack" /\ reply'.reason # "None" => UNCHANGED <<current, snapshots>>

RejectionChangesNothing == [][RejectedChangesNothing]_hostVars

=============================================================================
