-------------------------- MODULE RecoveryContract --------------------------
(***************************************************************************)
(* One RecoveryController and the RecoveryHostBridge in front of it, used  *)
(* the way both owners use them (modules/host_sdk/src/dcore_host.cpp and   *)
(* src/operational_runtime.cpp): every fault that is reported is published *)
(* and every acknowledgement goes through the bridge.  The host may        *)
(* acknowledge any generation it has ever been told of, with any           *)
(* acknowledgement and any checkpoint frame: late, repeated and mistaken   *)
(* answers are all there.                                                  *)
(***************************************************************************)
EXTENDS Recovery

CONSTANTS
  Frames,       \* frames a checkpoint may be marked at
  MaxReports    \* bound: fault reports of a behaviour

ASSUME FramesAssumption ==
  Frames \subseteq Nat /\ 0 \in Frames /\ MaxReports \in Nat

VARIABLES
  controller,   \* RecoveryController
  bridge,       \* RecoveryHostBridge
  reply,        \* history: the last call and what it answered
  blocked,      \* history: fault, generation, checkpoint of the last report
                \* that the runtime has to be brought back from
  streak        \* history: the last fault kind and how many reports in a
                \* row were of it since another kind or a recovery

vars == <<controller, bridge, reply, blocked, streak>>

Reasons == {"None", "NoPendingRecovery", "RuntimeHalted", "StaleGeneration",
            "InvalidAcknowledgement", "CheckpointMismatch"}

Replies ==
  [call : {"none", "mark", "report", "ack"}, fault : FaultKind,
   ack : RecoveryAcknowledgement, generation : Nat, restored : Nat,
   reason : Reasons]

NoReply ==
  [call |-> "none", fault |-> "None", ack |-> "RetryLater",
   generation |-> 0, restored |-> 0, reason |-> "None"]

Init ==
  /\ controller = InitialController
  /\ bridge = InitialBridge
  /\ reply = NoReply
  /\ blocked = [fault |-> "None", generation |-> 0, checkpoint |-> 0]
  /\ streak = [fault |-> "None", count |-> 0]

Mark(frame) ==
  /\ controller' = MarkSafeCheckpoint(controller, frame)
  /\ reply' = [NoReply EXCEPT !.call = "mark"]
  /\ UNCHANGED <<bridge, blocked, streak>>

\* report_fault followed by publish
ReportFault(fault) ==
  LET signal == SignalOfFault(controller, fault)
      next == Publish(bridge, signal)
  IN
  /\ bridge.generation < MaxReports
  /\ controller' = ControllerAfterFault(controller, fault)
  /\ bridge' = next
  /\ reply' = [NoReply EXCEPT !.call = "report", !.fault = fault]
  /\ blocked' = IF signal.action \in {"None", "DropInput"} THEN blocked
                ELSE [fault |-> fault, generation |-> next.generation,
                      checkpoint |-> signal.checkpoint]
  /\ streak' = [fault |-> fault,
                count |-> IF streak.fault = fault
                          THEN streak.count + 1 ELSE 1]

Acknowledge(generation, ack, restored) ==
  /\ controller' =
       ControllerAfterAck(controller, bridge, generation, ack, restored)
  /\ bridge' = BridgeAfterAck(controller, bridge, generation, ack, restored)
  /\ reply' = [call |-> "ack", fault |-> "None", ack |-> ack,
               generation |-> generation, restored |-> restored,
               reason |-> AckRejectReason(controller, bridge, generation,
                                          ack, restored)]
  /\ streak' = IF Completes(controller, bridge, generation, ack, restored)
               THEN [fault |-> "None", count |-> 0] ELSE streak
  /\ UNCHANGED blocked

Next ==
  \/ \E frame \in Frames : Mark(frame)
  \/ \E fault \in FaultKind : ReportFault(fault)
  \/ \E generation \in 0..bridge.generation,
        ack \in RecoveryAcknowledgement, restored \in Frames :
       Acknowledge(generation, ack, restored)

Spec == Init /\ [][Next]_vars

-----------------------------------------------------------------------------
(* Properties *)

\* Every field of both objects keeps its type; the fault counters stay in 32
\* bits and the generation in 64 however many faults are reported
\* (recovery.cpp:8-12, recovery_contract.cpp:109).
TypeOK ==
  /\ controller \in RecoveryController
  /\ bridge \in RecoveryHostBridge
  /\ reply \in Replies
  /\ blocked \in [fault : FaultKind, generation : Nat, checkpoint : Nat]
  /\ streak \in [fault : FaultKind, count : Nat]

\* The bridge's pending event and the controller's mode never drift apart,
\* although faults are reported while an older event waits for its answer:
\* report_fault changes the mode in one object and publish replaces the
\* event in the other (recovery.cpp:35-113, recovery_contract.cpp:108-128).
EventTracksMode == PendingDescribesMode(controller, bridge)

\* Whatever faults arrive while the runtime waits, the event it waits on can
\* be answered: acknowledgement_matches (recovery_contract.cpp:9-40) has an
\* answer for every (mode, fault) pair that report_fault can produce.
EventIsAnswerable == PendingIsAnswerable(controller, bridge)

\* What brings the runtime back from a fault
Remedies(fault) ==
  CASE fault = "DeviceLost" -> {"DeviceRestored"}
    [] fault \in {"IoStall", "NetworkUnavailable"} -> {"DependencyRestored"}
    [] fault = "MalformedPacket" -> {"OriginReset"}
    [] fault = "OutOfMemory" -> {"ResourcesRecovered", "CheckpointRestored"}
    [] fault = "None" -> {}

\* The event the host is asked to answer is the last report that needs a
\* recovery, with the checkpoint it asked for, however many reports came
\* after it that need none (recovery_contract.cpp:119-126); and the mode it
\* names is one that fault leads to.  With EventTracksMode this is what makes
\* the answers of the host safe.
EventIsLastCause ==
  HasPending(bridge) /\ controller.mode # "Halted" =>
    LET event == bridge.pending IN
    /\ blocked = [fault |-> event.signal.fault,
                  generation |-> event.generation,
                  checkpoint |-> event.signal.checkpoint]
    /\ event.signal.fault \in
         CASE event.signal.mode = "Headless" -> {"DeviceLost"}
           [] event.signal.mode = "ReusingLastConfirmedInput" ->
                {"IoStall", "NetworkUnavailable"}
           [] event.signal.mode = "QuarantinedInput" -> {"MalformedPacket"}
           [] event.signal.mode = "SafeWait" ->
                {"DeviceLost", "IoStall", "NetworkUnavailable",
                 "OutOfMemory"}
           [] event.signal.mode = "RollingBackToCheckpoint" ->
                {"OutOfMemory"}
           [] OTHER -> {}

\* The runtime goes back to normal operation only by an acknowledgement that
\* names the generation of the last fault it has to be brought back from and
\* remedies that fault; a restored checkpoint is the one that fault asked
\* for.  A late answer to an older event, or an answer that was right for an
\* earlier mode, changes nothing (recovery_contract.cpp:130-166).
RecoveryIsEarned ==
  [][controller.mode # "Normal" /\ controller'.mode = "Normal" =>
       /\ reply'.call = "ack" /\ reply'.reason = "None"
       /\ reply'.generation = blocked.generation
       /\ reply'.ack \in Remedies(blocked.fault)
       /\ reply'.ack = "CheckpointRestored" =>
            reply'.restored = blocked.checkpoint]_vars

\* The runtime gives up reusing the last confirmed input exactly when more
\* equal stalls than the policy tolerates came in a row: a fault of another
\* kind or a completed recovery starts the count again, a refused
\* acknowledgement does not (recovery.cpp:23-33, 61-82, 115-122).
EscalationIsConsecutive ==
  [][reply'.call = "report" =>
       /\ reply'.fault = "IoStall" =>
            (controller'.mode = "SafeWait" <=> streak'.count > MaxIoStalls)
       /\ reply'.fault = "NetworkUnavailable" =>
            (controller'.mode = "SafeWait"
               <=> streak'.count > MaxNetworkGaps)]_vars

\* The comment of publish (recovery_contract.cpp:120-122) and the host SDK
\* boundary document call a halt terminal: once halted, always halted.
HaltIsTerminal ==
  [][controller.mode = "Halted" => controller'.mode = "Halted"]_vars

=============================================================================
