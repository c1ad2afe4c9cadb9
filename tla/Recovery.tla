------------------------------ MODULE Recovery ------------------------------
(***************************************************************************)
(* The recovery contract of the runtime as operators on the two objects    *)
(* that carry its state: RecoveryController (src/recovery.cpp) and         *)
(* RecoveryHostBridge (src/recovery_contract.cpp).  Every operator maps a  *)
(* value of the object to its value after the call, so that the modules    *)
(* that own a controller (RecoveryContract, HostSdk) share one             *)
(* translation.  Frames and correlation ids of a signal are only traced    *)
(* and are left out; the checkpoint frame decides acknowledgements and is  *)
(* kept.                                                                   *)
(***************************************************************************)
EXTENDS Naturals

CONSTANTS
  ContinueHeadlessPolicy,   \* policy.continue_headless_after_device_loss
  MaxIoStalls,              \* policy.maximum_consecutive_io_stalls
  MaxNetworkGaps,           \* policy.maximum_consecutive_network_gaps
  MalformedThreshold,       \* policy.malformed_packets_before_quarantine
  UInt32Max,                \* where the fault counters saturate
  UInt64Max                 \* where the event generation saturates

ASSUME RecoveryAssumption ==
  /\ ContinueHeadlessPolicy \in BOOLEAN
  /\ MaxIoStalls \in Nat
  /\ MaxNetworkGaps \in Nat
  /\ MalformedThreshold \in Nat
  /\ UInt32Max \in Nat \ {0}
  /\ UInt64Max \in Nat \ {0}

FaultKind == {"None", "DeviceLost", "IoStall", "NetworkUnavailable",
              "MalformedPacket", "OutOfMemory"}

RecoveryMode == {"Normal", "Headless", "ReusingLastConfirmedInput",
                 "QuarantinedInput", "SafeWait", "RollingBackToCheckpoint",
                 "Halted"}

RecoveryAction == {"None", "DropInput", "ContinueHeadless",
                   "ReuseLastConfirmedInput", "QuarantineOrigin",
                   "EnterSafeWait", "RollbackToCheckpoint",
                   "DisableNonessentialTelemetry", "HaltSafely"}

RecoveryAcknowledgement == {"RetryLater", "DeviceRestored",
                            "DependencyRestored", "ResourcesRecovered",
                            "OriginReset", "CheckpointRestored"}

Counter == 0..UInt32Max        \* std::uint32_t

Generation == 0..UInt64Max     \* std::uint64_t

RecoveryController ==
  [mode : RecoveryMode, checkpoint : Nat, hasCheckpoint : BOOLEAN,
   ioStalls : Counter, networkGaps : Counter,
   malformed : Counter, telemetryDisabled : BOOLEAN]

RecoverySignal ==
  [fault : FaultKind, action : RecoveryAction, mode : RecoveryMode,
   checkpoint : Nat]

RecoveryContractEvent ==
  [generation : Generation, signal : RecoverySignal]

RecoveryHostBridge ==
  [generation : Generation, pending : RecoveryContractEvent]

\* RecoveryContractEvent::valid(): an event of generation 0 stands for the
\* empty std::optional, publish never hands out that generation.
NoEvent ==
  [generation |-> 0,
   signal |-> [fault |-> "None", action |-> "None", mode |-> "Normal",
               checkpoint |-> 0]]

HasPending(b) == b.pending.generation # 0

InitialController ==
  [mode |-> "Normal", checkpoint |-> 0, hasCheckpoint |-> FALSE,
   ioStalls |-> 0, networkGaps |-> 0, malformed |-> 0,
   telemetryDisabled |-> FALSE]

InitialBridge == [generation |-> 0, pending |-> NoEvent]

\* RecoverySignal::simulation_may_advance, mode_allows_advance of the Host SDK
MayAdvance(mode) ==
  mode \in {"Normal", "Headless", "ReusingLastConfirmedInput",
            "QuarantinedInput"}

-----------------------------------------------------------------------------
(* RecoveryController *)

MarkSafeCheckpoint(c, frame) ==
  [c EXCEPT !.checkpoint = frame, !.hasCheckpoint = TRUE]

\* A mutant: the counter is incremented past its width.
IncrementUnchecked(n) == n + 1

IncrementSaturating(n) == IF n = UInt32Max THEN n ELSE n + 1

\* A mutant: the counters of the other kinds are not reset.
CountFaultKeepsOthers(c, fault) ==
  [c EXCEPT
    !.ioStalls = IF fault = "IoStall" THEN IncrementSaturating(@) ELSE @,
    !.networkGaps =
      IF fault = "NetworkUnavailable" THEN IncrementSaturating(@) ELSE @,
    !.malformed =
      IF fault = "MalformedPacket" THEN IncrementSaturating(@) ELSE @]

\* reset_transient_counters_except(fault) and the increment of the counter
\* of the reported kind
CountFault(c, fault) ==
  [c EXCEPT
    !.ioStalls = IF fault = "IoStall" THEN IncrementSaturating(@) ELSE 0,
    !.networkGaps =
      IF fault = "NetworkUnavailable" THEN IncrementSaturating(@) ELSE 0,
    !.malformed =
      IF fault = "MalformedPacket" THEN IncrementSaturating(@) ELSE 0]

TolerantResponse(tolerated) ==
  IF tolerated
  THEN [action |-> "ReuseLastConfirmedInput",
        mode |-> "ReusingLastConfirmedInput"]
  ELSE [action |-> "EnterSafeWait", mode |-> "SafeWait"]

\* The switch of report_fault on the counted controller c: the action of the
\* signal and the mode the controller goes to, whatever mode it was in.
Response(c, fault) ==
  CASE fault = "None" -> [action |-> "None", mode |-> c.mode]
    [] fault = "DeviceLost" ->
         IF ContinueHeadlessPolicy
         THEN [action |-> "ContinueHeadless", mode |-> "Headless"]
         ELSE [action |-> "EnterSafeWait", mode |-> "SafeWait"]
    [] fault = "IoStall" -> TolerantResponse(c.ioStalls <= MaxIoStalls)
    [] fault = "NetworkUnavailable" ->
         TolerantResponse(c.networkGaps <= MaxNetworkGaps)
    [] fault = "MalformedPacket" ->
         IF c.malformed < MalformedThreshold
         THEN [action |-> "DropInput", mode |-> c.mode]
         ELSE [action |-> "QuarantineOrigin", mode |-> "QuarantinedInput"]
    [] fault = "OutOfMemory" ->
         IF ~c.telemetryDisabled
         THEN [action |-> "DisableNonessentialTelemetry",
               mode |-> "SafeWait"]
         ELSE IF c.hasCheckpoint
         THEN [action |-> "RollbackToCheckpoint",
               mode |-> "RollingBackToCheckpoint"]
         ELSE [action |-> "HaltSafely", mode |-> "Halted"]

\* report_fault: the controller it leaves and the signal it returns
ControllerAfterFault(c, fault) ==
  LET counted == CountFault(c, fault)
  IN  [counted EXCEPT
         !.mode = Response(counted, fault).mode,
         !.telemetryDisabled = @ \/ fault = "OutOfMemory"]

SignalOfFault(c, fault) ==
  LET response == Response(CountFault(c, fault), fault)
  IN  [fault |-> fault, action |-> response.action, mode |-> response.mode,
       checkpoint |-> c.checkpoint]

\* acknowledge_recovery (RecoveryController): a halted controller stays so
ControllerAfterRecovery(c) ==
  [c EXCEPT !.mode = IF @ = "Halted" THEN @ ELSE "Normal",
            !.ioStalls = 0, !.networkGaps = 0]

ResetInputQuarantine(c) ==
  [c EXCEPT !.malformed = 0,
            !.mode = IF @ = "QuarantinedInput" THEN "Normal" ELSE @]

-----------------------------------------------------------------------------
(* RecoveryHostBridge *)

RecoveryRequiresAcknowledgement(action) ==
  action \in {"ContinueHeadless", "ReuseLastConfirmedInput",
              "QuarantineOrigin", "EnterSafeWait", "RollbackToCheckpoint",
              "DisableNonessentialTelemetry"}

\* A mutant: the bridge keeps the first event until it is answered.
PublishKeepsOldest(b, signal) ==
  LET generation == IF b.generation = UInt64Max
                    THEN b.generation ELSE b.generation + 1
      event == [generation |-> generation, signal |-> signal]
  IN  [generation |-> generation,
       pending |-> IF HasPending(b) \/ ~RecoveryRequiresAcknowledgement(signal.action)
                   THEN b.pending ELSE event]

Publish(b, signal) ==
  LET generation == IF b.generation = UInt64Max
                    THEN b.generation ELSE b.generation + 1
      event == [generation |-> generation, signal |-> signal]
      blocks == \/ RecoveryRequiresAcknowledgement(signal.action)
                \/ signal.mode = "Halted"
      healthy == signal.mode = "Normal" /\ signal.action = "None"
  IN  [generation |-> generation,
       pending |-> CASE blocks -> event
                     [] ~blocks /\ healthy -> NoEvent
                     [] OTHER -> b.pending]

\* A mutant: memory pressure can be answered by any restored dependency.
AcknowledgementMatchesAnyWait(signal, ack) ==
  CASE signal.mode = "Headless" -> ack = "DeviceRestored"
    [] signal.mode = "ReusingLastConfirmedInput" ->
         ack = "DependencyRestored"
    [] signal.mode = "QuarantinedInput" -> ack = "OriginReset"
    [] signal.mode = "SafeWait" ->
         ack \in {"DependencyRestored", "ResourcesRecovered"}
    [] signal.mode = "RollingBackToCheckpoint" -> ack = "CheckpointRestored"
    [] OTHER -> FALSE

\* A mutant: nothing answers the wait for memory.
AcknowledgementMatchesNoResources(signal, ack) ==
  CASE signal.mode = "Headless" -> ack = "DeviceRestored"
    [] signal.mode = "ReusingLastConfirmedInput" ->
         ack = "DependencyRestored"
    [] signal.mode = "QuarantinedInput" -> ack = "OriginReset"
    [] signal.mode = "SafeWait" ->
         \/ signal.fault = "DeviceLost" /\ ack = "DeviceRestored"
         \/ /\ signal.fault \in {"IoStall", "NetworkUnavailable"}
            /\ ack = "DependencyRestored"
    [] signal.mode = "RollingBackToCheckpoint" -> ack = "CheckpointRestored"
    [] OTHER -> FALSE

\* acknowledgement_matches
AcknowledgementMatches(signal, ack) ==
  CASE signal.mode = "Headless" -> ack = "DeviceRestored"
    [] signal.mode = "ReusingLastConfirmedInput" ->
         ack = "DependencyRestored"
    [] signal.mode = "QuarantinedInput" -> ack = "OriginReset"
    [] signal.mode = "SafeWait" ->
         \/ signal.fault = "DeviceLost" /\ ack = "DeviceRestored"
         \/ /\ signal.fault \in {"IoStall", "NetworkUnavailable"}
            /\ ack = "DependencyRestored"
         \/ signal.fault = "OutOfMemory" /\ ack = "ResourcesRecovered"
    [] signal.mode = "RollingBackToCheckpoint" -> ack = "CheckpointRestored"
    [] OTHER -> FALSE

\* The checks of RecoveryHostBridge::acknowledge in their order: the reason
\* of the refusal, "None" when the acknowledgement is accepted.
AckRejectReason(c, b, generation, ack, restored) ==
  CASE ~HasPending(b) -> "NoPendingRecovery"
    [] HasPending(b) /\ "Halted" \in {b.pending.signal.mode, c.mode} ->
         "RuntimeHalted"
    [] OTHER ->
         IF generation # b.pending.generation THEN "StaleGeneration"
         ELSE IF ack = "RetryLater" THEN "None"
         ELSE IF ~AcknowledgementMatches(b.pending.signal, ack)
         THEN "InvalidAcknowledgement"
         ELSE IF /\ ack = "CheckpointRestored"
                 /\ restored # b.pending.signal.checkpoint
         THEN "CheckpointMismatch"
         ELSE "None"

\* An accepted acknowledgement other than RetryLater completes the recovery.
Completes(c, b, generation, ack, restored) ==
  /\ AckRejectReason(c, b, generation, ack, restored) = "None"
  /\ ack # "RetryLater"

ControllerAfterAck(c, b, generation, ack, restored) ==
  IF Completes(c, b, generation, ack, restored)
  THEN ControllerAfterRecovery(
         IF ack = "OriginReset" THEN ResetInputQuarantine(c) ELSE c)
  ELSE c

BridgeAfterAck(c, b, generation, ack, restored) ==
  IF Completes(c, b, generation, ack, restored)
  THEN [b EXCEPT !.pending = NoEvent] ELSE b

-----------------------------------------------------------------------------
(* What the host may take for granted of the pair (controller, bridge) when *)
(* every fault it reports is published.                                     *)

\* There is an event to answer exactly when the runtime is not in normal
\* operation, and the event speaks of the mode the runtime is in now: the
\* bridge never judges an acknowledgement against a mode already left.
PendingDescribesMode(c, b) ==
  /\ HasPending(b) <=> c.mode # "Normal"
  /\ HasPending(b) => b.pending.signal.mode = c.mode

\* Every event the runtime waits on, a halt aside, has an acknowledgement
\* that completes it: no sequence of faults leaves the host without an answer.
PendingIsAnswerable(c, b) ==
  HasPending(b) /\ c.mode # "Halted" =>
    \E ack \in RecoveryAcknowledgement :
      Completes(c, b, b.pending.generation, ack, b.pending.signal.checkpoint)

=============================================================================
