----------------------------- MODULE HostCalls -----------------------------
(***************************************************************************)
(* The C functions of the Host SDK as a host calls them: the life of the   *)
(* handle, the checks every function makes before it touches the runtime,  *)
(* the conversions of its arguments, the traces, and the calls that only   *)
(* read.                                                                   *)
(* What a call does to the runtime is the action of HostSdk of its name.   *)
(* A host may call from any thread and pass any argument, but it does not  *)
(* use a handle it has destroyed.  The text of a status, and of a trace    *)
(* all but its code, outcome, frame and source frame, are left out.        *)
(***************************************************************************)
EXTENDS Recovery, Integers, Sequences, SequencesExt

---------------------------------------------------------------------------
(***************************************************************************)
(* The C boundary of the Host SDK: the numbers and structures of           *)
(* neoeng/dcore_host.h and the conversions of dcore_host.cpp between them  *)
(* and the values of the core.  An enumeration is the sequence of its      *)
(* names in the order of the header's numbers, which start at 0.           *)
(***************************************************************************)

CONSTANTS
  Null,                         \* nullptr
  DefaultSnapshotCapacity,      \* kDefaultSnapshotCapacity (300)
  DefaultTraceCapacity,         \* kDefaultTraceCapacity (4096)
  DefaultCheckpointInterval,    \* kDefaultCheckpointInterval (1)
  DefaultMaximumInputs,         \* kDefaultMaximumInputsPerStep (64)
  MaximumAcceleration,          \* kMaximumAccelerationRaw
  Int64Min                      \* the value that has no magnitude

SnapshotStrategies ==
  <<"FullCopy", "DeltaLog", "PagedCopyOnWrite", "PersistentChunkTree",
    "ComponentSoA", "HybridAdaptive">>

Faults ==
  <<"None", "DeviceLost", "IoStall", "NetworkUnavailable",
    "MalformedPacket", "OutOfMemory">>

Acknowledgements ==
  <<"RetryLater", "DeviceRestored", "DependencyRestored",
    "ResourcesRecovered", "OriginReset", "CheckpointRestored">>

Modes ==
  <<"Normal", "Headless", "ReusingLastConfirmedInput", "QuarantinedInput",
    "SafeWait", "RollingBackToCheckpoint", "Halted">>

Actions ==
  <<"None", "DropInput", "ContinueHeadless", "ReuseLastConfirmedInput",
    "QuarantineOrigin", "EnterSafeWait", "RollbackToCheckpoint",
    "DisableNonessentialTelemetry", "HaltSafely">>

Directives ==
  <<"ContinueSimulation", "DropInput", "QuarantineOrigin",
    "ContinueHeadless", "ReuseLastConfirmedInput", "PauseSimulation",
    "RestoreCheckpoint", "DisableTelemetryAndPause", "HaltSimulation">>

\* The status codes are spread over 32 bits; here they are numbered.
RecoveryStatuses ==
  <<"Healthy", "InputDropped", "InputQuarantined", "DeviceLost", "IoStall",
    "NetworkUnavailable", "ResourcePressure", "CheckpointRestoreRequired",
    "SafeHalt">>

RejectReasons ==
  <<"None", "NoPendingRecovery", "StaleGeneration",
    "InvalidAcknowledgement", "CheckpointMismatch",
    "CheckpointUnavailable", "ResourceExhausted", "RuntimeHalted">>

Outcomes ==
  <<"Accepted", "Rejected", "Applied", "Skipped", "Degraded", "Recovered",
    "Failed">>

Codes ==
  <<"None", "InputAuthenticated", "InputMalformed", "InputReplayRejected",
    "InputRateLimited", "StateAdvanced", "StateDivergence",
    "RollbackStarted", "RollbackCompleted", "BudgetSampled",
    "BudgetExceeded", "DeviceLost", "IoStall", "OutOfMemory",
    "SafeWaitEntered", "SafeRollbackEntered", "HeadlessModeEntered",
    "RecoveryAcknowledged", "RecoveryAcknowledgementRejected",
    "SessionEstablished", "SessionRejected", "EvidenceCreated",
    "EvidenceVerificationFailed", "EvidenceChainBroken",
    "EvidenceSignatureRejected", "MerkleProofRejected",
    "DivergenceLocalized", "SupportBundleCreated",
    "SupportBundleVerificationFailed", "ValidationGateDeferred",
    "TemporalRecordCommitted", "TemporalRecordRejected",
    "ExternalEffectPrepared", "ExternalEffectCommitted",
    "ExternalEffectCompensated", "ExternalEffectRejected">>

\* The static assertions: the number of a value of the core is the number
\* the header gives its name.
CValue(names, name) ==
  (CHOOSE i \in 1..Len(names) : names[i] = name) - 1

\* What a host that was compiled with the header reads.
Named(names, value) == names[value + 1]

IsNumberOf(names, value) == value + 1 \in 1..Len(names)

\* The switches that turn a number into a value of the core; "unmapped" is
\* their default.
MapSnapshotStrategy(value) ==
  IF IsNumberOf(SnapshotStrategies, value)
  THEN Named(SnapshotStrategies, value) ELSE "unmapped"

MapFault(value) ==
  IF IsNumberOf(Faults, value) THEN Named(Faults, value) ELSE "unmapped"

MapAcknowledgement(value) ==
  IF IsNumberOf(Acknowledgements, value)
  THEN Named(Acknowledgements, value) ELSE "unmapped"

FaultValue(fault) == CValue(Faults, fault)

\* A mutant: two modes are exchanged in the hand-written switch.
ModeValueSwapped(mode) ==
  CASE mode = "SafeWait" -> 5
    [] mode = "RollingBackToCheckpoint" -> 4
    [] OTHER -> CValue(Modes, mode)

ModeValue(mode) == CValue(Modes, mode)

ActionValue(action) == CValue(Actions, action)

-----------------------------------------------------------------------------
(* What the boundary takes in                                              *)

Version == [abiMajor |-> 1, abiMinor |-> 0, structSize |-> 24]

DefaultConfig ==
  [structSize |-> 48, abiMajor |-> Version.abiMajor,
   abiMinor |-> Version.abiMinor,
   snapshotCapacity |-> DefaultSnapshotCapacity,
   strategy |-> CValue(SnapshotStrategies, "FullCopy"), reserved |-> 0,
   traceCapacity |-> DefaultTraceCapacity,
   interval |-> DefaultCheckpointInterval,
   maximumInputs |-> DefaultMaximumInputs]

EffectiveConfig(config) == IF config = Null THEN DefaultConfig ELSE config

AbiMatches(config) ==
  /\ config.structSize = DefaultConfig.structSize
  /\ config.abiMajor = Version.abiMajor
  /\ config.abiMinor <= Version.abiMinor

ConfigIsValid(config) ==
  /\ config.reserved = 0
  /\ 0 \notin {config.snapshotCapacity, config.traceCapacity,
               config.interval, config.maximumInputs}
  /\ MapSnapshotStrategy(config.strategy) # "unmapped"

AccelerationIsValid(value) ==
  /\ value # Int64Min
  /\ (IF value < 0 THEN -value ELSE value) <= MaximumAcceleration

InputIsValid(input) ==
  /\ input.entity # 0 /\ input.reserved = 0
  /\ AccelerationIsValid(input.x) /\ AccelerationIsValid(input.y)

ImportInput(input) ==
  [entity |-> input.entity, x |-> input.x, y |-> input.y]

\* import_inputs: what it checks before it reserves memory, whether the
\* batch is taken, and what it becomes
BatchIsValid(inputs, count, maximum) ==
  /\ count <= maximum
  /\ count # 0 => inputs # Null

InputsAreValid(inputs, count, maximum) ==
  /\ BatchIsValid(inputs, count, maximum)
  /\ \A i \in 1..count : InputIsValid(inputs[i])

ImportInputs(inputs, count) == [i \in 1..count |-> ImportInput(inputs[i])]

ImportBody(body) == [id |-> body.entity, at |-> body.at]

-----------------------------------------------------------------------------
(* What it hands out                                                       *)

ExportBody(body) == [entity |-> body.id, reserved |-> 0, at |-> body.at]

\* recovery_status_code and recovery_host_directive: both go by the action
RecoveryStatusCode(signal) ==
  CASE signal.action = "None" -> "Healthy"
    [] signal.action = "DropInput" -> "InputDropped"
    [] signal.action = "QuarantineOrigin" -> "InputQuarantined"
    [] signal.action = "ContinueHeadless" -> "DeviceLost"
    [] signal.action = "ReuseLastConfirmedInput" ->
         IF signal.fault = "NetworkUnavailable"
         THEN "NetworkUnavailable" ELSE "IoStall"
    [] signal.action = "EnterSafeWait" ->
         IF signal.fault \in {"DeviceLost", "NetworkUnavailable"}
         THEN signal.fault
         ELSE IF signal.fault = "OutOfMemory" THEN "ResourcePressure"
         ELSE "IoStall"
    [] signal.action = "RollbackToCheckpoint" -> "CheckpointRestoreRequired"
    [] signal.action = "DisableNonessentialTelemetry" -> "ResourcePressure"
    [] signal.action = "HaltSafely" -> "SafeHalt"

\* A mutant: memory pressure does not ask the host to pause.
HostDirectiveWithoutPause(signal) ==
  CASE signal.action = "None" -> "ContinueSimulation"
    [] signal.action = "EnterSafeWait" -> "PauseSimulation"
    [] signal.action = "RollbackToCheckpoint" -> "RestoreCheckpoint"
    [] signal.action = "DisableNonessentialTelemetry" -> "ContinueSimulation"
    [] signal.action = "HaltSafely" -> "HaltSimulation"
    [] OTHER -> signal.action

HostDirective(signal) ==
  CASE signal.action = "None" -> "ContinueSimulation"
    [] signal.action = "EnterSafeWait" -> "PauseSimulation"
    [] signal.action = "RollbackToCheckpoint" -> "RestoreCheckpoint"
    [] signal.action = "DisableNonessentialTelemetry" ->
         "DisableTelemetryAndPause"
    [] signal.action = "HaltSafely" -> "HaltSimulation"
    [] OTHER -> signal.action

\* The flag is the one publish computed from the signal; the frame, the
\* correlation id and the fault count are carried along and left out.
FillRecoveryEvent(event) ==
  [generation |-> event.generation,
   acknowledgementRequired |->
     IF RecoveryRequiresAcknowledgement(event.signal.action) THEN 1 ELSE 0,
   status |-> CValue(RecoveryStatuses, RecoveryStatusCode(event.signal)),
   directive |-> CValue(Directives, HostDirective(event.signal)),
   fault |-> FaultValue(event.signal.fault),
   action |-> ActionValue(event.signal.action),
   mode |-> ModeValue(event.signal.mode),
   checkpoint |-> event.signal.checkpoint]

\* What acknowledge_recovery writes of the bridge's or its own result
FillAckResult(result) ==
  [accepted |-> IF result.accepted THEN 1 ELSE 0,
   reason |-> CValue(RejectReasons, result.reason),
   mode |-> ModeValue(result.mode),
   event |-> FillRecoveryEvent(result.event)]

\* The other fields of a trace event are copied as they are.
FillTraceEvent(event) ==
  [event EXCEPT !.code = CValue(Codes, @), !.outcome = CValue(Outcomes, @)]

\* The host's reading of a recovery event, of the result of an
\* acknowledgement and of a trace event.
ReadRecoveryEvent(event) ==
  [generation |-> event.generation,
   signal |-> [fault |-> Named(Faults, event.fault),
               action |-> Named(Actions, event.action),
               mode |-> Named(Modes, event.mode),
               checkpoint |-> event.checkpoint]]

ReadAckResult(result) ==
  [accepted |-> result.accepted = 1,
   reason |-> Named(RejectReasons, result.reason),
   mode |-> Named(Modes, result.mode),
   event |-> ReadRecoveryEvent(result.event)]

ReadTraceEvent(event) ==
  [event EXCEPT !.code = Named(Codes, @), !.outcome = Named(Outcomes, @)]

\* translate_current_exception: by the type of the exception
TranslateException(exception) ==
  CASE exception = "bad_alloc" -> "OUT_OF_MEMORY"
    [] exception = "overflow_error" -> "NUMERIC_OVERFLOW"
    [] exception = "out_of_range" -> "NOT_FOUND"
    [] exception = "invalid_argument" -> "INVALID_STATE"
    [] OTHER -> "INTERNAL_ERROR"

---------------------------------------------------------------------------
CONSTANTS
  Worlds, InitialWorld, Inputs, EmptyInput, Step(_, _), Overflows(_, _),
  MaxFrame, MaxReports,
  MaxTraced,       \* bound: no call is begun after so many traces
  Threads,         \* the threads of the host
  CConfigs,        \* the configurations it passes to create, and Null
  CBodies,         \* the lists of bodies it passes to create, and Null
  CInputs,         \* the lists of inputs it passes, and Null
  FaultNumbers,    \* the numbers it passes as a fault
  AckNumbers       \* the numbers it passes as an acknowledgement

VARIABLES
  current, snapshots, history, pc, restored, aborted,
  controller, bridge, reply,
  handle,   \* "none", "destroyed", or the owner thread of the open handle
  traces,   \* host->traces
  out       \* what the last call returned and wrote

\* The handle that Create makes; its host follows no directives.
Host == INSTANCE HostSdk
  WITH Capacity <- DefaultSnapshotCapacity,
       CheckpointInterval <- DefaultCheckpointInterval,
       FollowsDirectives <- FALSE

Buffer == INSTANCE Diagnostics
  WITH TraceCapacity <- DefaultTraceCapacity, FrameCapacity <- 1

hostVars == <<current, snapshots, history, pc, restored, aborted,
              controller, bridge, reply>>
vars == <<hostVars, handle, traces, out>>

Nothing == [kind |-> "nothing"]
Written(kind, value) == [kind |-> kind, value |-> value]

Returns(call, status, value) ==
  out' = [call |-> call, status |-> status, value |-> value]

Open == handle \in Threads

-----------------------------------------------------------------------------
(* The life of the handle                                                  *)

Init ==
  /\ Host!HostInit
  /\ handle = "none"
  /\ traces = Buffer!EmptyTraces
  /\ out = [call |-> "none", status |-> "OK", value |-> Nothing]

\* validate_world: the bodies are sorted by id and no id is there twice
WorldIsValid(bodies) ==
  \A i, j \in 1..Len(bodies) : i < j => bodies[i].id < bodies[j].id

\* neoeng_dcore_host_create: what it refuses before it has written the
\* handle, before it allocates, and after
PointersRefused(outHost, bodies, count) ==
  outHost = Null \/ (count # 0 /\ bodies = Null)

ConfigStatus(config) ==
  IF ~AbiMatches(config) THEN "ABI_MISMATCH"
  ELSE IF ~ConfigIsValid(config) THEN "INVALID_ARGUMENT"
  ELSE "OK"

BodiesStatus(bodies, count) ==
  IF \E i \in 1..count : bodies[i].reserved # 0 THEN "INVALID_ARGUMENT"
  ELSE IF ~WorldIsValid([i \in 1..count |-> ImportBody(bodies[i])])
  THEN TranslateException("invalid_argument")
  ELSE "OK"

\* The statuses it can return: the world and the handle are allocated.
CreateStatuses(outHost, bodies, count, config) ==
  IF PointersRefused(outHost, bodies, count) THEN {"INVALID_ARGUMENT"}
  ELSE IF ConfigStatus(config) # "OK" THEN {ConfigStatus(config)}
  ELSE {BodiesStatus(bodies, count), TranslateException("bad_alloc")}

\* The capacities and the interval a handle is created with are those of
\* this instance; *out_host is null unless the call succeeds.
Create(thread, outHost, bodies, config) ==
  LET count == IF bodies = Null THEN 1 ELSE Len(bodies)
      effective == EffectiveConfig(config)
  IN
  /\ handle = "none"
  /\ \E status \in CreateStatuses(outHost, bodies, count, effective) :
       /\ status = "OK" =>
            /\ [i \in 1..count |-> ImportBody(bodies[i])] = InitialWorld
            /\ effective = [DefaultConfig EXCEPT
                              !.strategy = effective.strategy,
                              !.abiMinor = effective.abiMinor]
       /\ handle' = IF status = "OK" THEN thread ELSE "none"
       /\ Returns("create", status,
                  IF PointersRefused(outHost, bodies, count) THEN Nothing
                  ELSE Written("handle", IF status = "OK" THEN "host" ELSE Null))
  /\ UNCHANGED <<hostVars, traces>>

\* neoeng_dcore_host_get_version and neoeng_dcore_host_default_config: they
\* take no handle
Describe(result) ==
  /\ pc = "idle"
  /\ \E call \in {"version", "config"} :
       IF result = Null THEN Returns(call, "INVALID_ARGUMENT", Nothing)
       ELSE Returns(call, "OK",
                    Written(call, IF call = "version" THEN Version
                                                      ELSE DefaultConfig))
  /\ UNCHANGED <<hostVars, handle, traces>>

\* check_host
CheckHost(given, thread) ==
  IF given = Null THEN "INVALID_ARGUMENT"
  ELSE IF handle # thread THEN "WRONG_THREAD"
  ELSE "OK"

Destroy(thread) ==
  /\ Open /\ pc = "idle"
  /\ CheckHost("host", thread) = "OK"
  /\ handle' = "destroyed"
  /\ Returns("destroy", "OK", Nothing)
  /\ UNCHANGED <<hostVars, traces>>

\* The first test of every function, whichever it is: the handle, the
\* thread, the pointers it writes through.  Another thread may try while
\* the owner is inside a correction.
RefuseCall(given, thread, result) ==
  LET checked == CheckHost(given, thread)
      status == IF checked # "OK" THEN checked ELSE "INVALID_ARGUMENT"
  IN
  /\ Open
  /\ checked = "OK" => pc = "idle" /\ result = Null
  /\ Returns("any", status, Nothing)
  /\ UNCHANGED <<hostVars, handle, traces>>

Called == Open /\ UNCHANGED handle

Calls == Called /\ traces.sequence < MaxTraced

-----------------------------------------------------------------------------
(* The traces                                                              *)

Trace(code, outcome, frame, source) ==
  [code |-> code, outcome |-> outcome, frame |-> frame, source |-> source]

Traced(event) == traces' = Buffer!RecordEvent(traces, event)

RecordStateAdvanced ==
  Traced(Trace("StateAdvanced", "Applied", current'.frame, 0))

\* record_rollback of code Started before the engine is called, and of code
\* Completed after it
Started(frame) == Trace("RollbackStarted", "Applied", current.frame, frame)

Completed(outcome, frame) ==
  Trace("RollbackCompleted", outcome, current'.frame, frame)

\* recovery_trace_event
RecoveryTraceCode(signal) ==
  CASE signal.action = "EnterSafeWait" -> "SafeWaitEntered"
    [] signal.action = "RollbackToCheckpoint" -> "SafeRollbackEntered"
    [] signal.action = "ContinueHeadless" -> "HeadlessModeEntered"
    [] OTHER ->
         CASE signal.fault \in {"IoStall", "NetworkUnavailable"} -> "IoStall"
           [] signal.fault = "MalformedPacket" -> "InputMalformed"
           [] OTHER -> signal.fault

RecoveryTraceEvent(signal) ==
  Trace(RecoveryTraceCode(signal),
        CASE signal.mode = "Normal" -> "Recovered"
          [] signal.mode = "Halted" -> "Failed"
          [] OTHER -> "Degraded",
        current.frame, signal.checkpoint)

\* The record made from what the bridge answered
AcknowledgementTrace(result) ==
  Trace(IF result.accepted THEN "RecoveryAcknowledged"
                           ELSE "RecoveryAcknowledgementRejected",
        CASE ~result.accepted -> "Rejected"
          [] result.accepted /\ result.mode = "Normal" -> "Recovered"
          [] OTHER -> "Applied",
        current'.frame, 0)

-----------------------------------------------------------------------------
(* The calls that change the runtime                                       *)

\* fill_state_summary
Summary == Written("summary", current'.frame)

CountOf(inputs) == IF inputs = Null THEN 1 ELSE Len(inputs)

Accepted(inputs) ==
  InputsAreValid(inputs, CountOf(inputs), DefaultMaximumInputs)

Imported(inputs) == ImportInputs(inputs, CountOf(inputs))

\* advance and correct whose inputs are refused; the mode is asked first
RefuseInputs(inputs) ==
  /\ Called /\ pc = "idle" /\ MayAdvance(controller.mode)
  /\ ~Accepted(inputs)
  /\ \E call \in {"advance", "correct"} :
       Returns(call, "INVALID_ARGUMENT", Nothing)
  /\ UNCHANGED <<hostVars, traces>>

RefuseMode ==
  /\ Called
  /\ Host!Refuse
  /\ Returns(reply'.call, reply'.status, Nothing)
  /\ UNCHANGED traces

\* A mutant: the pointer is tested by fill_state_summary alone, after the
\* engine has advanced.
AdvanceTestsPointerLate(inputs) ==
  /\ Calls /\ Accepted(inputs)
  /\ Host!Advance(Imported(inputs))
  /\ RecordStateAdvanced
  /\ \E result \in {Null, "state"} :
       Returns("advance",
               IF result = Null THEN "INVALID_ARGUMENT" ELSE reply'.status,
               Nothing)

\* The summary is written unless filling it runs out of memory.
Advance(inputs) ==
  /\ Calls /\ Accepted(inputs)
  /\ Host!Advance(Imported(inputs))
  /\ RecordStateAdvanced
  /\ Returns("advance", reply'.status,
             IF reply'.status = "OK" THEN Summary ELSE Nothing)

AdvanceFails(inputs) ==
  /\ Calls /\ Accepted(inputs)
  /\ Host!AdvanceFails(Imported(inputs))
  /\ \E exception \in {"bad_alloc", "overflow_error", "invalid_argument"} :
       Returns("advance", TranslateException(exception), Nothing)
  /\ UNCHANGED traces

\* There is no memory to import the inputs: nothing has been done, and the
\* handler of a correction records a failed completion of a rollback that
\* was never started.
ImportFails(inputs) ==
  /\ Calls /\ pc = "idle" /\ MayAdvance(controller.mode)
  /\ CountOf(inputs) # 0
  /\ BatchIsValid(inputs, CountOf(inputs), DefaultMaximumInputs)
  /\ \/ /\ Returns("advance", TranslateException("bad_alloc"), Nothing)
        /\ UNCHANGED traces
     \/ /\ Returns("correct", TranslateException("bad_alloc"), Nothing)
        /\ \E frame \in 0..MaxFrame :
             Traced(Trace("RollbackCompleted", "Failed", current.frame, frame))
  /\ UNCHANGED hostVars

Correct(frame, inputs) ==
  /\ Calls /\ Accepted(inputs)
  /\ Host!Correct(frame, Imported(inputs))
  /\ Traced(Started(frame))
  /\ Returns("correct", "running", Nothing)

Resimulate ==
  /\ Called /\ Host!Resimulate
  /\ UNCHANGED <<traces, out>>

\* The frame the last RollbackStarted was recorded for.
Source == Last(Buffer!Snapshot(traces)).source

\* A mutant: a correction that throws leaves no trace of its end.
CorrectFailsSilently ==
  /\ Called /\ Host!CorrectFails
  /\ Returns("correct", TranslateException("overflow_error"), Nothing)
  /\ UNCHANGED traces

CorrectFails ==
  /\ Called /\ Host!CorrectFails
  /\ Traced(Completed("Failed", Source))
  /\ \E exception \in {"bad_alloc", "overflow_error"} :
       Returns("correct", TranslateException(exception), Nothing)

\* When the summary runs out of memory the handler records a second,
\* failed, completion of a rollback that was done.
CompletedTwice(frame) ==
  Buffer!RecordEvents(traces, <<Completed("Recovered", frame),
                                Completed("Failed", frame)>>)

CorrectReturns ==
  /\ Called /\ Host!CorrectReturns
  /\ IF reply'.status = "OK" THEN Traced(Completed("Recovered", Source))
                             ELSE traces' = CompletedTwice(Source)
  /\ Returns("correct", reply'.status,
             IF reply'.status = "OK" THEN Summary ELSE Nothing)

\* A correction or a restore that throws before it changes anything: the
\* window does not hold the frame, the frame to correct has not been
\* simulated, or there is no memory to restore it.
RollbackRefused(call, frame) ==
  LET restorable == /\ frame \in DOMAIN snapshots
                    /\ call = "correct" => frame < current.frame
  IN
  /\ Calls /\ pc = "idle"
  /\ call = "correct" => MayAdvance(controller.mode)
  /\ traces' = Buffer!RecordEvents(
                 traces, <<Started(frame),
                           Trace("RollbackCompleted", "Failed",
                                 current.frame, frame)>>)
  /\ Returns(call, TranslateException(IF restorable THEN "bad_alloc"
                                      ELSE "out_of_range"), Nothing)
  /\ UNCHANGED hostVars

\* A mutant: the frame of both traces is the one the call began with.
RestoreTracedBefore(frame) ==
  /\ Calls /\ Host!RestoreCheckpoint(frame)
  /\ traces' = Buffer!RecordEvents(
                 traces, <<Started(frame), Trace("RollbackCompleted",
                           "Recovered", current.frame, frame)>>)
  /\ Returns("restore", reply'.status, Nothing)

RestoreCheckpoint(frame) ==
  /\ Calls /\ Host!RestoreCheckpoint(frame)
  /\ traces' =
       Buffer!RecordEvents(
         traces,
         <<Started(frame), Completed("Recovered", frame)>>
           \o IF reply'.status = "OK" THEN <<>>
              ELSE <<Completed("Failed", frame)>>)
  /\ Returns("restore", reply'.status,
             IF reply'.status = "OK" THEN Summary ELSE Nothing)

ReportFault(number) ==
  LET fault == MapFault(number) IN
  /\ Calls /\ fault # "unmapped"
  /\ Host!ReportFault(fault)
  /\ Traced(RecoveryTraceEvent(SignalOfFault(controller, fault)))
  /\ Returns("report", "OK",
             Written("event", FillRecoveryEvent(
               [generation |-> bridge'.generation,
                signal |-> SignalOfFault(controller, fault)])))

\* The event of a completed recovery: the generation that was answered and
\* the signal of acknowledge_recovery.
RecoveredEvent(generation) ==
  [generation |-> generation,
   signal |-> [fault |-> "None", action |-> "None",
               mode |-> controller'.mode,
               checkpoint |-> controller'.checkpoint]]

AckResult(accepted, mode, event) ==
  [accepted |-> accepted, reason |-> reply'.reason, mode |-> mode,
   event |-> event]

\* A restore that fails is answered by the function itself, with the mode of
\* the runtime and no trace.
CannotRestoreResult == AckResult(FALSE, controller.mode, bridge.pending)

\* What the bridge answers: a rejection has an empty resulting signal, whose
\* mode is Normal; an event there is none of is an empty one.
BridgeResult(generation, ack, frame) ==
  IF reply'.reason # "None" THEN AckResult(FALSE, "Normal", bridge.pending)
  ELSE LET event == IF Completes(controller, bridge, generation, ack, frame)
                    THEN RecoveredEvent(generation) ELSE bridge.pending
       IN  AckResult(TRUE, event.signal.mode, event)

Acknowledge(generation, number, frame) ==
  LET ack == MapAcknowledgement(number) IN
  /\ Calls /\ ack # "unmapped"
  /\ \/ /\ Host!AcknowledgeCannotRestore(generation, ack, frame)
        /\ UNCHANGED traces
        /\ Returns("ack", "OK", Written("ack", FillAckResult(CannotRestoreResult)))
     \/ /\ Host!Acknowledge(generation, ack, frame)
        /\ LET result == BridgeResult(generation, ack, frame) IN
           /\ Traced(AcknowledgementTrace(result))
           /\ Returns("ack", "OK", Written("ack", FillAckResult(result)))

RefuseNumber ==
  /\ Called /\ pc = "idle"
  /\ \/ /\ \E n \in FaultNumbers : MapFault(n) = "unmapped"
        /\ Returns("report", "INVALID_ARGUMENT", Nothing)
     \/ /\ \E n \in AckNumbers : MapAcknowledgement(n) = "unmapped"
        /\ Returns("ack", "INVALID_ARGUMENT", Nothing)
  /\ UNCHANGED <<hostVars, traces>>

-----------------------------------------------------------------------------
(* The calls that only read                                                *)

Reads == Called /\ pc = "idle" /\ UNCHANGED <<hostVars, traces>>

GetStateSummary ==
  /\ Reads
  /\ \E status \in Host!SummaryStatus :
       Returns("summary", status,
               IF status = "OK" THEN Written("summary", current.frame)
                                ELSE Nothing)

\* The pattern of the copy functions: the required count is written first,
\* and nothing else when the buffer is absent or too small.
CopyStatus(items, capacity, buffer) ==
  IF capacity < Len(items) THEN "BUFFER_TOO_SMALL"
  ELSE IF items # <<>> /\ buffer = Null THEN "BUFFER_TOO_SMALL"
  ELSE "OK"

CopyBodies(capacity, buffer) ==
  LET bodies == current.world
      status == CopyStatus(bodies, capacity, buffer)
  IN
  /\ Reads
  /\ Returns("bodies", status,
             IF status = "OK"
             THEN Written("bodies", [i \in 1..Len(bodies) |->
                                       ExportBody(bodies[i])])
             ELSE Written("required", Len(bodies)))

\* The events are copied out of the buffer first, which can fail.
CopyTraces(capacity, buffer) ==
  LET events == Buffer!Snapshot(traces)
      status == CopyStatus(events, capacity, buffer)
  IN
  /\ Reads
  /\ \/ Returns("traces", status,
                IF status = "OK"
                THEN Written("traces", [i \in 1..Len(events) |->
                                          FillTraceEvent(events[i])])
                ELSE Written("required", Len(events)))
     \/ Returns("traces", TranslateException("bad_alloc"), Nothing)

GetPendingRecovery ==
  /\ Reads
  /\ IF HasPending(bridge)
     THEN Returns("pending", "OK",
                  Written("event", FillRecoveryEvent(bridge.pending)))
     ELSE Returns("pending", "NOT_FOUND", Nothing)

-----------------------------------------------------------------------------
Next ==
  \/ \E thread \in Threads, outHost \in {Null, "out"}, bodies \in CBodies,
        config \in CConfigs : Create(thread, outHost, bodies, config)
  \/ \E result \in {Null, "out"} : Describe(result)
  \/ \E thread \in Threads : Destroy(thread)
  \/ \E given \in {Null, "host"}, thread \in Threads,
        result \in {Null, "out"} : RefuseCall(given, thread, result)
  \/ \E inputs \in CInputs : RefuseInputs(inputs)
  \/ RefuseMode
  \/ \E inputs \in CInputs : Advance(inputs)
  \/ \E inputs \in CInputs : AdvanceFails(inputs)
  \/ \E inputs \in CInputs : ImportFails(inputs)
  \/ \E frame \in 0..MaxFrame, inputs \in CInputs : Correct(frame, inputs)
  \/ Resimulate
  \/ CorrectFails
  \/ CorrectReturns
  \/ \E call \in {"correct", "restore"}, frame \in 0..MaxFrame :
       RollbackRefused(call, frame)
  \/ \E frame \in 0..MaxFrame : RestoreCheckpoint(frame)
  \/ \E number \in FaultNumbers : ReportFault(number)
  \/ \E generation \in 0..bridge.generation, number \in AckNumbers,
        frame \in 0..MaxFrame : Acknowledge(generation, number, frame)
  \/ RefuseNumber
  \/ GetStateSummary
  \/ \E capacity \in 0..2, buffer \in {Null, "buffer"} :
       CopyBodies(capacity, buffer) \/ CopyTraces(capacity, buffer)
  \/ GetPendingRecovery

Spec == Init /\ [][Next]_vars

-----------------------------------------------------------------------------
(* What the constants are                                                  *)

\* A list of bodies: entities and where they are.
IsBodyList(bodies) ==
  /\ bodies = [i \in 1..Len(bodies) |-> bodies[i]]
  /\ \A i \in 1..Len(bodies) : bodies[i] \in [id : Nat, at : Int]

\* A module that takes this one by INSTANCE assumes it: the buffer holds an
\* event; a world is a list of bodies, and so is the one after it; what the
\* boundary lets through is an input of the simulation.
BoundaryAssumption ==
  /\ DefaultTraceCapacity \in Nat \ {0}
  /\ \A world \in Worlds : IsBodyList(world)
  /\ \A world \in Worlds, input \in Inputs :
       ~Overflows(world, input) => Step(world, input) \in Worlds
  /\ \A inputs \in CInputs : Accepted(inputs) => Imported(inputs) \in Inputs

-----------------------------------------------------------------------------
(* Properties                                                              *)

AsksToStop(directive) ==
  directive \in {"PauseSimulation", "RestoreCheckpoint",
                 "DisableTelemetryAndPause", "HaltSimulation"}

\* What a host reads is what the runtime holds, whatever it was told before
\* (dcore_host.cpp:285-365, 759-869): the event decodes, with the numbers of
\* the header, to the pending one; the traces, the bodies and the summary
\* are those of the runtime.  The result of an acknowledgement that was
\* accepted, or that could not be restored, has the mode of the runtime and
\* the event it waits on, or the recovery just completed.  The directive of a report asks the
\* host to stop exactly when advance will be refused, except for a report
\* that takes no action: None or a dropped packet tells a host that waits to
\* go on (recovery_contract.cpp:75-88).
HostReadsRuntime ==
  LET value == out.value IN
  CASE out.call = "pending" /\ out.status = "OK" ->
         ReadRecoveryEvent(value.value) = bridge.pending
    [] out.call = "report" /\ out.status = "OK" ->
         /\ Named(Modes, value.value.mode) = controller.mode
         /\ value.value.generation = bridge.generation
         /\ value.value.acknowledgementRequired = 1 =>
              ReadRecoveryEvent(value.value) = bridge.pending
         /\ AsksToStop(Named(Directives, value.value.directive))
              => ~MayAdvance(controller.mode)
         /\ ~MayAdvance(controller.mode) =>
              \/ AsksToStop(Named(Directives, value.value.directive))
              \/ Named(Actions, value.value.action)
                   \in {"None", "DropInput"}
    [] out.call = "ack" /\ value.kind = "ack" ->
         LET result == ReadAckResult(value.value) IN
         /\ \/ result.accepted
            \/ result.reason \in {"CheckpointUnavailable", "ResourceExhausted"}
            => result.mode = controller.mode
         /\ result.event = bridge.pending
              \/ /\ result.accepted /\ ~HasPending(bridge)
                 /\ result.event.signal.mode = controller.mode
         /\ value.value.event.acknowledgementRequired = 1 => HasPending(bridge)
    [] value.kind = "summary" -> value.value = current.frame
    [] value.kind = "bodies" ->
         [i \in DOMAIN value.value |-> ImportBody(value.value[i])]
           = current.world
    [] value.kind = "traces" ->
         [i \in DOMAIN value.value |-> ReadTraceEvent(value.value[i])]
           = Buffer!Snapshot(traces)
    [] OTHER -> TRUE

\* A call that is refused because of its thread or its arguments, or whose
\* buffer is too small, changes neither the runtime nor its traces
\* (dcore_host.cpp:430-438, 661-676, 773-869): no check comes after a
\* change.
RefusedChangesNothing ==
  out' # out
  /\ out'.status \in {"INVALID_ARGUMENT", "ABI_MISMATCH", "WRONG_THREAD",
                      "BUFFER_TOO_SMALL"}
  => UNCHANGED <<hostVars, handle, traces>>
RefusedCallChangesNothing == [][RefusedChangesNothing]_vars

\* The traces explain the state a host finds (dcore_host.cpp:485-528,
\* 700-757, 925-945): they are consecutive, the newest one carries the frame
\* the runtime is at, and every rollback that was started was completed next
\* and for the same frame, also when it threw.
TracesFollowEngine ==
  Open /\ pc = "idle" =>
    LET events == Buffer!Snapshot(traces) IN
    /\ events # <<>> => Last(events).frame = current.frame
    /\ \A i \in 1..(Len(events) - 1) :
         /\ events[i + 1].sequence = events[i].sequence + 1
         /\ events[i].code = "RollbackStarted" =>
              /\ events[i + 1].code = "RollbackCompleted"
              /\ events[i + 1].source = events[i].source

===========================================================================
