---- MODULE MCHost ----
(***************************************************************************)
(* What a host sees of the runtime, one view in each behaviour: a host     *)
(* that follows the directives it polls (HostSdk), and a host that calls   *)
(* the C interface in any order and with any arguments (HostCalls).        *)
(***************************************************************************)
EXTENDS HostSdk, Sequences

CONSTANT Null   \* the null pointer

VARIABLES
  part,  \* the part this behaviour is of
  theCurrent, theSnapshots, theHistory, thePc, theRestored, theAborted, theController,
  theBridge, theReply,   \* what HostSdk names so, of the calls
  handle, traces, out

otherVars == <<theCurrent, theSnapshots, theHistory, thePc, theRestored, theAborted,
    theController, theBridge>>
callVars == <<theReply, handle, traces, out>>

---------------------------------------------------------------------------
\* A world that is its frame alone: what the recovery contract asks of the
\* engine is which frames are retained.
NeverOverflows(world, input) == FALSE
KeepsWorld(world, input) == world

\* A world of one body, and arguments on both sides of every check.
OneBody == <<[id |-> 1, at |-> 0]>>
Command == [entity |-> 1, reserved |-> 0, x |-> 3, y |-> -3]
CBody == [entity |-> 1, reserved |-> 0, at |-> 0]
\* What get_default_config writes, with the defaults of Calls below
DefaultCConfig ==
  [structSize |-> 48, abiMajor |-> 1, abiMinor |-> 0, snapshotCapacity |-> 2, strategy |-> 0,
   reserved |-> 0, traceCapacity |-> 2, interval |-> 1, maximumInputs |-> 1]

Calls == INSTANCE HostCalls WITH
  current <- theCurrent, snapshots <- theSnapshots, history <- theHistory, pc <- thePc,
  restored <- theRestored, aborted <- theAborted, controller <- theController,
  bridge <- theBridge, reply <- theReply,
  DefaultSnapshotCapacity <- 2, DefaultTraceCapacity <- 2, DefaultCheckpointInterval <- 1,
  DefaultMaximumInputs <- 1, MaximumAcceleration <- 3, Int64Min <- -8,
  ContinueHeadlessPolicy <- TRUE, MaxIoStalls <- 0, MaxNetworkGaps <- 0, MalformedThreshold <- 1,
  UInt32Max <- 3, UInt64Max <- 1000, Worlds <- {OneBody}, InitialWorld <- OneBody,
  Inputs <- {<<>>, <<[entity |-> 1, x |-> 3, y |-> -3]>>}, EmptyInput <- <<>>,
  Step <- KeepsWorld, Overflows <- NeverOverflows, MaxFrame <- 2, MaxReports <- 1, MaxTraced <- 3,
  Threads <- {"owner", "other"},
  CConfigs <- {Null, DefaultCConfig, [DefaultCConfig EXCEPT !.abiMajor = 2],
               [DefaultCConfig EXCEPT !.abiMinor = 1], [DefaultCConfig EXCEPT !.structSize = 40],
               [DefaultCConfig EXCEPT !.interval = 0], [DefaultCConfig EXCEPT !.strategy = 6],
               [DefaultCConfig EXCEPT !.reserved = 1]},
  CBodies <- {Null, <<CBody>>, <<[CBody EXCEPT !.reserved = 1]>>, <<CBody, CBody>>},
  CInputs <- {Null, <<>>, <<Command>>, <<Command, Command>>,
              <<[Command EXCEPT !.entity = 0]>>, <<[Command EXCEPT !.reserved = 1]>>,
              <<[Command EXCEPT !.x = 4]>>, <<[Command EXCEPT !.y = -8]>>},
  FaultNumbers <- {0, 3, 5, 6}, AckNumbers <- {0, 2, 5, 6}

\* What the theorems about the C functions take for granted of the constants.
ASSUME CallsAssumption == Calls!BoundaryAssumption

---------------------------------------------------------------------------

Unused == "idle"
NoOtherVars == theCurrent = Unused /\ theSnapshots = Unused /\ theHistory = Unused /\
    thePc = Unused /\ theRestored = Unused /\ theAborted = Unused /\
    theController = Unused /\ theBridge = Unused
NoCallVars == theReply = Unused /\ handle = Unused /\ traces = Unused /\ out = Unused

Init ==
  /\ HostInit
  /\ \/ part = "host" /\ NoOtherVars /\ NoCallVars
     \/ part = "calls" /\ Calls!Init

BesideHost == <<part, otherVars, callVars>>

\* The calls come to their bounds; the host must not get stuck.
CallsEnd == part = "calls" /\ UNCHANGED <<hostVars, part, otherVars, callVars>>

Next ==
  \/ part = "host" /\ HostNext /\ UNCHANGED BesideHost
  \/ part = "calls" /\ Calls!Next /\ UNCHANGED <<hostVars, part>>
  \/ CallsEnd

allVars == <<hostVars, part, otherVars, callVars>>

\* The fairness of HostFairSpec.
LoopEnds ==
  WF_allVars(/\ part = "host"
             /\ Resimulate \/ CorrectFails \/ CorrectReturns
             /\ UNCHANGED BesideHost)
HostAnswers == SF_allVars(part = "host" /\ AnswerPending /\ UNCHANGED BesideHost)

Spec == Init /\ [][Next]_allVars
FairSpec == Spec /\ LoopEnds /\ HostAnswers

\* Of the C interface: see HostCalls.
HostReadsRuntime == part = "calls" => Calls!HostReadsRuntime /\ Calls!TracesFollowEngine
RefusedCallChangesNothing == [][part = "calls" => Calls!RefusedChangesNothing]_allVars

\* Of the handle alone, with a host that calls whatever it likes.
AnyHostSpec == part = "host" /\ Spec /\ LoopEnds
====
