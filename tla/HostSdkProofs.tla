--------------------------- MODULE HostSdkProofs ---------------------------
(***************************************************************************)
(* Theorems about HostSdk and HostCalls for every simulation, every policy *)
(* and every capacity of the window and of the traces.                     *)
(*                                                                         *)
(* The handle: the host drives the engine by its operations only, so what  *)
(* is proved of RollbackEngine holds inside it; a host that follows the    *)
(* directives always finds the checkpoint it is asked to restore; and any  *)
(* host that gets the runtime back from a rollback has restored it.        *)
(*                                                                         *)
(* The C functions: they drive the handle by its calls only, so all of the *)
(* above that needs no trust in the host holds behind them; what they      *)
(* write is what the runtime holds, read back with the numbers of the      *)
(* header; the traces explain the state; and a refusal changes nothing.    *)
(***************************************************************************)
EXTENDS HostSdk, RecoveryLemmas, Sequences, SequenceTheorems

EngineProofs == INSTANCE RollbackEngineProofs

USE RecoveryAssumption, HostAssumption

-----------------------------------------------------------------------------
(* The engine inside the handle *)

\* The operations of the engine that the host calls are those the proofs
\* about the engine speak of.
LEMMA SameEngine ==
  /\ Engine!EngineInit => EngineProofs!EngineInit
  /\ \A input : Engine!Advance(input) => EngineProofs!Advance(input)
  /\ \A input : Engine!AdvanceThrows(input) => EngineProofs!AdvanceThrows(input)
  /\ \A frame, input :
       Engine!BeginCorrection(frame, input) => EngineProofs!BeginCorrection(frame, input)
  /\ Engine!ResimulateFrame => EngineProofs!ResimulateFrame
  /\ Engine!ResimulationThrows => EngineProofs!ResimulationThrows
  /\ Engine!EndCorrection => EngineProofs!EndCorrection
  /\ \A frame :
       Engine!RestoreCheckpoint(frame) => EngineProofs!RestoreCheckpoint(frame)
<1>1. Engine!EngineInit => EngineProofs!EngineInit
  BY DEF Engine!EngineInit, EngineProofs!EngineInit, Engine!Put, EngineProofs!Put
<1>2. ASSUME NEW input, Engine!Advance(input) PROVE EngineProofs!Advance(input)
  BY <1>2 DEF Engine!Advance, EngineProofs!Advance, Engine!FollowsLatest,
     EngineProofs!FollowsLatest, Engine!Captured, EngineProofs!Captured,
     Engine!Put, EngineProofs!Put, Engine!Keep, EngineProofs!Keep,
     Engine!Trimmed, EngineProofs!Trimmed
<1>3. ASSUME NEW input, Engine!AdvanceThrows(input)
      PROVE  EngineProofs!AdvanceThrows(input)
  BY <1>3 DEF Engine!AdvanceThrows, EngineProofs!AdvanceThrows, Engine!Put,
     EngineProofs!Put
<1>4. ASSUME NEW frame, NEW input, Engine!BeginCorrection(frame, input)
      PROVE  EngineProofs!BeginCorrection(frame, input)
  BY <1>4 DEF Engine!BeginCorrection, EngineProofs!BeginCorrection, Engine!Put,
     EngineProofs!Put, Engine!Keep, EngineProofs!Keep
<1>5. ASSUME Engine!ResimulateFrame PROVE EngineProofs!ResimulateFrame
  BY <1>5 DEF Engine!ResimulateFrame, EngineProofs!ResimulateFrame,
     Engine!FollowsLatest, EngineProofs!FollowsLatest, Engine!Captured,
     EngineProofs!Captured, Engine!Put, EngineProofs!Put, Engine!Keep,
     EngineProofs!Keep, Engine!InputOf, EngineProofs!InputOf
<1>6. ASSUME Engine!ResimulationThrows PROVE EngineProofs!ResimulationThrows
  BY <1>6 DEF Engine!ResimulationThrows, EngineProofs!ResimulationThrows
<1>7. ASSUME Engine!EndCorrection PROVE EngineProofs!EndCorrection
  BY <1>7 DEF Engine!EndCorrection, EngineProofs!EndCorrection
<1>8. ASSUME NEW frame, Engine!RestoreCheckpoint(frame)
      PROVE  EngineProofs!RestoreCheckpoint(frame)
  BY <1>8 DEF Engine!RestoreCheckpoint, EngineProofs!RestoreCheckpoint,
     Engine!Keep, EngineProofs!Keep
<1> QED BY <1>1, <1>2, <1>3, <1>4, <1>5, <1>6, <1>7, <1>8

\* Every call of the host is one operation of the engine or none.
LEMMA EngineStep == [HostNext]_hostVars => [EngineProofs!EngineNext]_engineVars
<1> SUFFICES ASSUME HostNext PROVE EngineProofs!EngineNext \/ UNCHANGED engineVars
  BY DEF hostVars, engineVars
<1> USE DEF EngineProofs!EngineNext
<1>1. ASSUME NEW input \in Inputs, Advance(input) \/ AdvanceFails(input)
      PROVE  EngineProofs!EngineNext
  BY <1>1, SameEngine DEF Advance, AdvanceFails
<1>2. ASSUME NEW frame \in 0..MaxFrame, NEW input \in Inputs, Correct(frame, input)
      PROVE  EngineProofs!EngineNext
  BY <1>2, SameEngine DEF Correct
<1>3. ASSUME Resimulate \/ CorrectFails \/ CorrectReturns PROVE EngineProofs!EngineNext
  BY <1>3, SameEngine DEF Resimulate, CorrectFails, CorrectReturns
<1>4. ASSUME NEW frame \in 0..MaxFrame, RestoreCheckpoint(frame)
      PROVE  EngineProofs!EngineNext
  BY <1>4, SameEngine DEF RestoreCheckpoint
<1>5. ASSUME NEW g, NEW ack, NEW frame \in 0..MaxFrame, Acknowledge(g, ack, frame)
      PROVE  EngineProofs!EngineNext \/ UNCHANGED engineVars
  BY <1>5, SameEngine DEF Acknowledge
<1>6. ASSUME Refuse \/ \E fault \in FaultKind : ReportFault(fault)
      PROVE  UNCHANGED engineVars
  BY <1>6 DEF Refuse, ReportFault
<1>7. ASSUME NEW g, NEW ack, NEW frame, AcknowledgeCannotRestore(g, ack, frame)
      PROVE  UNCHANGED engineVars
  BY <1>7 DEF AcknowledgeCannotRestore
<1> QED BY <1>1, <1>2, <1>3, <1>4, <1>5, <1>6, <1>7 DEF HostNext

-----------------------------------------------------------------------------
(* The inductive invariant *)

\* What a frame is to the engine: a number, and the newest retained one
\* between calls.
EngineFrames ==
  /\ current.frame \in Nat /\ restored.frame \in Nat
  /\ DOMAIN snapshots \subseteq Nat
  /\ pc \in {"idle", "resimulating"}
  /\ AtRest /\ ~aborted =>
       /\ current.frame \in DOMAIN snapshots
       /\ \A f \in DOMAIN snapshots : f <= current.frame
  /\ pc = "resimulating" =>
       /\ restored.frame \in DOMAIN snapshots
       /\ restored.frame <= current.frame
       /\ \A f \in DOMAIN snapshots : f <= restored.frame

\* Controller and bridge agree, and the runtime never halts.
RecoveryPart == RecoverySound(controller, bridge)

\* No multiple of the interval lies between the checkpoint and the current
\* frame.
CheckpointIsRecent ==
  /\ controller.checkpoint <= current.frame
  /\ current.frame - controller.checkpoint <= current.frame % CheckpointInterval

\* A checkpoint that a correction has dropped is newer than all it has kept:
\* the loop captures it again before it ends.
CheckpointComesBack ==
  \/ controller.checkpoint \in DOMAIN snapshots
  \/ \A f \in DOMAIN snapshots : f < controller.checkpoint

\* The runtime asks for the checkpoint it has marked last.
PendingNamesCheckpoint ==
  RollingBack => bridge.pending.signal.checkpoint = controller.checkpoint

\* The last three parts hold of a host that follows the directives.
CheckpointPart ==
  CheckpointIsRecent /\ CheckpointComesBack /\ PendingNamesCheckpoint

HostInv ==
  /\ EngineProofs!EngineInv
  /\ RecoveryPart
  /\ FollowsDirectives => CheckpointPart

LEMMA EngineInvFrames == EngineProofs!EngineInv => EngineFrames
BY DEF EngineProofs!EngineInv, EngineProofs!Frames, EngineProofs!CurrentIsNewest,
   EngineProofs!RestoredIsNewest, EngineFrames, AtRest

-----------------------------------------------------------------------------
(* What the operations of the engine do to the frames *)

LEMMA CapturedFrames ==
  ASSUME DOMAIN snapshots \subseteq Nat, NEW frame \in Nat, NEW world,
         \A f \in DOMAIN snapshots : f < frame
  PROVE  \A f : f \in DOMAIN Engine!Captured(frame, world) <=>
                 \/ f \in DOMAIN snapshots /\ frame - Capacity < f
                 \/ f = frame
BY DEF Engine!Captured, Engine!Keep, Engine!Put

LEMMA AdvanceFrames ==
  ASSUME EngineFrames, NEW input, Engine!Advance(input)
  PROVE  /\ pc = "idle" /\ pc' = pc /\ aborted' = aborted
         /\ current.frame \in DOMAIN snapshots
         /\ current'.frame = current.frame + 1
         /\ \A f : f \in DOMAIN snapshots' <=>
                    \/ /\ f \in DOMAIN snapshots
                       /\ current'.frame - Capacity < f
                    \/ f = current'.frame
<1>1. /\ current.frame \in DOMAIN snapshots
      /\ \A f \in DOMAIN snapshots : f < current.frame + 1
  BY DEF Engine!Advance, Engine!FollowsLatest, EngineFrames
<1>2. /\ current'.frame = current.frame + 1
      /\ pc = "idle" /\ pc' = pc /\ aborted' = aborted
      /\ snapshots' = Engine!Captured(current.frame + 1,
                                      Step(current.world, input))
  BY DEF Engine!Advance
<1> QED BY <1>1, <1>2, CapturedFrames DEF EngineFrames

LEMMA BeginCorrectionFrames ==
  ASSUME EngineFrames, NEW frame \in Nat, NEW input,
         Engine!BeginCorrection(frame, input)
  PROVE  /\ current' = current /\ pc' = "resimulating"
         /\ \A f : f \in DOMAIN snapshots' <=> f \in DOMAIN snapshots /\ f <= frame
BY DEF EngineFrames, Engine!BeginCorrection, Engine!Keep

LEMMA ResimulateFrames ==
  ASSUME EngineFrames, Engine!ResimulateFrame
  PROVE  /\ current' = current /\ pc' = "resimulating"
         /\ restored.frame + 1 <= current.frame
         /\ \A f : f \in DOMAIN snapshots' <=>
                    \/ /\ f \in DOMAIN snapshots
                       /\ restored.frame + 1 - Capacity < f
                    \/ f = restored.frame + 1
<1>1. \A f \in DOMAIN snapshots : f < restored.frame + 1
  BY DEF Engine!ResimulateFrame, EngineFrames
<1>2. /\ current' = current /\ pc' = "resimulating"
      /\ restored.frame < current.frame
      /\ \E world : snapshots' = Engine!Captured(restored.frame + 1, world)
  BY DEF Engine!ResimulateFrame
<1> QED BY <1>1, <1>2, CapturedFrames DEF EngineFrames

LEMMA LeaveLoopFrames ==
  ASSUME EngineFrames, Engine!ResimulationThrows \/ Engine!EndCorrection
  PROVE  /\ current'.frame = current.frame /\ snapshots' = snapshots
         /\ pc' = "idle"
         /\ aborted' \/ Engine!EndCorrection
BY DEF EngineFrames, Engine!ResimulationThrows, Engine!EndCorrection

LEMMA RestoreFrames ==
  ASSUME EngineFrames, NEW frame \in Nat, Engine!RestoreCheckpoint(frame)
  PROVE  /\ current'.frame = frame /\ pc = "idle" /\ pc' = "idle"
         /\ frame \in DOMAIN snapshots
         /\ \A f : f \in DOMAIN snapshots' <=> f \in DOMAIN snapshots /\ f <= frame
BY DEF EngineFrames, Engine!RestoreCheckpoint, Engine!Keep

\* Counting in the interval.
LEMMA NextInInterval ==
  ASSUME NEW n \in Nat
  PROVE  /\ n % CheckpointInterval \in 0..(CheckpointInterval - 1)
         /\ (n + 1) % CheckpointInterval # 0 =>
              (n + 1) % CheckpointInterval = (n % CheckpointInterval) + 1
BY DEF HostAssumption

-----------------------------------------------------------------------------
(* Every call keeps the invariant *)

LEMMA HostInitInv == HostInit => HostInv
<1> SUFFICES ASSUME HostInit PROVE HostInv
  OBVIOUS
<1>1. EngineProofs!EngineInv
  BY SameEngine, EngineProofs!InitInv DEF HostInit, HostAssumption
<1>2. /\ controller = [InitialController EXCEPT !.checkpoint = 0, !.hasCheckpoint = TRUE]
      /\ bridge = InitialBridge
      /\ current.frame = 0 /\ DOMAIN snapshots = {0}
  BY DEF HostInit, MarkSafeCheckpoint, Engine!EngineInit, Engine!Put
<1>3. RecoveryPart
  BY InitialIsSound DEF HostInit, RecoveryPart
<1>4. CheckpointPart
  <2>1. controller.checkpoint = 0
    BY <1>2 DEF InitialController
  <2>2. bridge.pending.signal.mode = "Normal"
    BY <1>2 DEF InitialBridge, NoEvent
  <2> QED BY <1>2, <2>1, <2>2, NextInInterval
          DEF CheckpointPart, CheckpointIsRecent, CheckpointComesBack,
              PendingNamesCheckpoint, RollingBack
<1> QED BY <1>1, <1>3, <1>4 DEF HostInv

LEMMA MarkKeepsRecovery ==
  ASSUME RecoveryPart, NEW frame \in Nat, bridge' = bridge,
         controller' \in {controller, MarkSafeCheckpoint(controller, frame)}
  PROVE  RecoveryPart'
BY MarkKeepsSound DEF RecoveryPart

LEMMA ReportKeepsRecovery ==
  ASSUME RecoveryPart, NEW fault \in FaultKind, ReportFault(fault)
  PROVE  /\ RecoveryPart'
         /\ controller'.checkpoint = controller.checkpoint
         /\ \/ bridge'.pending.signal.checkpoint = controller.checkpoint
            \/ bridge'.pending \in {bridge.pending, NoEvent}
<1>1. /\ controller' = ControllerAfterFault(controller, fault)
      /\ bridge' = Publish(bridge, SignalOfFault(controller, fault))
  BY DEF ReportFault
<1> QED BY <1>1, ReportKeepsSound DEF RecoveryPart

LEMMA AckKeepsRecovery ==
  ASSUME RecoveryPart, NEW g \in Nat, NEW ack \in RecoveryAcknowledgement,
         NEW frame \in Nat, Acknowledge(g, ack, frame)
  PROVE  /\ RecoveryPart'
         /\ controller'.checkpoint = controller.checkpoint
         /\ bridge'.pending \in {bridge.pending, NoEvent}
<1>1. /\ controller' = ControllerAfterAck(controller, bridge, g, ack, frame)
      /\ bridge' = BridgeAfterAck(controller, bridge, g, ack, frame)
  BY DEF Acknowledge
<1> QED BY <1>1, AckKeepsSound DEF RecoveryPart

\* A runtime that waits for a rollback refuses to advance and to correct.
LEMMA RollingBackStops ==
  ASSUME RecoveryPart, RollingBack
  PROVE  ~MayAdvance(controller.mode)
BY RollbackStops DEF RecoveryPart, RollingBack

\* Every call of a host that follows the directives keeps the checkpoint
\* where a rollback can reach it.
LEMMA CheckpointStep ==
  ASSUME HostInv, FollowsDirectives, HostNext
  PROVE  CheckpointPart'
<1>0. /\ EngineFrames /\ RecoveryPart /\ CheckpointPart
      /\ controller.checkpoint \in Nat
      /\ DOMAIN snapshots \subseteq Nat /\ current.frame \in Nat
  BY EngineInvFrames
     DEF HostInv, RecoveryPart, RecoverySound, RecoveryController, EngineFrames
<1>a. CheckpointInterval \in Nat \ {0} /\ CheckpointInterval <= Capacity
      /\ Capacity \in Nat
  BY DEF HostAssumption
<1> USE DEF CheckpointPart
<1>1. ASSUME NEW input \in Inputs, Advance(input) PROVE CheckpointPart'
  <2>1. /\ Engine!Advance(input) /\ bridge' = bridge
        /\ MayAdvance(controller.mode)
        /\ controller' = IF current'.frame % CheckpointInterval = 0
                         THEN MarkSafeCheckpoint(controller, current'.frame)
                         ELSE controller
    BY <1>1 DEF Advance, recoveryVars
  <2>2. /\ pc = "idle" /\ pc' = pc /\ aborted' = aborted
        /\ current.frame \in DOMAIN snapshots
        /\ current'.frame = current.frame + 1
        /\ \A f : f \in DOMAIN snapshots' <=>
                   \/ f \in DOMAIN snapshots /\ current'.frame - Capacity < f
                   \/ f = current'.frame
    BY <1>0, <2>1, AdvanceFrames
  <2>3. PendingNamesCheckpoint'
    BY <1>0, <2>1, RollingBackStops DEF PendingNamesCheckpoint, RollingBack
  <2>4. CASE current'.frame % CheckpointInterval = 0
    <3>1. controller'.checkpoint = current'.frame
      BY <1>0, <2>1, <2>4 DEF MarkSafeCheckpoint, RecoveryPart, RecoverySound, RecoveryController
    <3> QED BY <1>0, <2>2, <2>3, <2>4, <3>1
            DEF CheckpointIsRecent, CheckpointComesBack
  <2>5. CASE current'.frame % CheckpointInterval # 0
    <3>1. controller' = controller
      BY <2>1, <2>5
    <3>2. /\ current'.frame % CheckpointInterval = (current.frame % CheckpointInterval) + 1
          /\ current'.frame % CheckpointInterval < CheckpointInterval
      BY <1>0, <1>a, <2>2, <2>5, NextInInterval
    <3>3. current.frame % CheckpointInterval \in Nat
      BY <1>0, NextInInterval
    <3>4. CheckpointIsRecent'
      BY <1>0, <2>2, <3>1, <3>2, <3>3 DEF CheckpointIsRecent
    <3>5. controller.checkpoint \in DOMAIN snapshots
      BY <1>0, <2>2 DEF CheckpointIsRecent, CheckpointComesBack
    <3>6. current'.frame - Capacity < controller.checkpoint
      BY <1>0, <1>a, <2>2, <3>1, <3>2, <3>3, <3>4 DEF CheckpointIsRecent
    <3>7. controller'.checkpoint \in DOMAIN snapshots'
      BY <2>2, <3>1, <3>5, <3>6
    <3> QED BY <2>3, <3>4, <3>7 DEF CheckpointComesBack
  <2> QED BY <2>4, <2>5
<1>2. ASSUME UNCHANGED recoveryVars, current'.frame = current.frame,
             \/ snapshots' = snapshots
             \/ \E frame \in Nat : \A f :
                  f \in DOMAIN snapshots' <=> f \in DOMAIN snapshots /\ f <= frame
      PROVE  CheckpointPart'
  <2>1. controller' = controller /\ bridge' = bridge
    BY <1>2 DEF recoveryVars
  <2>2. CheckpointIsRecent' /\ PendingNamesCheckpoint'
    BY <1>0, <1>2, <2>1 DEF CheckpointIsRecent, PendingNamesCheckpoint, RollingBack
  <2>3. CheckpointComesBack'
    BY <1>0, <1>2, <2>1 DEF CheckpointComesBack
  <2> QED BY <2>2, <2>3
<1>3. ASSUME NEW input \in Inputs, AdvanceFails(input) PROVE CheckpointPart'
  BY <1>2, <1>3 DEF AdvanceFails, Engine!AdvanceThrows
<1>4. CASE Refuse
  BY <1>2, <1>4 DEF Refuse, engineVars
<1>5. ASSUME NEW frame \in 0..MaxFrame, NEW input \in Inputs, Correct(frame, input)
      PROVE  CheckpointPart'
  BY <1>0, <1>2, <1>5, BeginCorrectionFrames DEF Correct
<1>6. CASE Resimulate
  <2>1. /\ current' = current /\ controller' = controller /\ bridge' = bridge
        /\ restored.frame + 1 <= current.frame
        /\ \A f : f \in DOMAIN snapshots' <=>
                   \/ f \in DOMAIN snapshots /\ restored.frame + 1 - Capacity < f
                   \/ f = restored.frame + 1
    BY <1>0, <1>6, ResimulateFrames DEF Resimulate, recoveryVars
  <2>2. /\ restored.frame \in DOMAIN snapshots /\ restored.frame \in Nat
        /\ \A f \in DOMAIN snapshots : f <= restored.frame
    BY <1>0, <1>6 DEF Resimulate, Engine!ResimulateFrame, EngineFrames
  <2>3. CheckpointIsRecent' /\ PendingNamesCheckpoint'
    BY <1>0, <2>1 DEF CheckpointIsRecent, PendingNamesCheckpoint, RollingBack
  <2>4. CASE controller.checkpoint \in DOMAIN snapshots
    <3>1. current.frame - controller.checkpoint < CheckpointInterval
      BY <1>0, <1>a, NextInInterval DEF CheckpointIsRecent
    <3>2. restored.frame + 1 - Capacity < controller.checkpoint
      BY <1>0, <1>a, <2>1, <2>2, <3>1
    <3> QED BY <2>1, <2>3, <2>4, <3>2 DEF CheckpointComesBack
  <2>5. CASE \A f \in DOMAIN snapshots : f < controller.checkpoint
    <3>1. restored.frame + 1 <= controller.checkpoint
      BY <1>0, <2>2, <2>5
    <3> QED BY <1>0, <2>1, <2>2, <2>3, <2>5, <3>1 DEF CheckpointComesBack
  <2> QED BY <1>0, <2>4, <2>5 DEF CheckpointComesBack
<1>7. CASE CorrectFails \/ CorrectReturns
  BY <1>0, <1>2, <1>7, LeaveLoopFrames DEF CorrectFails, CorrectReturns
<1>8. ASSUME NEW frame \in 0..MaxFrame, RestoreCheckpoint(frame)
      PROVE  CheckpointPart'
  <2>1. /\ Engine!RestoreCheckpoint(frame) /\ bridge' = bridge
        /\ controller'.checkpoint = frame
        /\ RollingBack => frame = bridge.pending.signal.checkpoint
    BY <1>0, <1>8 DEF RestoreCheckpoint, MarkSafeCheckpoint, RecoveryPart, RecoverySound,
       RecoveryController
  <2>2. /\ current'.frame = frame /\ frame \in Nat
        /\ frame \in DOMAIN snapshots'
    BY <1>0, <2>1, RestoreFrames
  <2>3. 0 <= frame % CheckpointInterval
    BY <2>2, NextInInterval
  <2> QED BY <2>1, <2>2, <2>3
          DEF CheckpointIsRecent, CheckpointComesBack, PendingNamesCheckpoint,
              RollingBack
<1>9. ASSUME NEW fault \in FaultKind, ReportFault(fault) PROVE CheckpointPart'
  <2>1. /\ controller'.checkpoint = controller.checkpoint
        /\ current' = current /\ snapshots' = snapshots
        /\ \/ bridge'.pending.signal.checkpoint = controller.checkpoint
           \/ bridge'.pending \in {bridge.pending, NoEvent}
    BY <1>0, <1>9, ReportKeepsRecovery DEF ReportFault, engineVars
  <2> QED BY <1>0, <2>1
          DEF CheckpointIsRecent, CheckpointComesBack, PendingNamesCheckpoint,
              RollingBack, NoEvent
<1>10. ASSUME NEW g \in 0..bridge.generation, NEW ack \in RecoveryAcknowledgement,
              NEW frame \in 0..MaxFrame, HostMayAnswer(ack),
              Acknowledge(g, ack, frame)
       PROVE  CheckpointPart'
  <2>1. /\ controller'.checkpoint = controller.checkpoint
        /\ bridge'.pending \in {bridge.pending, NoEvent}
    <3>1. g \in Nat /\ frame \in Nat
      BY <1>0 DEF RecoveryPart, RecoverySound, RecoveryHostBridge, Generation
    <3> QED BY <1>0, <1>10, <3>1, AckKeepsRecovery
  <2>2. PendingNamesCheckpoint'
    BY <1>0, <2>1 DEF PendingNamesCheckpoint, RollingBack, NoEvent
  <2>3. CASE RestoresFirst(g, ack, frame)
    <3>1. frame = controller.checkpoint
      BY <1>0, <1>10, <2>3 DEF RestoresFirst, HostMayAnswer, PendingNamesCheckpoint
    <3>2. Engine!RestoreCheckpoint(frame)
      BY <1>10, <2>3 DEF Acknowledge
    <3>3. /\ current'.frame = frame /\ frame \in Nat
          /\ frame \in DOMAIN snapshots'
      BY <1>0, <3>2, RestoreFrames
    <3>4. 0 <= frame % CheckpointInterval
      BY <3>3, NextInInterval
    <3> QED BY <2>1, <2>2, <3>1, <3>3, <3>4
            DEF CheckpointIsRecent, CheckpointComesBack
  <2>4. CASE ~RestoresFirst(g, ack, frame)
    <3>1. current' = current /\ snapshots' = snapshots
      BY <1>10, <2>4 DEF Acknowledge, engineVars
    <3> QED BY <1>0, <2>1, <2>2, <3>1 DEF CheckpointIsRecent, CheckpointComesBack
  <2> QED BY <2>3, <2>4
<1>11. ASSUME NEW g, NEW ack, NEW frame, AcknowledgeCannotRestore(g, ack, frame)
       PROVE  CheckpointPart'
  BY <1>2, <1>11 DEF AcknowledgeCannotRestore, engineVars
<1> QED BY <1>1, <1>3, <1>4, <1>5, <1>6, <1>7, <1>8, <1>9, <1>10, <1>11 DEF HostNext

LEMMA RecoveryStep ==
  ASSUME HostInv, HostNext
  PROVE  RecoveryPart'
<1>0. RecoveryPart /\ EngineFrames
  BY EngineInvFrames DEF HostInv
<1>1. ASSUME UNCHANGED recoveryVars PROVE RecoveryPart'
  <2>1. controller' = controller /\ bridge' = bridge
    BY <1>1 DEF recoveryVars
  <2> QED BY <1>0, <2>1 DEF RecoveryPart
<1>2. ASSUME NEW input \in Inputs, Advance(input) PROVE RecoveryPart'
  <2>1. current'.frame \in Nat
    BY <1>0, <1>2, AdvanceFrames DEF Advance, EngineFrames
  <2>2. /\ bridge' = bridge
        /\ controller' \in {controller, MarkSafeCheckpoint(controller, current'.frame)}
    BY <1>2 DEF Advance, recoveryVars
  <2> QED BY <1>0, <2>1, <2>2, MarkKeepsRecovery
<1>3. ASSUME NEW frame \in 0..MaxFrame, RestoreCheckpoint(frame)
      PROVE  RecoveryPart'
  BY <1>0, <1>3, MarkKeepsRecovery DEF RestoreCheckpoint
<1>4. ASSUME NEW fault \in FaultKind, ReportFault(fault) PROVE RecoveryPart'
  BY <1>0, <1>4, ReportKeepsRecovery
<1>5. ASSUME NEW g \in 0..bridge.generation, NEW ack \in RecoveryAcknowledgement,
             NEW frame \in 0..MaxFrame, Acknowledge(g, ack, frame)
      PROVE  RecoveryPart'
  <2>1. g \in Nat /\ frame \in Nat
    BY <1>0 DEF RecoveryPart, RecoverySound, RecoveryHostBridge, Generation
  <2> QED BY <1>0, <1>5, <2>1, AckKeepsRecovery
<1>6. ASSUME NEW input \in Inputs, AdvanceFails(input) PROVE RecoveryPart'
  BY <1>1, <1>6 DEF AdvanceFails
<1>7. ASSUME NEW frame, NEW input, Correct(frame, input) PROVE RecoveryPart'
  BY <1>1, <1>7 DEF Correct
<1>8. ASSUME Refuse \/ Resimulate \/ CorrectFails \/ CorrectReturns
      PROVE  RecoveryPart'
  BY <1>1, <1>8 DEF Refuse, Resimulate, CorrectFails, CorrectReturns, recoveryVars
<1>9. ASSUME NEW g, NEW ack, NEW frame, AcknowledgeCannotRestore(g, ack, frame)
      PROVE  RecoveryPart'
  BY <1>1, <1>9 DEF AcknowledgeCannotRestore, recoveryVars
<1> QED BY <1>2, <1>3, <1>4, <1>5, <1>6, <1>7, <1>8, <1>9 DEF HostNext

LEMMA HostStepInv == HostInv /\ [HostNext]_hostVars => HostInv'
<1> SUFFICES ASSUME HostInv, [HostNext]_hostVars PROVE HostInv'
  OBVIOUS
<1>1. EngineProofs!EngineInv'
  BY EngineStep, EngineProofs!StepInv DEF HostInv, HostAssumption, engineVars,
     EngineProofs!engineVars
<1>2. CASE HostNext
  BY <1>1, <1>2, RecoveryStep, CheckpointStep DEF HostInv
<1>3. CASE UNCHANGED hostVars
  <2>1. /\ controller' = controller /\ bridge' = bridge
        /\ current' = current /\ snapshots' = snapshots
    BY <1>3 DEF hostVars, engineVars, recoveryVars
  <2>2. RecoveryPart'
    BY <2>1 DEF HostInv, RecoveryPart
  <2>3. FollowsDirectives => CheckpointPart'
    BY <2>1 DEF HostInv, CheckpointPart, CheckpointIsRecent, CheckpointComesBack,
       PendingNamesCheckpoint, RollingBack
  <2> QED BY <1>1, <2>2, <2>3 DEF HostInv
<1> QED BY <1>2, <1>3

LEMMA HostInvariance == HostSpec => []HostInv
BY HostInitInv, HostStepInv, PTL DEF HostSpec

-----------------------------------------------------------------------------
(* The theorems *)

\* The handle uses its engine by the engine's operations only, whatever the
\* host calls: every behaviour of the handle is one of the engine
\* (dcore_host.cpp drives rollback.cpp), and what is proved of the engine
\* holds inside the handle.
THEOREM HostDrivesEngine ==
  HostSpec => EngineProofs!EngineInit /\ [][EngineProofs!EngineNext]_engineVars
<1>1. HostInit => EngineProofs!EngineInit
  BY SameEngine DEF HostInit
<1> QED BY <1>1, EngineStep, PTL DEF HostSpec

\* A host that follows the directives finds the checkpoint of every rollback
\* it is asked for, and loses fewer than CheckpointInterval frames to it, for
\* every interval that fits in the window.
THEOREM RollbackCanBeAnsweredAlways ==
  FollowsDirectives => (HostSpec => []RollbackCanBeAnswered)
<1> SUFFICES ASSUME FollowsDirectives PROVE HostSpec => []RollbackCanBeAnswered
  OBVIOUS
<1>1. HostInv => SafeCheckpointRetained
  <2> SUFFICES ASSUME HostInv, AtRest, ~aborted
               PROVE  /\ controller.checkpoint \in DOMAIN snapshots
                      /\ controller.checkpoint <= current.frame
                      /\ current.frame - controller.checkpoint < CheckpointInterval
    BY DEF SafeCheckpointRetained
  <2>1. EngineFrames /\ CheckpointPart /\ controller.checkpoint \in Nat
    BY EngineInvFrames DEF HostInv, RecoveryPart, RecoverySound, RecoveryController
  <2>2. /\ current.frame \in DOMAIN snapshots /\ current.frame \in Nat
        /\ DOMAIN snapshots \subseteq Nat
    BY <2>1 DEF EngineFrames
  <2>3. /\ current.frame % CheckpointInterval \in Nat
        /\ current.frame % CheckpointInterval < CheckpointInterval
    BY <2>2, NextInInterval DEF HostAssumption
  <2>4. CheckpointInterval \in Nat
    BY DEF HostAssumption
  <2> QED BY <2>1, <2>2, <2>3, <2>4
          DEF CheckpointPart, CheckpointIsRecent, CheckpointComesBack
<1>2. HostInv => PendingRollbackRetained
  <2> SUFFICES ASSUME HostInv, AtRest, ~aborted, HasPending(bridge), RollingBack
               PROVE  /\ bridge.pending.signal.checkpoint \in DOMAIN snapshots
                      /\ Completes(controller, bridge, bridge.pending.generation,
                                   "CheckpointRestored",
                                   bridge.pending.signal.checkpoint)
    BY DEF PendingRollbackRetained, HostInv, RecoveryPart, RecoverySound
  <2>1. bridge.pending.signal.checkpoint \in DOMAIN snapshots
    BY <1>1 DEF HostInv, CheckpointPart, PendingNamesCheckpoint,
       SafeCheckpointRetained
  <2>2. controller.mode # "Halted"
    BY DEF HostInv, RecoveryPart, RecoverySound
  <2> QED BY <2>1, <2>2 DEF Completes, AckRejectReason, AcknowledgementMatches,
             RollingBack
<1> QED BY <1>1, <1>2, HostInvariance, PTL DEF RollbackCanBeAnswered

\* Whatever the host does, the runtime comes back from a rollback only with
\* the checkpoint of the event restored and every later frame forgotten.
THEOREM RecoveredStateIsCheckpointAlways ==
  HostSpec => RecoveredStateIsCheckpoint
<1>1. HostInv /\ [HostNext]_hostVars => [RecoversToCheckpoint]_hostVars
  <2> SUFFICES ASSUME HostInv, HostNext, HasPending(bridge), RollingBack,
                      controller.mode # "Normal", controller'.mode = "Normal"
               PROVE  LET frame == bridge.pending.signal.checkpoint IN
                      /\ frame \in DOMAIN snapshots
                      /\ current' = [frame |-> frame, world |-> snapshots[frame]]
                      /\ \A f \in DOMAIN snapshots' : f <= frame
    BY DEF RecoversToCheckpoint
  <2>0. /\ RecoveryPart /\ EngineFrames /\ ~MayAdvance(controller.mode)
        /\ controller \in RecoveryController /\ bridge \in RecoveryHostBridge
    BY EngineInvFrames, RollingBackStops DEF HostInv, RecoveryPart, RecoverySound
  <2>1. ASSUME NEW frame, RestoreCheckpoint(frame) PROVE FALSE
    BY <2>0, <2>1 DEF RestoreCheckpoint, MarkSafeCheckpoint, RecoveryController
  <2>2. ASSUME NEW fault \in FaultKind, ReportFault(fault) PROVE FALSE
    <3>1. controller'.mode = SignalOfFault(controller, fault).mode
      BY <2>0, <2>2, FaultType DEF ReportFault
    <3> QED BY <2>0, <3>1, ResponseCases
  <2>3. ASSUME UNCHANGED recoveryVars PROVE FALSE
    BY <2>3 DEF recoveryVars
  <2>4. PICK g \in 0..bridge.generation, ack \in RecoveryAcknowledgement,
             frame \in 0..MaxFrame : Acknowledge(g, ack, frame)
    BY <2>0, <2>1, <2>2, <2>3
       DEF HostNext, Advance, AdvanceFails, Refuse, Correct, Resimulate,
           CorrectFails, CorrectReturns, AcknowledgeCannotRestore, recoveryVars
  <2>5. Completes(controller, bridge, g, ack, frame)
    BY <2>4 DEF Acknowledge, ControllerAfterAck
  <2>6. RestoresFirst(g, ack, frame)
    BY <2>5 DEF Completes, AckRejectReason, AcknowledgementMatches, RestoresFirst,
       RollingBack
  <2>7. Engine!RestoreCheckpoint(frame) /\ frame = bridge.pending.signal.checkpoint
    BY <2>4, <2>6 DEF Acknowledge, RestoresFirst
  <2>8. \A f \in DOMAIN snapshots' : f <= frame
    BY <2>0, <2>7, RestoreFrames
  <2> QED BY <2>7, <2>8 DEF Engine!RestoreCheckpoint
<1> QED BY <1>1, HostInvariance, PTL DEF HostSpec, RecoveredStateIsCheckpoint

-----------------------------------------------------------------------------
(* The C functions around the handle *)

\* What a host passes to the C functions, and what they keep beside the
\* handle.  A host of HostCalls is one that follows no directives.
CONSTANTS
  Null, DefaultTraceCapacity, DefaultMaximumInputs,
  MaximumAcceleration, Int64Min, MaxTraced, Threads, CConfigs, CBodies,
  CInputs, FaultNumbers, AckNumbers

VARIABLES handle, traces, out

\* The C functions of a handle with the capacity and the interval of HostSdk.
Calls == INSTANCE HostCalls
  WITH DefaultSnapshotCapacity <- Capacity,
       DefaultCheckpointInterval <- CheckpointInterval

\* The operators of the recovery contract are the same on both sides.
LEMMA SameContract ==
  /\ \A mode : Calls!Host!MayAdvance(mode) <=> MayAdvance(mode)
  /\ \A mode : Calls!MayAdvance(mode) <=> MayAdvance(mode)
  /\ \A b : Calls!Host!HasPending(b) <=> HasPending(b)
  /\ \A b : Calls!HasPending(b) <=> HasPending(b)
  /\ \A c, frame : Calls!Host!MarkSafeCheckpoint(c, frame) = MarkSafeCheckpoint(c, frame)
  /\ \A action : Calls!Host!RecoveryRequiresAcknowledgement(action)
                   <=> RecoveryRequiresAcknowledgement(action)
  /\ \A action : Calls!RecoveryRequiresAcknowledgement(action)
                   <=> RecoveryRequiresAcknowledgement(action)
  /\ Calls!Host!InitialController = InitialController
  /\ Calls!Host!InitialBridge = InitialBridge
BY DEF Calls!Host!MayAdvance, MayAdvance, Calls!MayAdvance, Calls!Host!HasPending, HasPending,
  Calls!HasPending, Calls!Host!MarkSafeCheckpoint, MarkSafeCheckpoint,
  Calls!Host!RecoveryRequiresAcknowledgement, RecoveryRequiresAcknowledgement,
  Calls!RecoveryRequiresAcknowledgement, Calls!Host!InitialController, InitialController,
  Calls!Host!InitialBridge, InitialBridge, Calls!Host!NoEvent, NoEvent

\* A fault is answered and published alike.
LEMMA SameReport ==
  /\ \A c, fault : Calls!Host!ControllerAfterFault(c, fault) = ControllerAfterFault(c, fault)
  /\ \A c, fault : Calls!Host!SignalOfFault(c, fault) = SignalOfFault(c, fault)
  /\ \A c, fault : Calls!SignalOfFault(c, fault) = SignalOfFault(c, fault)
  /\ \A b, signal : Calls!Host!Publish(b, signal) = Publish(b, signal)
<1>1. \A c, fault : /\ Calls!Host!CountFault(c, fault) = CountFault(c, fault)
                    /\ Calls!CountFault(c, fault) = CountFault(c, fault)
  BY DEF Calls!Host!CountFault, Calls!CountFault, CountFault, IncrementSaturating,
     Calls!Host!IncrementSaturating, Calls!IncrementSaturating
<1>2. \A c, fault : /\ Calls!Host!Response(c, fault) = Response(c, fault)
                    /\ Calls!Response(c, fault) = Response(c, fault)
  BY DEF Calls!Host!Response, Calls!Response, Response, TolerantResponse,
     Calls!Host!TolerantResponse, Calls!TolerantResponse
<1>3. \A c, fault : Calls!Host!ControllerAfterFault(c, fault) = ControllerAfterFault(c, fault)
  BY <1>1, <1>2, Zenon DEF Calls!Host!ControllerAfterFault, ControllerAfterFault
<1>4. \A c, fault : /\ Calls!Host!SignalOfFault(c, fault) = SignalOfFault(c, fault)
                    /\ Calls!SignalOfFault(c, fault) = SignalOfFault(c, fault)
  BY <1>1, <1>2, Zenon DEF Calls!Host!SignalOfFault, Calls!SignalOfFault, SignalOfFault
<1>5. \A b, signal : Calls!Host!Publish(b, signal) = Publish(b, signal)
  BY SameContract DEF Calls!Host!Publish, Publish, Calls!Host!NoEvent, NoEvent
<1> QED BY <1>3, <1>4, <1>5

\* An acknowledgement is judged and answered alike.
LEMMA SameAnswer ==
  /\ \A c, b, g, ack, r : Calls!Host!AckRejectReason(c, b, g, ack, r)
                            = AckRejectReason(c, b, g, ack, r)
  /\ \A c, b, g, ack, r : Calls!Completes(c, b, g, ack, r) <=> Completes(c, b, g, ack, r)
  /\ \A c, b, g, ack, r : Calls!Host!ControllerAfterAck(c, b, g, ack, r)
                            = ControllerAfterAck(c, b, g, ack, r)
  /\ \A c, b, g, ack, r : Calls!Host!BridgeAfterAck(c, b, g, ack, r)
                            = BridgeAfterAck(c, b, g, ack, r)
<1>1. \A signal, ack :
        /\ Calls!Host!AcknowledgementMatches(signal, ack) <=> AcknowledgementMatches(signal, ack)
        /\ Calls!AcknowledgementMatches(signal, ack) <=> AcknowledgementMatches(signal, ack)
  BY DEF Calls!Host!AcknowledgementMatches, Calls!AcknowledgementMatches, AcknowledgementMatches
<1>2. \A c, b, g, ack, r :
        /\ Calls!Host!AckRejectReason(c, b, g, ack, r) = AckRejectReason(c, b, g, ack, r)
        /\ Calls!AckRejectReason(c, b, g, ack, r) = AckRejectReason(c, b, g, ack, r)
  BY <1>1, SameContract DEF Calls!Host!AckRejectReason, Calls!AckRejectReason, AckRejectReason
<1>3. \A c, b, g, ack, r :
        /\ Calls!Host!Completes(c, b, g, ack, r) <=> Completes(c, b, g, ack, r)
        /\ Calls!Completes(c, b, g, ack, r) <=> Completes(c, b, g, ack, r)
  BY <1>2, Zenon DEF Calls!Host!Completes, Calls!Completes, Completes
<1>4. \A c, b, g, ack, r : Calls!Host!ControllerAfterAck(c, b, g, ack, r)
                            = ControllerAfterAck(c, b, g, ack, r)
  BY <1>3 DEF Calls!Host!ControllerAfterAck, ControllerAfterAck,
     Calls!Host!ControllerAfterRecovery, ControllerAfterRecovery,
     Calls!Host!ResetInputQuarantine, ResetInputQuarantine
<1>5. \A c, b, g, ack, r : Calls!Host!BridgeAfterAck(c, b, g, ack, r)
                            = BridgeAfterAck(c, b, g, ack, r)
  BY <1>3 DEF Calls!Host!BridgeAfterAck, BridgeAfterAck, Calls!Host!NoEvent, NoEvent
<1> QED BY <1>2, <1>3, <1>4, <1>5

\* And so is the engine inside the handle.
LEMMA SameEngineBehindCalls ==
  /\ Calls!Host!Engine!EngineInit => Engine!EngineInit
  /\ \A input : Calls!Host!Engine!Advance(input) => Engine!Advance(input)
  /\ \A input : Calls!Host!Engine!AdvanceThrows(input) => Engine!AdvanceThrows(input)
  /\ \A frame, input : Calls!Host!Engine!BeginCorrection(frame, input)
                         => Engine!BeginCorrection(frame, input)
  /\ Calls!Host!Engine!ResimulateFrame => Engine!ResimulateFrame
  /\ Calls!Host!Engine!ResimulationThrows => Engine!ResimulationThrows
  /\ Calls!Host!Engine!EndCorrection => Engine!EndCorrection
  /\ \A frame : Calls!Host!Engine!RestoreCheckpoint(frame) => Engine!RestoreCheckpoint(frame)
<1>1. /\ \A f, key, value : Calls!Host!Engine!Put(f, key, value) = Engine!Put(f, key, value)
      /\ \A f, keys : Calls!Host!Engine!Keep(f, keys) = Engine!Keep(f, keys)
  BY DEF Calls!Host!Engine!Put, Engine!Put, Calls!Host!Engine!Keep, Engine!Keep
<1>2. /\ \A frame, world : Calls!Host!Engine!Captured(frame, world) = Engine!Captured(frame, world)
      /\ \A inputs, retained : Calls!Host!Engine!Trimmed(inputs, retained)
                                 = Engine!Trimmed(inputs, retained)
      /\ \A frame : Calls!Host!Engine!FollowsLatest(frame) <=> Engine!FollowsLatest(frame)
      /\ \A frame : Calls!Host!Engine!InputOf(frame) = Engine!InputOf(frame)
  BY <1>1 DEF Calls!Host!Engine!Captured, Engine!Captured, Calls!Host!Engine!Trimmed,
     Engine!Trimmed, Calls!Host!Engine!FollowsLatest, Engine!FollowsLatest,
     Calls!Host!Engine!InputOf, Engine!InputOf
<1>3. Calls!Host!Engine!EngineInit => Engine!EngineInit
  BY <1>1 DEF Calls!Host!Engine!EngineInit, Engine!EngineInit
<1>4. \A input : /\ Calls!Host!Engine!Advance(input) => Engine!Advance(input)
                 /\ Calls!Host!Engine!AdvanceThrows(input) => Engine!AdvanceThrows(input)
  BY <1>1, <1>2, Zenon DEF Calls!Host!Engine!Advance, Engine!Advance,
     Calls!Host!Engine!AdvanceThrows, Engine!AdvanceThrows
<1>5. \A frame, input : Calls!Host!Engine!BeginCorrection(frame, input)
                         => Engine!BeginCorrection(frame, input)
  BY <1>1, Zenon DEF Calls!Host!Engine!BeginCorrection, Engine!BeginCorrection
<1>6. Calls!Host!Engine!ResimulateFrame => Engine!ResimulateFrame
  BY <1>1, <1>2, Zenon DEF Calls!Host!Engine!ResimulateFrame, Engine!ResimulateFrame
<1>7. /\ Calls!Host!Engine!ResimulationThrows => Engine!ResimulationThrows
      /\ Calls!Host!Engine!EndCorrection => Engine!EndCorrection
  BY Zenon DEF Calls!Host!Engine!ResimulationThrows, Engine!ResimulationThrows,
     Calls!Host!Engine!EndCorrection, Engine!EndCorrection
<1>8. \A frame : Calls!Host!Engine!RestoreCheckpoint(frame) => Engine!RestoreCheckpoint(frame)
  BY <1>1, Zenon DEF Calls!Host!Engine!RestoreCheckpoint, Engine!RestoreCheckpoint
<1> QED BY <1>3, <1>4, <1>5, <1>6, <1>7, <1>8

\* What a call does to the runtime is the call of the handle of that name;
\* of a host that may restore any frame.
LEMMA SameCalls ==
  /\ Calls!Host!HostInit => HostInit
  /\ \A input : Calls!Host!Advance(input) => Advance(input)
  /\ \A input : Calls!Host!AdvanceFails(input) => AdvanceFails(input)
  /\ Calls!Host!Refuse => Refuse
  /\ \A frame, input : Calls!Host!Correct(frame, input) => Correct(frame, input)
  /\ Calls!Host!Resimulate => Resimulate
  /\ Calls!Host!CorrectFails => CorrectFails
  /\ Calls!Host!CorrectReturns => CorrectReturns
  /\ \A frame : ~FollowsDirectives /\ Calls!Host!RestoreCheckpoint(frame)
                  => RestoreCheckpoint(frame)
  /\ \A fault : Calls!Host!ReportFault(fault) => ReportFault(fault)
  /\ \A g, ack, frame : Calls!Host!AcknowledgeCannotRestore(g, ack, frame)
                          => AcknowledgeCannotRestore(g, ack, frame)
  /\ \A g, ack, frame : Calls!Host!Acknowledge(g, ack, frame) => Acknowledge(g, ack, frame)
<1> USE DEF Calls!Host!engineVars, engineVars, Calls!Host!recoveryVars, recoveryVars,
        Calls!Host!SummaryStatus, SummaryStatus, Calls!Host!AtRest, AtRest
<1>1. /\ \A call, status : Calls!Host!Reply(call, status) = Reply(call, status)
      /\ \A reason : Calls!Host!AckReply(reason) = AckReply(reason)
      /\ \A g, ack, frame : Calls!Host!RestoresFirst(g, ack, frame)
                              <=> RestoresFirst(g, ack, frame)
  BY SameContract DEF Calls!Host!Reply, Reply, Calls!Host!AckReply, AckReply,
     Calls!Host!RestoresFirst, RestoresFirst
<1>2. Calls!Host!HostInit => HostInit
  BY <1>1, SameContract, SameEngineBehindCalls, Zenon DEF Calls!Host!HostInit, HostInit
<1>3. \A input : /\ Calls!Host!Advance(input) => Advance(input)
                 /\ Calls!Host!AdvanceFails(input) => AdvanceFails(input)
  BY <1>1, SameContract, SameEngineBehindCalls, Zenon
     DEF Calls!Host!Advance, Advance, Calls!Host!AdvanceFails, AdvanceFails
<1>4. Calls!Host!Refuse => Refuse
  BY <1>1, SameContract, Zenon DEF Calls!Host!Refuse, Refuse
<1>5. \A frame, input : Calls!Host!Correct(frame, input) => Correct(frame, input)
  BY <1>1, SameContract, SameEngineBehindCalls, Zenon DEF Calls!Host!Correct, Correct
<1>6. /\ Calls!Host!Resimulate => Resimulate
      /\ Calls!Host!CorrectFails => CorrectFails
      /\ Calls!Host!CorrectReturns => CorrectReturns
  BY <1>1, SameEngineBehindCalls, Zenon
     DEF Calls!Host!Resimulate, Resimulate, Calls!Host!CorrectFails, CorrectFails,
         Calls!Host!CorrectReturns, CorrectReturns
<1>7. \A frame : ~FollowsDirectives /\ Calls!Host!RestoreCheckpoint(frame)
                   => RestoreCheckpoint(frame)
  BY <1>1, SameContract, SameEngineBehindCalls, Zenon
     DEF Calls!Host!RestoreCheckpoint, RestoreCheckpoint
<1>8. \A fault : Calls!Host!ReportFault(fault) => ReportFault(fault)
  BY <1>1, SameReport, Zenon DEF Calls!Host!ReportFault, ReportFault
<1>9. \A g, ack, frame : Calls!Host!AcknowledgeCannotRestore(g, ack, frame)
                          => AcknowledgeCannotRestore(g, ack, frame)
  BY <1>1, Zenon DEF Calls!Host!AcknowledgeCannotRestore, AcknowledgeCannotRestore
<1>10. \A g, ack, frame : Calls!Host!Acknowledge(g, ack, frame) => Acknowledge(g, ack, frame)
  BY <1>1, SameAnswer, SameEngineBehindCalls, Zenon DEF Calls!Host!Acknowledge, Acknowledge
<1> QED BY <1>2, <1>3, <1>4, <1>5, <1>6, <1>7, <1>8, <1>9, <1>10

\* What the boundary lets through is an acknowledgement, or a fault, of the core.
LEMMA AcknowledgementIsKnown ==
  ASSUME NEW number, Calls!MapAcknowledgement(number) # "unmapped"
  PROVE  Calls!MapAcknowledgement(number) \in RecoveryAcknowledgement
BY DEF Calls!MapAcknowledgement, Calls!IsNumberOf, Calls!Named, Calls!Acknowledgements,
   RecoveryAcknowledgement

\* And so is the fault.
LEMMA FaultIsKnown ==
  ASSUME NEW number, Calls!MapFault(number) # "unmapped"
  PROVE  Calls!MapFault(number) \in FaultKind
BY DEF Calls!MapFault, Calls!IsNumberOf, Calls!Named, Calls!Faults, FaultKind

\* Every call does one thing to the runtime, or nothing.
LEMMA CallIsOfHandle ==
  ASSUME ~FollowsDirectives, Calls!BoundaryAssumption, [Calls!Next]_(Calls!vars)
  PROVE  [HostNext]_hostVars
<1> USE DEF hostVars, engineVars, recoveryVars
<1>1. ASSUME NEW inputs \in CInputs, Calls!Advance(inputs) \/ Calls!AdvanceFails(inputs)
      PROVE  HostNext
  <2>1. Calls!Imported(inputs) \in Inputs
    BY <1>1 DEF Calls!Advance, Calls!AdvanceFails, Calls!BoundaryAssumption
  <2>2. Advance(Calls!Imported(inputs)) \/ AdvanceFails(Calls!Imported(inputs))
    BY <1>1, SameCalls, Zenon DEF Calls!Advance, Calls!AdvanceFails
  <2> QED BY <2>1, <2>2, Zenon DEF HostNext
<1>2. ASSUME NEW frame \in 0..MaxFrame, NEW inputs \in CInputs, Calls!Correct(frame, inputs)
      PROVE  HostNext
  <2>1. Calls!Imported(inputs) \in Inputs
    BY <1>2 DEF Calls!Correct, Calls!BoundaryAssumption
  <2>2. Correct(frame, Calls!Imported(inputs))
    BY <1>2, SameCalls, Zenon DEF Calls!Correct
  <2> QED BY <2>1, <2>2, Zenon DEF HostNext
<1>3. ASSUME Calls!RefuseMode \/ Calls!Resimulate \/ Calls!CorrectFails \/ Calls!CorrectReturns
      PROVE  HostNext
  BY <1>3, SameCalls, Zenon DEF HostNext, Calls!RefuseMode, Calls!Resimulate,
     Calls!CorrectFails, Calls!CorrectReturns
<1>4. ASSUME NEW frame \in 0..MaxFrame, Calls!RestoreCheckpoint(frame)
      PROVE  HostNext
  BY <1>4, SameCalls, Zenon DEF HostNext, Calls!RestoreCheckpoint
<1>5. ASSUME NEW number \in FaultNumbers, Calls!ReportFault(number)
      PROVE  HostNext
  <2>1. Calls!MapFault(number) \in FaultKind
    BY <1>5, FaultIsKnown DEF Calls!ReportFault
  <2>2. ReportFault(Calls!MapFault(number))
    BY <1>5, SameCalls, Zenon DEF Calls!ReportFault
  <2> QED BY <2>1, <2>2, Zenon DEF HostNext
<1>6. ASSUME NEW g \in 0..bridge.generation, NEW number \in AckNumbers,
             NEW frame \in 0..MaxFrame, Calls!Acknowledge(g, number, frame)
      PROVE  HostNext
  <2>1. Calls!MapAcknowledgement(number) \in RecoveryAcknowledgement
    BY <1>6, AcknowledgementIsKnown DEF Calls!Acknowledge
  <2>2. HostMayAnswer(Calls!MapAcknowledgement(number))
    BY DEF HostMayAnswer
  <2>3. \/ AcknowledgeCannotRestore(g, Calls!MapAcknowledgement(number), frame)
        \/ Acknowledge(g, Calls!MapAcknowledgement(number), frame)
    BY <1>6, SameCalls, Zenon DEF Calls!Acknowledge
  <2> QED BY <2>1, <2>2, <2>3, Zenon DEF HostNext
<1>7. ASSUME NEW thread, NEW outHost, NEW bodies, NEW config,
             Calls!Create(thread, outHost, bodies, config)
      PROVE  UNCHANGED hostVars
  BY <1>7, Zenon DEF Calls!Create, Calls!hostVars
<1>8. ASSUME \/ \E result : Calls!Describe(result)
             \/ \E thread : Calls!Destroy(thread)
             \/ \E given, thread, result : Calls!RefuseCall(given, thread, result)
             \/ \E inputs : Calls!RefuseInputs(inputs) \/ Calls!ImportFails(inputs)
             \/ \E call, frame : Calls!RollbackRefused(call, frame)
             \/ Calls!RefuseNumber
             \/ Calls!GetStateSummary \/ Calls!GetPendingRecovery
             \/ \E capacity, buffer : Calls!CopyBodies(capacity, buffer)
                                        \/ Calls!CopyTraces(capacity, buffer)
      PROVE  UNCHANGED hostVars
  BY <1>8, Zenon DEF Calls!hostVars, Calls!Describe, Calls!Destroy, Calls!RefuseCall,
     Calls!RefuseInputs, Calls!ImportFails, Calls!RollbackRefused, Calls!RefuseNumber,
     Calls!GetStateSummary, Calls!GetPendingRecovery, Calls!CopyBodies, Calls!CopyTraces,
     Calls!Reads
<1>9. ASSUME UNCHANGED Calls!vars PROVE UNCHANGED hostVars
  BY <1>9 DEF Calls!vars, Calls!hostVars
<1> QED BY <1>1, <1>2, <1>3, <1>4, <1>5, <1>6, <1>7, <1>8, <1>9, Zenon DEF Calls!Next

\* The C functions, with their checks, conversions and traces, implement the
\* handle of a host that is not trusted (dcore_host.cpp:363-945): every call
\* is one operation of it or leaves it alone.
THEOREM CallsDriveHandle ==
  ASSUME ~FollowsDirectives, Calls!BoundaryAssumption
  PROVE  Calls!Spec => HostSpec
<1>1. Calls!Init => HostInit
  BY SameCalls, Zenon DEF Calls!Init
<1>2. [Calls!Next]_(Calls!vars) => [HostNext]_hostVars
  BY CallIsOfHandle
<1> QED BY <1>1, <1>2, PTL DEF Calls!Spec, HostSpec

-----------------------------------------------------------------------------
(* Numbers of the header and names of the core *)

\* The names of an enumeration.
Known(names) == {names[i] : i \in 1..Len(names)}

\* The number of a name is read back as the name.
LEMMA NameComesBack ==
  ASSUME NEW names, Len(names) \in Nat, NEW name \in Known(names)
  PROVE  Calls!Named(names, Calls!CValue(names, name)) = name
<1> DEFINE i == CHOOSE j \in 1..Len(names) : names[j] = name
<1>1. i \in 1..Len(names) /\ names[i] = name
  BY DEF Known
<1>2. Calls!CValue(names, name) = i - 1
  BY DEF Calls!CValue
<1> HIDE DEF i
<1>3. Calls!Named(names, i - 1) = names[i]
  <2>1. (i - 1) + 1 = i BY <1>1
  <2> QED BY <2>1 DEF Calls!Named
<1> QED BY <1>1, <1>2, <1>3

\* The names the runtime uses are those of the header.
LEMMA CodesAreKnown ==
  /\ Len(Calls!Codes) \in Nat
  /\ {"None", "InputMalformed", "StateAdvanced", "RollbackStarted", "RollbackCompleted",
      "DeviceLost", "IoStall", "OutOfMemory", "SafeWaitEntered", "SafeRollbackEntered",
      "HeadlessModeEntered", "RecoveryAcknowledged", "RecoveryAcknowledgementRejected"}
       \subseteq Known(Calls!Codes)
<1>1. Len(Calls!Codes) = 36 BY DEF Calls!Codes
<1> QED BY <1>1 DEF Calls!Codes, Known

\* So are the outcomes.
LEMMA OutcomesAreKnown ==
  /\ Len(Calls!Outcomes) \in Nat
  /\ {"Rejected", "Applied", "Degraded", "Recovered", "Failed"}
       \subseteq Known(Calls!Outcomes)
BY DEF Calls!Outcomes, Known

\* So are the faults, the actions and the modes.
LEMMA FaultsAreKnown == Len(Calls!Faults) \in Nat /\ FaultKind \subseteq Known(Calls!Faults)
BY DEF Calls!Faults, Known, FaultKind

LEMMA ActionsAreKnown ==
  Len(Calls!Actions) \in Nat /\ RecoveryAction \subseteq Known(Calls!Actions)
BY DEF Calls!Actions, Known, RecoveryAction

LEMMA ModesAreKnown == Len(Calls!Modes) \in Nat /\ RecoveryMode \subseteq Known(Calls!Modes)
BY DEF Calls!Modes, Known, RecoveryMode

\* So are the directives and the reasons of a refusal.
LEMMA DirectivesAreKnown ==
  /\ Len(Calls!Directives) \in Nat
  /\ {"ContinueSimulation", "DropInput", "QuarantineOrigin",
    "ContinueHeadless", "ReuseLastConfirmedInput", "PauseSimulation",
    "RestoreCheckpoint", "DisableTelemetryAndPause", "HaltSimulation"}
       \subseteq Known(Calls!Directives)
BY DEF Calls!Directives, Known

LEMMA ReasonsAreKnown ==
  /\ Len(Calls!RejectReasons) \in Nat
  /\ {"None", "NoPendingRecovery", "StaleGeneration",
    "InvalidAcknowledgement", "CheckpointMismatch",
    "CheckpointUnavailable", "ResourceExhausted", "RuntimeHalted"}
       \subseteq Known(Calls!RejectReasons)
BY DEF Calls!RejectReasons, Known

\* An event in the buffer is the one recorded and its number.
LEMMA StampedIs ==
  ASSUME NEW code, NEW outcome, NEW frame, NEW source, NEW n
  PROVE  Calls!Buffer!Numbered(Calls!Trace(code, outcome, frame, source), n)
           = [code |-> code, outcome |-> outcome, frame |-> frame, source |-> source,
              sequence |-> n]
BY DEF Calls!Trace, Calls!Buffer!Numbered

-----------------------------------------------------------------------------
(* What the engine holds *)

\* A step of a world is a world.
StepsStay ==
  \A world \in Worlds, input \in Inputs :
    ~Overflows(world, input) => Step(world, input) \in Worlds

\* Whatever the engine holds is a world or an input of the simulation.
WorldsTyped ==
  /\ current.world \in Worlds /\ restored.world \in Worlds
  /\ \A f \in DOMAIN snapshots : snapshots[f] \in Worlds
  /\ \A f \in DOMAIN history : history[f] \in Inputs

\* It does from the start.
LEMMA WorldsStart == HostInit => WorldsTyped
<1> SUFFICES ASSUME HostInit PROVE WorldsTyped
  OBVIOUS
<1>1. /\ current = [frame |-> 0, world |-> InitialWorld]
      /\ restored = [frame |-> 0, world |-> InitialWorld]
      /\ DOMAIN history = {}
      /\ \A f \in DOMAIN snapshots : snapshots[f] = InitialWorld
  BY DEF HostInit, Engine!EngineInit, Engine!Put
<1> QED BY <1>1 DEF WorldsTyped, HostAssumption

\* Dropping entries of a map, or putting one in, keeps the values in a set.
LEMMA KeptIsTyped ==
  ASSUME NEW f, NEW S, \A k \in DOMAIN f : f[k] \in S, NEW keys
  PROVE  \A k \in DOMAIN EngineProofs!Keep(f, keys) : EngineProofs!Keep(f, keys)[k] \in S
BY DEF EngineProofs!Keep

LEMMA PutIsTyped ==
  ASSUME NEW f, NEW S, \A k \in DOMAIN f : f[k] \in S, NEW key, NEW value \in S
  PROVE  \A k \in DOMAIN EngineProofs!Put(f, key, value) :
           EngineProofs!Put(f, key, value)[k] \in S
BY DEF EngineProofs!Put

\* And after every operation of the engine.
LEMMA WorldsStep ==
  ASSUME StepsStay, WorldsTyped, EngineProofs!EngineNext
  PROVE  WorldsTyped'
<1>1. ASSUME NEW input \in Inputs, EngineProofs!Advance(input) PROVE WorldsTyped'
  <2>1. Step(current.world, input) \in Worlds
    BY <1>1 DEF EngineProofs!Advance, StepsStay, WorldsTyped
  <2>2. \A f \in DOMAIN snapshots' : snapshots'[f] \in Worlds
    <3>1. snapshots' = EngineProofs!Captured(current.frame + 1, Step(current.world, input))
      BY <1>1 DEF EngineProofs!Advance
    <3> QED BY <2>1, <3>1, PutIsTyped, KeptIsTyped DEF EngineProofs!Captured, WorldsTyped
  <2>3. \A f \in DOMAIN history' : history'[f] \in Inputs
    <3>1. history' = EngineProofs!Trimmed(EngineProofs!Put(history, current.frame, input),
                                          DOMAIN snapshots')
      BY <1>1 DEF EngineProofs!Advance
    <3>2. \A f \in DOMAIN EngineProofs!Put(history, current.frame, input) :
            EngineProofs!Put(history, current.frame, input)[f] \in Inputs
      BY PutIsTyped DEF WorldsTyped
    <3> QED BY <3>1, <3>2, KeptIsTyped DEF EngineProofs!Trimmed
  <2>4. current'.world = Step(current.world, input) /\ restored' = restored
    BY <1>1 DEF EngineProofs!Advance
  <2> QED BY <2>1, <2>2, <2>3, <2>4 DEF WorldsTyped
<1>2. ASSUME NEW input \in Inputs, EngineProofs!AdvanceThrows(input) PROVE WorldsTyped'
  <2>1. \A f \in DOMAIN history' : history'[f] \in Inputs
    BY <1>2, PutIsTyped DEF EngineProofs!AdvanceThrows, WorldsTyped
  <2> QED BY <1>2, <2>1 DEF EngineProofs!AdvanceThrows, WorldsTyped
<1>3. ASSUME NEW frame, EngineProofs!RestoreCheckpoint(frame) PROVE WorldsTyped'
  <2>1. /\ \A f \in DOMAIN history' : history'[f] \in Inputs
        /\ \A f \in DOMAIN snapshots' : snapshots'[f] \in Worlds
    BY <1>3, KeptIsTyped DEF EngineProofs!RestoreCheckpoint, WorldsTyped
  <2>2. current'.world = snapshots[frame] /\ frame \in DOMAIN snapshots /\ restored' = restored
    BY <1>3 DEF EngineProofs!RestoreCheckpoint
  <2> QED BY <2>1, <2>2 DEF WorldsTyped
<1>4. ASSUME NEW frame, NEW input \in Inputs, EngineProofs!BeginCorrection(frame, input)
      PROVE  WorldsTyped'
  <2>1. /\ \A f \in DOMAIN history' : history'[f] \in Inputs
        /\ \A f \in DOMAIN snapshots' : snapshots'[f] \in Worlds
    BY <1>4, KeptIsTyped, PutIsTyped DEF EngineProofs!BeginCorrection, WorldsTyped
  <2>2. restored'.world = snapshots[frame] /\ frame \in DOMAIN snapshots /\ current' = current
    BY <1>4 DEF EngineProofs!BeginCorrection
  <2> QED BY <2>1, <2>2 DEF WorldsTyped
<1>5. ASSUME EngineProofs!ResimulateFrame PROVE WorldsTyped'
  <2> DEFINE input == EngineProofs!InputOf(restored.frame)
             world == Step(restored.world, input)
  <2>1. input \in Inputs
    BY DEF EngineProofs!InputOf, WorldsTyped, HostAssumption
  <2>2. /\ snapshots' = EngineProofs!Captured(restored.frame + 1, world)
        /\ restored'.world = world /\ current' = current /\ history' = history
        /\ ~Overflows(restored.world, input)
    BY <1>5 DEF EngineProofs!ResimulateFrame
  <2>3. world \in Worlds
    BY <2>1, <2>2 DEF StepsStay, WorldsTyped
  <2> HIDE DEF input, world
  <2>4. \A f \in DOMAIN snapshots' : snapshots'[f] \in Worlds
    BY <2>2, <2>3, PutIsTyped, KeptIsTyped DEF EngineProofs!Captured, WorldsTyped
  <2> QED BY <2>2, <2>3, <2>4 DEF WorldsTyped
<1>6. ASSUME EngineProofs!ResimulationThrows \/ EngineProofs!EndCorrection PROVE WorldsTyped'
  BY <1>6 DEF EngineProofs!ResimulationThrows, EngineProofs!EndCorrection, WorldsTyped
<1> QED BY <1>1, <1>2, <1>3, <1>4, <1>5, <1>6 DEF EngineProofs!EngineNext

-----------------------------------------------------------------------------
(* The buffer of the traces *)

\* One turn of a ring at most.
LEMMA WithinTwoTurns ==
  ASSUME NEW C \in Nat \ {0}, NEW n \in Nat, n < C + C
  PROVE  n % C = IF n < C THEN n ELSE n - C
<1> DEFINE q == n \div C
           r == n % C
<1>1. q \in Nat /\ r \in 0..(C - 1) /\ n = C * q + r
  OBVIOUS
<1> HIDE DEF q, r
<1>2. CASE q = 0
  <2>1. C * q = 0 BY <1>2
  <2> QED BY <1>1, <2>1 DEF r
<1>3. CASE q = 1
  <2>1. C * q = C BY <1>3
  <2> QED BY <1>1, <2>1 DEF r
<1>4. CASE q >= 2
  <2>1. C * q >= C * 2 BY <1>1, <1>4
  <2>2. C * 2 = C + C OBVIOUS
  <2>3. C * q \in Nat BY <1>1
  <2> QED BY <1>1, <2>1, <2>2, <2>3
<1> QED BY <1>1, <1>2, <1>3, <1>4

\* A well-formed buffer: next is the slot after the newest event.
RingSound(t) ==
  /\ t.size \in 0..DefaultTraceCapacity
  /\ t.next \in 0..(DefaultTraceCapacity - 1)
  /\ t.size < DefaultTraceCapacity => t.next = t.size
  /\ t.sequence \in Nat
  /\ DOMAIN t.events = 0..(DefaultTraceCapacity - 1)

\* What is copied out of a buffer.
Shown(t) == Calls!Buffer!Snapshot(t)

\* What is shown of a buffer that one more event went into: the event is the
\* newest, the others stay in their order, and a full buffer loses the oldest.
LEMMA OneMoreIsShown ==
  ASSUME DefaultTraceCapacity \in Nat \ {0},
         NEW t, RingSound(t), NEW event
  PROVE  LET after == Calls!Buffer!RecordEvent(t, event)
             lost == (t.size + 1) - after.size
         IN  /\ RingSound(after)
             /\ after.sequence = t.sequence + 1
             /\ after.size = IF t.size = DefaultTraceCapacity THEN t.size ELSE t.size + 1
             /\ Shown(after)[after.size] = Calls!Buffer!Numbered(event, t.sequence)
             /\ \A p \in 1..(after.size - 1) : Shown(after)[p] = Shown(t)[p + lost]
<1> DEFINE C == DefaultTraceCapacity
           after == Calls!Buffer!RecordEvent(t, event)
           stamped == Calls!Buffer!Numbered(event, t.sequence)
           full == t.size = C
<1>1. /\ after.events = [t.events EXCEPT ![t.next] = stamped]
      /\ after.next = (t.next + 1) % C
      /\ after.size = IF full THEN t.size ELSE t.size + 1
      /\ after.sequence = t.sequence + 1
  BY DEF Calls!Buffer!RecordEvent
<1>2. after.next = IF t.next = C - 1 THEN 0 ELSE t.next + 1
  <2>1. t.next + 1 \in Nat /\ t.next + 1 < C + C /\ C \in Nat \ {0}
    BY DEF RingSound
  <2>2. ASSUME NEW n, n = t.next + 1
        PROVE  n % C = IF n < C THEN n ELSE n - C
    <3>1. n \in Nat /\ n < C + C BY <2>1, <2>2
    <3> HIDE DEF C
    <3> QED BY <2>1, <3>1, WithinTwoTurns
  <2> QED BY <1>1, <2>2 DEF RingSound
<1> HIDE DEF stamped, after
<1>3. RingSound(after)
  BY <1>1, <1>2 DEF RingSound
<1>4. /\ \A p \in 1..t.size :
           Shown(t)[p] = t.events[((IF full THEN t.next ELSE 0) + p - 1) % C]
      /\ \A p \in 1..after.size :
           Shown(after)[p]
             = after.events[((IF after.size = C THEN after.next ELSE 0) + p - 1) % C]
  BY DEF Shown, Calls!Buffer!Snapshot
<1> DEFINE Slot(n) == IF n < C THEN n ELSE n - C
<1>5. \A n \in Nat : n < C + C => n % C = Slot(n)
  BY WithinTwoTurns
<1> HIDE DEF Slot
<1>6. /\ \A p \in 1..t.size :
           Shown(t)[p] = t.events[Slot((IF full THEN t.next ELSE 0) + p - 1)]
      /\ \A p \in 1..after.size :
           Shown(after)[p]
             = after.events[Slot((IF after.size = C THEN after.next ELSE 0) + p - 1)]
  <2>1. ASSUME NEW p \in 1..t.size
        PROVE  Shown(t)[p] = t.events[Slot((IF full THEN t.next ELSE 0) + p - 1)]
    <3>1. /\ (IF full THEN t.next ELSE 0) + p - 1 \in Nat
          /\ (IF full THEN t.next ELSE 0) + p - 1 < C + C
      BY DEF RingSound
    <3> QED BY <3>1, <1>4, <1>5
  <2>2. ASSUME NEW p \in 1..after.size
        PROVE  Shown(after)[p]
                 = after.events[Slot((IF after.size = C THEN after.next ELSE 0) + p - 1)]
    <3>1. /\ (IF after.size = C THEN after.next ELSE 0) + p - 1 \in Nat
          /\ (IF after.size = C THEN after.next ELSE 0) + p - 1 < C + C
      BY <1>3 DEF RingSound
    <3> QED BY <3>1, <1>4, <1>5
  <2> QED BY <2>1, <2>2
<1>7. /\ after.events[t.next] = stamped
      /\ \A i \in 0..(C - 1) : i # t.next => after.events[i] = t.events[i]
  BY <1>1 DEF RingSound
<1>8. Shown(after)[after.size] = stamped
  <2>1. Slot((IF after.size = C THEN after.next ELSE 0) + after.size - 1) = t.next
    <3>1. CASE after.size = C /\ t.next = C - 1
      BY <1>2, <3>1 DEF Slot
    <3>2. CASE after.size = C /\ t.next # C - 1
      <4>1. full BY <1>1, <3>2 DEF RingSound
      <4>2. after.next + after.size - 1 = t.next + C BY <1>2, <3>2 DEF RingSound
      <4> QED BY <3>2, <4>2 DEF Slot, RingSound
    <3>3. CASE after.size # C
      <4>1. after.size = t.size + 1 /\ t.next = t.size BY <1>1, <3>3 DEF RingSound
      <4> QED BY <3>3, <4>1 DEF Slot, RingSound
    <3> QED BY <3>1, <3>2, <3>3
  <2>2. after.size \in 1..after.size
    BY <1>1, <1>3 DEF RingSound
  <2> QED BY <1>6, <1>7, <2>1, <2>2
<1>9. ASSUME NEW p \in 1..(after.size - 1)
      PROVE  Shown(after)[p] = Shown(t)[p + ((t.size + 1) - after.size)]
  <2>1. CASE full
    <3>1. after.size = C /\ t.size = C BY <1>1, <2>1
    <3>2. p \in 1..after.size /\ p + 1 \in 1..t.size BY <3>1
    <3>3. /\ Slot(after.next + p - 1) = Slot(t.next + (p + 1) - 1)
          /\ Slot(after.next + p - 1) \in 0..(C - 1)
          /\ Slot(after.next + p - 1) # t.next
      BY <1>2, <3>1 DEF RingSound, Slot
    <3>4. Shown(after)[p] = after.events[Slot(after.next + p - 1)]
      BY <1>6, <3>1, <3>2
    <3>5. Shown(t)[p + 1] = t.events[Slot(t.next + (p + 1) - 1)]
      BY <1>6, <2>1, <3>2
    <3>6. (t.size + 1) - after.size = 1 BY <3>1
    <3> QED BY <1>7, <3>3, <3>4, <3>5, <3>6
  <2>2. CASE ~full
    <3>1. after.size = t.size + 1 /\ t.next = t.size /\ t.size \in 0..(C - 1)
      BY <1>1, <2>2 DEF RingSound
    <3>2. p \in 1..after.size /\ p \in 1..t.size BY <3>1
    <3>3. after.size = C => after.next = 0
      BY <1>2, <3>1
    <3>4. Shown(after)[p] = after.events[Slot(0 + p - 1)]
      BY <1>6, <3>2, <3>3
    <3>5. Slot(0 + p - 1) = p - 1 /\ p - 1 \in 0..(C - 1) /\ p - 1 # t.next
      BY <3>1, <3>2 DEF Slot
    <3>6. Shown(t)[p] = t.events[Slot(0 + p - 1)]
      BY <1>6, <2>2, <3>2
    <3>7. p + ((t.size + 1) - after.size) = p BY <3>1
    <3> QED BY <1>7, <3>4, <3>5, <3>6, <3>7
  <2> QED BY <2>1, <2>2
<1> QED BY <1>1, <1>3, <1>8, <1>9 DEF stamped, after

\* An event as it is kept.
TraceEvents ==
  [code : Known(Calls!Codes), outcome : Known(Calls!Outcomes), frame : Nat, source : Nat,
   sequence : Nat]

\* The newest event, and whether it began a rollback.
Latest(t) == Shown(t)[t.size]

StartedLast(t) == t.size # 0 /\ Latest(t).code = "RollbackStarted"

\* The events of a buffer follow one another, and a rollback that was started
\* is completed next.
TracesSound(t) ==
  /\ RingSound(t)
  /\ \A p \in 1..t.size : /\ Shown(t)[p] \in TraceEvents
                          /\ Shown(t)[p].sequence = (t.sequence - t.size) + p - 1
  /\ \A p \in 1..(t.size - 1) :
       Shown(t)[p].code = "RollbackStarted" =>
         /\ Shown(t)[p + 1].code = "RollbackCompleted"
         /\ Shown(t)[p + 1].source = Shown(t)[p].source

\* A buffer without events is sound.
LEMMA EmptyIsSound ==
  ASSUME DefaultTraceCapacity \in Nat \ {0}
  PROVE  TracesSound(Calls!Buffer!EmptyTraces) /\ Calls!Buffer!EmptyTraces.size = 0
<1> DEFINE t == Calls!Buffer!EmptyTraces
<1>1. /\ t.size = 0 /\ t.next = 0 /\ t.sequence = 0
      /\ DOMAIN t.events = 0..(DefaultTraceCapacity - 1)
  BY DEF Calls!Buffer!EmptyTraces
<1> HIDE DEF t
<1>2. RingSound(t) BY <1>1 DEF RingSound
<1>3. TracesSound(t) BY <1>1, <1>2 DEF TracesSound
<1> QED BY <1>1, <1>3 DEF t

\* An event goes in, unless it comes between the start and the end of a rollback.
LEMMA RecordKeepsSound ==
  ASSUME DefaultTraceCapacity \in Nat \ {0}, NEW t, TracesSound(t),
         NEW code \in Known(Calls!Codes), NEW outcome \in Known(Calls!Outcomes),
         NEW frame \in Nat, NEW source \in Nat,
         StartedLast(t) => code = "RollbackCompleted" /\ source = Latest(t).source
  PROVE  LET after == Calls!Buffer!RecordEvent(t, Calls!Trace(code, outcome, frame, source))
         IN  /\ TracesSound(after) /\ after.size # 0
             /\ Latest(after).code = code /\ Latest(after).frame = frame
             /\ Latest(after).source = source
<1> DEFINE after == Calls!Buffer!RecordEvent(t, Calls!Trace(code, outcome, frame, source))
           lost == (t.size + 1) - after.size
<1>1. RingSound(t) BY DEF TracesSound
<1>2. /\ RingSound(after)
      /\ after.sequence = t.sequence + 1
      /\ after.size = IF t.size = DefaultTraceCapacity THEN t.size ELSE t.size + 1
      /\ \A p \in 1..(after.size - 1) : Shown(after)[p] = Shown(t)[p + lost]
      /\ Shown(after)[after.size]
           = Calls!Buffer!Numbered(Calls!Trace(code, outcome, frame, source), t.sequence)
  BY <1>1, OneMoreIsShown
<1>3. Shown(after)[after.size]
        = [code |-> code, outcome |-> outcome, frame |-> frame, source |-> source,
           sequence |-> t.sequence]
  BY <1>2, StampedIs
<1> HIDE DEF after, lost
<1>4. /\ t.size \in Nat /\ t.sequence \in Nat /\ after.size \in Nat \ {0}
      /\ lost \in {0, 1} /\ after.size + lost = t.size + 1
  BY <1>1, <1>2 DEF RingSound, lost
<1>5. ASSUME NEW p \in 1..after.size
      PROVE  /\ Shown(after)[p] \in TraceEvents
             /\ Shown(after)[p].sequence = (after.sequence - after.size) + p - 1
  <2>1. CASE p = after.size
    <3>1. Shown(after)[p] \in TraceEvents
      BY <1>3, <1>4, <2>1 DEF TraceEvents
    <3>2. Shown(after)[p].sequence = t.sequence BY <1>3, <2>1
    <3> QED BY <3>1, <3>2, <1>2, <1>4, <2>1
  <2>2. CASE p # after.size
    <3>1. p \in 1..(after.size - 1) /\ p + lost \in 1..t.size
      BY <2>2, <1>4
    <3>2. /\ Shown(t)[p + lost] \in TraceEvents
          /\ Shown(t)[p + lost].sequence = (t.sequence - t.size) + (p + lost) - 1
      BY <3>1 DEF TracesSound
    <3> QED BY <3>1, <3>2, <1>2, <1>4
  <2> QED BY <2>1, <2>2
<1>6. ASSUME NEW p \in 1..(after.size - 1), Shown(after)[p].code = "RollbackStarted"
      PROVE  /\ Shown(after)[p + 1].code = "RollbackCompleted"
             /\ Shown(after)[p + 1].source = Shown(after)[p].source
  <2>1. Shown(after)[p] = Shown(t)[p + lost] /\ p + lost \in 1..t.size
    BY <1>2, <1>4
  <2>2. CASE p = after.size - 1
    <3>1. p + lost = t.size /\ t.size # 0 /\ p + 1 = after.size BY <2>1, <2>2, <1>4
    <3>2. StartedLast(t) BY <1>6, <2>1, <3>1 DEF StartedLast, Latest
    <3> QED BY <3>1, <3>2, <2>1, <1>3 DEF Latest
  <2>3. CASE p # after.size - 1
    <3>1. p + 1 \in 1..(after.size - 1) /\ p + lost \in 1..(t.size - 1)
      BY <2>3, <1>4
    <3>2. Shown(after)[p + 1] = Shown(t)[(p + 1) + lost] BY <1>2, <3>1
    <3>3. (p + 1) + lost = (p + lost) + 1 BY <1>4
    <3> QED BY <3>1, <3>2, <3>3, <2>1, <1>6 DEF TracesSound
  <2> QED BY <2>2, <2>3
<1>7. TracesSound(after)
  BY <1>2, <1>5, <1>6 DEF TracesSound
<1> QED BY <1>3, <1>4, <1>7 DEF Latest, after

\* Two events, and three, go in one after the other.
LEMMA RecordTwo ==
  ASSUME NEW t, NEW a, NEW b
  PROVE  Calls!Buffer!RecordEvents(t, <<a, b>>)
           = Calls!Buffer!RecordEvent(Calls!Buffer!RecordEvent(t, a), b)
<1> DEFINE Events == <<a, b>>
           Rec(u, e) == Calls!Buffer!RecordEvent(u, e)
           Good(f) == f = [n \in 0..2 |-> IF n = 0 THEN t ELSE Rec(f[n - 1], Events[n])]
           g == [n \in 0..2 |-> IF n = 0 THEN t
                                ELSE IF n = 1 THEN Rec(t, a) ELSE Rec(Rec(t, a), b)]
           after == CHOOSE f : Good(f)
<1>1. Events[1] = a /\ Events[2] = b /\ Len(Events) = 2 OBVIOUS
<1>2. Calls!Buffer!RecordEvents(t, Events) = after[2]
  BY DEF Calls!Buffer!RecordEvents
<1> HIDE DEF Events, Rec
<1>3. Good(g) BY <1>1
<1> HIDE DEF g
<1>4. Good(after) BY <1>3
<1> HIDE DEF after
<1>5. after[0] = t /\ after[1] = Rec(after[0], Events[1]) /\ after[2] = Rec(after[1], Events[2])
  BY <1>4
<1> QED BY <1>1, <1>2, <1>5 DEF Rec, Events

LEMMA RecordThree ==
  ASSUME NEW t, NEW a, NEW b, NEW c
  PROVE  Calls!Buffer!RecordEvents(t, <<a, b, c>>)
           = Calls!Buffer!RecordEvent(
               Calls!Buffer!RecordEvent(Calls!Buffer!RecordEvent(t, a), b), c)
<1> DEFINE Events == <<a, b, c>>
           Rec(u, e) == Calls!Buffer!RecordEvent(u, e)
           Good(f) == f = [n \in 0..3 |-> IF n = 0 THEN t ELSE Rec(f[n - 1], Events[n])]
           g == [n \in 0..3 |-> IF n = 0 THEN t
                                ELSE IF n = 1 THEN Rec(t, a)
                                ELSE IF n = 2 THEN Rec(Rec(t, a), b)
                                ELSE Rec(Rec(Rec(t, a), b), c)]
           after == CHOOSE f : Good(f)
<1>1. Events[1] = a /\ Events[2] = b /\ Events[3] = c /\ Len(Events) = 3 OBVIOUS
<1>2. Calls!Buffer!RecordEvents(t, Events) = after[3]
  BY DEF Calls!Buffer!RecordEvents
<1> HIDE DEF Events, Rec
<1>3. Good(g) BY <1>1
<1> HIDE DEF g
<1>4. Good(after) BY <1>3
<1> HIDE DEF after
<1>5. /\ after[0] = t /\ after[1] = Rec(after[0], Events[1])
      /\ after[2] = Rec(after[1], Events[2]) /\ after[3] = Rec(after[2], Events[3])
  BY <1>4
<1> QED BY <1>1, <1>2, <1>5 DEF Rec, Events

-----------------------------------------------------------------------------
(* The traces and the engine *)

\* The newest trace is of the current frame; a rollback that was started last
\* is a correction that still runs.
TraceInv ==
  /\ TracesSound(traces)
  /\ traces.size # 0 => Latest(traces).frame = current.frame
  /\ StartedLast(traces) => pc = "resimulating"
  /\ pc = "resimulating" => traces.size # 0

\* A call that records one event.
LEMMA TracedKeepsInv ==
  ASSUME Calls!BoundaryAssumption, TraceInv, NEW code \in Known(Calls!Codes),
         NEW outcome \in Known(Calls!Outcomes), NEW frame \in Nat, NEW source \in Nat,
         Calls!Traced(Calls!Trace(code, outcome, frame, source)), frame = current'.frame,
         StartedLast(traces) => code = "RollbackCompleted" /\ source = Latest(traces).source,
         code = "RollbackStarted" => pc' = "resimulating"
  PROVE  TraceInv'
<1>1. traces' = Calls!Buffer!RecordEvent(traces, Calls!Trace(code, outcome, frame, source))
  BY DEF Calls!Traced
<1>2. DefaultTraceCapacity \in Nat \ {0} /\ TracesSound(traces)
  BY DEF Calls!BoundaryAssumption, TraceInv
<1>3. PICK after : after = traces' OBVIOUS
<1>4. /\ TracesSound(after) /\ after.size # 0
      /\ Latest(after).code = code /\ Latest(after).frame = frame
  BY <1>1, <1>2, <1>3, RecordKeepsSound
<1>5. /\ TracesSound(traces)' /\ traces'.size # 0
      /\ Latest(traces)'.code = code /\ Latest(traces)'.frame = frame
  BY <1>3, <1>4
<1> QED BY <1>5 DEF TraceInv, StartedLast

\* A rollback that is started and ends within the call, whether it is
\* recorded to have failed after that or not.
LEMMA RolledBackKeepsInv ==
  ASSUME Calls!BoundaryAssumption, TraceInv, pc = "idle", pc' = "idle",
         NEW frame \in Nat, NEW source \in Nat, NEW start \in Nat, frame = current'.frame,
         NEW outcome \in {"Recovered", "Failed"},
         LET begun == Calls!Trace("RollbackStarted", "Applied", start, source)
             ended == Calls!Trace("RollbackCompleted", outcome, frame, source)
             failed == Calls!Trace("RollbackCompleted", "Failed", frame, source)
         IN  \/ traces' = Calls!Buffer!RecordEvents(traces, <<begun, ended>>)
             \/ traces' = Calls!Buffer!RecordEvents(traces, <<begun, ended, failed>>)
  PROVE  TraceInv'
<1> DEFINE begun == Calls!Trace("RollbackStarted", "Applied", start, source)
           ended == Calls!Trace("RollbackCompleted", outcome, frame, source)
           failed == Calls!Trace("RollbackCompleted", "Failed", frame, source)
<1>0. /\ "RollbackStarted" \in Known(Calls!Codes)
      /\ "RollbackCompleted" \in Known(Calls!Codes)
      /\ "Applied" \in Known(Calls!Outcomes) /\ "Failed" \in Known(Calls!Outcomes)
      /\ outcome \in Known(Calls!Outcomes)
  BY CodesAreKnown, OutcomesAreKnown
<1>1. /\ DefaultTraceCapacity \in Nat \ {0} /\ TracesSound(traces)
      /\ ~StartedLast(traces)
  BY DEF Calls!BoundaryAssumption, TraceInv
<1>2. PICK one : one = Calls!Buffer!RecordEvent(traces, begun) OBVIOUS
<1>3. /\ TracesSound(one) /\ one.size # 0
      /\ Latest(one).code = "RollbackStarted" /\ Latest(one).frame = start
      /\ Latest(one).source = source
  BY ONLY <1>0, <1>1, <1>2, RecordKeepsSound, start \in Nat, source \in Nat
<1>4. PICK two : two = Calls!Buffer!RecordEvent(one, ended) OBVIOUS
<1>5. /\ TracesSound(two) /\ two.size # 0
      /\ Latest(two).code = "RollbackCompleted" /\ Latest(two).frame = frame
      /\ Latest(two).source = source
  BY ONLY <1>0, <1>1, <1>3, <1>4, RecordKeepsSound, frame \in Nat, source \in Nat
<1>6. PICK three : three = Calls!Buffer!RecordEvent(two, failed) OBVIOUS
<1>7. /\ TracesSound(three) /\ three.size # 0
      /\ Latest(three).code = "RollbackCompleted" /\ Latest(three).frame = frame
  BY ONLY <1>0, <1>1, <1>5, <1>6, RecordKeepsSound, frame \in Nat, source \in Nat
<1>8. traces' = two \/ traces' = three
  BY <1>2, <1>4, <1>6, RecordTwo, RecordThree
<1>9. /\ TracesSound(traces)' /\ traces'.size # 0
      /\ Latest(traces)'.code = "RollbackCompleted" /\ Latest(traces)'.frame = frame
  BY <1>5, <1>7, <1>8
<1> QED BY <1>9 DEF TraceInv, StartedLast

\* A rollback that was started before this call ends, and may be recorded to
\* have failed after that.
LEMMA CompletedKeepsInv ==
  ASSUME Calls!BoundaryAssumption, TraceInv, pc' = "idle",
         NEW frame \in Nat, NEW source \in Nat, frame = current'.frame,
         StartedLast(traces) => source = Latest(traces).source,
         LET ended == Calls!Trace("RollbackCompleted", "Recovered", frame, source)
             failed == Calls!Trace("RollbackCompleted", "Failed", frame, source)
         IN  traces' = Calls!Buffer!RecordEvents(traces, <<ended, failed>>)
  PROVE  TraceInv'
<1> DEFINE ended == Calls!Trace("RollbackCompleted", "Recovered", frame, source)
           failed == Calls!Trace("RollbackCompleted", "Failed", frame, source)
<1>0. /\ "RollbackCompleted" \in Known(Calls!Codes)
      /\ {"Recovered", "Failed"} \subseteq Known(Calls!Outcomes)
  BY CodesAreKnown, OutcomesAreKnown
<1>1. /\ DefaultTraceCapacity \in Nat \ {0} /\ TracesSound(traces)
  BY DEF Calls!BoundaryAssumption, TraceInv
<1>4. PICK two : two = Calls!Buffer!RecordEvent(traces, ended) OBVIOUS
<1>5. /\ TracesSound(two) /\ two.size # 0
      /\ Latest(two).code = "RollbackCompleted" /\ Latest(two).frame = frame
      /\ Latest(two).source = source
  BY <1>0, <1>1, <1>4, RecordKeepsSound
<1>6. PICK three : three = Calls!Buffer!RecordEvent(two, failed) OBVIOUS
<1>7. /\ TracesSound(three) /\ three.size # 0
      /\ Latest(three).code = "RollbackCompleted" /\ Latest(three).frame = frame
  BY <1>0, <1>1, <1>5, <1>6, RecordKeepsSound
<1>8. traces' = three
  BY <1>4, <1>6, RecordTwo
<1>9. /\ TracesSound(traces)' /\ traces'.size # 0
      /\ Latest(traces)'.code = "RollbackCompleted" /\ Latest(traces)'.frame = frame
  BY <1>7, <1>8
<1> QED BY <1>9 DEF TraceInv, StartedLast

\* The frame a correction ends for is the one of the newest event.
LEMMA SourceIsLatest ==
  ASSUME Calls!BoundaryAssumption, TraceInv, traces.size # 0
  PROVE  Calls!Source = Latest(traces).source /\ Calls!Source \in Nat
<1>1. traces.size \in Nat \ {0} /\ Shown(traces)[traces.size] \in TraceEvents
  BY DEF TraceInv, TracesSound, RingSound, Calls!BoundaryAssumption
<1>2. Len(Shown(traces)) = traces.size
  BY <1>1 DEF Shown, Calls!Buffer!Snapshot
<1>3. Calls!Source = Shown(traces)[traces.size].source
  BY <1>2 DEF Calls!Source, Calls!Last, Shown
<1> QED BY <1>1, <1>3 DEF Latest, TraceEvents

\* What the calls of the handle do to the frame and to the loop.
LEMMA HandleFrames ==
  ASSUME EngineFrames
  PROVE  /\ \A input : Advance(input) => pc = "idle" /\ pc' = "idle"
         /\ \A input : AdvanceFails(input) => current' = current /\ pc' = pc /\ pc = "idle"
         /\ Refuse => current' = current /\ pc' = pc
         /\ \A frame, input : Correct(frame, input) =>
              pc = "idle" /\ current' = current /\ pc' = "resimulating"
         /\ Resimulate => current' = current /\ pc' = pc
         /\ CorrectFails \/ CorrectReturns =>
              /\ pc = "resimulating" /\ pc' = "idle"
              /\ current'.frame = current.frame
         /\ \A frame : RestoreCheckpoint(frame) =>
              pc = "idle" /\ pc' = "idle" /\ current'.frame = frame
         /\ \A fault : ReportFault(fault) => current' = current /\ pc' = pc /\ pc = "idle"
         /\ \A g, ack, frame : AcknowledgeCannotRestore(g, ack, frame) =>
              current' = current /\ pc' = pc /\ pc = "idle"
         /\ \A g, ack, frame : Acknowledge(g, ack, frame) => pc = "idle" /\ pc' = "idle"
<1>1. \A input : Advance(input) => pc = "idle" /\ pc' = "idle"
  BY DEF Advance, Engine!Advance
<1>2. \A input : AdvanceFails(input) => current' = current /\ pc' = pc /\ pc = "idle"
  BY DEF AdvanceFails, Engine!AdvanceThrows
<1>3. Refuse => current' = current /\ pc' = pc
  BY DEF Refuse, engineVars
<1>4. \A frame, input : Correct(frame, input) =>
              pc = "idle" /\ current' = current /\ pc' = "resimulating"
  BY DEF Correct, Engine!BeginCorrection
<1>5. Resimulate => current' = current /\ pc' = pc
  BY DEF Resimulate, Engine!ResimulateFrame
<1>6. CorrectFails \/ CorrectReturns =>
              /\ pc = "resimulating" /\ pc' = "idle"
              /\ current'.frame = current.frame
  BY DEF CorrectFails, CorrectReturns, Engine!ResimulationThrows, Engine!EndCorrection,
     EngineFrames
<1>7. \A frame : RestoreCheckpoint(frame) =>
              pc = "idle" /\ pc' = "idle" /\ current'.frame = frame
  BY DEF RestoreCheckpoint, Engine!RestoreCheckpoint
<1>8. \A fault : ReportFault(fault) => current' = current /\ pc' = pc /\ pc = "idle"
  BY DEF ReportFault, engineVars, AtRest
<1>9. \A g, ack, frame : AcknowledgeCannotRestore(g, ack, frame) =>
              current' = current /\ pc' = pc /\ pc = "idle"
  BY DEF AcknowledgeCannotRestore, engineVars, AtRest
<1>10. \A g, ack, frame : Acknowledge(g, ack, frame) => pc = "idle" /\ pc' = "idle"
  BY DEF Acknowledge, Engine!RestoreCheckpoint, engineVars, AtRest
<1> QED BY <1>1, <1>2, <1>3, <1>4, <1>5, <1>6, <1>7, <1>8, <1>9, <1>10

\* The code and the outcome of the trace of a fault.
LEMMA FaultTraceIsKnown ==
  ASSUME NEW signal, signal.fault \in FaultKind
  PROVE  /\ Calls!RecoveryTraceCode(signal) \in Known(Calls!Codes)
         /\ Calls!RecoveryTraceCode(signal) \notin {"RollbackStarted", "RollbackCompleted"}
         /\ \E outcome \in Known(Calls!Outcomes) :
              Calls!RecoveryTraceEvent(signal)
                = Calls!Trace(Calls!RecoveryTraceCode(signal), outcome, current.frame,
                              signal.checkpoint)
<1>1. Calls!RecoveryTraceCode(signal)
        \in {"SafeWaitEntered", "SafeRollbackEntered", "HeadlessModeEntered", "IoStall",
             "InputMalformed", "None", "DeviceLost", "OutOfMemory"}
  BY DEF Calls!RecoveryTraceCode, FaultKind
<1>2. \E outcome \in {"Recovered", "Failed", "Degraded"} :
        Calls!RecoveryTraceEvent(signal)
          = Calls!Trace(Calls!RecoveryTraceCode(signal), outcome, current.frame,
                        signal.checkpoint)
  <2>1. CASE signal.mode = "Normal"
    BY <2>1 DEF Calls!RecoveryTraceEvent
  <2>2. CASE signal.mode = "Halted"
    BY <2>2 DEF Calls!RecoveryTraceEvent
  <2>3. CASE signal.mode \notin {"Normal", "Halted"}
    BY <2>3 DEF Calls!RecoveryTraceEvent
  <2> QED BY <2>1, <2>2, <2>3
<1>3. {"Recovered", "Failed", "Degraded"} \subseteq Known(Calls!Outcomes)
  BY OutcomesAreKnown
<1> QED BY <1>1, <1>2, <1>3, CodesAreKnown

\* The code and the outcome of the trace of an acknowledgement.
LEMMA AckTraceIsKnown ==
  ASSUME NEW result
  PROVE  \E code \in {"RecoveryAcknowledged", "RecoveryAcknowledgementRejected"},
            outcome \in Known(Calls!Outcomes) :
           Calls!AcknowledgementTrace(result) = Calls!Trace(code, outcome, current'.frame, 0)
<1>1. {"Rejected", "Recovered", "Applied"} \subseteq Known(Calls!Outcomes)
  BY OutcomesAreKnown
<1>2. PICK code : code = IF result.accepted THEN "RecoveryAcknowledged"
                                       ELSE "RecoveryAcknowledgementRejected"
  OBVIOUS
<1>3. code \in {"RecoveryAcknowledged", "RecoveryAcknowledgementRejected"}
  BY <1>2
<1>4. PICK outcome : outcome = CASE ~result.accepted -> "Rejected"
                                 [] result.accepted /\ result.mode = "Normal" -> "Recovered"
                                 [] OTHER -> "Applied"
  OBVIOUS
<1>5. outcome \in {"Rejected", "Recovered", "Applied"}
  BY <1>4
<1>6. Calls!AcknowledgementTrace(result) = Calls!Trace(code, outcome, current'.frame, 0)
  BY <1>2, <1>4, Zenon DEF Calls!AcknowledgementTrace
<1> QED BY <1>1, <1>3, <1>5, <1>6

\* A call that records none and leaves the frame.
LEMMA TraceKept ==
  ASSUME TraceInv, traces' = traces, current'.frame = current.frame, pc' = pc
  PROVE  TraceInv'
BY DEF TraceInv, Latest, StartedLast

\* Two events and none or one more.
LEMMA JoinedTuples ==
  ASSUME NEW a, NEW b, NEW c
  PROVE  <<a, b>> \o <<>> = <<a, b>> /\ <<a, b>> \o <<c>> = <<a, b, c>>
<1>1. PICK S : S = {a, b, c} OBVIOUS
<1>2. /\ <<a, b>> \in Seq(S) /\ <<c>> \in Seq(S) /\ <<a, b, c>> \in Seq(S)
  BY <1>1
<1>3. PICK s, t, u : s = <<a, b>> /\ t = <<c>> /\ u = <<a, b, c>>
  OBVIOUS
<1>4. s \in Seq(S) /\ t \in Seq(S) /\ u \in Seq(S)
  BY <1>2, <1>3
<1>5. /\ Len(s) = 2 /\ s[1] = a /\ s[2] = b /\ Len(t) = 1 /\ t[1] = c
      /\ Len(u) = 3 /\ u[1] = a /\ u[2] = b /\ u[3] = c
  BY <1>3
<1>6. s \o <<>> = s
  BY <1>4, ConcatEmptySeq
<1>7. s \o t = u
  <2>1. /\ s \o t \in Seq(S) /\ Len(s \o t) = Len(s) + Len(t)
        /\ \A i \in 1..(Len(s) + Len(t)) :
             (s \o t)[i] = IF i <= Len(s) THEN s[i] ELSE t[i - Len(s)]
    BY <1>4, ConcatProperties
  <2>2. PICK v : v = s \o t OBVIOUS
  <2>3. /\ v \in Seq(S) /\ Len(v) = 3 /\ v[1] = a /\ v[2] = b /\ v[3] = c
    BY <2>1, <2>2, <1>5
  <2>4. \A i \in 1..Len(v) : v[i] = u[i]
    BY <2>3, <1>5
  <2>5. v = u
    BY <2>3, <2>4, <1>4, <1>5, SeqEqual
  <2> QED BY <2>2, <2>5
<1> QED BY <1>3, <1>6, <1>7, Zenon

\* Every call keeps the traces in step with the engine.
LEMMA TraceStep ==
  ASSUME ~FollowsDirectives, Calls!BoundaryAssumption, HostInv, HostInv', TraceInv, Calls!Next
  PROVE  TraceInv'
<1>0. /\ EngineFrames /\ EngineFrames'
      /\ current.frame \in Nat /\ current'.frame \in Nat
      /\ RecoverySound(controller, bridge) /\ controller \in RecoveryController
  <2>1. EngineFrames /\ EngineFrames'
    <3>1. EngineProofs!EngineInv' => EngineFrames'
      BY EngineInvFrames, PTL
    <3> QED BY <3>1, EngineInvFrames DEF HostInv
  <2> QED BY <2>1 DEF HostInv, RecoveryPart, RecoverySound, EngineFrames
<1>k. /\ "StateAdvanced" \in Known(Calls!Codes)
      /\ "RollbackStarted" \in Known(Calls!Codes)
      /\ "RollbackCompleted" \in Known(Calls!Codes)
      /\ "RecoveryAcknowledged" \in Known(Calls!Codes)
      /\ "RecoveryAcknowledgementRejected" \in Known(Calls!Codes)
      /\ "Applied" \in Known(Calls!Outcomes) /\ "Failed" \in Known(Calls!Outcomes)
      /\ "Recovered" \in Known(Calls!Outcomes)
  BY CodesAreKnown, OutcomesAreKnown
<1>f. 0..MaxFrame \subseteq Nat /\ 0 \in Nat BY DEF HostAssumption
<1>i. pc = "idle" => ~StartedLast(traces)
  BY DEF TraceInv
<1>1. ASSUME NEW inputs \in CInputs, Calls!Advance(inputs) PROVE TraceInv'
  <2>1. Advance(Calls!Imported(inputs)) BY <1>1, SameCalls, Zenon DEF Calls!Advance
  <2>2. pc = "idle" BY <2>1, <1>0, HandleFrames
  <2>3. Calls!Traced(Calls!Trace("StateAdvanced", "Applied", current'.frame, 0))
    BY <1>1, Zenon DEF Calls!Advance, Calls!RecordStateAdvanced
  <2> QED BY <2>2, <2>3, <1>0, <1>k, <1>f, <1>i, TracedKeepsInv
<1>2. ASSUME NEW inputs \in CInputs, Calls!AdvanceFails(inputs) PROVE TraceInv'
  <2>1. AdvanceFails(Calls!Imported(inputs)) /\ traces' = traces
    BY <1>2, SameCalls, Zenon DEF Calls!AdvanceFails
  <2> QED BY <2>1, <1>0, HandleFrames, TraceKept
<1>3. ASSUME NEW inputs \in CInputs, Calls!ImportFails(inputs) PROVE TraceInv'
  <2>1. current' = current /\ pc' = pc /\ pc = "idle"
    BY <1>3 DEF Calls!ImportFails, Calls!hostVars
  <2>2. CASE traces' = traces
    BY <2>1, <2>2, TraceKept
  <2>3. CASE traces' # traces
    <3>1. PICK frame \in 0..MaxFrame :
            Calls!Traced(Calls!Trace("RollbackCompleted", "Failed", current.frame, frame))
      BY <1>3, <2>3, Zenon DEF Calls!ImportFails
    <3>2. frame \in Nat BY <1>f
    <3> QED BY <3>1, <3>2, <2>1, <1>0, <1>k, <1>i, TracedKeepsInv
  <2> QED BY <2>2, <2>3
<1>4. ASSUME NEW frame \in 0..MaxFrame, NEW inputs \in CInputs, Calls!Correct(frame, inputs)
      PROVE  TraceInv'
  <2>1. Correct(frame, Calls!Imported(inputs)) BY <1>4, SameCalls, Zenon DEF Calls!Correct
  <2>2. pc = "idle" /\ current' = current /\ pc' = "resimulating"
    BY <2>1, <1>0, HandleFrames
  <2>3. Calls!Traced(Calls!Trace("RollbackStarted", "Applied", current.frame, frame))
    BY <1>4, Zenon DEF Calls!Correct, Calls!Started
  <2>4. frame \in Nat BY <1>f
  <2> QED BY <2>2, <2>3, <2>4, <1>0, <1>k, <1>i, TracedKeepsInv
<1>5. ASSUME Calls!Resimulate PROVE TraceInv'
  <2>1. Resimulate /\ traces' = traces BY <1>5, SameCalls, Zenon DEF Calls!Resimulate
  <2> QED BY <2>1, <1>0, HandleFrames, TraceKept
<1>6. ASSUME Calls!CorrectFails \/ Calls!CorrectReturns PROVE TraceInv'
  <2>1. CorrectFails \/ CorrectReturns
    BY <1>6, SameCalls, Zenon DEF Calls!CorrectFails, Calls!CorrectReturns
  <2>2. pc = "resimulating" /\ pc' = "idle" BY <2>1, <1>0, HandleFrames
  <2>3. Calls!Source = Latest(traces).source /\ Calls!Source \in Nat
    BY <2>2, SourceIsLatest DEF TraceInv
  <2>4. \/ \E outcome \in {"Failed", "Recovered"} :
             Calls!Traced(Calls!Trace("RollbackCompleted", outcome, current'.frame, Calls!Source))
        \/ traces' = Calls!Buffer!RecordEvents(traces,
             <<Calls!Trace("RollbackCompleted", "Recovered", current'.frame, Calls!Source),
               Calls!Trace("RollbackCompleted", "Failed", current'.frame, Calls!Source)>>)
    BY <1>6, Zenon DEF Calls!CorrectFails, Calls!CorrectReturns, Calls!CompletedTwice,
       Calls!Completed
  <2>5. CASE \E outcome \in {"Failed", "Recovered"} :
               Calls!Traced(Calls!Trace("RollbackCompleted", outcome, current'.frame,
                                        Calls!Source))
    <3>1. PICK outcome \in {"Failed", "Recovered"} :
               Calls!Traced(Calls!Trace("RollbackCompleted", outcome, current'.frame,
                                        Calls!Source))
      BY <2>5
    <3>2. outcome \in Known(Calls!Outcomes) BY <1>k
    <3> QED BY <3>1, <3>2, <2>2, <2>3, <1>0, <1>k, TracedKeepsInv
  <2>6. CASE traces' = Calls!Buffer!RecordEvents(traces,
             <<Calls!Trace("RollbackCompleted", "Recovered", current'.frame, Calls!Source),
               Calls!Trace("RollbackCompleted", "Failed", current'.frame, Calls!Source)>>)
    BY <2>2, <2>3, <2>6, <1>0, CompletedKeepsInv
  <2> QED BY <2>4, <2>5, <2>6
<1>7. ASSUME NEW call, NEW frame \in 0..MaxFrame, Calls!RollbackRefused(call, frame)
      PROVE  TraceInv'
  <2>1. current' = current /\ pc' = pc /\ pc = "idle"
    BY <1>7 DEF Calls!RollbackRefused, Calls!hostVars
  <2>2. traces' = Calls!Buffer!RecordEvents(traces,
             <<Calls!Trace("RollbackStarted", "Applied", current.frame, frame),
               Calls!Trace("RollbackCompleted", "Failed", current.frame, frame)>>)
    BY <1>7, Zenon DEF Calls!RollbackRefused, Calls!Started
  <2>3. frame \in Nat BY <1>f
  <2> QED BY <2>1, <2>2, <2>3, <1>0, RolledBackKeepsInv
<1>8. ASSUME NEW frame \in 0..MaxFrame, Calls!RestoreCheckpoint(frame) PROVE TraceInv'
  <2>1. RestoreCheckpoint(frame) BY <1>8, SameCalls, Zenon DEF Calls!RestoreCheckpoint
  <2>2. pc = "idle" /\ pc' = "idle" BY <2>1, <1>0, HandleFrames
  <2> DEFINE begun == Calls!Trace("RollbackStarted", "Applied", current.frame, frame)
             ended == Calls!Trace("RollbackCompleted", "Recovered", current'.frame, frame)
             failed == Calls!Trace("RollbackCompleted", "Failed", current'.frame, frame)
  <2>3. traces' = Calls!Buffer!RecordEvents(traces,
                    <<begun, ended>> \o IF reply'.status = "OK" THEN <<>> ELSE <<failed>>)
    BY <1>8, Zenon DEF Calls!RestoreCheckpoint, Calls!Started, Calls!Completed
  <2> HIDE DEF begun, ended, failed
  <2>5. \/ traces' = Calls!Buffer!RecordEvents(traces, <<begun, ended>>)
        \/ traces' = Calls!Buffer!RecordEvents(traces, <<begun, ended, failed>>)
    BY <2>3, JoinedTuples, Zenon
  <2>6. frame \in Nat BY <1>f
  <2> QED BY <2>2, <2>5, <2>6, <1>0, RolledBackKeepsInv DEF begun, ended, failed
<1>9. ASSUME NEW number \in FaultNumbers, Calls!ReportFault(number) PROVE TraceInv'
  <2> DEFINE fault == Calls!MapFault(number)
             signal == SignalOfFault(controller, fault)
  <2>1. fault \in FaultKind /\ ReportFault(fault)
    BY <1>9, FaultIsKnown, SameCalls, Zenon DEF Calls!ReportFault
  <2>2. pc = "idle" /\ pc' = pc /\ current' = current BY <2>1, <1>0, HandleFrames
  <2>3. Calls!Traced(Calls!RecoveryTraceEvent(signal))
    BY <1>9, SameReport, Zenon DEF Calls!ReportFault
  <2>4. signal.fault \in FaultKind /\ signal.checkpoint \in Nat
    BY <2>1, <1>0, FaultType DEF RecoverySignal
  <2> HIDE DEF signal, fault
  <2>5. /\ Calls!RecoveryTraceCode(signal) \in Known(Calls!Codes)
        /\ Calls!RecoveryTraceCode(signal) # "RollbackStarted"
    BY <2>4, FaultTraceIsKnown
  <2>6. PICK outcome \in Known(Calls!Outcomes) :
              Calls!RecoveryTraceEvent(signal)
                = Calls!Trace(Calls!RecoveryTraceCode(signal), outcome, current.frame,
                              signal.checkpoint)
    BY <2>4, FaultTraceIsKnown
  <2> QED BY <2>2, <2>3, <2>4, <2>5, <2>6, <1>0, <1>i, TracedKeepsInv
<1>10. ASSUME NEW g \in 0..bridge.generation, NEW number \in AckNumbers,
              NEW frame \in 0..MaxFrame, Calls!Acknowledge(g, number, frame)
       PROVE  TraceInv'
  <2> DEFINE ack == Calls!MapAcknowledgement(number)
  <2>1. \/ AcknowledgeCannotRestore(g, ack, frame) /\ traces' = traces
        \/ /\ Acknowledge(g, ack, frame)
           /\ \E result : Calls!Traced(Calls!AcknowledgementTrace(result))
    BY <1>10, SameCalls, Zenon DEF Calls!Acknowledge
  <2>2. CASE AcknowledgeCannotRestore(g, ack, frame) /\ traces' = traces
    BY <2>2, <1>0, HandleFrames, TraceKept
  <2>3. CASE /\ Acknowledge(g, ack, frame)
             /\ \E result : Calls!Traced(Calls!AcknowledgementTrace(result))
    <3>1. pc = "idle" /\ pc' = "idle" BY <2>3, <1>0, HandleFrames
    <3>2. PICK result : Calls!Traced(Calls!AcknowledgementTrace(result)) BY <2>3
    <3>3. PICK code \in {"RecoveryAcknowledged", "RecoveryAcknowledgementRejected"},
               outcome \in Known(Calls!Outcomes) :
           Calls!AcknowledgementTrace(result) = Calls!Trace(code, outcome, current'.frame, 0)
      BY AckTraceIsKnown
    <3>4. code \in Known(Calls!Codes) /\ code # "RollbackStarted" BY <1>k
    <3> QED BY <3>1, <3>2, <3>3, <3>4, <1>0, <1>f, <1>i, TracedKeepsInv
  <2> QED BY <2>1, <2>2, <2>3
<1>11. ASSUME Calls!RefuseMode PROVE TraceInv'
  <2>1. Refuse /\ traces' = traces BY <1>11, SameCalls, Zenon DEF Calls!RefuseMode
  <2> QED BY <2>1, <1>0, HandleFrames, TraceKept
<1>12. ASSUME UNCHANGED hostVars, traces' = traces PROVE TraceInv'
  BY <1>12, TraceKept DEF hostVars, engineVars
<1>13. ASSUME \/ \E thread, outHost, bodies, config :
                   Calls!Create(thread, outHost, bodies, config)
              \/ \E result : Calls!Describe(result)
              \/ \E thread : Calls!Destroy(thread)
              \/ \E given, thread, result : Calls!RefuseCall(given, thread, result)
              \/ \E inputs : Calls!RefuseInputs(inputs)
              \/ Calls!RefuseNumber
              \/ Calls!GetStateSummary \/ Calls!GetPendingRecovery
              \/ \E capacity, buffer : Calls!CopyBodies(capacity, buffer)
                                         \/ Calls!CopyTraces(capacity, buffer)
      PROVE  UNCHANGED hostVars /\ traces' = traces
  BY <1>13, Zenon DEF Calls!hostVars, hostVars, engineVars, recoveryVars, Calls!Create,
     Calls!Describe, Calls!Destroy, Calls!RefuseCall,
     Calls!RefuseInputs, Calls!RefuseNumber,
     Calls!GetStateSummary, Calls!GetPendingRecovery, Calls!CopyBodies, Calls!CopyTraces,
     Calls!Reads
<1> QED BY <1>1, <1>2, <1>3, <1>4, <1>5, <1>6, <1>7, <1>8, <1>9, <1>10, <1>11, <1>12, <1>13,
           Zenon DEF Calls!Next

-----------------------------------------------------------------------------
(* What a call returns *)

\* What the invariant says of the buffer a host sees in the copy.
LEMMA TracesFollow ==
  ASSUME Calls!BoundaryAssumption, TraceInv
  PROVE  Calls!TracesFollowEngine
<1>1. /\ traces.size \in Nat /\ traces.sequence \in Nat
      /\ \A p \in 1..traces.size :
           Shown(traces)[p].sequence = (traces.sequence - traces.size) + p - 1
      /\ \A p \in 1..(traces.size - 1) :
           Shown(traces)[p].code = "RollbackStarted" =>
             /\ Shown(traces)[p + 1].code = "RollbackCompleted"
             /\ Shown(traces)[p + 1].source = Shown(traces)[p].source
      /\ traces.size # 0 => Shown(traces)[traces.size].frame = current.frame
  BY DEF TraceInv, TracesSound, RingSound, Latest, Calls!BoundaryAssumption
<1>2. Len(Shown(traces)) = traces.size
  BY <1>1 DEF Shown, Calls!Buffer!Snapshot
<1>3. PICK events : events = Shown(traces) OBVIOUS
<1>4. events # <<>> => traces.size # 0
  BY <1>1, <1>3 DEF Shown, Calls!Buffer!Snapshot
<1>5. Calls!Last(events) = events[traces.size]
  BY <1>2, <1>3 DEF Calls!Last
<1>6. \A i \in 1..(Len(events) - 1) : events[i + 1].sequence = events[i].sequence + 1
  <2> TAKE i \in 1..(Len(events) - 1)
  <2>1. i \in 1..traces.size /\ i + 1 \in 1..traces.size
    BY <1>1, <1>2, <1>3
  <2>2. Shown(traces)[i].sequence = (traces.sequence - traces.size) + i - 1
    BY <2>1, <1>1
  <2>3. \A p \in 1..traces.size :
          p = i + 1 => Shown(traces)[p].sequence = (traces.sequence - traces.size) + p - 1
    BY <1>1
  <2>4. Shown(traces)[i + 1].sequence = (traces.sequence - traces.size) + (i + 1) - 1
    BY <2>1, <2>3
  <2> QED BY <2>1, <2>2, <2>4, <1>1, <1>3
<1> QED BY <1>1, <1>2, <1>3, <1>4, <1>5, <1>6 DEF Calls!TracesFollowEngine, Shown

\* What a call returns that says nothing of the runtime.
LEMMA ReadsNothing ==
  ASSUME out'.value.kind \notin {"ack", "summary", "bodies", "traces"},
         ~(out'.call \in {"pending", "report"} /\ out'.status = "OK")
  PROVE  Calls!HostReadsRuntime'
BY DEF Calls!HostReadsRuntime

\* A call that returns one thing, and that it is the runtime's.
LEMMA ReadsSummary ==
  ASSUME out'.value.kind = "summary", out'.value.value = current'.frame,
         out'.call \notin {"pending", "report", "ack"}
  PROVE  Calls!HostReadsRuntime'
BY DEF Calls!HostReadsRuntime

LEMMA ReadsBodies ==
  ASSUME out'.value.kind = "bodies", out'.call = "bodies",
         [i \in DOMAIN out'.value.value |-> Calls!ImportBody(out'.value.value[i])]
           = current'.world
  PROVE  Calls!HostReadsRuntime'
BY DEF Calls!HostReadsRuntime

LEMMA ReadsTraces ==
  ASSUME out'.value.kind = "traces", out'.call = "traces",
         [i \in DOMAIN out'.value.value |-> Calls!ReadTraceEvent(out'.value.value[i])]
           = Calls!Buffer!Snapshot(traces')
  PROVE  Calls!HostReadsRuntime'
BY DEF Calls!HostReadsRuntime

\* The event comes back from the numbers of the header.
LEMMA EventComesBack ==
  ASSUME NEW event \in RecoveryContractEvent
  PROVE  /\ Calls!ReadRecoveryEvent(Calls!FillRecoveryEvent(event)) = event
         /\ Calls!Named(Calls!Modes, Calls!FillRecoveryEvent(event).mode) = event.signal.mode
         /\ Calls!Named(Calls!Actions, Calls!FillRecoveryEvent(event).action)
              = event.signal.action
         /\ Calls!FillRecoveryEvent(event).generation = event.generation
         /\ Calls!FillRecoveryEvent(event).acknowledgementRequired = 1
              <=> RecoveryRequiresAcknowledgement(event.signal.action)
<1> DEFINE written == Calls!FillRecoveryEvent(event)
<1>1. /\ event = [generation |-> event.generation, signal |-> event.signal]
      /\ event.signal = [fault |-> event.signal.fault, action |-> event.signal.action,
                         mode |-> event.signal.mode, checkpoint |-> event.signal.checkpoint]
      /\ event.signal.fault \in FaultKind /\ event.signal.action \in RecoveryAction
      /\ event.signal.mode \in RecoveryMode
  BY DEF RecoveryContractEvent, RecoverySignal
<1>2. /\ event.signal.fault \in Known(Calls!Faults)
      /\ event.signal.action \in Known(Calls!Actions)
      /\ event.signal.mode \in Known(Calls!Modes)
      /\ Len(Calls!Faults) \in Nat /\ Len(Calls!Actions) \in Nat /\ Len(Calls!Modes) \in Nat
  BY <1>1, FaultsAreKnown, ActionsAreKnown, ModesAreKnown
<1>3. /\ Calls!Named(Calls!Faults, Calls!CValue(Calls!Faults, event.signal.fault))
           = event.signal.fault
      /\ Calls!Named(Calls!Actions, Calls!CValue(Calls!Actions, event.signal.action))
           = event.signal.action
      /\ Calls!Named(Calls!Modes, Calls!CValue(Calls!Modes, event.signal.mode))
           = event.signal.mode
  BY <1>2, NameComesBack
<1>4. /\ written.generation = event.generation
      /\ written.fault = Calls!CValue(Calls!Faults, event.signal.fault)
      /\ written.action = Calls!CValue(Calls!Actions, event.signal.action)
      /\ written.mode = Calls!CValue(Calls!Modes, event.signal.mode)
      /\ written.checkpoint = event.signal.checkpoint
      /\ written.acknowledgementRequired
           = IF RecoveryRequiresAcknowledgement(event.signal.action) THEN 1 ELSE 0
  BY SameContract DEF Calls!FillRecoveryEvent, Calls!FaultValue, Calls!ActionValue,
     Calls!ModeValue
<1> HIDE DEF written
<1>5. Calls!ReadRecoveryEvent(written) = event
  BY <1>1, <1>3, <1>4 DEF Calls!ReadRecoveryEvent
<1> QED BY <1>3, <1>4, <1>5 DEF written

\* So does the directive.
LEMMA DirectiveComesBack ==
  ASSUME NEW event \in RecoveryContractEvent
  PROVE  Calls!Named(Calls!Directives, Calls!FillRecoveryEvent(event).directive)
           = Calls!HostDirective(event.signal)
<1>1. event.signal.action \in RecoveryAction
  BY DEF RecoveryContractEvent, RecoverySignal
<1>2. Calls!HostDirective(event.signal) \in Known(Calls!Directives)
  <2>1. Calls!HostDirective(event.signal) \in
     {"ContinueSimulation", "DropInput", "QuarantineOrigin",
    "ContinueHeadless", "ReuseLastConfirmedInput", "PauseSimulation",
    "RestoreCheckpoint", "DisableTelemetryAndPause", "HaltSimulation"}
    BY <1>1 DEF Calls!HostDirective, RecoveryAction
  <2> QED BY <2>1, DirectivesAreKnown
<1>3. Calls!FillRecoveryEvent(event).directive
        = Calls!CValue(Calls!Directives, Calls!HostDirective(event.signal))
  BY DEF Calls!FillRecoveryEvent
<1> QED BY <1>2, <1>3, NameComesBack, DirectivesAreKnown

\* And a trace event.
LEMMA TraceComesBack ==
  ASSUME NEW event \in TraceEvents
  PROVE  Calls!ReadTraceEvent(Calls!FillTraceEvent(event)) = event
<1> DEFINE code == Calls!CValue(Calls!Codes, event.code)
           outcome == Calls!CValue(Calls!Outcomes, event.outcome)
<1>1. /\ event = [code |-> event.code, outcome |-> event.outcome, frame |-> event.frame,
                  source |-> event.source, sequence |-> event.sequence]
      /\ event.code \in Known(Calls!Codes) /\ event.outcome \in Known(Calls!Outcomes)
  BY DEF TraceEvents
<1>2. /\ Calls!Named(Calls!Codes, code) = event.code
      /\ Calls!Named(Calls!Outcomes, outcome) = event.outcome
  BY <1>1, NameComesBack, CodesAreKnown, OutcomesAreKnown
<1> HIDE DEF code, outcome
<1>3. PICK written : written = [event EXCEPT !.code = code, !.outcome = outcome]
  OBVIOUS
<1>4. written = [code |-> code, outcome |-> outcome, frame |-> event.frame,
                 source |-> event.source, sequence |-> event.sequence]
  BY <1>1, <1>3
<1>5. Calls!FillTraceEvent(event) = written
  BY <1>3, Zenon DEF Calls!FillTraceEvent, code, outcome
<1>6. Calls!ReadTraceEvent(written)
        = [written EXCEPT !.code = event.code, !.outcome = event.outcome]
  BY <1>2, <1>4 DEF Calls!ReadTraceEvent
<1>7. [written EXCEPT !.code = event.code, !.outcome = event.outcome]
        = [code |-> event.code, outcome |-> event.outcome, frame |-> event.frame,
           source |-> event.source, sequence |-> event.sequence]
  <2>1. PICK x, y, back : /\ x = event.code /\ y = event.outcome
                          /\ back = [written EXCEPT !.code = x, !.outcome = y]
    OBVIOUS
  <2>2. back = [code |-> x, outcome |-> y, frame |-> event.frame,
                source |-> event.source, sequence |-> event.sequence]
    BY <1>4, <2>1
  <2> QED BY <2>1, <2>2, Zenon
<1> QED BY <1>1, <1>5, <1>6, <1>7

\* The actions that stop the simulation.
Stopping == {"EnterSafeWait", "RollbackToCheckpoint", "DisableNonessentialTelemetry",
             "HaltSafely"}

\* An action that stops the simulation goes with a mode that forbids it to
\* advance, any other action to take with one that allows it.
LEMMA ResponseStops ==
  ASSUME NEW c \in RecoveryController, NEW fault \in FaultKind
  PROVE  LET s == SignalOfFault(c, fault) IN
         /\ s.action \in Stopping => ~MayAdvance(s.mode)
         /\ s.action \notin Stopping \cup {"None", "DropInput"} => MayAdvance(s.mode)
<1>1. PICK d : d = CountFault(c, fault) OBVIOUS
<1>2. d \in RecoveryController
  BY <1>1, ResponseType
<1>3. /\ SignalOfFault(c, fault).action = Response(d, fault).action
      /\ SignalOfFault(c, fault).mode = Response(d, fault).mode
  BY <1>1 DEF SignalOfFault
<1>4. /\ Response(d, fault).action \in Stopping => ~MayAdvance(Response(d, fault).mode)
      /\ Response(d, fault).action \notin Stopping \cup {"None", "DropInput"}
           => MayAdvance(Response(d, fault).mode)
  BY <1>2 DEF Response, TolerantResponse, Stopping, MayAdvance, FaultKind, RecoveryController,
     RecoveryMode
<1> QED BY <1>3, <1>4

\* The directive asks to stop for those actions.
LEMMA DirectiveStops ==
  ASSUME NEW signal, signal.action \in RecoveryAction
  PROVE  Calls!AsksToStop(Calls!HostDirective(signal)) <=> signal.action \in Stopping
BY DEF Calls!AsksToStop, Calls!HostDirective, RecoveryAction, Stopping

\* What a report writes is what it made of the runtime.
LEMMA ReadsReport ==
  ASSUME RecoverySound(controller, bridge), NEW fault \in FaultKind, ReportFault(fault),
         out' = [call |-> "report", status |-> "OK",
                 value |-> Calls!Written("event", Calls!FillRecoveryEvent(
                   [generation |-> bridge'.generation,
                    signal |-> SignalOfFault(controller, fault)]))]
  PROVE  Calls!HostReadsRuntime'
<1>1. PICK s : s = SignalOfFault(controller, fault) OBVIOUS
<1>2. controller \in RecoveryController /\ bridge \in RecoveryHostBridge
  BY DEF RecoverySound
<1>3. /\ controller' = ControllerAfterFault(controller, fault)
      /\ bridge' = Publish(bridge, s)
  BY <1>1 DEF ReportFault
<1>4. /\ s \in RecoverySignal /\ s.mode = controller'.mode
  BY <1>1, <1>2, <1>3, FaultType
<1>5. bridge' \in RecoveryHostBridge
  BY <1>2, <1>3, <1>4, PublishType
<1>6. PICK event : event = [generation |-> bridge'.generation, signal |-> s] OBVIOUS
<1>7. event \in RecoveryContractEvent /\ event.signal = s /\ event.generation = bridge'.generation
  BY <1>4, <1>5, <1>6 DEF RecoveryContractEvent, RecoveryHostBridge
<1>8. PICK written : written = Calls!FillRecoveryEvent(event) OBVIOUS
<1>9. /\ out'.call = "report" /\ out'.status = "OK" /\ out'.value.kind = "event"
      /\ out'.value.value = written
  BY <1>1, <1>6, <1>8 DEF Calls!Written
<1>10. /\ Calls!ReadRecoveryEvent(written) = event
       /\ Calls!Named(Calls!Modes, written.mode) = s.mode
       /\ Calls!Named(Calls!Actions, written.action) = s.action
       /\ written.generation = bridge'.generation
       /\ written.acknowledgementRequired = 1 <=> RecoveryRequiresAcknowledgement(s.action)
       /\ Calls!Named(Calls!Directives, written.directive) = Calls!HostDirective(s)
  BY <1>7, <1>8, EventComesBack, DirectiveComesBack
<1>11. RecoveryRequiresAcknowledgement(s.action) => bridge'.pending = event
  <2>1. RecoveryRequiresAcknowledgement(s.action) <=>
           s.action \notin {"None", "DropInput", "HaltSafely"}
    BY <1>1, <1>2, ResponseCases
  <2>2. s.action \notin {"None", "DropInput"} =>
           bridge'.pending = [generation |-> bridge'.generation, signal |-> s]
    BY <1>1, <1>2, <1>3, PublishCases
  <2> QED BY <2>1, <2>2, <1>6
<1>12. s.action \in RecoveryAction BY <1>4 DEF RecoverySignal
<1>13. PICK mode : mode = controller'.mode OBVIOUS
<1>14. /\ Calls!AsksToStop(Calls!HostDirective(s)) => ~Calls!MayAdvance(mode)
       /\ ~Calls!MayAdvance(mode) =>
            Calls!AsksToStop(Calls!HostDirective(s)) \/ s.action \in {"None", "DropInput"}
  <2>1. /\ s.action \in Stopping => ~MayAdvance(s.mode)
        /\ s.action \notin Stopping \cup {"None", "DropInput"} => MayAdvance(s.mode)
    BY <1>1, <1>2, ResponseStops
  <2> QED BY <2>1, <1>4, <1>12, <1>13, DirectiveStops, SameContract
<1> HIDE DEF Calls!AsksToStop
<1>15. /\ Calls!Named(Calls!Modes, out'.value.value.mode) = controller'.mode
       /\ out'.value.value.generation = bridge'.generation
       /\ out'.value.value.acknowledgementRequired = 1 =>
            Calls!ReadRecoveryEvent(out'.value.value) = bridge'.pending
       /\ Calls!AsksToStop(Calls!Named(Calls!Directives, out'.value.value.directive))
            => ~Calls!MayAdvance(controller'.mode)
       /\ ~Calls!MayAdvance(controller'.mode) =>
            \/ Calls!AsksToStop(Calls!Named(Calls!Directives, out'.value.value.directive))
            \/ Calls!Named(Calls!Actions, out'.value.value.action) \in {"None", "DropInput"}
  BY <1>4, <1>9, <1>10, <1>11, <1>13, <1>14
<1> QED BY <1>9, <1>15 DEF Calls!HostReadsRuntime

\* A pending event comes back as it is.
LEMMA ReadsPending ==
  ASSUME RecoverySound(controller, bridge), bridge' = bridge,
         out' = [call |-> "pending", status |-> "OK",
                 value |-> Calls!Written("event", Calls!FillRecoveryEvent(bridge.pending))]
  PROVE  Calls!HostReadsRuntime'
<1>1. bridge.pending \in RecoveryContractEvent
  BY DEF RecoverySound, RecoveryHostBridge
<1>2. PICK written : written = Calls!FillRecoveryEvent(bridge.pending) OBVIOUS
<1>3. Calls!ReadRecoveryEvent(written) = bridge.pending
  BY <1>1, <1>2, EventComesBack
<1>4. /\ out'.call = "pending" /\ out'.status = "OK" /\ out'.value.kind = "event"
      /\ out'.value.value = written
  BY <1>2 DEF Calls!Written
<1>5. Calls!ReadRecoveryEvent(out'.value.value) = bridge'.pending
  BY <1>3, <1>4
<1> QED BY <1>4, <1>5 DEF Calls!HostReadsRuntime

\* Why an acknowledgement is refused.
Reasons ==
  {"None", "NoPendingRecovery", "StaleGeneration", "InvalidAcknowledgement",
   "CheckpointMismatch", "CheckpointUnavailable", "ResourceExhausted", "RuntimeHalted"}

\* The result of an acknowledgement comes back from the numbers of the header.
LEMMA AckResultComesBack ==
  ASSUME NEW accepted \in BOOLEAN, NEW reason \in Reasons, NEW mode \in RecoveryMode,
         NEW event \in RecoveryContractEvent, NEW result,
         result = [accepted |-> accepted, reason |-> reason, mode |-> mode, event |-> event]
  PROVE  /\ Calls!ReadAckResult(Calls!FillAckResult(result)) = result
         /\ Calls!FillAckResult(result).event = Calls!FillRecoveryEvent(event)
<1>1. PICK written : written = Calls!FillRecoveryEvent(event) OBVIOUS
<1>2. Calls!ReadRecoveryEvent(written) = event
  BY <1>1, EventComesBack
<1>3. PICK r, m : r = Calls!CValue(Calls!RejectReasons, reason)
                  /\ m = Calls!CValue(Calls!Modes, mode)
  OBVIOUS
<1>4. Calls!Named(Calls!RejectReasons, r) = reason /\ Calls!Named(Calls!Modes, m) = mode
  BY <1>3, NameComesBack, ReasonsAreKnown, ModesAreKnown DEF Reasons
<1>5. PICK a : a = IF accepted THEN 1 ELSE 0 OBVIOUS
<1>6. PICK w : w = Calls!FillAckResult(result) OBVIOUS
<1>7. w.accepted = a /\ w.reason = r /\ w.mode = m /\ w.event = written
  BY <1>1, <1>3, <1>5, <1>6 DEF Calls!FillAckResult, Calls!ModeValue
<1>8. (a = 1) = accepted BY <1>5
<1>9. Calls!ReadAckResult(w) = result
  BY <1>2, <1>4, <1>7, <1>8 DEF Calls!ReadAckResult
<1> QED BY <1>1, <1>6, <1>7, <1>9

\* What an acknowledgement writes, if it says of the runtime what it should.
LEMMA ReadsAck ==
  ASSUME NEW accepted \in BOOLEAN, NEW reason \in Reasons, NEW mode \in RecoveryMode,
         NEW event \in RecoveryContractEvent, NEW result,
         result = [accepted |-> accepted, reason |-> reason, mode |-> mode, event |-> event],
         accepted \/ reason \in {"CheckpointUnavailable", "ResourceExhausted"}
           => mode = controller'.mode,
         \/ event = bridge'.pending
         \/ accepted /\ ~HasPending(bridge') /\ event.signal.mode = controller'.mode,
         RecoveryRequiresAcknowledgement(event.signal.action) => HasPending(bridge'),
         out' = [call |-> "ack", status |-> "OK",
                 value |-> Calls!Written("ack", Calls!FillAckResult(result))]
  PROVE  Calls!HostReadsRuntime'
<1>1. PICK w : w = Calls!FillAckResult(result) OBVIOUS
<1>2. Calls!ReadAckResult(w) = result /\ w.event = Calls!FillRecoveryEvent(event)
  BY <1>1, AckResultComesBack
<1>3. w.event.acknowledgementRequired = 1 <=>
        RecoveryRequiresAcknowledgement(event.signal.action)
  BY <1>2, EventComesBack
<1>4. /\ out'.call = "ack" /\ out'.value.kind = "ack" /\ out'.value.value = w
  BY <1>1 DEF Calls!Written
<1>5. PICK b : b = bridge' OBVIOUS
<1>6. /\ result.accepted = accepted /\ result.reason = reason /\ result.mode = mode
      /\ result.event = event
  OBVIOUS
<1>7. Calls!HasPending(b) <=> HasPending(b) BY SameContract
<1>8. LET read == Calls!ReadAckResult(out'.value.value) IN
      /\ read.accepted \/ read.reason \in {"CheckpointUnavailable", "ResourceExhausted"}
           => read.mode = controller'.mode
      /\ \/ read.event = bridge'.pending
         \/ /\ read.accepted /\ ~Calls!HasPending(bridge')
            /\ read.event.signal.mode = controller'.mode
      /\ out'.value.value.event.acknowledgementRequired = 1 => Calls!HasPending(bridge')
  BY <1>2, <1>3, <1>4, <1>5, <1>6, <1>7
<1> QED BY <1>4, <1>8 DEF Calls!HostReadsRuntime

\* The bridge's event needs an answer only while there is one.
LEMMA PendingNeedsAnswer ==
  ASSUME NEW c, NEW b, RecoverySound(c, b)
  PROVE  /\ RecoveryRequiresAcknowledgement(b.pending.signal.action) => HasPending(b)
         /\ b.pending \in RecoveryContractEvent
BY DEF RecoverySound, RecoveryRequiresAcknowledgement, HasPending, NoEvent, RecoveryHostBridge

\* The answer to an acknowledgement whose checkpoint cannot be restored.
LEMMA ReadsCannotRestore ==
  ASSUME RecoverySound(controller, bridge), NEW g, NEW ack, NEW frame,
         AcknowledgeCannotRestore(g, ack, frame),
         out' = [call |-> "ack", status |-> "OK",
                 value |-> Calls!Written("ack", Calls!FillAckResult(Calls!CannotRestoreResult))]
  PROVE  Calls!HostReadsRuntime'
<1>1. /\ controller' = controller /\ bridge' = bridge
      /\ reply'.reason \in {"ResourceExhausted", "CheckpointUnavailable"}
  BY DEF AcknowledgeCannotRestore, recoveryVars, AckReply
<1>2. PICK result : result = Calls!CannotRestoreResult OBVIOUS
<1>3. PICK reason : reason = reply'.reason OBVIOUS
<1>4. result = [accepted |-> FALSE, reason |-> reason, mode |-> controller.mode,
                event |-> bridge.pending]
  BY <1>2, <1>3, Zenon DEF Calls!CannotRestoreResult, Calls!AckResult
<1>5. /\ reason \in Reasons /\ controller.mode \in RecoveryMode /\ FALSE \in BOOLEAN
      /\ controller.mode = controller'.mode /\ bridge.pending = bridge'.pending
  BY <1>1, <1>3 DEF Reasons, RecoverySound, RecoveryController
<1>6. /\ bridge.pending \in RecoveryContractEvent
      /\ RecoveryRequiresAcknowledgement(bridge.pending.signal.action) => HasPending(bridge')
  BY <1>1, PendingNeedsAnswer
<1> QED BY <1>2, <1>4, <1>5, <1>6, ReadsAck

\* The answer of the bridge.
LEMMA ReadsBridge ==
  ASSUME RecoverySound(controller, bridge), NEW g \in Nat,
         NEW ack \in RecoveryAcknowledgement, NEW frame \in Nat,
         Acknowledge(g, ack, frame),
         out' = [call |-> "ack", status |-> "OK",
                 value |-> Calls!Written("ack",
                   Calls!FillAckResult(Calls!BridgeResult(g, ack, frame)))]
  PROVE  Calls!HostReadsRuntime'
<1> DEFINE completes == Completes(controller, bridge, g, ack, frame)
<1>1. PICK reason : reason = AckRejectReason(controller, bridge, g, ack, frame) OBVIOUS
<1>2. /\ controller' = ControllerAfterAck(controller, bridge, g, ack, frame)
      /\ bridge' = BridgeAfterAck(controller, bridge, g, ack, frame)
      /\ reply'.reason = reason
  BY <1>1 DEF Acknowledge, AckReply
<1>3. /\ reason \in Reasons
      /\ reason \notin {"CheckpointUnavailable", "ResourceExhausted"}
      /\ completes => reason = "None"
  BY <1>1 DEF AckRejectReason, Reasons, Completes
<1>4. /\ bridge.pending \in RecoveryContractEvent
      /\ RecoveryRequiresAcknowledgement(bridge.pending.signal.action) => HasPending(bridge)
  BY PendingNeedsAnswer
<1>5. PICK result : result = Calls!BridgeResult(g, ack, frame) OBVIOUS
<1>6. "Normal" \in RecoveryMode /\ FALSE \in BOOLEAN /\ TRUE \in BOOLEAN
  BY DEF RecoveryMode
<1>7. ~completes => controller' = controller /\ bridge' = bridge
  BY <1>2, Zenon DEF ControllerAfterAck, BridgeAfterAck
<1> HIDE DEF completes
<1>8. CASE reason # "None"
  <2>1. result = [accepted |-> FALSE, reason |-> reason, mode |-> "Normal",
                  event |-> bridge.pending]
    BY <1>2, <1>5, <1>8, Zenon DEF Calls!BridgeResult, Calls!AckResult
  <2>2. controller' = controller /\ bridge' = bridge
    BY <1>3, <1>7, <1>8
  <2>3. bridge.pending = bridge'.pending BY <2>2
  <2> QED BY <2>1, <2>2, <2>3, <1>3, <1>4, <1>5, <1>6, ReadsAck
<1>9. CASE reason = "None" /\ ~completes
  <2>1. result = [accepted |-> TRUE, reason |-> reason, mode |-> bridge.pending.signal.mode,
                  event |-> bridge.pending]
    BY <1>2, <1>5, <1>9, SameAnswer DEF Calls!BridgeResult, Calls!AckResult, completes
  <2>2. controller' = controller /\ bridge' = bridge
    BY <1>7, <1>9
  <2>3. bridge.pending = bridge'.pending BY <2>2
  <2>4. HasPending(bridge)
    BY <1>1, <1>9 DEF AckRejectReason
  <2>5. /\ bridge.pending.signal.mode = controller'.mode
        /\ bridge.pending.signal.mode \in RecoveryMode
    BY <2>2, <2>4 DEF RecoverySound, PendingDescribesMode, RecoveryController
  <2> QED BY <2>1, <2>2, <2>3, <2>5, <1>3, <1>4, <1>5, <1>6, ReadsAck
<1>10. CASE reason = "None" /\ completes
  <2>1. PICK mode, checkpoint, signal, event :
           /\ mode = controller'.mode /\ checkpoint = controller'.checkpoint
           /\ signal = [fault |-> "None", action |-> "None", mode |-> mode,
                        checkpoint |-> checkpoint]
           /\ event = [generation |-> g, signal |-> signal]
    OBVIOUS
  <2>2. result = [accepted |-> TRUE, reason |-> reason, mode |-> event.signal.mode,
                  event |-> event]
    BY <1>2, <1>5, <1>10, <2>1, SameAnswer DEF Calls!BridgeResult, Calls!AckResult,
       Calls!RecoveredEvent, completes
  <2>3. controller' \in RecoveryController
    BY <1>2, AckType DEF RecoverySound
  <2>4. g = bridge.pending.generation
    BY <1>1, <1>10 DEF AckRejectReason, completes, Completes
  <2>5. event \in RecoveryContractEvent
    BY <2>1, <2>3, <2>4, <1>4 DEF RecoveryContractEvent, RecoverySignal, RecoveryController,
       FaultKind, RecoveryAction
  <2>6. bridge'.pending = NoEvent
    BY <1>2, <1>10 DEF BridgeAfterAck, RecoverySound, RecoveryHostBridge, completes
  <2>7. ~HasPending(bridge')
    BY <2>6 DEF HasPending, NoEvent
  <2>8. /\ event.signal.mode = controller'.mode /\ event.signal.mode \in RecoveryMode
        /\ ~RecoveryRequiresAcknowledgement(event.signal.action)
    BY <2>1, <2>3 DEF RecoveryController, RecoveryRequiresAcknowledgement
  <2> QED BY <2>2, <2>5, <2>7, <2>8, <1>3, <1>5, <1>6, ReadsAck
<1> QED BY <1>8, <1>9, <1>10

\* A call that returns a status, and the summary of the state it left or
\* nothing of the runtime.
LEMMA ReadsCall ==
  ASSUME NEW call, call \notin {"pending", "report", "ack"}, NEW status, NEW value,
         Calls!Returns(call, status, value),
         \/ value = Calls!Nothing
         \/ value = Calls!Summary
         \/ \E kind \in {"required", "handle", "version", "config"} :
              \E x : value = Calls!Written(kind, x)
  PROVE  Calls!HostReadsRuntime'
<1>1. out' = [call |-> call, status |-> status, value |-> value]
  BY DEF Calls!Returns
<1>2. out'.call = call /\ out'.value = value BY <1>1
<1>3. CASE value = Calls!Summary
  <2>1. value.kind = "summary" /\ value.value = current'.frame
    BY <1>3 DEF Calls!Summary, Calls!Written
  <2> QED BY <1>2, <2>1, ReadsSummary
<1>4. CASE value # Calls!Summary
  <2>1. value.kind \in {"nothing", "required", "handle", "version", "config"}
    BY <1>4 DEF Calls!Nothing, Calls!Written
  <2> QED BY <1>2, <2>1, ReadsNothing
<1> QED BY <1>3, <1>4

\* The bodies that are copied out are those of the world.
LEMMA BodiesComeBack ==
  ASSUME NEW bodies, Calls!IsBodyList(bodies), NEW copied,
         copied = [i \in 1..Len(bodies) |-> Calls!ExportBody(bodies[i])]
  PROVE  [i \in DOMAIN copied |-> Calls!ImportBody(copied[i])] = bodies
<1>1. ASSUME NEW i \in 1..Len(bodies) PROVE Calls!ImportBody(copied[i]) = bodies[i]
  <2>1. PICK body : body = bodies[i] OBVIOUS
  <2>2. body = [id |-> body.id, at |-> body.at]
    BY <2>1 DEF Calls!IsBodyList
  <2>3. Calls!ImportBody(Calls!ExportBody(body)) = [id |-> body.id, at |-> body.at]
    BY DEF Calls!ImportBody, Calls!ExportBody
  <2> QED BY <2>1, <2>2, <2>3
<1>2. DOMAIN copied = 1..Len(bodies) OBVIOUS
<1>3. bodies = [i \in 1..Len(bodies) |-> bodies[i]] BY DEF Calls!IsBodyList
<1> QED BY <1>1, <1>2, <1>3, Zenon

\* The two calls that copy lists.
LEMMA ReadsCopiedBodies ==
  ASSUME Calls!BoundaryAssumption, WorldsTyped, NEW capacity, NEW buffer,
         Calls!CopyBodies(capacity, buffer)
  PROVE  Calls!HostReadsRuntime'
<1>1. PICK bodies, status :
        /\ bodies = current.world
        /\ status = Calls!CopyStatus(bodies, capacity, buffer)
  OBVIOUS
<1>2. PICK copied : copied = [i \in 1..Len(bodies) |-> Calls!ExportBody(bodies[i])]
  OBVIOUS
<1>3. /\ current' = current
      /\ Calls!Returns("bodies", status,
             IF status = "OK" THEN Calls!Written("bodies", copied)
                              ELSE Calls!Written("required", Len(bodies)))
  BY <1>1, <1>2, Zenon DEF Calls!CopyBodies, Calls!Reads, Calls!hostVars
<1>4. CASE status # "OK"
  <2>1. Calls!Returns("bodies", status, Calls!Written("required", Len(bodies)))
    BY <1>3, <1>4
  <2> QED BY <2>1, ReadsCall
<1>5. CASE status = "OK"
  <2>1. Calls!IsBodyList(bodies) BY <1>1 DEF WorldsTyped, Calls!BoundaryAssumption
  <2>2. [i \in DOMAIN copied |-> Calls!ImportBody(copied[i])] = bodies
    BY <2>1, <1>2, BodiesComeBack
  <2>3. /\ out'.call = "bodies" /\ out'.value.kind = "bodies" /\ out'.value.value = copied
    BY <1>3, <1>5 DEF Calls!Returns, Calls!Written
  <2>4. [i \in DOMAIN out'.value.value |-> Calls!ImportBody(out'.value.value[i])]
          = current'.world
    BY <1>1, <1>3, <2>2, <2>3
  <2> QED BY <2>3, <2>4, ReadsBodies
<1> QED BY <1>4, <1>5

LEMMA ReadsCopiedTraces ==
  ASSUME Calls!BoundaryAssumption, TraceInv, NEW capacity, NEW buffer,
         Calls!CopyTraces(capacity, buffer)
  PROVE  Calls!HostReadsRuntime'
<1>1. PICK events, status :
        /\ events = Calls!Buffer!Snapshot(traces)
        /\ status = Calls!CopyStatus(events, capacity, buffer)
  OBVIOUS
<1>2. PICK copied : copied = [i \in 1..Len(events) |-> Calls!FillTraceEvent(events[i])]
  OBVIOUS
<1>3. /\ traces' = traces
      /\ \/ Calls!Returns("traces", status,
              IF status = "OK" THEN Calls!Written("traces", copied)
                               ELSE Calls!Written("required", Len(events)))
         \/ Calls!Returns("traces", Calls!TranslateException("bad_alloc"), Calls!Nothing)
  BY <1>1, <1>2, Zenon DEF Calls!CopyTraces, Calls!Reads
<1>4. CASE Calls!Returns("traces", Calls!TranslateException("bad_alloc"), Calls!Nothing)
  BY <1>4, ReadsCall
<1>5. CASE Calls!Returns("traces", status, Calls!Written("required", Len(events)))
  BY <1>5, ReadsCall
<1>6. CASE Calls!Returns("traces", status, Calls!Written("traces", copied))
  <2>0. traces.size \in Nat
    BY DEF TraceInv, TracesSound, RingSound, Calls!BoundaryAssumption
  <2>1. /\ events = [p \in 1..traces.size |-> events[p]] /\ Len(events) = traces.size
        /\ \A p \in 1..traces.size : events[p] \in TraceEvents
    <3>1. \A p \in 1..traces.size : Shown(traces)[p] \in TraceEvents
      BY DEF TraceInv, TracesSound
    <3>2. DOMAIN events = 1..traces.size /\ events = [p \in 1..traces.size |-> events[p]]
      BY <1>1, Zenon DEF Calls!Buffer!Snapshot
    <3>3. Len(events) = traces.size BY <2>0, <3>2
    <3> QED BY <3>1, <3>2, <3>3, <1>1 DEF Shown
  <2>2. \A p \in 1..traces.size : Calls!ReadTraceEvent(copied[p]) = events[p]
    BY <2>1, <1>2, TraceComesBack
  <2>3. [i \in DOMAIN copied |-> Calls!ReadTraceEvent(copied[i])] = events
    <3>1. DOMAIN copied = 1..traces.size BY <1>2, <2>1
    <3> QED BY <2>1, <2>2, <3>1, Zenon
  <2>4. /\ out'.call = "traces" /\ out'.value.kind = "traces" /\ out'.value.value = copied
    BY <1>6 DEF Calls!Returns, Calls!Written
  <2>5. [i \in DOMAIN out'.value.value |-> Calls!ReadTraceEvent(out'.value.value[i])]
          = Calls!Buffer!Snapshot(traces')
    BY <1>1, <1>3, <2>3, <2>4
  <2> QED BY <2>4, <2>5, ReadsTraces
<1> QED BY <1>3, <1>4, <1>5, <1>6

-----------------------------------------------------------------------------
(* Every call *)

\* What the last call wrote stays true while nothing it reads changes.
LEMMA ReadsSame ==
  ASSUME Calls!HostReadsRuntime, current' = current, controller' = controller,
         bridge' = bridge, traces' = traces, out' = out
  PROVE  Calls!HostReadsRuntime'
BY DEF Calls!HostReadsRuntime

\* Every call writes what the runtime holds after it.
LEMMA ReadsStep ==
  ASSUME ~FollowsDirectives, Calls!BoundaryAssumption, HostInv, WorldsTyped, TraceInv,
         Calls!HostReadsRuntime, Calls!Next
  PROVE  Calls!HostReadsRuntime'
<1>0. RecoverySound(controller, bridge) /\ EngineFrames
  BY EngineInvFrames DEF HostInv, RecoveryPart
<1> USE DEF Calls!Reads
<1>1. ASSUME NEW call \in {"advance", "correct", "restore"}, NEW status,
             Calls!Returns(call, status, IF status = "OK" THEN Calls!Summary
                                                         ELSE Calls!Nothing)
      PROVE  Calls!HostReadsRuntime'
  <2>1. PICK value : value = IF status = "OK" THEN Calls!Summary ELSE Calls!Nothing OBVIOUS
  <2>2. value = Calls!Nothing \/ value = Calls!Summary BY <2>1
  <2>3. Calls!Returns(call, status, value) BY <1>1, <2>1, Zenon
  <2>4. call \notin {"pending", "report", "ack"} BY <1>1
  <2> QED BY <2>2, <2>3, <2>4, ReadsCall
<1>2. ASSUME NEW call, call \notin {"pending", "report", "ack"}, NEW status,
             Calls!Returns(call, status, Calls!Nothing)
      PROVE  Calls!HostReadsRuntime'
  BY <1>2, ReadsCall
<1>3. ASSUME \/ \E inputs : Calls!Advance(inputs)
             \/ Calls!CorrectReturns
             \/ \E frame : Calls!RestoreCheckpoint(frame)
      PROVE  Calls!HostReadsRuntime'
  <2>1. \E call \in {"advance", "correct", "restore"} : \E status :
          Calls!Returns(call, status, IF status = "OK" THEN Calls!Summary ELSE Calls!Nothing)
    BY <1>3, Zenon DEF Calls!Advance, Calls!CorrectReturns, Calls!RestoreCheckpoint
  <2> QED BY <1>1, <2>1
<1>4. ASSUME \/ \E thread : Calls!Destroy(thread)
             \/ \E given, thread, result : Calls!RefuseCall(given, thread, result)
             \/ \E inputs : \/ Calls!RefuseInputs(inputs) \/ Calls!AdvanceFails(inputs)
                            \/ Calls!ImportFails(inputs)
             \/ \E frame, inputs : Calls!Correct(frame, inputs)
             \/ Calls!CorrectFails
      PROVE  Calls!HostReadsRuntime'
  <2>1. \E call \in {"any", "destroy", "advance", "correct"} : \E status :
          Calls!Returns(call, status, Calls!Nothing)
    BY <1>4, Zenon DEF Calls!Destroy, Calls!RefuseCall, Calls!RefuseInputs,
       Calls!AdvanceFails, Calls!ImportFails, Calls!Correct, Calls!CorrectFails
  <2> QED BY <1>2, <2>1
<1>5. ASSUME NEW call \in {"correct", "restore"}, NEW frame, Calls!RollbackRefused(call, frame)
      PROVE  Calls!HostReadsRuntime'
  <2>1. \E status : Calls!Returns(call, status, Calls!Nothing)
    BY <1>5, Zenon DEF Calls!RollbackRefused
  <2> QED BY <1>2, <1>5, <2>1
<1>6. ASSUME Calls!RefuseMode PROVE Calls!HostReadsRuntime'
  <2>1. Refuse /\ Calls!Returns(reply'.call, reply'.status, Calls!Nothing)
    BY <1>6, SameCalls, Zenon DEF Calls!RefuseMode
  <2>2. reply'.call \in {"advance", "correct"}
    BY <2>1 DEF Refuse, Reply
  <2>3. PICK call, status : call = reply'.call /\ status = reply'.status OBVIOUS
  <2> QED BY <1>2, <2>1, <2>2, <2>3
<1>7. ASSUME NEW thread, NEW outHost, NEW bodies, NEW config,
             Calls!Create(thread, outHost, bodies, config)
      PROVE  Calls!HostReadsRuntime'
  <2>1. \E status, host : \E value \in {Calls!Nothing, Calls!Written("handle", host)} :
          Calls!Returns("create", status, value)
    BY <1>7, Zenon DEF Calls!Create
  <2> QED BY <2>1, ReadsCall
<1>8. ASSUME NEW result, Calls!Describe(result) PROVE Calls!HostReadsRuntime'
  <2>1. PICK call \in {"version", "config"} :
          \/ Calls!Returns(call, "INVALID_ARGUMENT", Calls!Nothing)
          \/ \E x : Calls!Returns(call, "OK", Calls!Written(call, x))
    BY <1>8, Zenon DEF Calls!Describe
  <2> QED BY <2>1, ReadsCall
<1>9. ASSUME NEW number \in FaultNumbers, Calls!ReportFault(number)
      PROVE  Calls!HostReadsRuntime'
  <2>1. PICK fault : fault = Calls!MapFault(number) OBVIOUS
  <2>2. fault \in FaultKind /\ ReportFault(fault)
    BY <1>9, <2>1, FaultIsKnown, SameCalls, Zenon DEF Calls!ReportFault
  <2>3. out' = [call |-> "report", status |-> "OK",
                value |-> Calls!Written("event", Calls!FillRecoveryEvent(
                  [generation |-> bridge'.generation,
                   signal |-> SignalOfFault(controller, fault)]))]
    BY <1>9, <2>1, SameReport, Zenon DEF Calls!ReportFault, Calls!Returns
  <2> QED BY <1>0, <2>2, <2>3, ReadsReport
<1>10. ASSUME NEW g \in 0..bridge.generation, NEW number \in AckNumbers,
              NEW frame \in 0..MaxFrame, Calls!Acknowledge(g, number, frame)
       PROVE  Calls!HostReadsRuntime'
  <2>1. PICK ack : ack = Calls!MapAcknowledgement(number) OBVIOUS
  <2>2. ack \in RecoveryAcknowledgement
    BY <1>10, <2>1, AcknowledgementIsKnown DEF Calls!Acknowledge
  <2>3. g \in Nat /\ frame \in Nat
    BY <1>0 DEF RecoverySound, RecoveryHostBridge, Generation
  <2>4. \/ /\ AcknowledgeCannotRestore(g, ack, frame)
           /\ Calls!Returns("ack", "OK",
                Calls!Written("ack", Calls!FillAckResult(Calls!CannotRestoreResult)))
        \/ /\ Acknowledge(g, ack, frame)
           /\ Calls!Returns("ack", "OK",
                Calls!Written("ack", Calls!FillAckResult(Calls!BridgeResult(g, ack, frame))))
    BY <1>10, <2>1, SameCalls, Zenon DEF Calls!Acknowledge
  <2> QED BY <1>0, <2>2, <2>3, <2>4, ReadsCannotRestore, ReadsBridge DEF Calls!Returns
<1>11. ASSUME Calls!RefuseNumber PROVE Calls!HostReadsRuntime'
  <2>1. \E call \in {"report", "ack"} :
          Calls!Returns(call, "INVALID_ARGUMENT", Calls!Nothing)
    BY <1>11, Zenon DEF Calls!RefuseNumber
  <2>2. PICK call \in {"report", "ack"} :
          out' = [call |-> call, status |-> "INVALID_ARGUMENT", value |-> [kind |-> "nothing"]]
    BY <2>1, Zenon DEF Calls!Returns, Calls!Nothing
  <2>3. out'.status # "OK" /\ out'.value.kind = "nothing" BY <2>2
  <2> QED BY <2>3, ReadsNothing
<1>12. ASSUME Calls!GetStateSummary PROVE Calls!HostReadsRuntime'
  <2>1. PICK status :
          /\ current' = current
          /\ Calls!Returns("summary", status,
                IF status = "OK" THEN Calls!Written("summary", current.frame)
                                 ELSE Calls!Nothing)
    BY <1>12, Zenon DEF Calls!GetStateSummary, Calls!hostVars
  <2>2. \/ Calls!Returns("summary", status, Calls!Summary)
        \/ Calls!Returns("summary", status, Calls!Nothing)
    BY <2>1, Zenon DEF Calls!Summary
  <2> QED BY <2>2, ReadsCall
<1>13. ASSUME Calls!GetPendingRecovery PROVE Calls!HostReadsRuntime'
  <2>1. /\ bridge' = bridge
        /\ \/ Calls!Returns("pending", "OK",
                Calls!Written("event", Calls!FillRecoveryEvent(bridge.pending)))
           \/ Calls!Returns("pending", "NOT_FOUND", Calls!Nothing)
    BY <1>13, Zenon DEF Calls!GetPendingRecovery, Calls!hostVars
  <2>2. CASE Calls!Returns("pending", "NOT_FOUND", Calls!Nothing)
    <3>1. out'.status # "OK" /\ out'.value.kind = "nothing"
      BY <2>2 DEF Calls!Returns, Calls!Nothing
    <3> QED BY <3>1, ReadsNothing
  <2> QED BY <1>0, <2>1, <2>2, ReadsPending DEF Calls!Returns
<1>14. ASSUME Calls!Resimulate PROVE Calls!HostReadsRuntime'
  <2>1. Resimulate /\ traces' = traces /\ out' = out
    BY <1>14, SameCalls, Zenon DEF Calls!Resimulate
  <2>2. current' = current /\ controller' = controller /\ bridge' = bridge
    BY <2>1 DEF Resimulate, Engine!ResimulateFrame, recoveryVars
  <2> QED BY <2>1, <2>2, ReadsSame
<1>15. ASSUME NEW capacity, NEW buffer,
              Calls!CopyBodies(capacity, buffer) \/ Calls!CopyTraces(capacity, buffer)
       PROVE  Calls!HostReadsRuntime'
  BY <1>15, ReadsCopiedBodies, ReadsCopiedTraces
<1> QED BY <1>3, <1>4, <1>5, <1>6, <1>7, <1>8, <1>9, <1>10, <1>11, <1>12, <1>13, <1>14, <1>15,
           Zenon DEF Calls!Next

\* What the handle holds, what the traces say of it and what the host has
\* last read of it.
CallsInv == HostInv /\ WorldsTyped /\ TraceInv /\ Calls!HostReadsRuntime

\* It holds of a handle that is not yet open.
LEMMA CallsStart ==
  ASSUME Calls!BoundaryAssumption, Calls!Init
  PROVE  CallsInv
<1>1. HostInit /\ HostInv /\ WorldsTyped
  BY SameCalls, HostInitInv, WorldsStart, Zenon DEF Calls!Init
<1>2. TraceInv
  <2>1. DefaultTraceCapacity \in Nat \ {0} BY DEF Calls!BoundaryAssumption
  <2>2. TracesSound(traces) /\ traces.size = 0
    BY <2>1, EmptyIsSound DEF Calls!Init
  <2>3. pc = "idle" BY <1>1 DEF HostInit, Engine!EngineInit
  <2> QED BY <2>2, <2>3 DEF TraceInv, StartedLast
<1>3. Calls!HostReadsRuntime
  BY DEF Calls!Init, Calls!HostReadsRuntime, Calls!Nothing
<1> QED BY <1>1, <1>2, <1>3 DEF CallsInv

\* Every call keeps it.
LEMMA CallsStep ==
  ASSUME ~FollowsDirectives, Calls!BoundaryAssumption, CallsInv, [Calls!Next]_(Calls!vars)
  PROVE  CallsInv'
<1>1. [HostNext]_hostVars
  BY CallIsOfHandle
<1>2. HostInv'
  BY <1>1, HostStepInv DEF CallsInv
<1>3. WorldsTyped'
  <2>1. [EngineProofs!EngineNext]_engineVars BY <1>1, EngineStep
  <2>2. StepsStay BY DEF StepsStay, Calls!BoundaryAssumption
  <2>3. CASE UNCHANGED engineVars
    BY <2>3 DEF engineVars, WorldsTyped, CallsInv
  <2> QED BY <2>1, <2>2, <2>3, WorldsStep DEF CallsInv
<1>4. CASE UNCHANGED Calls!vars
  <2>1. /\ UNCHANGED <<current, pc, controller, bridge>>
        /\ traces' = traces /\ out' = out
    BY <1>4 DEF Calls!vars, Calls!hostVars
  <2>2. TraceInv' BY <2>1, TraceKept DEF CallsInv
  <2>3. Calls!HostReadsRuntime' BY <2>1, ReadsSame DEF CallsInv
  <2> QED BY <1>2, <1>3, <2>2, <2>3 DEF CallsInv
<1>5. CASE Calls!Next
  <2>1. TraceInv' BY <1>2, <1>5, TraceStep DEF CallsInv
  <2>2. Calls!HostReadsRuntime' BY <1>5, ReadsStep DEF CallsInv
  <2> QED BY <1>2, <1>3, <2>1, <2>2 DEF CallsInv
<1> QED BY <1>4, <1>5

\* Whatever a host has been told before and whatever it passes, what the last
\* call wrote is what the runtime holds after it, read with the numbers of
\* the header, and the traces are consecutive and explain the frame
\* (dcore_host.cpp:285-365, 485-528, 700-757, 773-945).
THEOREM HostReadsRuntimeAlways ==
  ASSUME ~FollowsDirectives, Calls!BoundaryAssumption
  PROVE  Calls!Spec => [](Calls!HostReadsRuntime /\ Calls!TracesFollowEngine)
<1>1. Calls!Init => CallsInv BY CallsStart
<1>2. CallsInv /\ [Calls!Next]_(Calls!vars) => CallsInv' BY CallsStep
<1>3. CallsInv => Calls!HostReadsRuntime /\ Calls!TracesFollowEngine
  BY TracesFollow DEF CallsInv
<1> QED BY <1>1, <1>2, <1>3, PTL DEF Calls!Spec

-----------------------------------------------------------------------------
(* Calls that are refused *)

\* The statuses of a call that was refused.
Refusals == {"INVALID_ARGUMENT", "ABI_MISMATCH", "WRONG_THREAD", "BUFFER_TOO_SMALL"}

\* Every call whose status can be a refusal leaves everything as it is.
LEMMA RefusedStep ==
  ASSUME Calls!Next
  PROVE  Calls!RefusedChangesNothing
<1>1. SUFFICES ASSUME out' # out, out'.status \in Refusals
               PROVE  UNCHANGED <<Calls!hostVars, handle, traces>>
  BY Zenon DEF Calls!RefusedChangesNothing, Refusals
<1>2. ASSUME NEW call, NEW status, NEW value, Calls!Returns(call, status, value)
      PROVE  out'.status = status
  BY <1>2 DEF Calls!Returns
<1>3. ASSUME NEW status, status \notin Refusals, NEW call, NEW value,
             Calls!Returns(call, status, value)
      PROVE  FALSE
  BY <1>1, <1>2, <1>3
<1>4. /\ {"OK", "OUT_OF_MEMORY", "running", "NOT_FOUND", "RECOVERY_REQUIRED"}
           \cap Refusals = {}
      /\ \A exception : Calls!TranslateException(exception) \notin Refusals
  BY DEF Refusals, Calls!TranslateException
<1>5. ASSUME \/ \E inputs : Calls!Advance(inputs)
             \/ Calls!CorrectReturns
             \/ \E frame : Calls!RestoreCheckpoint(frame)
      PROVE  FALSE
  <2>1. \/ \E inputs : Advance(inputs)
        \/ CorrectReturns
        \/ \E frame : Calls!Host!RestoreCheckpoint(frame)
    BY <1>5, SameCalls, Zenon DEF Calls!Advance, Calls!CorrectReturns, Calls!RestoreCheckpoint
  <2>2. PICK status : status = reply'.status OBVIOUS
  <2>3. status \in {"OK", "OUT_OF_MEMORY"}
    BY <2>1, <2>2 DEF Advance, CorrectReturns, Calls!Host!RestoreCheckpoint, Reply,
       SummaryStatus, Calls!Host!Reply, Calls!Host!SummaryStatus
  <2>4. \E call, value : Calls!Returns(call, status, value)
    BY <1>5, <2>2, Zenon DEF Calls!Advance, Calls!CorrectReturns, Calls!RestoreCheckpoint
  <2> QED BY <2>3, <2>4, <1>3, <1>4
<1>6. ASSUME \/ \E inputs : Calls!AdvanceFails(inputs) \/ Calls!ImportFails(inputs)
             \/ \E call, frame : Calls!RollbackRefused(call, frame)
             \/ Calls!CorrectFails
      PROVE  FALSE
  <2>1. \E exception, call, value :
          Calls!Returns(call, Calls!TranslateException(exception), value)
    BY <1>6, Zenon DEF Calls!AdvanceFails, Calls!ImportFails, Calls!RollbackRefused,
       Calls!CorrectFails
  <2> QED BY <2>1, <1>3, <1>4
<1>7. ASSUME \/ \E frame, inputs : Calls!Correct(frame, inputs)
             \/ \E number : Calls!ReportFault(number)
             \/ \E g, number, frame : Calls!Acknowledge(g, number, frame)
      PROVE  FALSE
  <2>1. \E status \in {"running", "OK"} : \E call, value : Calls!Returns(call, status, value)
    BY <1>7, Zenon DEF Calls!Correct, Calls!ReportFault, Calls!Acknowledge
  <2> QED BY <2>1, <1>3, <1>4
<1>8. ASSUME Calls!RefuseMode PROVE FALSE
  <2>1. Refuse /\ Calls!Returns(reply'.call, reply'.status, Calls!Nothing)
    BY <1>8, SameCalls, Zenon DEF Calls!RefuseMode
  <2>2. PICK status : status = reply'.status OBVIOUS
  <2>3. status = "RECOVERY_REQUIRED" BY <2>1, <2>2 DEF Refuse, Reply
  <2> QED BY <2>1, <2>2, <2>3, <1>3, <1>4
<1>9. ASSUME \E thread : Calls!Destroy(thread) PROVE FALSE
  <2>1. \E call, value : Calls!Returns(call, "OK", value)
    BY <1>9, Zenon DEF Calls!Destroy
  <2> QED BY <2>1, <1>3, <1>4
<1>10. ASSUME Calls!Resimulate PROVE FALSE
  BY <1>10, <1>1 DEF Calls!Resimulate
<1>11. ASSUME NEW thread, NEW outHost, NEW bodies, NEW config,
              Calls!Create(thread, outHost, bodies, config)
       PROVE  UNCHANGED <<Calls!hostVars, handle, traces>>
  <2>1. PICK status :
          /\ handle' = IF status = "OK" THEN thread ELSE "none"
          /\ \E value : Calls!Returns("create", status, value)
    BY <1>11, Zenon DEF Calls!Create
  <2>2. status # "OK" BY <2>1, <1>3, <1>4
  <2>3. handle' = "none" /\ handle = "none" BY <1>11, <2>1, <2>2 DEF Calls!Create
  <2>4. UNCHANGED <<Calls!hostVars, traces>> BY <1>11, Zenon DEF Calls!Create
  <2> QED BY <2>3, <2>4
<1>12. ASSUME \/ \E result : Calls!Describe(result)
              \/ \E given, thread, result : Calls!RefuseCall(given, thread, result)
       PROVE  UNCHANGED <<Calls!hostVars, handle, traces>>
  BY <1>12, Zenon DEF Calls!Describe, Calls!RefuseCall
<1>13. ASSUME \/ \E inputs : Calls!RefuseInputs(inputs)
              \/ Calls!RefuseNumber
              \/ Calls!GetStateSummary \/ Calls!GetPendingRecovery
              \/ \E capacity, buffer : Calls!CopyBodies(capacity, buffer)
                                         \/ Calls!CopyTraces(capacity, buffer)
       PROVE  UNCHANGED <<Calls!hostVars, handle, traces>>
  <2>1. UNCHANGED <<Calls!hostVars, traces>> /\ UNCHANGED handle
    BY <1>13, Zenon DEF Calls!RefuseInputs, Calls!RefuseNumber, Calls!GetStateSummary,
       Calls!GetPendingRecovery, Calls!CopyBodies, Calls!CopyTraces, Calls!Reads, Calls!Called
  <2> QED BY <2>1
<1> QED BY <1>5, <1>6, <1>7, <1>8, <1>9, <1>10, <1>11, <1>12, <1>13, Zenon DEF Calls!Next

\* No check of a C function comes after a change: a call refused for its
\* handle, its thread, its arguments or its buffer leaves the runtime, the
\* handle and the traces as they were (dcore_host.cpp:430-438, 661-676,
\* 773-869).
THEOREM RefusedCallChangesNothingAlways ==
  Calls!Spec => Calls!RefusedCallChangesNothing
<1>1. [Calls!Next]_(Calls!vars) => [Calls!RefusedChangesNothing]_(Calls!vars)
  BY RefusedStep
<1> QED BY <1>1, PTL DEF Calls!Spec, Calls!RefusedCallChangesNothing

=============================================================================
