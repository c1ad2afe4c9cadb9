--------------------------- MODULE RecoveryLemmas ---------------------------
(***************************************************************************)
(* What the operators of module Recovery keep and bound, for every policy  *)
(* and every saturation bound: the facts the proofs about the modules that *)
(* own a controller and a bridge (RecoveryContract, HostSdk) share.        *)
(***************************************************************************)
EXTENDS Recovery, TLAPS

USE RecoveryAssumption

-----------------------------------------------------------------------------
(* Types *)

\* What report_fault answers is typed, and leaves the mode in the signal.
LEMMA ResponseType ==
  ASSUME NEW c \in RecoveryController, NEW fault \in FaultKind
  PROVE  /\ CountFault(c, fault) \in RecoveryController
         /\ CountFault(c, fault).mode = c.mode
         /\ Response(CountFault(c, fault), fault)
              \in [action : RecoveryAction, mode : RecoveryMode]
<1>1. CountFault(c, fault) \in RecoveryController
  <2>1. /\ \A n \in Counter : IncrementSaturating(n) \in Counter
        /\ 0 \in Counter
    BY DEF IncrementSaturating, Counter
  <2>2. /\ c = [mode |-> c.mode, checkpoint |-> c.checkpoint,
                hasCheckpoint |-> c.hasCheckpoint, ioStalls |-> c.ioStalls,
                networkGaps |-> c.networkGaps, malformed |-> c.malformed,
                telemetryDisabled |-> c.telemetryDisabled]
        /\ {c.ioStalls, c.networkGaps, c.malformed} \subseteq Counter
    BY DEF RecoveryController
  <2> HIDE DEF IncrementSaturating
  <2> QED BY <2>1, <2>2 DEF CountFault, RecoveryController
<1>2. CountFault(c, fault).mode = c.mode
  BY DEF CountFault, RecoveryController
<1>3. ASSUME NEW d \in RecoveryController
      PROVE  Response(d, fault) \in [action : RecoveryAction, mode : RecoveryMode]
  BY DEF Response, TolerantResponse, FaultKind, RecoveryController,
         RecoveryMode, RecoveryAction
<1> QED BY <1>1, <1>2, <1>3

\* report_fault keeps the controller typed and signals the mode it leaves.
LEMMA FaultType ==
  ASSUME NEW c \in RecoveryController, NEW fault \in FaultKind
  PROVE  /\ ControllerAfterFault(c, fault) \in RecoveryController
         /\ SignalOfFault(c, fault) \in RecoverySignal
         /\ SignalOfFault(c, fault).mode = ControllerAfterFault(c, fault).mode
         /\ SignalOfFault(c, fault).fault = fault
<1> DEFINE d == CountFault(c, fault)
<1>1. /\ d \in RecoveryController
      /\ Response(d, fault) \in [action : RecoveryAction, mode : RecoveryMode]
  BY ResponseType
<1>2. ControllerAfterFault(c, fault) \in RecoveryController
  BY <1>1 DEF ControllerAfterFault, RecoveryController
<1>3. SignalOfFault(c, fault) \in RecoverySignal
  BY <1>1 DEF SignalOfFault, RecoverySignal, RecoveryController
<1>4. SignalOfFault(c, fault).mode = ControllerAfterFault(c, fault).mode
  BY <1>1 DEF SignalOfFault, ControllerAfterFault, RecoveryController
<1> QED BY <1>2, <1>3, <1>4 DEF SignalOfFault

\* publish keeps the bridge typed.
LEMMA PublishType ==
  ASSUME NEW b \in RecoveryHostBridge, NEW signal \in RecoverySignal
  PROVE  Publish(b, signal) \in RecoveryHostBridge
BY DEF Publish, RecoveryHostBridge, RecoveryContractEvent, NoEvent, Generation,
       RecoverySignal, FaultKind, RecoveryAction, RecoveryMode

\* An acknowledgement keeps both objects typed.
LEMMA AckType ==
  ASSUME NEW c \in RecoveryController, NEW b \in RecoveryHostBridge,
         NEW g \in Nat, NEW ack \in RecoveryAcknowledgement, NEW r \in Nat
  PROVE  /\ ControllerAfterAck(c, b, g, ack, r) \in RecoveryController
         /\ BridgeAfterAck(c, b, g, ack, r) \in RecoveryHostBridge
<1>1. ControllerAfterAck(c, b, g, ack, r) \in RecoveryController
  <2>1. 0 \in Counter
    BY DEF Counter
  <2> QED BY <2>1 DEF ControllerAfterAck, ControllerAfterRecovery, ResetInputQuarantine,
         RecoveryController, RecoveryMode
<1>2. BridgeAfterAck(c, b, g, ack, r) \in RecoveryHostBridge
  BY DEF BridgeAfterAck, RecoveryHostBridge, RecoveryContractEvent, NoEvent,
         Generation, RecoverySignal, FaultKind, RecoveryAction, RecoveryMode
<1> QED BY <1>1, <1>2

-----------------------------------------------------------------------------
(* The event and the mode *)

\* What a report does to the mode: a signal without an action to take leaves
\* it, any other signal names a mode its fault leads to.
LEMMA ResponseCases ==
  ASSUME NEW c \in RecoveryController, NEW fault \in FaultKind
  PROVE  LET s == SignalOfFault(c, fault) IN
         /\ s.action \in {"None", "DropInput"} => s.mode = c.mode
         /\ s.action \notin {"None", "DropInput"} =>
              \/ s.mode = "Headless" /\ fault = "DeviceLost"
              \/ /\ s.mode = "ReusingLastConfirmedInput"
                 /\ fault \in {"IoStall", "NetworkUnavailable"}
              \/ s.mode = "QuarantinedInput" /\ fault = "MalformedPacket"
              \/ /\ s.mode = "SafeWait"
                 /\ fault \in {"DeviceLost", "IoStall",
                               "NetworkUnavailable", "OutOfMemory"}
              \/ s.mode = "RollingBackToCheckpoint" /\ fault = "OutOfMemory"
              \/ s.mode = "Halted" /\ s.action = "HaltSafely"
         /\ s.action = "HaltSafely" => s.mode = "Halted"
         /\ RecoveryRequiresAcknowledgement(s.action) <=>
              s.action \notin {"None", "DropInput", "HaltSafely"}
<1>1. PICK d : d = CountFault(c, fault) OBVIOUS
<1>2. d \in RecoveryController /\ d.mode = c.mode
  BY <1>1, ResponseType
<1>3. /\ SignalOfFault(c, fault).action = Response(d, fault).action
      /\ SignalOfFault(c, fault).mode = Response(d, fault).mode
  BY <1>1 DEF SignalOfFault
<1> QED
  BY <1>2, <1>3 DEF Response, TolerantResponse, FaultKind,
     RecoveryRequiresAcknowledgement

\* What publish makes of the signal of a fault: an event of its own when the
\* fault names an action, the event it had when it does not.
LEMMA PublishCases ==
  ASSUME NEW c \in RecoveryController, NEW b \in RecoveryHostBridge,
         NEW fault \in FaultKind
  PROVE  LET s == SignalOfFault(c, fault)
             next == Publish(b, s)
             waits == s.action \in {"None", "DropInput"}
         IN
         /\ next.generation \in Nat \ {0}
         /\ ~waits \/ c.mode = "Halted" =>
              next.pending = [generation |-> next.generation, signal |-> s]
         /\ waits /\ c.mode = "Normal" => next.pending \in {NoEvent, b.pending}
         /\ waits /\ c.mode \notin {"Halted", "Normal"} =>
              next.pending = b.pending
<1>1. PICK s : s = SignalOfFault(c, fault) OBVIOUS
<1>2. /\ s.action \in {"None", "DropInput"} => s.mode = c.mode
      /\ s.action \notin {"None", "DropInput"} => s.mode # "Normal"
      /\ s.action = "HaltSafely" => s.mode = "Halted"
      /\ RecoveryRequiresAcknowledgement(s.action) <=>
           s.action \notin {"None", "DropInput", "HaltSafely"}
  BY <1>1, ResponseCases
<1>3. Publish(b, s).generation \in Nat \ {0}
  BY DEF Publish, RecoveryHostBridge, Generation
<1>4. ASSUME s.action \notin {"None", "DropInput"} \/ c.mode = "Halted"
      PROVE  Publish(b, s).pending =
               [generation |-> Publish(b, s).generation, signal |-> s]
  <2>1. RecoveryRequiresAcknowledgement(s.action) \/ s.mode = "Halted"
    BY <1>2, <1>4
  <2> QED BY <2>1 DEF Publish
<1>5. ASSUME s.action \in {"None", "DropInput"}, c.mode = "Normal"
      PROVE  Publish(b, s).pending \in {NoEvent, b.pending}
  BY <1>2, <1>5 DEF Publish
<1>6. ASSUME s.action \in {"None", "DropInput"},
             c.mode \notin {"Halted", "Normal"}
      PROVE  Publish(b, s).pending = b.pending
  BY <1>2, <1>6 DEF Publish
<1> QED BY <1>1, <1>3, <1>4, <1>5, <1>6

\* A fault that is reported and published leaves event and mode together.
LEMMA ReportTracksMode ==
  ASSUME NEW c \in RecoveryController, NEW b \in RecoveryHostBridge,
         NEW fault \in FaultKind, PendingDescribesMode(c, b)
  PROVE  PendingDescribesMode(ControllerAfterFault(c, fault),
                              Publish(b, SignalOfFault(c, fault)))
<1>1. PICK s : s = SignalOfFault(c, fault) OBVIOUS
<1>2. PICK next : next = Publish(b, s) OBVIOUS
<1>3. PICK after : after = ControllerAfterFault(c, fault) OBVIOUS
<1>4. after.mode = s.mode
  BY <1>1, <1>3, FaultType
<1>5. /\ s.action \in {"None", "DropInput"} => s.mode = c.mode
      /\ s.action \notin {"None", "DropInput"} => s.mode # "Normal"
  BY <1>1, ResponseCases
<1>6. /\ next.generation \in Nat \ {0}
      /\ s.action \notin {"None", "DropInput"} \/ c.mode = "Halted" =>
           next.pending = [generation |-> next.generation, signal |-> s]
      /\ s.action \in {"None", "DropInput"} /\ c.mode = "Normal" =>
           next.pending \in {NoEvent, b.pending}
      /\ s.action \in {"None", "DropInput"} /\ c.mode \notin {"Halted", "Normal"}
           => next.pending = b.pending
  BY <1>1, <1>2, PublishCases
<1>7. PendingDescribesMode(after, next)
  BY <1>4, <1>5, <1>6 DEF PendingDescribesMode, HasPending, NoEvent
<1> QED BY <1>1, <1>2, <1>3, <1>7

\* An acknowledgement that completes the recovery clears both, another one
\* neither.
LEMMA AckTracksMode ==
  ASSUME NEW c \in RecoveryController, NEW b \in RecoveryHostBridge,
         NEW g, NEW ack, NEW r, PendingDescribesMode(c, b)
  PROVE  PendingDescribesMode(ControllerAfterAck(c, b, g, ack, r),
                              BridgeAfterAck(c, b, g, ack, r))
<1>1. CASE Completes(c, b, g, ack, r)
  <2>1. c.mode # "Halted"
    BY <1>1 DEF Completes, AckRejectReason
  <2>2. ControllerAfterAck(c, b, g, ack, r).mode = "Normal"
    BY <1>1, <2>1 DEF ControllerAfterAck, ControllerAfterRecovery,
       ResetInputQuarantine, RecoveryController
  <2>3. BridgeAfterAck(c, b, g, ack, r).pending = NoEvent
    BY <1>1 DEF BridgeAfterAck, RecoveryHostBridge
  <2> QED BY <2>2, <2>3 DEF PendingDescribesMode, HasPending, NoEvent
<1>2. CASE ~Completes(c, b, g, ack, r)
  BY <1>2 DEF ControllerAfterAck, BridgeAfterAck
<1> QED BY <1>1, <1>2

-----------------------------------------------------------------------------
(* A runtime that has had a checkpoint from the start *)

\* Both objects keep their type, the event names the mode, and with a
\* checkpoint to go back to the runtime never halts.
RecoverySound(c, b) ==
  /\ c \in RecoveryController /\ c.hasCheckpoint
  /\ b \in RecoveryHostBridge
  /\ b.pending.generation = 0 => b.pending = NoEvent
  /\ PendingDescribesMode(c, b)
  /\ c.mode # "Halted"

\* What both runtimes are constructed with
LEMMA InitialIsSound ==
  LET c == MarkSafeCheckpoint(InitialController, 0) IN
  /\ RecoverySound(c, InitialBridge)
  /\ c.checkpoint = 0
  /\ InitialBridge.pending.signal.mode = "Normal"
<1>1. PICK c : c = MarkSafeCheckpoint(InitialController, 0) OBVIOUS
<1>2. c = [mode |-> "Normal", checkpoint |-> 0, hasCheckpoint |-> TRUE,
           ioStalls |-> 0, networkGaps |-> 0, malformed |-> 0,
           telemetryDisabled |-> FALSE]
  BY <1>1 DEF MarkSafeCheckpoint, InitialController
<1>3. c \in RecoveryController
  BY <1>2 DEF RecoveryController, Counter, RecoveryMode
<1>4. InitialBridge \in RecoveryHostBridge
  BY DEF InitialBridge, RecoveryHostBridge, RecoveryContractEvent, NoEvent,
     Generation, RecoverySignal, FaultKind, RecoveryMode, RecoveryAction
<1>5. c.hasCheckpoint /\ c.mode = "Normal" /\ c.checkpoint = 0
  BY <1>2, Zenon
<1>6. /\ InitialBridge.pending = NoEvent /\ NoEvent.generation = 0
      /\ NoEvent.signal.mode = "Normal"
  BY DEF InitialBridge, NoEvent
<1> QED BY <1>1, <1>3, <1>4, <1>5, <1>6
        DEF RecoverySound, PendingDescribesMode, HasPending

\* A mark changes the checkpoint and nothing else.
LEMMA MarkKeepsSound ==
  ASSUME NEW c, NEW b, RecoverySound(c, b), NEW frame \in Nat
  PROVE  /\ RecoverySound(MarkSafeCheckpoint(c, frame), b)
         /\ MarkSafeCheckpoint(c, frame).checkpoint = frame
<1>1. PICK d : d = MarkSafeCheckpoint(c, frame) OBVIOUS
<1>2. /\ d \in RecoveryController /\ d.hasCheckpoint /\ d.mode = c.mode
      /\ d.checkpoint = frame
  BY <1>1 DEF RecoverySound, MarkSafeCheckpoint, RecoveryController
<1> QED BY <1>1, <1>2 DEF RecoverySound, PendingDescribesMode, HasPending

\* A fault that is reported and published keeps the checkpoint, and a new
\* event names it.
LEMMA ReportKeepsSound ==
  ASSUME NEW c, NEW b, RecoverySound(c, b), NEW fault \in FaultKind
  PROVE  LET d == ControllerAfterFault(c, fault)
             next == Publish(b, SignalOfFault(c, fault))
         IN  /\ RecoverySound(d, next)
             /\ d.checkpoint = c.checkpoint
             /\ \/ next.pending.signal.checkpoint = c.checkpoint
                \/ next.pending \in {b.pending, NoEvent}
<1>1. c \in RecoveryController /\ b \in RecoveryHostBridge
  BY DEF RecoverySound
<1>2. PICK s : s = SignalOfFault(c, fault) OBVIOUS
<1>3. PICK d : d = ControllerAfterFault(c, fault) OBVIOUS
<1>n. PICK next : next = Publish(b, s) OBVIOUS
<1>4. /\ d \in RecoveryController /\ s \in RecoverySignal
      /\ d.mode = s.mode
  BY <1>1, <1>2, <1>3, FaultType
<1>5. next \in RecoveryHostBridge
  BY <1>1, <1>4, <1>n, PublishType
<1>6. PendingDescribesMode(d, next)
  <2>1. PendingDescribesMode(ControllerAfterFault(c, fault),
                             Publish(b, SignalOfFault(c, fault)))
    BY <1>1, ReportTracksMode DEF RecoverySound
  <2> QED BY <2>1, <1>2, <1>3, <1>n
<1>7. d.hasCheckpoint /\ d.checkpoint = c.checkpoint
  BY <1>1, <1>3 DEF RecoverySound, ControllerAfterFault, CountFault,
     RecoveryController
<1>8. s.mode # "Halted"
  <2>1. PICK counted : counted = CountFault(c, fault) OBVIOUS
  <2>2. /\ counted.hasCheckpoint /\ counted.mode # "Halted"
        /\ s.mode = Response(counted, fault).mode
    BY <1>1, <1>2, <2>1 DEF RecoverySound, CountFault, RecoveryController,
       SignalOfFault
  <2> QED BY <2>2 DEF Response, TolerantResponse, FaultKind
<1>9. \/ next.pending.signal.checkpoint = c.checkpoint
      \/ next.pending \in {b.pending, NoEvent}
  <2>1. s.checkpoint = c.checkpoint
    BY <1>2 DEF SignalOfFault
  <2> QED BY <1>n, <2>1 DEF Publish
<1>10. next.pending.generation = 0 => next.pending = NoEvent
  <2>1. /\ next.pending \in {[generation |-> next.generation, signal |-> s],
                             NoEvent, b.pending}
        /\ next.generation # 0
    BY <1>1, <1>n DEF Publish, RecoveryHostBridge, Generation
  <2> QED BY <2>1 DEF RecoverySound
<1>11. RecoverySound(d, next)
  BY <1>4, <1>5, <1>6, <1>7, <1>8, <1>10 DEF RecoverySound
<1> QED BY <1>2, <1>3, <1>n, <1>7, <1>9, <1>11

\* An acknowledgement keeps the checkpoint and takes the event off or leaves
\* it.
LEMMA AckKeepsSound ==
  ASSUME NEW c, NEW b, RecoverySound(c, b), NEW g \in Nat,
         NEW ack \in RecoveryAcknowledgement, NEW r \in Nat
  PROVE  LET d == ControllerAfterAck(c, b, g, ack, r)
             next == BridgeAfterAck(c, b, g, ack, r)
         IN  /\ RecoverySound(d, next)
             /\ d.checkpoint = c.checkpoint
             /\ next.pending \in {b.pending, NoEvent}
<1>1. c \in RecoveryController /\ b \in RecoveryHostBridge
  BY DEF RecoverySound
<1>2. PICK d : d = ControllerAfterAck(c, b, g, ack, r) OBVIOUS
<1>n. PICK next : next = BridgeAfterAck(c, b, g, ack, r) OBVIOUS
<1>3. d \in RecoveryController /\ next \in RecoveryHostBridge
  BY <1>1, <1>2, <1>n, AckType
<1>4. PendingDescribesMode(d, next)
  <2>1. PendingDescribesMode(ControllerAfterAck(c, b, g, ack, r),
                             BridgeAfterAck(c, b, g, ack, r))
    BY <1>1, AckTracksMode DEF RecoverySound
  <2> QED BY <2>1, <1>2, <1>n
<1>5. d.hasCheckpoint /\ d.mode # "Halted" /\ d.checkpoint = c.checkpoint
  BY <1>1, <1>2 DEF RecoverySound, ControllerAfterAck, ControllerAfterRecovery,
     ResetInputQuarantine, RecoveryController
<1>6. next.pending \in {b.pending, NoEvent}
  BY <1>1, <1>n DEF BridgeAfterAck, RecoveryHostBridge
<1>7. RecoverySound(d, next)
  BY <1>3, <1>4, <1>5, <1>6 DEF RecoverySound
<1> QED BY <1>2, <1>n, <1>5, <1>6, <1>7

\* A runtime that waits for a rollback must not advance.
LEMMA RollbackStops ==
  ASSUME NEW c, NEW b, RecoverySound(c, b),
         b.pending.signal.mode = "RollingBackToCheckpoint"
  PROVE  HasPending(b) /\ ~MayAdvance(c.mode)
<1>1. HasPending(b)
  BY DEF RecoverySound, HasPending, NoEvent
<1>2. c.mode = "RollingBackToCheckpoint"
  BY <1>1 DEF RecoverySound, PendingDescribesMode
<1> QED BY <1>1, <1>2 DEF MayAdvance

=============================================================================
