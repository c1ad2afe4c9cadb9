------------------------ MODULE RollbackEngineProofs ------------------------
(***************************************************************************)
(* Theorems about RollbackEngine for every world, every step function,     *)
(* every capacity and any number of frames: whatever throws, the retained  *)
(* timeline replays.                                                       *)
(***************************************************************************)
EXTENDS RollbackEngine, TLAPS

-----------------------------------------------------------------------------
(* The inductive invariant *)

\* The frames are numbers; what the worlds and inputs are does not matter.
Frames ==
  /\ current.frame \in Nat
  /\ restored.frame \in Nat
  /\ DOMAIN snapshots \subseteq Nat
  /\ DOMAIN history \subseteq Nat
  /\ pc \in {"idle", "resimulating"}
  /\ aborted \in BOOLEAN

\* Some frame is retained, and none that is older than the window that ends
\* at the current one: a correction captures its frames again without
\* evicting any.
WithinWindow ==
  /\ DOMAIN snapshots # {}
  /\ \A f \in DOMAIN snapshots : current.frame - Capacity < f

\* The input of every frame from the oldest snapshot to the current frame is
\* on record, so that the loop never falls back to the empty input.
HistoryCovers ==
  \A f \in Nat :
    f < current.frame /\ (\E g \in DOMAIN snapshots : g <= f)
      => f \in DOMAIN history

\* Inside the loop the local world is the newest snapshot.
RestoredIsNewest ==
  pc = "resimulating" =>
    /\ restored.frame \in DOMAIN snapshots
    /\ restored.world = snapshots[restored.frame]
    /\ restored.frame <= current.frame
    /\ \A f \in DOMAIN snapshots : f <= restored.frame

\* A correction that was cut short left every snapshot before current.
AbortedIsBehind ==
  pc = "idle" /\ aborted => \A f \in DOMAIN snapshots : f < current.frame

EngineInv ==
  /\ Frames
  /\ WithinWindow
  /\ HistoryCovers
  /\ HistoryIsBounded
  /\ RestoredIsNewest
  /\ AbortedIsBehind
  /\ CurrentIsNewest
  /\ TimelineIsReplay

USE EngineAssumption

\* Erasing all entries of a map but some.
LEMMA KeepFacts ==
  ASSUME NEW f, NEW keys
  PROVE  /\ DOMAIN Keep(f, keys) = DOMAIN f \cap keys
         /\ \A k \in DOMAIN f \cap keys : Keep(f, keys)[k] = f[k]
BY DEF Keep

\* What the store holds after a capture.
LEMMA CapturedFacts ==
  ASSUME NEW frame \in Nat, NEW world, DOMAIN snapshots \subseteq Nat,
         \A f \in DOMAIN snapshots : f < frame
  PROVE  /\ \A f : f \in DOMAIN Captured(frame, world) <=>
                    \/ f \in DOMAIN snapshots /\ frame - Capacity < f
                    \/ f = frame
         /\ Captured(frame, world)[frame] = world
         /\ \A f \in DOMAIN snapshots :
              frame - Capacity < f => Captured(frame, world)[f] = snapshots[f]
<1> DEFINE put == Put(snapshots, frame, world)
           window == (frame - Capacity + 1)..frame
<1>1. /\ DOMAIN put = DOMAIN snapshots \cup {frame}
      /\ put[frame] = world
      /\ \A f \in DOMAIN snapshots : f # frame => put[f] = snapshots[f]
  BY DEF put, Put
<1>2. /\ DOMAIN Captured(frame, world) = DOMAIN put \cap window
      /\ \A f \in DOMAIN put \cap window : Captured(frame, world)[f] = put[f]
  BY KeepFacts DEF Captured
<1>3. frame \in window /\ \A f \in DOMAIN snapshots :
                            f \in window <=> frame - Capacity < f
  OBVIOUS
<1> HIDE DEF put, window
<1> QED BY <1>1, <1>2, <1>3

\* The inputs that advance keeps.
LEMMA TrimmedFacts ==
  ASSUME NEW inputs, NEW retained
  PROVE  /\ DOMAIN Trimmed(inputs, retained) =
              {f \in DOMAIN inputs :
                 \E g \in DOMAIN inputs : g <= f /\ g \in retained}
         /\ \A f \in DOMAIN Trimmed(inputs, retained) :
              Trimmed(inputs, retained)[f] = inputs[f]
BY DEF Trimmed, Keep

LEMMA InitInv == EngineInit => EngineInv
<1> SUFFICES ASSUME EngineInit PROVE EngineInv
  OBVIOUS
<1>1. DOMAIN snapshots = {0} /\ snapshots[0] = InitialWorld
  BY DEF EngineInit, Put
<1>2. /\ DOMAIN history = {} /\ pc = "idle" /\ aborted = FALSE
      /\ current = [frame |-> 0, world |-> InitialWorld]
      /\ restored.frame = 0
  BY DEF EngineInit
<1>3. Frames
  <2>1. aborted \in BOOLEAN
    BY <1>2, Zenon
  <2>2. current.frame \in Nat /\ restored.frame \in Nat
    BY <1>2
  <2>3. DOMAIN snapshots \subseteq Nat /\ DOMAIN history \subseteq Nat
    BY <1>1, <1>2
  <2> QED BY <1>2, <2>1, <2>2, <2>3, Zenon DEF Frames
<1>7. WithinWindow
  <2>1. DOMAIN snapshots # {}
    BY <1>1
  <2> QED BY <1>1, <1>2, <2>1 DEF WithinWindow
<1>4. HistoryCovers /\ HistoryIsBounded
  BY <1>1, <1>2 DEF HistoryCovers, HistoryIsBounded
<1>5. RestoredIsNewest /\ AbortedIsBehind /\ CurrentIsNewest
  BY <1>1, <1>2 DEF RestoredIsNewest, AbortedIsBehind, CurrentIsNewest
<1>6. TimelineIsReplay
  BY <1>1 DEF TimelineIsReplay
<1> QED BY <1>3, <1>7, <1>4, <1>5, <1>6 DEF EngineInv

-----------------------------------------------------------------------------
(* Every step keeps the invariant *)

\* advance: the new frame follows the newest snapshot, which is current.
LEMMA AdvanceInv ==
  ASSUME EngineInv, NEW input \in Inputs, Advance(input)
  PROVE  EngineInv'
<1> DEFINE frame == current.frame + 1
           world == Step(current.world, input)
           inputs == Put(history, current.frame, input)
<1>1. /\ frame \in Nat /\ DOMAIN snapshots \subseteq Nat
      /\ \A f \in DOMAIN snapshots : f <= current.frame
      /\ current.frame \in DOMAIN snapshots
      /\ pc = "idle" /\ aborted = FALSE
  BY DEF Advance, EngineInv, Frames, FollowsLatest, AbortedIsBehind
<1>2. current.world = snapshots[current.frame]
  BY <1>1 DEF EngineInv, CurrentIsNewest
<1>3. /\ \A f : f \in DOMAIN snapshots' <=>
                 \/ f \in DOMAIN snapshots /\ frame - Capacity < f
                 \/ f = frame
      /\ snapshots'[frame] = world
      /\ \A f \in DOMAIN snapshots :
           frame - Capacity < f => snapshots'[f] = snapshots[f]
  <2>1. snapshots' = Captured(frame, world)
    BY DEF Advance
  <2>2. \A f \in DOMAIN snapshots : f < frame
    BY <1>1
  <2> HIDE DEF frame, world
  <2> QED BY <1>1, <2>1, <2>2, CapturedFacts
<1>4. /\ current' = [frame |-> frame, world |-> world]
      /\ UNCHANGED <<pc, restored, aborted>>
      /\ history' = Trimmed(inputs, DOMAIN snapshots')
  BY DEF Advance
<1>5. /\ DOMAIN inputs = DOMAIN history \cup {current.frame}
      /\ inputs[current.frame] = input
      /\ \A k \in DOMAIN history : k # current.frame => inputs[k] = history[k]
  BY DEF inputs, Put
<1>6. /\ DOMAIN history' = {f \in DOMAIN inputs :
           \E g \in DOMAIN inputs : g <= f /\ g \in DOMAIN snapshots'}
      /\ \A f \in DOMAIN history' : history'[f] = inputs[f]
  BY <1>4, TrimmedFacts
<1> HIDE DEF frame, world, inputs
<1>7. frame = current.frame + 1 /\ world = Step(current.world, input)
  BY DEF frame, world
<1>8. current.frame \in Nat /\ DOMAIN history \subseteq Nat
      /\ restored.frame \in Nat
  BY DEF EngineInv, Frames
<1>9. Frames'
  BY <1>1, <1>3, <1>4, <1>5, <1>6, <1>8 DEF EngineInv, Frames
<1>10. WithinWindow'
  BY <1>3, <1>4, <1>1 DEF WithinWindow
<1>11. HistoryCovers'
  <2> SUFFICES ASSUME NEW f \in Nat, f < frame,
                      NEW g \in DOMAIN snapshots', g <= f
               PROVE  f \in DOMAIN history'
    BY <1>4 DEF HistoryCovers
  <2>1. g \in DOMAIN snapshots /\ g \in Nat /\ g <= current.frame
    BY <1>1, <1>3, <1>7, <1>8
  <2>2. f \in DOMAIN inputs /\ g \in DOMAIN inputs
    BY <1>5, <1>7, <1>8, <2>1 DEF EngineInv, HistoryCovers
  <2> QED BY <1>6, <2>2
<1>12. HistoryIsBounded'
  BY <1>1, <1>4, <1>5, <1>6, <1>7, <1>8 DEF EngineInv, HistoryIsBounded
<1>13. RestoredIsNewest' /\ AbortedIsBehind'
  BY <1>1, <1>4 DEF RestoredIsNewest, AbortedIsBehind
<1>14. CurrentIsNewest'
  BY <1>1, <1>3, <1>4, <1>7, <1>8 DEF CurrentIsNewest
<1>15. TimelineIsReplay'
  <2> SUFFICES ASSUME NEW f \in DOMAIN snapshots', f + 1 \in DOMAIN snapshots'
               PROVE  /\ f \in DOMAIN history'
                      /\ snapshots'[f + 1] = Step(snapshots'[f], history'[f])
    BY DEF TimelineIsReplay
  <2>1. f \in DOMAIN snapshots /\ f \in Nat /\ snapshots'[f] = snapshots[f]
    BY <1>1, <1>3, <1>7, <1>8
  <2>2. CASE f = current.frame
    BY <1>2, <1>3, <1>5, <1>6, <1>7, <1>8, <2>1, <2>2
  <2>3. CASE f # current.frame
    <3>1. f + 1 \in DOMAIN snapshots /\ snapshots'[f + 1] = snapshots[f + 1]
      BY <1>3, <1>7, <1>8, <2>1, <2>3
    <3>2. /\ f \in DOMAIN history
          /\ snapshots[f + 1] = Step(snapshots[f], history[f])
      BY <2>1, <3>1 DEF EngineInv, TimelineIsReplay
    <3> QED BY <1>5, <1>6, <2>1, <2>3, <3>1, <3>2
  <2> QED BY <2>2, <2>3
<1> QED
  BY <1>9, <1>10, <1>11, <1>12, <1>13, <1>14, <1>15 DEF EngineInv

\* advance that throws has written the input of the current frame only.
LEMMA AdvanceThrowsInv ==
  ASSUME EngineInv, NEW input \in Inputs, AdvanceThrows(input)
  PROVE  EngineInv'
<1>1. /\ DOMAIN history' = DOMAIN history \cup {current.frame}
      /\ \A k \in DOMAIN history :
           k # current.frame => history'[k] = history[k]
  BY DEF AdvanceThrows, Put
<1>2. /\ UNCHANGED <<current, snapshots, pc, restored, aborted>>
      /\ pc = "idle" /\ current.frame \in Nat
      /\ DOMAIN snapshots \subseteq Nat /\ DOMAIN history \subseteq Nat
  BY DEF AdvanceThrows, EngineInv, Frames
<1>3. \A f \in DOMAIN snapshots : f <= current.frame
  BY <1>2 DEF EngineInv, Frames, CurrentIsNewest, AbortedIsBehind
<1>4. Frames' /\ WithinWindow'
  BY <1>1, <1>2 DEF EngineInv, Frames, WithinWindow
<1>5. HistoryCovers'
  BY <1>1, <1>2 DEF EngineInv, HistoryCovers
<1>6. HistoryIsBounded'
  BY <1>1, <1>2, <1>3 DEF EngineInv, HistoryIsBounded, WithinWindow
<1>7. RestoredIsNewest' /\ AbortedIsBehind' /\ CurrentIsNewest'
  BY <1>2 DEF EngineInv, RestoredIsNewest, AbortedIsBehind, CurrentIsNewest
<1>8. TimelineIsReplay'
  BY <1>1, <1>2, <1>3 DEF EngineInv, TimelineIsReplay
<1> QED BY <1>4, <1>5, <1>6, <1>7, <1>8 DEF EngineInv

\* restore_checkpoint: the window and the inputs are cut at the frame.
LEMMA RestoreCheckpointInv ==
  ASSUME EngineInv, NEW frame \in 0..MaxFrame, RestoreCheckpoint(frame)
  PROVE  EngineInv'
<1>1. /\ pc = "idle" /\ pc' = "idle" /\ restored' = restored
      /\ frame \in DOMAIN snapshots /\ aborted' = FALSE
      /\ current' = [frame |-> frame, world |-> snapshots[frame]]
  BY DEF RestoreCheckpoint
<1>2. /\ \A f : f \in DOMAIN snapshots' <=>
                 f \in DOMAIN snapshots /\ f \in 0..frame
      /\ \A f \in DOMAIN snapshots' : snapshots'[f] = snapshots[f]
  BY DEF RestoreCheckpoint, Keep
<1>3. /\ \A f : f \in DOMAIN history' <=>
                 f \in DOMAIN history /\ f \in 0..(frame - 1)
      /\ \A f \in DOMAIN history' : history'[f] = history[f]
  BY DEF RestoreCheckpoint, Keep
<1>4. /\ DOMAIN snapshots \subseteq Nat /\ DOMAIN history \subseteq Nat
      /\ current.frame \in Nat /\ restored.frame \in Nat /\ frame \in Nat
  BY DEF EngineInv, Frames
<1>5. frame <= current.frame
  BY <1>1, <1>4 DEF EngineInv, Frames, CurrentIsNewest, AbortedIsBehind
<1>6. Frames'
  <2>1. aborted' \in BOOLEAN
    BY <1>1, Zenon
  <2>2. current'.frame \in Nat /\ restored'.frame \in Nat
    BY <1>1, <1>4
  <2>3. DOMAIN snapshots' \subseteq Nat /\ DOMAIN history' \subseteq Nat
    BY <1>2, <1>3
  <2> QED BY <1>1, <2>1, <2>2, <2>3, Zenon DEF Frames
<1>7. WithinWindow'
  <2>1. frame \in DOMAIN snapshots'
    BY <1>1, <1>2, <1>4
  <2>2. \A f \in DOMAIN snapshots' : frame - Capacity < f
    BY <1>2, <1>4, <1>5 DEF EngineInv, WithinWindow
  <2> QED BY <1>1, <2>1, <2>2 DEF WithinWindow
<1>8. HistoryCovers'
  BY <1>1, <1>2, <1>3, <1>4, <1>5 DEF EngineInv, HistoryCovers
<1>9. HistoryIsBounded'
  BY <1>1, <1>2, <1>3, <1>4 DEF EngineInv, HistoryIsBounded
<1>10. RestoredIsNewest' /\ AbortedIsBehind'
  BY <1>1 DEF RestoredIsNewest, AbortedIsBehind
<1>11. CurrentIsNewest'
  BY <1>1, <1>2, <1>4 DEF CurrentIsNewest
<1>12. TimelineIsReplay'
  BY <1>2, <1>3, <1>4 DEF EngineInv, TimelineIsReplay
<1> QED BY <1>6, <1>7, <1>8, <1>9, <1>10, <1>11, <1>12 DEF EngineInv

\* A correction starts from a retained frame with the input replaced.
LEMMA BeginCorrectionInv ==
  ASSUME EngineInv, NEW frame \in 0..MaxFrame, NEW input \in Inputs,
         BeginCorrection(frame, input)
  PROVE  EngineInv'
<1>1. /\ frame \in DOMAIN snapshots /\ frame < current.frame
      /\ current' = current /\ aborted' = aborted /\ pc' = "resimulating"
      /\ restored' = [frame |-> frame, world |-> snapshots[frame]]
  BY DEF BeginCorrection
<1>2. /\ \A f : f \in DOMAIN snapshots' <=>
                 f \in DOMAIN snapshots /\ f \in 0..frame
      /\ \A f \in DOMAIN snapshots' : snapshots'[f] = snapshots[f]
  BY DEF BeginCorrection, Keep
<1>3. /\ DOMAIN history' = DOMAIN history \cup {frame}
      /\ \A f \in DOMAIN history : f # frame => history'[f] = history[f]
  BY DEF BeginCorrection, Put
<1>4. /\ DOMAIN snapshots \subseteq Nat /\ DOMAIN history \subseteq Nat
      /\ current.frame \in Nat /\ frame \in Nat
  BY DEF EngineInv, Frames
<1>5. Frames'
  <2>1. current'.frame \in Nat /\ restored'.frame \in Nat
    BY <1>1, <1>4
  <2>2. DOMAIN snapshots' \subseteq Nat /\ DOMAIN history' \subseteq Nat
    BY <1>2, <1>3, <1>4
  <2> QED BY <1>1, <2>1, <2>2, Zenon DEF EngineInv, Frames
<1>6. WithinWindow'
  <2>1. frame \in DOMAIN snapshots'
    BY <1>1, <1>2, <1>4
  <2>2. \A f \in DOMAIN snapshots' : current.frame - Capacity < f
    BY <1>2 DEF EngineInv, WithinWindow
  <2> QED BY <1>1, <2>1, <2>2 DEF WithinWindow
<1>7. HistoryCovers'
  BY <1>1, <1>2, <1>3 DEF EngineInv, HistoryCovers
<1>8. HistoryIsBounded'
  <2> SUFFICES ASSUME NEW f \in DOMAIN history'
               PROVE  /\ f <= current.frame
                      /\ \E g \in DOMAIN snapshots' : g <= f
    BY <1>1 DEF HistoryIsBounded
  <2>1. f \in Nat /\ f <= current.frame
    BY <1>1, <1>3, <1>4 DEF EngineInv, HistoryIsBounded
  <2>2. CASE frame <= f
    BY <1>1, <1>2, <1>4, <2>1, <2>2
  <2>3. CASE f < frame
    <3>1. PICK g \in DOMAIN snapshots : g <= f
      BY <1>3, <2>1, <2>3 DEF EngineInv, HistoryIsBounded
    <3> QED BY <1>2, <1>4, <2>1, <2>3, <3>1
  <2> QED BY <1>4, <2>1, <2>2, <2>3
<1>9. RestoredIsNewest'
  BY <1>1, <1>2, <1>4 DEF RestoredIsNewest
<1>10. AbortedIsBehind' /\ CurrentIsNewest'
  BY <1>1 DEF AbortedIsBehind, CurrentIsNewest
<1>11. TimelineIsReplay'
  BY <1>1, <1>2, <1>3, <1>4 DEF EngineInv, TimelineIsReplay
<1> QED BY <1>5, <1>6, <1>7, <1>8, <1>9, <1>10, <1>11 DEF EngineInv

\* An iteration: the input is on record and the capture evicts nothing.
LEMMA ResimulateFrameInv ==
  ASSUME EngineInv, ResimulateFrame
  PROVE  EngineInv' /\ \A f \in DOMAIN snapshots :
                         f \in DOMAIN snapshots' /\ snapshots'[f] = snapshots[f]
<1> DEFINE frame == restored.frame + 1
           world == Step(restored.world, InputOf(restored.frame))
<1>1. /\ pc = "resimulating" /\ restored.frame < current.frame
      /\ restored' = [frame |-> frame, world |-> world]
      /\ UNCHANGED <<current, history, pc, aborted>>
      /\ snapshots' = Captured(frame, world)
  BY DEF ResimulateFrame
<1>2. /\ DOMAIN snapshots \subseteq Nat /\ DOMAIN history \subseteq Nat
      /\ current.frame \in Nat /\ restored.frame \in Nat
      /\ frame \in Nat /\ frame <= current.frame
  BY <1>1 DEF EngineInv, Frames
<1>3. /\ restored.frame \in DOMAIN snapshots
      /\ restored.world = snapshots[restored.frame]
      /\ \A f \in DOMAIN snapshots : f < frame
  BY <1>1, <1>2 DEF EngineInv, RestoredIsNewest
<1>4. /\ restored.frame \in DOMAIN history
      /\ world = Step(restored.world, history[restored.frame])
  BY <1>1, <1>2, <1>3 DEF EngineInv, HistoryCovers, InputOf
<1>5. frame = restored.frame + 1
  OBVIOUS
<1> HIDE DEF frame, world
<1>6. /\ \A f : f \in DOMAIN snapshots' <=>
                 f \in DOMAIN snapshots \/ f = frame
      /\ snapshots'[frame] = world
      /\ \A f \in DOMAIN snapshots : snapshots'[f] = snapshots[f]
  <2>1. \A f \in DOMAIN snapshots : frame - Capacity < f
    BY <1>2 DEF EngineInv, WithinWindow
  <2> QED BY <1>1, <1>2, <1>3, <2>1, CapturedFacts
<1>7. Frames'
  <2>1. restored'.frame \in Nat /\ DOMAIN snapshots' \subseteq Nat
    BY <1>1, <1>2, <1>6
  <2> QED BY <1>1, <2>1, Zenon DEF EngineInv, Frames
<1>8. WithinWindow'
  <2>1. \A f \in DOMAIN snapshots' : current.frame - Capacity < f
    BY <1>2, <1>3, <1>5, <1>6 DEF EngineInv, WithinWindow
  <2> QED BY <1>1, <1>6, <2>1 DEF WithinWindow
<1>9. HistoryCovers'
  BY <1>1, <1>2, <1>3, <1>5, <1>6 DEF EngineInv, HistoryCovers
<1>10. HistoryIsBounded'
  BY <1>1, <1>6 DEF EngineInv, HistoryIsBounded
<1>11. RestoredIsNewest'
  BY <1>1, <1>2, <1>3, <1>5, <1>6 DEF RestoredIsNewest
<1>12. AbortedIsBehind' /\ CurrentIsNewest'
  BY <1>1 DEF AbortedIsBehind, CurrentIsNewest
<1>13. TimelineIsReplay'
  <2> SUFFICES ASSUME NEW f \in DOMAIN snapshots', f + 1 \in DOMAIN snapshots'
               PROVE  /\ f \in DOMAIN history'
                      /\ snapshots'[f + 1] = Step(snapshots'[f], history'[f])
    BY DEF TimelineIsReplay
  <2>1. f \in DOMAIN snapshots /\ f \in Nat /\ snapshots'[f] = snapshots[f]
    BY <1>2, <1>3, <1>5, <1>6
  <2>2. CASE f = restored.frame
    BY <1>1, <1>3, <1>4, <1>5, <1>6, <2>1, <2>2
  <2>3. CASE f # restored.frame
    <3>1. f + 1 \in DOMAIN snapshots /\ snapshots'[f + 1] = snapshots[f + 1]
      BY <1>2, <1>5, <1>6, <2>1, <2>3
    <3> QED BY <1>1, <2>1, <3>1 DEF EngineInv, TimelineIsReplay
  <2> QED BY <2>2, <2>3
<1> QED
  BY <1>6, <1>7, <1>8, <1>9, <1>10, <1>11, <1>12, <1>13 DEF EngineInv

\* The loop is left, by an exception or because it has reached current.
LEMMA LeaveLoopInv ==
  ASSUME EngineInv, ResimulationThrows \/ EndCorrection
  PROVE  EngineInv'
<1>1. CASE ResimulationThrows
  <2>1. /\ pc = "resimulating" /\ pc' = "idle" /\ aborted' = TRUE
        /\ restored.frame < current.frame
        /\ UNCHANGED <<current, snapshots, history, restored>>
    BY <1>1 DEF ResimulationThrows
  <2>2. Frames'
    BY <2>1, Zenon DEF EngineInv, Frames
  <2>3. AbortedIsBehind'
    BY <2>1 DEF EngineInv, Frames, AbortedIsBehind, RestoredIsNewest
  <2>4. RestoredIsNewest' /\ CurrentIsNewest'
    BY <2>1 DEF RestoredIsNewest, CurrentIsNewest
  <2>5. /\ WithinWindow' /\ HistoryCovers' /\ HistoryIsBounded'
        /\ TimelineIsReplay'
    BY <2>1 DEF EngineInv, WithinWindow, HistoryCovers, HistoryIsBounded,
       TimelineIsReplay
  <2> QED BY <2>2, <2>3, <2>4, <2>5 DEF EngineInv
<1>2. CASE EndCorrection
  <2>1. /\ pc = "resimulating" /\ pc' = "idle" /\ aborted' = FALSE
        /\ current' = restored /\ restored.frame >= current.frame
        /\ UNCHANGED <<snapshots, history, restored>>
    BY <1>2 DEF EndCorrection
  <2>2. restored.frame = current.frame
    BY <2>1 DEF EngineInv, Frames, RestoredIsNewest
  <2>3. Frames'
    BY <2>1, Zenon DEF EngineInv, Frames
  <2>4. RestoredIsNewest' /\ AbortedIsBehind'
    BY <2>1 DEF RestoredIsNewest, AbortedIsBehind
  <2>5. CurrentIsNewest'
    BY <2>1 DEF EngineInv, RestoredIsNewest, CurrentIsNewest
  <2>6. /\ WithinWindow' /\ HistoryCovers' /\ HistoryIsBounded'
        /\ TimelineIsReplay'
    BY <2>1, <2>2 DEF EngineInv, WithinWindow, HistoryCovers,
       HistoryIsBounded, TimelineIsReplay
  <2> QED BY <2>3, <2>4, <2>5, <2>6 DEF EngineInv
<1> QED BY <1>1, <1>2

LEMMA StepInv == EngineInv /\ [EngineNext]_engineVars => EngineInv'
<1> SUFFICES ASSUME EngineInv, [EngineNext]_engineVars PROVE EngineInv'
  OBVIOUS
<1>1. CASE UNCHANGED engineVars
  BY <1>1 DEF engineVars, EngineInv, Frames, WithinWindow, HistoryCovers,
     HistoryIsBounded, RestoredIsNewest, AbortedIsBehind, CurrentIsNewest,
     TimelineIsReplay
<1> QED
  BY <1>1, AdvanceInv, AdvanceThrowsInv, RestoreCheckpointInv,
     BeginCorrectionInv, ResimulateFrameInv, LeaveLoopInv DEF EngineNext

LEMMA EngineInvariance == EngineSpec => []EngineInv
BY InitInv, StepInv, PTL DEF EngineSpec

-----------------------------------------------------------------------------
(* The theorems *)

\* The retained timeline is the replay of the recorded inputs, whatever
\* corrections, restores and exceptions came before (rollback.cpp:22-76).
THEOREM TimelineIsReplayAlways == EngineSpec => []TimelineIsReplay
BY EngineInvariance, PTL DEF EngineInv

\* Between calls, what the host reads is what a rollback would restore.
THEOREM CurrentIsNewestAlways == EngineSpec => []CurrentIsNewest
BY EngineInvariance, PTL DEF EngineInv

\* The input history stays inside the retained window.
THEOREM HistoryIsBoundedAlways == EngineSpec => []HistoryIsBounded
BY EngineInvariance, PTL DEF EngineInv

\* An engine whose correction was cut short neither advances nor changes its
\* timeline until a restore or a correction repairs it.
THEOREM AbortedEngineStopsAlways == EngineSpec => AbortedEngineStops
<1> DEFINE Stops == aborted /\ pc = "idle" /\ pc' = "idle" /\ aborted' =>
                      current' = current /\ snapshots' = snapshots
<1>1. EngineInv /\ [EngineNext]_engineVars => [Stops]_engineVars
  <2> SUFFICES ASSUME EngineInv, EngineNext, aborted, pc = "idle", pc' = "idle",
                      aborted'
               PROVE  current' = current /\ snapshots' = snapshots
    OBVIOUS
  <2>1. ASSUME NEW input \in Inputs, Advance(input) PROVE FALSE
    BY <2>1 DEF Advance, FollowsLatest, EngineInv, Frames, AbortedIsBehind
  <2> QED
    BY <2>1 DEF EngineNext, AdvanceThrows, RestoreCheckpoint, BeginCorrection,
       ResimulateFrame, ResimulationThrows, EndCorrection
<1> QED BY <1>1, EngineInvariance, PTL DEF EngineSpec, AbortedEngineStops

\* A correction keeps every retained world up to the frame it has reached.
THEOREM CorrectionKeepsPastAlways == EngineSpec => CorrectionKeepsPast
<1> DEFINE Keeps == pc' = "resimulating" =>
                      \A f \in DOMAIN snapshots :
                        f <= restored'.frame =>
                          f \in DOMAIN snapshots' /\ snapshots'[f] = snapshots[f]
<1>1. EngineInv /\ [EngineNext]_engineVars => [Keeps]_engineVars
  <2> SUFFICES ASSUME EngineInv, EngineNext, pc' = "resimulating",
                      NEW f \in DOMAIN snapshots, f <= restored'.frame
               PROVE  f \in DOMAIN snapshots' /\ snapshots'[f] = snapshots[f]
    OBVIOUS
  <2>1. ASSUME NEW frame \in 0..MaxFrame, NEW input \in Inputs,
               BeginCorrection(frame, input)
        PROVE  f \in DOMAIN snapshots' /\ snapshots'[f] = snapshots[f]
    <3>1. restored'.frame = frame /\ snapshots' = Keep(snapshots, 0..frame)
      BY <2>1 DEF BeginCorrection
    <3>2. f \in 0..frame
      BY <3>1 DEF EngineInv, Frames
    <3> QED BY <3>1, <3>2 DEF Keep
  <2>2. CASE ResimulateFrame
    BY <2>2, ResimulateFrameInv
  <2> QED
    BY <2>1, <2>2 DEF EngineNext, Advance, AdvanceThrows, RestoreCheckpoint,
       ResimulationThrows, EndCorrection
<1> QED BY <1>1, EngineInvariance, PTL DEF EngineSpec, CorrectionKeepsPast

=============================================================================
