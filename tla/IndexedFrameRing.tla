-------------------------- MODULE IndexedFrameRing --------------------------
(***************************************************************************)
(* IndexedFrameRing of include/neoeng/core/indexed_ring.hpp: the retained  *)
(* window in a vector of Capacity slots, frame f in slot f % Capacity,     *)
(* each slot remembering the frame it holds.  Frames are 64 bit counters;  *)
(* MaxFrame stands for their largest value, past which capture refuses.    *)
(***************************************************************************)
EXTENDS Snapshots

CONSTANT NoValue   \* what an empty slot holds

VARIABLES
  slots,    \* slots_: 0..Capacity-1 -> [frame, value], frame = -1 when empty
  oldest,   \* oldest_, -1 for an empty optional
  latest    \* latest_, -1 for an empty optional

vars == <<slots, oldest, latest>>

EmptySlot == [frame |-> -1, value |-> NoValue]

SlotIndex(frame) == frame % Capacity

Contains(frame) ==
  /\ oldest # -1
  /\ oldest <= frame /\ frame <= latest
  /\ slots[SlotIndex(frame)].frame = frame

Init ==
  /\ slots = [index \in 0..(Capacity - 1) |-> EmptySlot]
  /\ oldest = -1
  /\ latest = -1

\* A mutant: the window is taken to be one frame longer than the ring.
CaptureLongWindow(frame, value) ==
  /\ latest # -1 => latest # MaxFrame /\ frame = latest + 1
  /\ slots' = [slots EXCEPT ![SlotIndex(frame)] =
                 [frame |-> frame, value |-> value]]
  /\ latest' = frame
  /\ LET first == IF oldest = -1 THEN frame ELSE oldest IN
     oldest' = IF frame - first > Capacity
               THEN frame - Capacity ELSE first

Capture(frame, value) ==
  /\ latest # -1 => latest # MaxFrame /\ frame = latest + 1
  /\ slots' = [slots EXCEPT ![SlotIndex(frame)] =
                 [frame |-> frame, value |-> value]]
  /\ latest' = frame
  /\ LET first == IF oldest = -1 THEN frame ELSE oldest IN
     oldest' = IF frame - first + 1 > Capacity
               THEN frame - Capacity + 1 ELSE first

\* A mutant: the slot of the frame that stays is emptied with the others.
TruncateAfterInclusive(frame) ==
  /\ latest \notin {-1, MaxFrame}
  /\ Contains(frame)
  /\ slots' = [index \in DOMAIN slots |->
                 IF \E f \in frame..latest :
                      index = SlotIndex(f) /\ slots[index].frame = f
                 THEN EmptySlot ELSE slots[index]]
  /\ latest' = frame
  /\ UNCHANGED oldest

\* With the last frame there is in the ring the loop's counter wraps and the
\* call never returns: no step.
TruncateAfter(frame) ==
  /\ latest \notin {-1, MaxFrame}
  /\ Contains(frame)
  /\ slots' = [index \in DOMAIN slots |->
                 IF \E f \in (frame + 1)..latest :
                      index = SlotIndex(f) /\ slots[index].frame = f
                 THEN EmptySlot ELSE slots[index]]
  /\ latest' = frame
  /\ UNCHANGED oldest

Next ==
  \/ \E frame \in 0..MaxFrame, value \in World : Capture(frame, value)
  \/ \E frame \in 0..MaxFrame : TruncateAfter(frame)

Spec == Init /\ [][Next]_vars

-----------------------------------------------------------------------------
\* Every frame of the window oldest_..latest_ is in its slot: contains and
\* at, which look at one slot only, never miss a frame that size() counts
\* (indexed_ring.hpp:38-52, 65-68).
WindowIsStored ==
  oldest # -1 => \A f \in oldest..latest : Contains(f)

\* The ring implements the snapshot store: at(frame) is what was captured
\* with that frame, although slots are reused and truncation empties some.
Full == INSTANCE SnapshotStore WITH
          snapshots <- [f \in {g \in 0..MaxFrame : Contains(g)} |->
                          slots[SlotIndex(f)].value]

ImplementsSnapshotStore == Full!Spec

=============================================================================
