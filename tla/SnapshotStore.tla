---------------------------- MODULE SnapshotStore ----------------------------
(***************************************************************************)
(* What a snapshot store promises: a window of at most Capacity            *)
(* consecutive frames, each with the whole world it was captured with.     *)
(* This is also FullCopyStore (src/snapshot_store.cpp), which keeps        *)
(* exactly that; the other stores encode the worlds differently and are    *)
(* shown to implement this module.                                         *)
(*                                                                         *)
(* A deque of snapshots with consecutive frames is the function from the   *)
(* retained frames to the worlds.  Calls the code refuses with an          *)
(* exception before it changes anything are stuttering steps.              *)
(***************************************************************************)
EXTENDS Snapshots

VARIABLE snapshots   \* retained frame -> world

\* What push_back and the pop_front loop of a capture leave: the newest
\* Capacity frames.
RetainedAfter(retained, frame) ==
  {f \in retained \cup {frame} : f > frame - Capacity}

\* require_next_frame
FollowsLatest(retained, frame) ==
  retained # {} =>
    frame - 1 \in retained /\ \A f \in retained : f < frame

\* frames that stay when everything newer than frame is popped
RetainedUpTo(retained, frame) == {f \in retained : f <= frame}

Init == snapshots = Nothing

Capture(frame, world) ==
  /\ FollowsLatest(DOMAIN snapshots, frame)
  /\ snapshots' =
       [f \in RetainedAfter(DOMAIN snapshots, frame) |->
          IF f = frame THEN world ELSE snapshots[f]]

\* The engine truncates only to frames the store contains.
TruncateAfter(frame) ==
  /\ frame \in DOMAIN snapshots
  /\ snapshots' =
       [f \in RetainedUpTo(DOMAIN snapshots, frame) |-> snapshots[f]]

Next ==
  \/ \E frame \in 0..MaxFrame, world \in World : Capture(frame, world)
  \/ \E frame \in 0..MaxFrame : TruncateAfter(frame)

Spec == Init /\ [][Next]_snapshots

=============================================================================
