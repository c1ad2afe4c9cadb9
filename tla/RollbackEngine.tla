--------------------------- MODULE RollbackEngine ---------------------------
(***************************************************************************)
(* RollbackEngine of src/rollback.cpp: the current world, a window of      *)
(* snapshots and the inputs of the retained frames.  A late input is       *)
(* applied by going back to the snapshot of its frame and simulating every *)
(* frame since again.                                                      *)
(*                                                                         *)
(* The engine runs in one thread.  The loop of                             *)
(* correct_input_and_resimulate is one action per iteration because each   *)
(* iteration can throw: the fixed-point arithmetic of a step overflows, or *)
(* memory runs out; nothing else runs while pc is "resimulating".  The     *)
(* snapshot store is the abstract one of module SnapshotStore.             *)
(***************************************************************************)
EXTENDS Integers

CONSTANTS
  Worlds,            \* the states of the simulation, frame left out
  InitialWorld,
  Inputs,            \* what a frame can be advanced with
  EmptyInput,        \* the empty span of inputs
  Step(_, _),        \* step_with_dirty: world, inputs -> next world
  Overflows(_, _),   \* whether that step throws std::overflow_error
  Capacity,          \* snapshot_capacity
  MaxFrame           \* bound: frames of a behaviour

ASSUME EngineAssumption ==
  /\ InitialWorld \in Worlds
  /\ EmptyInput \in Inputs
  /\ \A world \in Worlds, input \in Inputs :
       Overflows(world, input) \in BOOLEAN
  /\ Capacity \in Nat \ {0}
  /\ MaxFrame \in Nat

VARIABLES
  current,     \* current_: [frame, world]
  snapshots,   \* snapshots_: retained frame -> world
  history,     \* input_history_: frame -> inputs
  pc,          \* "idle", or "resimulating" inside the correction's loop
  restored,    \* the local of the loop: [frame, world]
  aborted      \* history: the last correction ended in an exception and
               \* nothing has repaired the engine since

engineVars == <<current, snapshots, history, pc, restored, aborted>>

Timed == [frame : 0..MaxFrame, world : Worlds]

IsPartialFunction(f, range) ==
  \E frames \in SUBSET (0..MaxFrame) : f \in [frames -> range]

Put(f, key, value) ==
  [k \in DOMAIN f \cup {key} |-> IF k = key THEN value ELSE f[k]]

Keep(f, keys) == [k \in DOMAIN f \cap keys |-> f[k]]

\* require_next_frame of the store
FollowsLatest(frame) ==
  frame - 1 \in DOMAIN snapshots /\ \A f \in DOMAIN snapshots : f < frame

\* capture of the store
Captured(frame, world) ==
  Keep(Put(snapshots, frame, world), (frame - Capacity + 1)..frame)

\* A mutant: inputs are dropped one frame early.
TrimmedEarly(inputs, retained) ==
  Keep(inputs, {f \in DOMAIN inputs : f - 1 \in retained})

\* A mutant: inputs are never dropped.
TrimmedNever(inputs, retained) == inputs

\* The loop at the end of advance: leading inputs are erased until one
\* belongs to a retained snapshot.
Trimmed(inputs, retained) ==
  Keep(inputs, {f \in DOMAIN inputs :
                  \E g \in DOMAIN inputs : g <= f /\ g \in retained})

InputOf(frame) ==
  IF frame \in DOMAIN history THEN history[frame] ELSE EmptyInput

-----------------------------------------------------------------------------
EngineInit ==
  /\ current = [frame |-> 0, world |-> InitialWorld]
  /\ snapshots = Put([f \in {} |-> InitialWorld], 0, InitialWorld)
  /\ history = [f \in {} |-> EmptyInput]
  /\ pc = "idle"
  /\ restored = [frame |-> 0, world |-> InitialWorld]
  /\ aborted = FALSE

Advance(input) ==
  LET frame == current.frame + 1
      world == Step(current.world, input)
  IN
  /\ pc = "idle" /\ frame <= MaxFrame
  /\ ~Overflows(current.world, input)
  /\ FollowsLatest(frame)
  /\ snapshots' = Captured(frame, world)
  /\ current' = [frame |-> frame, world |-> world]
  /\ history' = Trimmed(Put(history, current.frame, input),
                        DOMAIN snapshots')
  /\ UNCHANGED <<pc, restored, aborted>>

\* advance that throws after it wrote the history: the step overflows, the
\* store refuses the frame because it does not follow the newest snapshot,
\* or memory runs out in the step or in the store.
AdvanceThrows(input) ==
  /\ pc = "idle" /\ current.frame < MaxFrame
  /\ history' = Put(history, current.frame, input)
  /\ UNCHANGED <<current, snapshots, pc, restored, aborted>>

\* A mutant: the snapshots of the abandoned frames are kept.
RestoreCheckpointKeepsFuture(frame) ==
  /\ pc = "idle"
  /\ frame \in DOMAIN snapshots
  /\ current' = [frame |-> frame, world |-> snapshots[frame]]
  /\ history' = Keep(history, 0..(frame - 1))
  /\ aborted' = FALSE
  /\ UNCHANGED <<snapshots, pc, restored>>

RestoreCheckpoint(frame) ==
  /\ pc = "idle"
  /\ frame \in DOMAIN snapshots
  /\ current' = [frame |-> frame, world |-> snapshots[frame]]
  /\ snapshots' = Keep(snapshots, 0..frame)
  /\ history' = Keep(history, 0..(frame - 1))
  /\ aborted' = FALSE
  /\ UNCHANGED <<pc, restored>>

\* A mutant: the corrected frame itself is truncated too.
BeginCorrectionTruncatesFrame(frame, input) ==
  /\ pc = "idle"
  /\ frame < current.frame
  /\ frame \in DOMAIN snapshots
  /\ restored' = [frame |-> frame, world |-> snapshots[frame]]
  /\ history' = Put(history, frame, input)
  /\ snapshots' = Keep(snapshots, 0..(frame - 1))
  /\ pc' = "resimulating"
  /\ UNCHANGED <<current, aborted>>

\* correct_input_and_resimulate up to its loop
BeginCorrection(frame, input) ==
  /\ pc = "idle"
  /\ frame < current.frame
  /\ frame \in DOMAIN snapshots
  /\ restored' = [frame |-> frame, world |-> snapshots[frame]]
  /\ history' = Put(history, frame, input)
  /\ snapshots' = Keep(snapshots, 0..frame)
  /\ pc' = "resimulating"
  /\ UNCHANGED <<current, aborted>>

\* one iteration of the loop
ResimulateFrame ==
  LET input == InputOf(restored.frame)
      frame == restored.frame + 1
      world == Step(restored.world, input)
  IN
  /\ pc = "resimulating"
  /\ restored.frame < current.frame
  /\ ~Overflows(restored.world, input)
  /\ FollowsLatest(frame)
  /\ snapshots' = Captured(frame, world)
  /\ restored' = [frame |-> frame, world |-> world]
  /\ UNCHANGED <<current, history, pc, aborted>>

\* A mutant: an iteration that throws leaves what it had reached in current_.
ResimulationThrowsKeepsGoing ==
  /\ pc = "resimulating"
  /\ restored.frame < current.frame
  /\ pc' = "idle"
  /\ current' = [current EXCEPT !.frame = restored.frame]
  /\ aborted' = TRUE
  /\ UNCHANGED <<snapshots, history, restored>>

\* an iteration that throws: the step overflows or memory runs out
ResimulationThrows ==
  /\ pc = "resimulating"
  /\ restored.frame < current.frame
  /\ pc' = "idle"
  /\ aborted' = TRUE
  /\ UNCHANGED <<current, snapshots, history, restored>>

EndCorrection ==
  /\ pc = "resimulating"
  /\ restored.frame >= current.frame
  /\ current' = restored
  /\ pc' = "idle"
  /\ aborted' = FALSE
  /\ UNCHANGED <<snapshots, history, restored>>

EngineNext ==
  \/ \E input \in Inputs : Advance(input)
  \/ \E input \in Inputs : AdvanceThrows(input)
  \/ \E frame \in 0..MaxFrame : RestoreCheckpoint(frame)
  \/ \E frame \in 0..MaxFrame, input \in Inputs :
       BeginCorrection(frame, input)
  \/ ResimulateFrame
  \/ ResimulationThrows
  \/ EndCorrection

EngineSpec == EngineInit /\ [][EngineNext]_engineVars

-----------------------------------------------------------------------------
(* Properties *)

\* Every variable keeps its type: no action leaves the frames of the
\* behaviour or stores what is not a world or an input.
EngineTypeOK ==
  /\ current \in Timed
  /\ IsPartialFunction(snapshots, Worlds)
  /\ IsPartialFunction(history, Inputs)
  /\ pc \in {"idle", "resimulating"}
  /\ restored \in Timed
  /\ aborted \in BOOLEAN

\* The retained timeline is what simulating the recorded inputs gives: every
\* retained world is the step of the retained world before it with the input
\* on record, through advances, corrections, restores and exceptions in the
\* middle of any of them (rollback.cpp:22-76).  In particular the input of
\* every frame that can still be corrected past is on record and never
\* replaced by the empty one the loop falls back to.
TimelineIsReplay ==
  \A f \in DOMAIN snapshots :
    f + 1 \in DOMAIN snapshots =>
      /\ f \in DOMAIN history
      /\ snapshots[f + 1] = Step(snapshots[f], history[f])

\* Between calls the current world is the newest snapshot, unless a
\* correction was cut short by an exception: what the host reads is what a
\* rollback would restore.
CurrentIsNewest ==
  pc = "idle" /\ ~aborted =>
    /\ current.frame \in DOMAIN snapshots
    /\ current.world = snapshots[current.frame]
    /\ \A f \in DOMAIN snapshots : f <= current.frame

\* Inputs are kept for the retained window only (the comment of advance,
\* rollback.cpp:28-30): never an input older than the oldest snapshot, never
\* one of a frame past the current one.
HistoryIsBounded ==
  \A f \in DOMAIN history :
    f <= current.frame /\ \E g \in DOMAIN snapshots : g <= f

\* After a correction that was cut short the engine cannot advance: the half
\* corrected timeline never becomes part of a longer one.  It is left by a
\* restore or by a correction that completes, and a retained frame for either
\* is always there.
AbortedEngineStops ==
  [][aborted /\ pc = "idle" /\ pc' = "idle" /\ aborted' =>
       current' = current /\ snapshots' = snapshots]_engineVars

\* A correction touches no world up to the corrected frame and evicts none
\* while it captures the frames after it again: its own captures never push
\* the window past a frame that could still be corrected
\* (rollback.cpp:56-72).
CorrectionKeepsPast ==
  [][pc' = "resimulating" =>
       \A f \in DOMAIN snapshots :
         f <= restored'.frame =>
           f \in DOMAIN snapshots' /\ snapshots'[f] = snapshots[f]]_engineVars

=============================================================================
