------------------------- MODULE ImmutableHistories -------------------------
(***************************************************************************)
(* The two histories of immutable worlds.  ImmutableRollbackEngine         *)
(* (src/immutable_rollback.cpp) keeps a deque of worlds that share their   *)
(* unchanged chunks; what it does with it (advance,                        *)
(* correct_input_and_resimulate) is what RollbackEngine does, except that  *)
(* its inputs are never trimmed.  PersistentCheckpointHistory              *)
(* (src/persistent_checkpoint.cpp) keeps worlds at the frames the policy   *)
(* chooses, and between them the bodies that changed; a restore applies    *)
(* the changes to the last whole world.                                    *)
(***************************************************************************)
EXTENDS ImmutableWorld

-----------------------------------------------------------------------------
(* ImmutableRollbackEngine *)

VARIABLE trees   \* snapshots_: frame -> immutable world

NewestTree == NewestOf(DOMAIN trees)

TreesInit == trees = Nothing

\* retain of the first world
CaptureFirstTree(frame, world) ==
  /\ trees = Nothing
  /\ trees' = [f \in {frame} |-> MakeImmutableWorld(world)]

\* A mutant: a full window drops the new world's predecessor.
RetainDropsNewest(frame, tree) ==
  [f \in {g \in DOMAIN trees \cup {frame} :
            g # frame - 1 \/ frame - Capacity \notin DOMAIN trees} |->
     IF f = frame THEN tree ELSE trees[f]]

\* retain
Retain(frame, tree) ==
  [f \in {g \in DOMAIN trees \cup {frame} : g > frame - Capacity} |->
     IF f = frame THEN tree ELSE trees[f]]

\* advance: the step of the newest world, then retain
CaptureTree(frame, world) ==
  /\ trees # Nothing
  /\ frame = NewestTree + 1
  /\ trees' = Retain(frame, StepImmutable(trees[NewestTree], world))

TruncateTrees(frame) ==
  /\ frame \in DOMAIN trees
  /\ trees' = [f \in {g \in DOMAIN trees : g <= frame} |-> trees[f]]

\* The Merkle hash of every retained world is the one a world built from
\* nothing has: no step leaves a hash of what a chunk was before
\* (immutable_world.cpp:202-221, 353-424).
HashesAreFresh ==
  \A f \in DOMAIN trees :
    trees[f] = MakeImmutableWorld(Materialize(trees[f]))

\* The history implements the snapshot store.
FullTrees == INSTANCE SnapshotStore WITH
               snapshots <- [f \in DOMAIN trees |-> Materialize(trees[f])]

TreesImplementSnapshotStore == FullTrees!Spec

-----------------------------------------------------------------------------
(* PersistentCheckpointHistory *)

CONSTANTS
  MaxDeltaDepth,        \* config.max_delta_depth
  AdaptiveDensityPpm    \* config.adaptive_density_ppm

Policies == {"Fixed", "Geometric", "Adaptive"}

VARIABLES
  policy,    \* config.policy
  entries,   \* entries_: frame -> [full, tree] or [full, patch]
  depth      \* delta_depth_

NewestCheckpoint == NewestOf(DOMAIN entries)

OldestCheckpoint == OldestOf(DOMAIN entries)

Whole(tree) == [full |-> TRUE, tree |-> tree]

\* restore: the last whole world up to frame, then every change after it
Restore(log, frame) ==
  LET state[f \in DOMAIN log] ==
        IF log[f].full THEN log[f].tree
        ELSE ApplyImmutableUpdates(state[f - 1], log[f].patch)
  IN state[frame]

\* should_checkpoint, of a history that is not empty
ShouldCheckpoint(frame, bodies) ==
  \/ depth >= MaxDeltaDepth
  \/ policy = "Fixed" /\ frame % MaxDeltaDepth = 0
  \/ policy = "Geometric" /\ (\/ \E n \in 0..frame : frame = 2 ^ n
                              \/ frame % MaxDeltaDepth = 0)
  \/ policy = "Adaptive" /\ (Cardinality(bodies) * 1000000) \div BodyCount
                              >= AdaptiveDensityPpm

\* A mutant: the entry after the dropped one is made whole with the world
\* of the dropped one.
EnforceCapacityOldWorld(log) ==
  LET oldest == OldestOf(DOMAIN log) IN
  IF NewestOf(DOMAIN log) - oldest + 1 > Capacity
  THEN [f \in DOMAIN log \ {oldest} |->
          IF f = oldest + 1 THEN Whole(Restore(log, oldest)) ELSE log[f]]
  ELSE log

\* enforce_capacity: the entry after the dropped one is made whole first
EnforceCapacity(log) ==
  LET oldest == OldestOf(DOMAIN log) IN
  IF NewestOf(DOMAIN log) - oldest + 1 > Capacity
  THEN [f \in DOMAIN log \ {oldest} |->
          IF f = oldest + 1 THEN Whole(Restore(log, f)) ELSE log[f]]
  ELSE log

CheckpointsInit ==
  /\ policy \in Policies
  /\ entries = Nothing
  /\ depth = 0

\* capture into an empty history
CaptureFirstCheckpoint(frame, world) ==
  /\ entries = Nothing
  /\ entries' = [f \in {frame} |-> Whole(MakeImmutableWorld(world))]
  /\ depth' = 0
  /\ UNCHANGED policy

\* capture of the immutable world tree with the dirty set of its step
CaptureCheckpoint(frame, tree, dirty) ==
  LET bodies == BodiesOf(dirty)
      whole == ShouldCheckpoint(frame, bodies)
      patch == [body \in bodies |-> Materialize(tree)[body]]
      entry == IF whole THEN Whole(tree) ELSE [full |-> FALSE, patch |-> patch]
  IN
  /\ entries # Nothing
  /\ frame = NewestCheckpoint + 1
  /\ entries' = EnforceCapacity([f \in DOMAIN entries \cup {frame} |->
                                   IF f = frame THEN entry ELSE entries[f]])
  /\ depth' = IF whole THEN 0 ELSE depth + 1
  /\ UNCHANGED policy

\* The changes after the last whole world
DeltasIn(log) ==
  {f \in DOMAIN log : \A g \in DOMAIN log : g >= f => ~log[g].full}

\* truncate_after counts the changes anew
TruncateCheckpoints(frame) ==
  /\ frame \in DOMAIN entries
  /\ entries' = [f \in {g \in DOMAIN entries : g <= frame} |-> entries[f]]
  /\ depth' = Cardinality(DeltasIn(entries'))
  /\ UNCHANGED policy

\* A restore always finds a whole world and applies at most MaxDeltaDepth
\* changes, although promotions are not counted and truncations count again
\* (persistent_checkpoint.cpp:22, 53, 61, 77-92, 102-122).
RestoreIsBounded ==
  entries # Nothing =>
    /\ entries[OldestCheckpoint].full
    /\ Cardinality(DeltasIn(entries)) <= depth
    /\ depth <= MaxDeltaDepth

\* The history implements the snapshot store.
FullCheckpoints == INSTANCE SnapshotStore WITH
                     snapshots <- [f \in DOMAIN entries |->
                                     Materialize(Restore(entries, f))]

CheckpointsImplementSnapshotStore == FullCheckpoints!Spec

=============================================================================
