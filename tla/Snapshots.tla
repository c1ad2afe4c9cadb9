------------------------------ MODULE Snapshots ------------------------------
(***************************************************************************)
(* What the stores of src/snapshot_store.cpp share: their configuration,   *)
(* the worlds they are given and the dirty sets that come with them.  A    *)
(* world is a vector of bodies, a body a value per component; the stores   *)
(* differ in which of these cells they copy together.                      *)
(***************************************************************************)
EXTENDS Integers

CONSTANTS
  Components,           \* DirtyComponent: identity, position, velocity
  BodyCount,            \* bodies of the world, stable for the stores
  World,                \* bound: the worlds that are captured
  Capacity,             \* config.capacity
  CheckpointInterval,   \* config.checkpoint_interval
  PageBodies,           \* config.page_bodies or persistent_leaf_bodies
  MaxFrame,             \* bound: frames that are captured
  BodyBytes,            \* sizeof(Body)
  PatchBytes,           \* sizeof(BodyPatch)
  PageIndexBytes,       \* sizeof(std::uint32_t)
  MaxPenalty,           \* the 4096 of the hybrid store's switching penalty
  NoDirty               \* the null DirtySet pointer

Bodies == 0..(BodyCount - 1)

\* validate_config, and worlds of the one shape the stores accept
ASSUME SnapshotsAssumption ==
  /\ {BodyCount, Capacity, CheckpointInterval, PageBodies} \subseteq Nat \ {0}
  /\ {MaxFrame, BodyBytes, PatchBytes, PageIndexBytes, MaxPenalty}
       \subseteq Nat
  /\ \A world \in World :
       world = [body \in Bodies |-> [c \in Components |-> world[body][c]]]

\* The cells in which two worlds differ: what step_with_dirty marks
Difference(before, after) ==
  {cell \in Bodies \X Components :
     before[cell[1]][cell[2]] # after[cell[1]][cell[2]]}

\* DirtySet::full
FullDirty == Bodies \X Components

\* What a caller may pass with the world that follows another: the exact
\* difference, everything, or nothing at all
DirtySets(before, after) == {Difference(before, after), FullDirty, NoDirty}

\* changed_indices, and the same choice in the paged and the component
\* store: the cells a capture takes for changed are those of the dirty set,
\* or those of the scan against latest_ when there is none.
ChangedCells(latest, world, dirty) ==
  IF dirty = NoDirty THEN Difference(latest, world) ELSE dirty

BodiesOf(cells) == {cell[1] : cell \in cells}

\* The entity ids ascend with the index of a body and leave gaps.
IdOf(body) == 2 * body + 1

EntityIds == 0..(2 * BodyCount)

\* find_body: the body of the world with this id, or nothing
FindBody(world, entity) ==
  {world[body] : body \in {b \in Bodies : IdOf(b) = entity}}

PageOf(body) == body \div PageBodies

NewestOf(frames) == CHOOSE f \in frames : \A g \in frames : g <= f

OldestOf(frames) == CHOOSE f \in frames : \A g \in frames : f <= g

Nothing == [f \in {} |-> {}]

---------------------------------------------------------------------------
(***************************************************************************)
(* The deque of entries that DeltaCheckpointStore and HybridAdaptiveStore  *)
(* (src/snapshot_store.cpp) share in shape: an entry is a whole world      *)
(* (full) or the bodies that were rewritten since the entry before it.  A  *)
(* whole world rewrites every body, so both are a function from body       *)
(* indices to bodies.                                                      *)
(***************************************************************************)

NewestEntry(entries) == NewestOf(DOMAIN entries)

OldestEntry(entries) == OldestOf(DOMAIN entries)

\* restore: the last whole world up to frame with the patches after it laid
\* over it in order, so that the last entry that writes a body wins.
LastWriter(entries, frame, body) ==
  NewestOf({f \in DOMAIN entries :
              f <= frame /\ body \in DOMAIN entries[f].patch})

RestoreEntries(entries, frame) ==
  [body \in Bodies |-> entries[LastWriter(entries, frame, body)].patch[body]]

\* push_back of an entry
PushEntry(entries, frame, entry) ==
  [f \in DOMAIN entries \cup {frame} |->
     IF f = frame THEN entry ELSE entries[f]]

\* The pop_back loop of truncate_after
PopEntriesAfter(entries, frame) ==
  [f \in {g \in DOMAIN entries : g <= frame} |-> entries[f]]

===========================================================================
