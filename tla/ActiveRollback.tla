--------------------------- MODULE ActiveRollback ---------------------------
(***************************************************************************)
(* ActiveRollbackEngine of src/active_world.cpp, with the radix and the    *)
(* component worlds stepped beside it by the same inputs, the way          *)
(* apps/active_fuzz.cpp and apps/v06_fuzz.cpp step them beside the         *)
(* reference.  A version of the engine is a frame, an immutable tree and   *)
(* the bodies that move.  A step throws when a Fixed overflows, and the    *)
(* engine can be in the middle of a correction then.                       *)
(***************************************************************************)
EXTENDS ComponentWorld

---------------------------------------------------------------------------
(***************************************************************************)
(* RadixWorldState of src/radix_world.cpp: chunks of bodies at the leaves  *)
(* of a tree in which a node of level n has Fanout children of level n-1.  *)
(* A node is known by its level and its base, the first chunk below it;    *)
(* a tree is the function from its leaves to their chunks.  Nodes are      *)
(* never changed: a batch of replacements makes new ones on its paths.     *)
(***************************************************************************)

CONSTANTS
  RadixChunkSize,   \* chunk_size, not zero
  Fanout            \* fanout, between 2 and 64

RadixChunkOf(body) == body \div RadixChunkSize

RadixChunks == {RadixChunkOf(body) : body \in Bodies}

\* required_depth: the first power of the fanout that covers the chunks
RadixDepth == CHOOSE d \in 0..BodyCount :
                /\ Cardinality(RadixChunks) <= Fanout ^ d
                /\ \A e \in 0..(d - 1) : Cardinality(RadixChunks) > Fanout ^ e

\* The base of the child of a node that is on the path to a chunk
Below(level, base, index) ==
  base + ((index - base) \div Fanout ^ (level - 1)) * Fanout ^ (level - 1)

\* find_chunk, and the slots replace_batch groups its replacements by: the
\* leaf that is reached from the root on the way to a chunk
LeafFor(index) ==
  LET base[level \in 0..RadixDepth] ==
        IF level = RadixDepth THEN 0
        ELSE Below(level + 1, base[level + 1], index)
  IN  base[0]

\* make_radix_world and build_tree: slots past the last chunk have no child
MakeRadixWorld(world) ==
  [chunk \in RadixChunks |->
     [body \in {b \in Bodies : RadixChunkOf(b) = chunk} |-> world[body]]]

\* body_at and materialize
RadixBodyAt(tree, body) == tree[LeafFor(RadixChunkOf(body))][body]

MaterializeRadix(tree) == [body \in Bodies |-> RadixBodyAt(tree, body)]

\* replace_batch: each leaf that a replacement leads to gets its chunk, every
\* other node is shared with the tree before
ReplaceBatch(tree, chunks) ==
  [leaf \in DOMAIN tree |->
     IF \E index \in DOMAIN chunks : LeafFor(index) = leaf
     THEN chunks[CHOOSE index \in DOMAIN chunks : LeafFor(index) = leaf]
     ELSE tree[leaf]]

\* step_radix_active
StepRadixActive(tree, active, inputs) ==
  LET modified(chunk, changed) ==
        [body \in DOMAIN chunk |->
           IF body \in DOMAIN changed THEN changed[body] ELSE chunk[body]]
      after(step) ==
        [tree |-> ReplaceBatch(tree,
           [index \in {RadixChunkOf(body) : body \in DOMAIN step.changed} |->
              modified(tree[LeafFor(index)], step.changed)]),
         active |-> step.active]
  IN  after(ActiveStepOf(MaterializeRadix(tree), active, inputs))

---------------------------------------------------------------------------
(***************************************************************************)
(* GridBroadphaseState and the island step of src/broadphase.cpp: a grid   *)
(* of cells at least as wide as a body, kept up by the dirty bodies of     *)
(* each step, through which the bodies that move or are commanded wake the *)
(* bodies they overlap.  A cell's sorted members are a set.                *)
(***************************************************************************)

CONSTANTS
  GridCellSize,      \* cell_size
  GridHalfExtent     \* half_extent, at most half of the cell

CellFor(world, body) ==
  [axis \in Range(Axes) |-> world[body].position[axis] \div GridCellSize]

Overlapping(world, b, c) ==
  \A axis \in Range(Axes) :
    LET apart == world[b].position[axis] - world[c].position[axis]
    IN  apart \in -(2 * GridHalfExtent)..(2 * GridHalfExtent)

\* make_grid_broadphase
MakeGrid(world) ==
  LET grid(membership) ==
        [membership |-> membership,
         cells |-> [cell \in Range(membership) |->
                      {body \in Bodies : membership[body] = cell}]]
  IN  Evaluated(grid([body \in Bodies |-> CellFor(world, body)]))

Occupants(grid, cell) == IF cell \in DOMAIN grid.cells THEN grid.cells[cell] ELSE {}

\* One move of update_grid_broadphase: a cell left empty is erased.
MoveMember(grid, body, cell) ==
  LET old == grid.membership[body]
      moved(left) ==
        [membership |-> [grid.membership EXCEPT ![body] = cell],
         cells |-> [c \in (DOMAIN grid.cells \ (IF left = {} THEN {old} ELSE {})) \union {cell} |->
                      CASE c = cell -> Occupants(grid, cell) \union {body}
                        [] c = old /\ c # cell -> left
                        [] OTHER -> grid.cells[c]]]
  IN  moved(Occupants(grid, old) \ {body})

\* A mutant: bodies whose velocity is dirty are moved, the coasting are not.
UpdateGridByVelocity(grid, next, dirty) ==
  LET moved == {body \in Bodies : (\E axis \in Range(Axes) : <<body, "velocity", axis>> \in dirty)
                                  /\ CellFor(next, body) # grid.membership[body]}
  IN  Evaluated(FoldSet(LAMBDA body, g : MoveMember(g, body, CellFor(next, body)), grid, moved))

\* update_grid_broadphase: the bodies whose position is dirty and whose cell
\* is another.
UpdateGrid(grid, next, dirty) ==
  LET moved == {body \in Bodies : (\E axis \in Range(Axes) : <<body, "position", axis>> \in dirty)
                                  /\ CellFor(next, body) # grid.membership[body]}
  IN  Evaluated(FoldSet(LAMBDA body, g : MoveMember(g, body, CellFor(next, body)), grid, moved))

\* The cells around a body's own, and the bodies in them that overlap it.
Around(cell) ==
  {[axis \in Range(Axes) |-> cell[axis] + shift[axis]] : shift \in [Range(Axes) -> -1..1]}

Touched(world, grid, body) ==
  {other \in UNION {Occupants(grid, cell) : cell \in Around(grid.membership[body])} :
     other # body /\ Overlapping(world, body, other)}

\* conservative_island_closure: breadth first, a round for each body at most.
Closure(world, grid, seeds) ==
  FoldLeft(LAMBDA woken, round :
             woken \union UNION {Touched(world, grid, body) : body \in woken},
           seeds, [round \in 1..BodyCount |-> round])

ClosureOverlaps(world, grid, bodies) ==
  {{body, other} : <<body, other>> \in
     {<<b, o>> \in bodies \X Bodies : o \in Touched(world, grid, b)}}

\* step_component_islands: the bodies woken are stepped as if active.
StepIslands(before, inputs) ==
  LET after(world, woken, step) ==
        [state |-> step.state, active |-> step.active, dirty |-> step.dirty,
         grid |-> UpdateGrid(before.grid, MaterializeComponents(step.state), step.dirty),
         woken |-> woken, overlaps |-> ClosureOverlaps(world, before.grid, woken)]
      stepped(world, woken) ==
        after(world, woken, StepComponentActive(before.state, woken, inputs))
      from(world) ==
        stepped(world, Evaluated(Closure(world, before.grid,
                                         Candidates(before.active, inputs))))
  IN  from(MaterializeComponents(before.state))

-----------------------------------------------------------------------------
\* brute_force_overlap_pairs and brute_closure of apps/v06_fuzz.cpp, which
\* look at every pair.
BrutePairs(world) ==
  {{b, c} : <<b, c>> \in {<<x, y>> \in Bodies \X Bodies : x < y /\ Overlapping(world, x, y)}}

BruteClosure(world, seeds) ==
  FoldLeft(LAMBDA woken, round :
             woken \union UNION {pair \in BrutePairs(world) : pair \intersect woken # {}},
           seeds, [round \in 1..BodyCount |-> round])

---------------------------------------------------------------------------
CONSTANTS
  Initial,          \* the world of frame 0
  Inputs,           \* bound: the lists of commands of a frame
  Capacity,         \* snapshot_capacity, not zero
  ChunkSize,        \* chunk_size, not zero
  MaxFrame,         \* bound: frames
  MaxCorrections    \* bound: corrections

VARIABLES
  current,       \* current_
  snapshots,     \* snapshots_, oldest first
  history,       \* input_history_: never trimmed
  worlds,        \* frame -> the other worlds of that frame
  cutShort,      \* a correction has thrown and none has ended since
  corrections    \* bound

vars == <<current, snapshots, history, worlds, cutShort, corrections>>

Tree == INSTANCE ImmutableWorld WITH
          Components <- {"position", "velocity"}, World <- {},
          CheckpointInterval <- 1, PageBodies <- PageSize, BodyBytes <- 1,
          PatchBytes <- 1, PageIndexBytes <- 1, MaxPenalty <- 0, NoDirty <- {}

Version(frame, tree, active) == [frame |-> frame, tree |-> tree, active |-> active]

\* step_immutable_active
StepImmutableActive(version, inputs) ==
  LET after(step) ==
        Version(version.frame + 1,
                Tree!ApplyImmutableUpdates(version.tree, step.changed), step.active)
  IN  after(ActiveStepOf(Tree!Materialize(version.tree), version.active, inputs))

VersionFits(version, inputs) ==
  CandidatesFit(Tree!Materialize(version.tree), version.active, inputs)

\* The worlds beside the engine, after a step from those of a frame.
StepWorlds(before, inputs) ==
  LET after(radix, component, legacy) ==
        [radix |-> radix.tree, radixActive |-> radix.active,
         component |-> component.state, active |-> component.active,
         dirty |-> component.dirty,
         legacy |-> legacy.state, legacyActive |-> legacy.active,
         legacyDirty |-> legacy.dirty, islands |-> StepIslands(before.islands, inputs)]
  IN  after(StepRadixActive(before.radix, before.radixActive, inputs),
            StepComponentActive(before.component, before.active, inputs),
            StepComponentActiveLegacy(before.legacy, before.active, inputs))

FirstWorlds ==
  [radix |-> MakeRadixWorld(Initial), radixActive |-> ActiveOf(Initial),
   component |-> MakeComponentWorld(Initial), active |-> ActiveOf(Initial),
   dirty |-> {}, legacy |-> MakeComponentWorld(Initial),
   legacyActive |-> ActiveOf(Initial), legacyDirty |-> {},
   islands |-> [state |-> MakeComponentWorld(Initial), active |-> ActiveOf(Initial),
                dirty |-> {}, grid |-> MakeGrid(Initial), woken |-> {}, overlaps |-> {}]]

\* The versions after a list of frames' inputs, one after the other, from
\* the last of a list; it ends before a step that throws.
Resimulate(versions, inputs) ==
  FoldLeft(LAMBDA done, commands :
             IF done.failed \/ ~VersionFits(Last(done.versions), commands)
             THEN [done EXCEPT !.failed = TRUE]
             ELSE [done EXCEPT !.versions =
                     Append(@, StepImmutableActive(Last(@), commands))],
           [versions |-> versions, failed |-> FALSE], inputs)

Newest(sequence) ==
  SubSeq(sequence, (IF Len(sequence) > Capacity THEN Len(sequence) - Capacity ELSE 0) + 1,
         Len(sequence))

Init ==
  /\ current = Version(0, Tree!MakeImmutableWorld(Initial), ActiveOf(Initial))
  /\ snapshots = <<current>>
  /\ history = <<>>
  /\ worlds = <<FirstWorlds>>
  /\ cutShort = FALSE
  /\ corrections = 0

\* retain throws unless the version follows the newest retained one.
CanRetain(version) == version.frame = Last(snapshots).frame + 1

\* input_history_[frame] = inputs
Recorded(frame, inputs) ==
  IF frame < Len(history) THEN [history EXCEPT ![frame + 1] = inputs]
  ELSE Append(history, inputs)

\* The other worlds follow the frames the engine retains.
WorldsAfter(frames, inputs) ==
  FoldLeft(LAMBDA done, commands : Append(done, StepWorlds(Last(done), commands)),
           frames, inputs)

\* advance: the inputs are recorded, the step may throw, and current_ is
\* replaced before retain may throw.
Advance(inputs) ==
  /\ current.frame < MaxFrame
  /\ history' = Recorded(current.frame, inputs)
  /\ IF VersionFits(current, inputs)
     THEN /\ current' = StepImmutableActive(current, inputs)
          /\ IF CanRetain(current')
             THEN /\ snapshots' = Newest(Append(snapshots, current'))
                  /\ worlds' = WorldsAfter(worlds, <<inputs>>)
             ELSE UNCHANGED <<snapshots, worlds>>
     ELSE UNCHANGED <<current, snapshots, worlds>>
  /\ UNCHANGED <<cutShort, corrections>>

\* A mutant: the correction starts from the bodies that move now.
RestoredWithCurrentSet(frame) ==
  LET found == CHOOSE i \in DOMAIN snapshots : snapshots[i].frame = frame
  IN  [snapshots[found] EXCEPT !.active = current.active]

\* restore
Restored(frame) ==
  snapshots[CHOOSE i \in DOMAIN snapshots : snapshots[i].frame = frame]

\* correct_input_and_resimulate: what follows the corrected frame is dropped
\* before the frames are computed again, and current_ is replaced last.
Correct(frame, inputs) ==
  LET kept == SelectSeq(snapshots, LAMBDA version : version.frame < frame)
  IN  /\ corrections < MaxCorrections
      /\ frame < current.frame
      /\ \E i \in DOMAIN snapshots : snapshots[i].frame = frame
      /\ history' = Recorded(frame, inputs)
      /\ \E done \in {Resimulate(Append(kept, Restored(frame)),
                                 SubSeq(history', frame + 1, current.frame))} :
           /\ snapshots' = Newest(done.versions)
           /\ worlds' = WorldsAfter(SubSeq(worlds, 1, frame + 1),
                          SubSeq(history', frame + 1, Last(done.versions).frame))
           /\ current' = IF done.failed THEN current ELSE Last(done.versions)
           /\ cutShort' = done.failed
      /\ corrections' = corrections + 1

Next ==
  \/ \E inputs \in Inputs : Advance(inputs)
  \/ \E frame \in 0..(MaxFrame - 1), inputs \in Inputs : Correct(frame, inputs)

Spec == Init /\ [][Next]_vars

-----------------------------------------------------------------------------
\* The world of a frame, as the reference kernel of simulation.cpp computes
\* it from the recorded inputs.
Reference(frame) ==
  FoldLeft(Step, Initial, SubSeq(history, 1, frame))

\* The islands of a frame beside the search over every pair.  A body woken
\* without a command stays active when every body is (the path for a world
\* that moves as a whole), so the active set may hold bodies at rest
\* (broadphase.cpp:129-236, apps/v06_fuzz.cpp:93-108).
IslandsAgree(frame) ==
  LET islands == worlds[frame + 1].islands
      woke(before, seeds) ==
        /\ islands.woken = BruteClosure(before, seeds)
        /\ islands.overlaps = {pair \in BrutePairs(before) : pair \subseteq islands.woken}
      shows(world) ==
        /\ MaterializeComponents(islands.state) = world
        /\ ActiveOf(world) \subseteq islands.active
        /\ islands.grid = MakeGrid(world)
  IN  /\ shows(Reference(frame))
      /\ frame > 0 =>
           woke(Reference(frame - 1),
                Candidates(worlds[frame].islands.active, history[frame]))

\* What every retained version and every world beside it shows is what the
\* reference kernel computes from the recorded inputs, the bodies held active
\* are those that move, and the dirty sets describe the transition, after any
\* number of corrections and of steps that throw (active_world.cpp:99-188 and
\* 239-266, radix_world.cpp:263-354, component_world.cpp:368-611).
WorldsAgree ==
  LET agree(version, other, world) ==
        /\ Tree!Materialize(version.tree) = world
        /\ version.tree = Tree!MakeImmutableWorld(world)
        /\ MaterializeRadix(other.radix) = world
        /\ MaterializeComponents(other.component) = world
        /\ MaterializeComponents(other.legacy) = world
        /\ {version.active, other.radixActive, other.active, other.legacyActive}
             = {ActiveOf(world)}
        /\ version.frame > 0 =>
             {other.dirty, other.legacyDirty, other.islands.dirty}
               = {Transition(Reference(version.frame - 1), world)}
  IN  \A i \in DOMAIN snapshots :
        /\ agree(snapshots[i], worlds[snapshots[i].frame + 1], Reference(snapshots[i].frame))
        /\ IslandsAgree(snapshots[i].frame)

\* Outside the wake of a correction that threw, the current version is the
\* newest retained one, so that the next advance is retained and the next
\* correction has the frames of the window (active_world.cpp:204-266).
CurrentIsRetained ==
  /\ ~cutShort => current = Last(snapshots)
  /\ \A i \in 2..Len(snapshots) : snapshots[i].frame = snapshots[i - 1].frame + 1
  /\ Len(worlds) = Last(snapshots).frame + 1

===========================================================================
