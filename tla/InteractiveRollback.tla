------------------------- MODULE InteractiveRollback -------------------------
(***************************************************************************)
(* InteractiveRollbackEngine of src/interactive_rollback.cpp: a ring of    *)
(* versions of a world with contacts, each with the inputs that led to it. *)
(* These inputs are in the PersistentEpochArena of src/epoch_arena.cpp,    *)
(* whose epochs are reused as the frames go on, and a correction reads     *)
(* them back.  A correction takes the versions after its frame away before *)
(* it computes them again, and a step may throw in between.                *)
(***************************************************************************)
EXTENDS ComponentWorld

---------------------------------------------------------------------------
(***************************************************************************)
(* src/contact_solver.cpp: one frame of square bodies that push each       *)
(* other.  The world is integrated, the pairs whose sweeps may meet are    *)
(* searched on a grid, the time of impact of each is computed, and the     *)
(* contacts are resolved: each on its own when no body has two of them,    *)
(* island by island and colour by colour otherwise.                        *)
(*                                                                         *)
(* Times are Fixed too: One is the end of the frame.  The chain solver     *)
(* (connected_solver_mode) is off, as it is by default, and the solver's   *)
(* own results are not narrowed: a body is moved by less than a diameter.  *)
(***************************************************************************)

CONSTANTS
  One,                \* Fixed::scale
  HalfExtent,         \* config.half_extent
  CellSize,           \* config.cell_size, not zero
  MaxCells,           \* config.max_cells_per_body
  PositionIterations, \* config.position_iterations, not zero
  MaxColors           \* maximum_dense_colors

Absolute(value) == IF value < 0 THEN -value ELSE value

\* Division that rounds towards zero
Trunc(a, b) ==
  IF (a < 0) = (b < 0) THEN Absolute(a) \div Absolute(b)
  ELSE -(Absolute(a) \div Absolute(b))

Diameter == 2 * HalfExtent

Pair(first, second) == IF first < second THEN <<first, second>> ELSE <<second, first>>

\* all_pairs
AllPairs == {pair \in Bodies \X Bodies : pair[1] < pair[2]}

PairBefore(p, q) == p[1] < q[1] \/ (p[1] = q[1] /\ p[2] < q[2])

-----------------------------------------------------------------------------
(* The time of impact of two bodies.                                        *)

Touch(a, b) ==
  \A axis \in Range(Axes) : Absolute(b.position[axis] - a.position[axis]) <= Diameter

\* bounded_time_ratio
TimeRatio(numerator, denominator) ==
  Max({-2 * One, Min({2 * One, Trunc(numerator * One, denominator)})})

\* interval_for_axis: an entry of -3 * One and an exit of 3 * One stand for
\* the ones that are not there
IntervalForAxis(start, delta) ==
  IF delta = 0
  THEN [possible |-> Absolute(start) <= Diameter, entry |-> -3 * One, exit |-> 3 * One]
  ELSE LET between(ends) == [possible |-> TRUE, entry |-> Min(ends), exit |-> Max(ends)]
       IN  between({TimeRatio(-Diameter - start, delta), TimeRatio(Diameter - start, delta)})

\* minimum_penetration_axis
LeastPenetration(a, b) ==
  IF Diameter - Absolute(b.position["x"] - a.position["x"])
       <= Diameter - Absolute(b.position["y"] - a.position["y"])
  THEN "x" ELSE "y"

\* narrowphase_values: the contact of a pair, or none
Narrowphase(current, predicted, pair) ==
  LET a == current[pair[1]]
      b == current[pair[2]]
      toA == predicted[pair[1]]
      toB == predicted[pair[2]]
      along(axis) == IntervalForAxis(
        b.position[axis] - a.position[axis],
        (toB.position[axis] - b.position[axis]) - (toA.position[axis] - a.position[axis]))
      axis(x, y) == IF Touch(a, b) THEN LeastPenetration(a, b)
                    ELSE IF y.entry > x.entry THEN "y" ELSE "x"
      contact(x, y, lower, upper) ==
        IF x.possible /\ y.possible /\ lower <= upper
        THEN {[first |-> pair[1], second |-> pair[2], axis |-> axis(x, y), toi |-> lower,
               initial |-> Touch(a, b), final |-> Touch(toA, toB)]}
        ELSE {}
      within(x, y) == contact(x, y, Max({0, x.entry, y.entry}), Min({One, x.exit, y.exit}))
  IN  within(along("x"), along("y"))

\* swept_aabb_contacts_for_pairs: in the order of the pairs
ContactsForPairs(current, predicted, pairs) ==
  SetToSortSeq(UNION {Narrowphase(current, predicted, pair) : pair \in pairs},
               LAMBDA c, d : PairBefore(<<c.first, c.second>>, <<d.first, d.second>>))

\* brute_force_swept_aabb_contacts
BruteForceContacts(current, predicted) == ContactsForPairs(current, predicted, AllPairs)

-----------------------------------------------------------------------------
(* The grid.                                                                *)

\* floor_div_raw
CellsBetween(low, high) == (low \div CellSize)..(high \div CellSize)

SweptRange(current, predicted, body, axis, margin) ==
  LET around(ends) == [low |-> Min(ends) - margin, high |-> Max(ends) + margin]
  IN  around({current[body].position[axis], predicted[body].position[axis]})

CellsOf(current, predicted, body, margin) ==
  LET along(range) == CellsBetween(range.low, range.high)
      swept(axis) == SweptRange(current, predicted, body, axis, margin[axis])
  IN  along(swept("x")) \X along(swept("y"))

\* A mutant: the cells of the positions after the step only.
RasterCandidatesEnd(current, predicted) ==
  LET sharing(cells) == {pair \in AllPairs : cells[pair[1]] \cap cells[pair[2]] # {}}
  IN  sharing([body \in Bodies |->
                 CellsOf(predicted, predicted, body, [axis \in Range(Axes) |-> HalfExtent])])

\* swept_raster_candidates: pairs whose sweeps share a cell; every pair as soon
\* as one body covers too many cells
RasterCandidates(current, predicted) ==
  LET sharing(cells) ==
        IF \E body \in Bodies : Cardinality(cells[body]) > MaxCells THEN AllPairs
        ELSE {pair \in AllPairs : cells[pair[1]] \cap cells[pair[2]] # {}}
  IN  sharing([body \in Bodies |->
                 CellsOf(current, predicted, body, [axis \in Range(Axes) |-> HalfExtent])])

\* A mutant: the other body is taken to stand still.
CenterMarginOwn(current, predicted) == [axis \in Range(Axes) |-> Diameter]

\* The cells around a body in which the centre of another must be looked for:
\* a diameter, and as far as any body moves
CenterMargin(current, predicted) ==
  [axis \in Range(Axes) |->
     Diameter + Max({Absolute(predicted[body].position[axis] - current[body].position[axis]) :
                       body \in Bodies})]

\* center_grid_candidates
CenterCandidates(current, predicted) ==
  LET centre(body) == <<current[body].position["x"] \div CellSize,
                        current[body].position["y"] \div CellSize>>
      near(cells) ==
        IF \E body \in Bodies : Cardinality(cells[body]) > MaxCells THEN AllPairs
        ELSE {pair \in AllPairs : centre(pair[2]) \in cells[pair[1]]}
      within(margin) == near([body \in Bodies |-> CellsOf(current, predicted, body, margin)])
  IN  within(CenterMargin(current, predicted))

\* swept_aabb_contacts, with config.broadphase_mode
SweptContacts(mode, current, predicted) ==
  ContactsForPairs(current, predicted,
    IF mode = "SweptCellRaster" THEN RasterCandidates(current, predicted)
    ELSE CenterCandidates(current, predicted))

-----------------------------------------------------------------------------
(* Resolving one contact.                                                   *)

RelativeAlong(bodies, c, axis) ==
  bodies[c.second].position[axis] - bodies[c.first].position[axis]

\* normal_sign; the first body of a contact has the smaller identifier
NormalSign(relative) == IF relative >= 0 THEN 1 ELSE -1

\* resolve_velocity: bodies that approach get their average velocity
ResolveVelocity(bodies, c, sign) ==
  LET u == bodies[c.first].velocity[c.axis]
      v == bodies[c.second].velocity[c.axis]
  IN  IF (v - u) * sign >= 0 THEN bodies
      ELSE [bodies EXCEPT ![c.first].velocity[c.axis] = Trunc(u + v, 2),
                          ![c.second].velocity[c.axis] = Trunc(u + v, 2)]

\* resolve_swept_crossing: back to the time of impact, then on for what is left
\* of the frame with the velocities after it
ResolveCrossing(start, bodies, c) ==
  LET at(body) == [axis \in Range(Axes) |->
        start[body].position[axis]
          + Trunc((bodies[body].position[axis] - start[body].position[axis]) * c.toi, One)]
      onwards(body) == [axis \in Range(Axes) |->
        body.position[axis] + Trunc(TimesDelta(body.velocity[axis]) * (One - c.toi), One)]
      resolved(impact) ==
        ResolveVelocity(impact, c, NormalSign(RelativeAlong(impact, c, c.axis)))
      departed(after) == [after EXCEPT ![c.first].position = onwards(after[c.first]),
                                       ![c.second].position = onwards(after[c.second])]
  IN  departed(resolved(Evaluated([bodies EXCEPT ![c.first].position = at(c.first),
                                                 ![c.second].position = at(c.second)])))

\* The bodies are moved apart by their penetration, the second one by the
\* larger half.
Separate(bodies, c, sign, penetration) ==
  IF penetration <= 0 THEN bodies
  ELSE [bodies EXCEPT
          ![c.first].position[c.axis] = @ - sign * (penetration \div 2),
          ![c.second].position[c.axis] = @ + sign * (penetration - penetration \div 2)]

\* project_overlap
ProjectOverlap(bodies, c) ==
  LET depth(axis) == Diameter - Absolute(RelativeAlong(bodies, c, axis))
      axis == IF depth("x") < depth("y") THEN "x"
              ELSE IF depth("y") < depth("x") THEN "y" ELSE c.axis
      apart(d, sign) == Separate(ResolveVelocity(bodies, d, sign), d, sign, depth(d.axis))
      along(d) == apart(d, NormalSign(RelativeAlong(bodies, d, d.axis)))
  IN  IF ~Touch(bodies[c.first], bodies[c.second]) THEN bodies
      ELSE along([c EXCEPT !.axis = axis])

\* The contact of bodies that have no other: what solve_matching_contacts and
\* step_component_contacts_matching_fused do with it
ResolveAlone(start, bodies, c) ==
  LET apart(relative, sign) ==
        Separate(ResolveVelocity(bodies, c, sign), c, sign, Diameter - Absolute(relative))
      along(relative) == apart(relative, NormalSign(relative))
  IN  IF ~c.initial /\ ~c.final THEN ResolveCrossing(start, bodies, c)
      ELSE IF c.final THEN along(RelativeAlong(bodies, c, c.axis))
      ELSE bodies

\* contact_drives_island
DrivesIsland(current, predicted, c) ==
  \/ ~c.initial /\ ~c.final
  \/ Absolute(RelativeAlong(predicted, c, c.axis)) < Diameter
  \/ (predicted[c.second].velocity[c.axis] - predicted[c.first].velocity[c.axis])
       * NormalSign(RelativeAlong(current, c, c.axis)) < 0

-----------------------------------------------------------------------------
(* Resolving all of them.                                                   *)

Involved(contacts) ==
  UNION {{contacts[i].first, contacts[i].second} : i \in DOMAIN contacts}

\* contacts_form_matching
FormMatching(contacts) ==
  \A i, j \in DOMAIN contacts :
    i # j => {contacts[i].first, contacts[i].second}
               \cap {contacts[j].first, contacts[j].second} = {}

\* DisjointSet: the bodies that contacts join to a body
IslandOf(contacts, body) ==
  LET reach[n \in 0..BodyCount] ==
        IF n = 0 THEN {body}
        ELSE reach[n - 1] \union Involved(SelectSeq(contacts,
               LAMBDA c : {c.first, c.second} \cap reach[n - 1] # {}))
  IN  reach[BodyCount]

\* The contacts of the islands that at least one contact drives; the islands
\* at rest are skipped.
ActiveContacts(current, predicted, contacts) ==
  LET driving == Involved(SelectSeq(contacts,
                   LAMBDA c : DrivesIsland(current, predicted, c)))
  IN  SelectSeq(contacts, LAMBDA c : IslandOf(contacts, c.first) \cap driving # {})

\* color_contacts: the first colour free of both bodies.  Past the last colour
\* all that remain are one group.
Colors(contacts) ==
  LET color[i \in DOMAIN contacts] ==
        LET used == {color[j] : j \in {k \in 1..(i - 1) :
                       {contacts[k].first, contacts[k].second}
                         \cap {contacts[i].first, contacts[i].second} # {}}}
        IN  IF \E j \in 1..(i - 1) : color[j] = MaxColors THEN MaxColors
            ELSE Min((0..MaxColors) \ used)
  IN  color

InColorOrder(contacts) ==
  LET sorted(color) ==
        SetToSortSeq(DOMAIN contacts, LAMBDA i, j : PairBefore(<<color[i], i>>, <<color[j], j>>))
      taken(order) == [i \in DOMAIN order |-> contacts[order[i]]]
  IN  taken(sorted(Colors(contacts)))

\* The bodies after the crossings and the iterations over the overlaps
ResolveColored(current, predicted, ordered) ==
  FoldLeft(LAMBDA bodies, c : Evaluated(ProjectOverlap(bodies, c)),
           FoldLeft(LAMBDA bodies, c : Evaluated(ResolveCrossing(current, bodies, c)),
                    predicted, SelectSeq(ordered, LAMBDA c : ~c.initial /\ ~c.final)),
           FlattenSeq([i \in 1..PositionIterations |-> ordered]))

\* The world and the active set once the solver has moved some bodies: it
\* patches the components that changed, and its bodies are active when they
\* move.  The patches are made in ascending order of the bodies.
Patched(integrated, solved, involved) ==
  LET patches(predicted, sorted) ==
        Evaluated([i \in DOMAIN sorted |->
          [index |-> sorted[i], body |-> solved[sorted[i]],
           mask |-> MaskOf(predicted[sorted[i]], solved[sorted[i]])]])
      patched(predicted, changed) ==
        [state |-> ApplyComponentPatches(integrated.state,
                     patches(predicted, SetToSortSeq(changed, <))),
         active |-> (integrated.active \ involved)
                      \union {body \in involved : Moves(solved[body])},
         dirty |-> integrated.dirty
                     \union {<<b, c[1], c[2]>> : <<b, c>> \in
                               {<<d, e>> \in changed \X ComponentsOfBody :
                                  e \in MaskOf(predicted[d], solved[d])}}]
      against(predicted) ==
        patched(predicted, {body \in involved : solved[body] # predicted[body]})
  IN  against(MaterializeComponents(integrated.state))

\* solve_matching_contacts
SolveMatching(current, integrated, contacts) ==
  Patched(integrated,
          FoldLeft(LAMBDA bodies, c : Evaluated(ResolveAlone(current, bodies, c)),
                   MaterializeComponents(integrated.state), contacts),
          Involved(contacts))

\* The contacts of the driven islands: what is left of
\* solve_component_contact_constraints when the contacts are no matching
SolveIslands(current, integrated, contacts) ==
  Patched(integrated,
          ResolveColored(current, MaterializeComponents(integrated.state),
                         InColorOrder(contacts)),
          Involved(contacts))

\* solve_component_contact_constraints
SolveConstraints(current, integrated, contacts) ==
  IF contacts = <<>> THEN integrated
  ELSE IF FormMatching(contacts) THEN SolveMatching(current, integrated, contacts)
  ELSE SolveIslands(current, integrated,
         ActiveContacts(current, MaterializeComponents(integrated.state), contacts))

\* The world after the solver, with the contacts it was given
Solved(current, integrated, contacts) ==
  [contacts |-> contacts] @@ SolveConstraints(current, integrated, contacts)

\* step_component_contacts: when nothing moves and no command is given no
\* contact is looked for
StepContacts(mode, directories, active, inputs) ==
  LET current == MaterializeComponents(directories)
      solved(integrated) ==
        Solved(current, integrated,
          IF active = {} /\ inputs = <<>> THEN <<>>
          ELSE SweptContacts(mode, current, MaterializeComponents(integrated.state)))
  IN  solved(StepComponentActive(directories, active, inputs))

\* step_component_contacts_matching_fused, for pairs in which no body is
\* twice: integration, narrowphase and solver in one pass over the pairs, and
\* then over the active bodies without a pair
StepMatchingFused(directories, active, pairs) ==
  LET touched == active \union UNION {{pair[1], pair[2]} : pair \in pairs}
      integrated(current) ==
        Evaluated([body \in Bodies |->
          IF body \in active THEN After(current[body], [axis \in Range(Axes) |-> 0])
          ELSE current[body]])
      updated(solved, contacts, updates) ==
        [state |-> ApplyUpdates(directories, updates),
         active |-> {body \in touched : Moves(solved[body])},
         dirty |-> DirtyOf(updates), contacts |-> contacts]
      compared(current, contacts, solved) ==
        updated(solved, contacts,
                [body \in {b \in touched : solved[b] # current[b]} |->
                   [body |-> solved[body], mask |-> MaskOf(current[body], solved[body])]])
      solve(current, predicted, contacts) ==
        compared(current, contacts,
                 FoldLeft(LAMBDA bodies, c : Evaluated(ResolveAlone(current, bodies, c)),
                          predicted, contacts))
      meet(current, predicted) ==
        solve(current, predicted, ContactsForPairs(current, predicted, pairs))
      from(current) == meet(current, integrated(current))
  IN  from(MaterializeComponents(directories))

---------------------------------------------------------------------------
(***************************************************************************)
(* src/temporal_contact.cpp: a broadphase kept from frame to frame.  Each  *)
(* body has a bound around its path for the next HorizonFrames frames, and *)
(* the pairs are those whose bounds overlap.  A bound is made again only   *)
(* when its body leaves it, and only bodies whose velocity changed or that *)
(* had a contact are looked at.                                            *)
(***************************************************************************)

CONSTANTS
  HorizonFrames,    \* temporal.horizon_frames, not zero
  IncrementalLimit  \* temporal.incremental_body_limit

\* The bound of positions, half an extent wider
BoundAround(points) ==
  [axis \in Range(Axes) |->
     [low |-> Min({p[axis] : p \in points}) - HalfExtent,
      high |-> Max({p[axis] : p \in points}) + HalfExtent]]

\* scaled_displacement_raw: the displacement of one frame, frames times
FutureOf(body, frames) ==
  [axis \in Range(Axes) |->
     body.position[axis] + TimesDelta(body.velocity[axis]) * frames]

\* make_fat_bound_frames
FatBound(body, frames) == BoundAround({body.position, FutureOf(body, frames)})

\* make_fat_bound_transition
TransitionBound(from, to) ==
  BoundAround({from.position, to.position, FutureOf(to, HorizonFrames)})

\* contains_bound and contains_sweep
Encloses(outer, inner) ==
  \A axis \in Range(Axes) :
    inner[axis].low >= outer[axis].low /\ inner[axis].high <= outer[axis].high

Overlaps(b, c) ==
  \A axis \in Range(Axes) : b[axis].low <= c[axis].high /\ c[axis].low <= b[axis].high

\* build_pairs: sweep and prune along x
BuildPairs(bounds) == {pair \in AllPairs : Overlaps(bounds[pair[1]], bounds[pair[2]])}

\* rebuild_from_state and make_temporal_broadphase
Rebuild(world, frame) ==
  LET around(bounds) == [bounds |-> bounds, pairs |-> BuildPairs(bounds),
                         validUntil |-> frame + HorizonFrames]
  IN  around(Evaluated([body \in Bodies |-> FatBound(world[body], HorizonFrames)]))

\* A mutant: pairs between two escaped bodies are not looked for.
UpdatePairsOther(bounds, previous, escaped) ==
  {pair \in previous.pairs : {pair[1], pair[2]} \cap escaped = {}}
    \union {pair \in AllPairs : /\ Cardinality({pair[1], pair[2]} \cap escaped) = 1
                                /\ Overlaps(bounds[pair[1]], bounds[pair[2]])}

\* The pairs after the bounds of some bodies changed: the pairs of the others
\* are kept and those of the escaped searched, or all are searched when too
\* many have escaped
UpdatePairs(bounds, previous, escaped) ==
  IF Cardinality(escaped) <= IncrementalLimit
  THEN {pair \in previous.pairs : {pair[1], pair[2]} \cap escaped = {}}
         \union {pair \in AllPairs : /\ {pair[1], pair[2]} \cap escaped # {}
                                     /\ Overlaps(bounds[pair[1]], bounds[pair[2]])}
  ELSE BuildPairs(bounds)

\* update_escaped_bounds, with the fresh bounds of the escaped bodies
UpdateEscaped(previous, escaped, fresh) ==
  LET within(bounds) == [previous EXCEPT !.bounds = bounds,
                                         !.pairs = UpdatePairs(bounds, previous, escaped)]
  IN  IF escaped = {} THEN previous
      ELSE within(Evaluated([body \in Bodies |->
                    IF body \in escaped THEN fresh[body] ELSE previous.bounds[body]]))

VelocityDirty(dirty) == {cell[1] : cell \in {d \in dirty : d[2] = "velocity"}}

\* A mutant: the bounds are not looked at before the narrowphase.
UpdateForSweepLate(current, predicted, dirty, previous, frame) ==
  IF frame + 1 > previous.validUntil THEN Rebuild(current, frame) ELSE previous

\* update_for_sweep, from the state of a frame to the predicted next one
UpdateForSweep(current, predicted, dirty, previous, frame) ==
  LET sweep(body) == BoundAround({current[body].position, predicted[body].position})
      updated(escaped) ==
        UpdateEscaped(previous, escaped,
          [body \in escaped |-> TransitionBound(current[body], predicted[body])])
  IN  IF frame + 1 > previous.validUntil THEN Rebuild(current, frame)
      ELSE updated({body \in VelocityDirty(dirty) :
                      ~Encloses(previous.bounds[body], sweep(body))})

Suspects(contacts, dirty) == Involved(contacts) \union VelocityDirty(dirty)

\* refresh_after_solver
RefreshAfterSolver(solved, previous, contacts, dirty, frame) ==
  LET required(body) == FatBound(solved[body], previous.validUntil - frame)
      updated(escaped) ==
        UpdateEscaped(previous, escaped,
          [body \in escaped |-> FatBound(solved[body], HorizonFrames)])
  IN  IF frame > previous.validUntil THEN Rebuild(solved, frame)
      ELSE updated({body \in Suspects(contacts, dirty) :
                      ~Encloses(previous.bounds[body], required(body))})

FusedApplies(active, broadphase, inputs, frame) ==
  /\ inputs = <<>> /\ active # {}
  /\ frame < broadphase.validUntil
  /\ broadphase.pairs # {}
  /\ \A p, q \in broadphase.pairs : p # q => {p[1], p[2]} \cap {q[1], q[2]} = {}

\* The end of a frame: the step with the broadphase of the next frame
Refreshed(step, swept, frame) ==
  [broadphase |-> RefreshAfterSolver(MaterializeComponents(step.state), swept,
                                     step.contacts, step.dirty, frame)] @@ step

\* The pairs of the cache, or none, are tested for contact and solved.
SolveSwept(current, integrated, still, swept, frame) ==
  Refreshed(Solved(current, integrated,
                   IF still THEN <<>>
                   ELSE ContactsForPairs(current, MaterializeComponents(integrated.state),
                                         swept.pairs)),
            swept, frame)

\* step_component_contacts_temporal
StepTemporal(directories, active, broadphase, inputs, frame) ==
  LET current == MaterializeComponents(directories)
      solved(integrated) ==
        SolveSwept(current, integrated, active = {} /\ inputs = <<>>,
                   UpdateForSweep(current, MaterializeComponents(integrated.state),
                                  integrated.dirty, broadphase, frame),
                   frame + 1)
  IN  IF FusedApplies(active, broadphase, inputs, frame)
      THEN Refreshed(StepMatchingFused(directories, active, broadphase.pairs),
                     broadphase, frame + 1)
      ELSE solved(StepComponentActive(directories, active, inputs))

---------------------------------------------------------------------------
CONSTANTS
  Initial,          \* the world of frame 0
  Inputs,           \* bound: the lists of commands of a frame
  Capacity,         \* config.capacity, not zero
  MaxFrame,         \* bound: frames
  MaxCorrections    \* bound: corrections

VARIABLES
  cached,       \* config.use_temporal_cache
  mode,         \* config.contacts.broadphase_mode
  versions,     \* versions_: frame -> version, for the frames of the window
  arena,        \* arena_: epoch -> the commands stored in it
  script,       \* the commands of the frames, as they were given
  corrections   \* bound

vars == <<cached, mode, versions, arena, script, corrections>>

\* The arena keeps one epoch for each frame of the window.
EpochOf(frame) == frame % Capacity

\* A mutant: begin_epoch keeps what the epoch held.
StoreInputsAfter(store, frame, inputs) ==
  [store EXCEPT ![EpochOf(frame)] = IF @ = <<>> THEN Canonicalize(inputs) ELSE @]

\* store_inputs: begin_epoch empties the epoch of the destination frame, and
\* the commands are copied into it, or into a block of its own when they are
\* too many.
StoreInputs(store, frame, inputs) ==
  [store EXCEPT ![EpochOf(frame)] = Canonicalize(inputs)]

\* The commands a version points to, in its epoch of the arena
StoredInputs(store, frame, version) ==
  IF version.size = 0 THEN <<>> ELSE store[EpochOf(frame)]

Latest(window) == Max(DOMAIN window)

\* IndexedFrameRing::capture and truncate_after
Captured(window, frame, version) ==
  [f \in {g \in DOMAIN window \union {frame} : g > frame - Capacity} |->
     IF f = frame THEN version ELSE window[f]]

TruncatedAfter(window, frame) == Restrict(window, {f \in DOMAIN window : f <= frame})

\* A step throws when a body leaves the range of Fixed, and so does the search
\* of a grid around its sweep (fixed_from_wide).
CanStep(version, inputs) ==
  LET margin(world, after) ==
        IF mode = "SweptCellRaster" THEN [axis \in Range(Axes) |-> HalfExtent]
        ELSE CenterMargin(world, after)
      gridFits(world, after) ==
        \A body \in Bodies, axis \in Range(Axes) :
          \A end \in Range(SweptRange(world, after, body, axis, margin(world, after)[axis])) :
            Fits(end)
      fits(world) ==
        StepFits(world, inputs) /\ (cached \/ gridFits(world, Step(world, inputs)))
  IN  fits(MaterializeComponents(version.state))

\* Neither does it make a bound that leaves the range.
BoundsFit(broadphase) ==
  \A body \in Bodies, axis \in Range(Axes) :
    Fits(broadphase.bounds[body][axis].low) /\ Fits(broadphase.bounds[body][axis].high)

Thrown(engine) == [engine EXCEPT !.failed = TRUE]

\* The version of a step, captured with its inputs
CapturedStep(engine, frame, inputs, step) ==
  IF ~BoundsFit(step.broadphase) THEN Thrown(engine)
  ELSE [versions |->
          Captured(engine.versions, frame,
            [state |-> step.state, active |-> step.active, size |-> Len(inputs),
             broadphase |-> step.broadphase, contacts |-> step.contacts]),
        arena |-> StoreInputs(engine.arena, frame, inputs), failed |-> FALSE]

\* A step without the cache, whose broadphase is made for the version
StepRebuilt(before, inputs, frame) ==
  LET rebuilt(step) ==
        [broadphase |-> Rebuild(MaterializeComponents(step.state), frame + 1)] @@ step
  IN  rebuilt(StepContacts(mode, before.state, before.active, inputs))

\* advance_internal
Advanced(engine, inputs) ==
  LET frame == Latest(engine.versions)
      before == engine.versions[frame]
  IN  IF engine.failed \/ ~CanStep(before, inputs) THEN Thrown(engine)
      ELSE CapturedStep(engine, frame + 1, inputs,
             IF cached THEN StepTemporal(before.state, before.active, before.broadphase,
                                         inputs, frame)
             ELSE StepRebuilt(before, inputs, frame))

Init ==
  /\ cached \in BOOLEAN
  /\ mode \in {"SweptCellRaster", "CenterGridExpansion"}
  /\ cached => mode = "SweptCellRaster"
  /\ versions = [f \in {0} |->
       [state |-> MakeComponentWorld(Initial), active |-> ActiveOf(Initial),
        broadphase |-> Rebuild(Initial, 0), contacts |-> <<>>, size |-> 0]]
  /\ arena = [epoch \in 0..(Capacity - 1) |-> <<>>]
  /\ script = <<>>
  /\ corrections = 0

\* advance
Advance(inputs) ==
  /\ Latest(versions) < MaxFrame
  /\ \E done \in {Advanced([versions |-> versions, arena |-> arena, failed |-> FALSE], inputs)} :
       /\ versions' = done.versions
       /\ arena' = done.arena
       /\ script' = IF done.failed THEN script ELSE Append(script, inputs)
  /\ UNCHANGED <<cached, mode, corrections>>

\* The commands of the frames from the corrected one on, read from the arena
History(frame, inputs) ==
  [i \in 1..(Latest(versions) - frame) |->
     IF i = 1 THEN Canonicalize(inputs)
     ELSE StoredInputs(arena, frame + i, versions[frame + i])]

\* correct_input_and_resimulate: the commands are copied first; a throw leaves
\* the engine at the frame it had reached, and the rest of them is lost.
Correct(frame, inputs) ==
  /\ corrections < MaxCorrections
  /\ frame < Latest(versions)
  /\ frame \in DOMAIN versions
  /\ \E done \in {FoldLeft(Advanced, [versions |-> TruncatedAfter(versions, frame),
                                      arena |-> arena, failed |-> FALSE],
                            History(frame, inputs))} :
       /\ versions' = done.versions
       /\ arena' = done.arena
       /\ script' = SubSeq([script EXCEPT ![frame + 1] = inputs], 1, Latest(done.versions))
  /\ corrections' = corrections + 1
  /\ UNCHANGED <<cached, mode>>

Next ==
  \/ \E inputs \in Inputs : Advance(inputs)
  \/ \E frame \in 0..(MaxFrame - 1), inputs \in Inputs : Correct(frame, inputs)

Spec == Init /\ [][Next]_vars

-----------------------------------------------------------------------------
\* The frame of the reference: the world is integrated, every pair of bodies is
\* tested for contact, and the contacts are solved.
ReferenceStep(before, inputs) ==
  LET current == MaterializeComponents(before.state)
      version(step) == Restrict(step, {"state", "active", "contacts"})
      solved(integrated) ==
        Solved(current, integrated,
          IF before.active = {} /\ inputs = <<>> THEN <<>>
          ELSE BruteForceContacts(current, MaterializeComponents(integrated.state)))
  IN  version(solved(StepComponentActive(before.state, before.active, inputs)))

ReferenceAt(frame) ==
  FoldLeft(ReferenceStep,
           [state |-> MakeComponentWorld(Initial), active |-> ActiveOf(Initial),
            contacts |-> <<>>],
           SubSeq(script, 1, frame))

AgreesAt(frame) ==
  LET agree(version, reference) ==
        /\ version.state = reference.state
        /\ version.active = reference.active
        /\ version.active = ActiveOf(MaterializeComponents(version.state))
        /\ version.contacts = reference.contacts
  IN  agree(versions[frame], ReferenceAt(frame))

\* The cache of frame 0 and those that replace it expire every HorizonFrames
\* frames.  The frame after that is swept with bounds made of the velocities
\* before its commands (temporal_contact.cpp:246-252).
CommandsAtExpiry(frame) ==
  cached /\ \E f \in 1..(frame - 1) : f % HorizonFrames = 0 /\ script[f + 1] # <<>>

\* Whatever the broadphase (a grid made for the frame or the cache carried
\* through corrections), every retained version has the bodies, the active set
\* and the contacts of a run that tests every pair and was never corrected,
\* as tests/test_main.cpp:1061-1062 and apps/v08_fuzz.cpp:185-197 expect.
BroadphaseLosesNoContact ==
  \A frame \in DOMAIN versions : AgreesAt(frame)

\* The same, as long as no command was given in a frame in which the cache
\* expired (contact_solver.cpp:1391-1422, temporal_contact.cpp:234-447,
\* interactive_rollback.cpp:126-192).
BroadphaseLosesNoContactBetween ==
  \A frame \in DOMAIN versions : CommandsAtExpiry(frame) \/ AgreesAt(frame)

\* The commands a correction reads from the arena are those of its frames: an
\* epoch is never reused while a version of the window points into it
\* (epoch_arena.cpp:30-38, interactive_rollback.cpp:64-73 and 178-183).
StoredInputsSurvive ==
  \A frame \in DOMAIN versions \ {0} :
    (frame - 1) \in DOMAIN versions =>
      StoredInputs(arena, frame, versions[frame]) = Canonicalize(script[frame])

=============================================================================
