--------------------------- MODULE ComponentWorld ---------------------------
(***************************************************************************)
(* ComponentWorldState of src/component_world.cpp: the components of the   *)
(* bodies in directories of their own, each a list of pages of values.  A  *)
(* directory without a change is shared with the world before, and so is a *)
(* page; only the values can be told apart here.                           *)
(***************************************************************************)
EXTENDS Integers, Sequences, SequencesExt, FiniteSetsExt, Functions

---------------------------------------------------------------------------
(***************************************************************************)
(* One frame of a world without contacts, in the two ways the repository   *)
(* computes it: step_with_dirty of src/simulation.cpp visits every body,   *)
(* and the steps of the immutable, the radix and the component world visit *)
(* only the bodies that move or that an input command names.               *)
(*                                                                         *)
(* A body has a position and a velocity along each axis; identifiers are   *)
(* the odd numbers, so that commands can name a body that does not exist.  *)
(* Fixed is an integer within -Limit..Limit whose product with the length  *)
(* of a frame is a division by Scale that rounds towards zero.             *)
(***************************************************************************)

CONSTANTS
  BodyCount,   \* bodies of the world
  Axes,        \* the coordinates of a Vec2, in the order they are compared
  Limit,       \* the largest raw value a Fixed can hold
  Scale        \* frames in a unit of time

Bodies == 0..(BodyCount - 1)

\* The value itself.  TLC leaves a function unevaluated until it is compared,
\* and would compute the functions it is made of again at each use.
Evaluated(value) == CHOOSE v \in {value} : v = value

IdOf(body) == 2 * body + 1

\* Fixed::narrow: a value outside the range throws
Fits(value) == value \in -Limit..Limit

\* operator*(Fixed, kSimulationDelta)
TimesDelta(value) ==
  IF value >= 0 THEN value \div Scale ELSE -((-value) \div Scale)

\* canonicalize_inputs: by entity, then by acceleration
Before(left, right) ==
  IF left.entity # right.entity THEN left.entity < right.entity
  ELSE \E i \in DOMAIN Axes :
         /\ left.acceleration[Axes[i]] < right.acceleration[Axes[i]]
         /\ \A j \in 1..(i - 1) :
              left.acceleration[Axes[j]] = right.acceleration[Axes[j]]

Canonicalize(inputs) == SortSeq(inputs, Before)

CommandsFor(inputs, body) ==
  SelectSeq(Canonicalize(inputs), LAMBDA command : command.entity = IdOf(body))

Sum(commands, axis, length) ==
  FoldLeft(LAMBDA total, command : total + command.acceleration[axis],
           0, SubSeq(commands, 1, length))

Acceleration(inputs, body) ==
  LET added(commands) == [axis \in Range(Axes) |-> Sum(commands, axis, Len(commands))]
  IN  added(CommandsFor(inputs, body))

\* The body after the frame: first the velocity, then the position.
After(before, acceleration) ==
  LET moved(velocity) ==
        [velocity |-> velocity,
         position |-> [axis \in Range(Axes) |->
                         before.position[axis] + TimesDelta(velocity[axis])]]
  IN  moved([axis \in Range(Axes) |->
               before.velocity[axis] + TimesDelta(acceleration[axis])])

\* Every sum on the way to the body after the frame fits: otherwise the step
\* throws and the world before it stands.
BodyFits(before, inputs, body) ==
  LET fits(commands, after) ==
        \A axis \in Range(Axes) :
          /\ \A length \in DOMAIN commands : Fits(Sum(commands, axis, length))
          /\ Fits(after.velocity[axis])
          /\ Fits(after.position[axis])
  IN  fits(CommandsFor(inputs, body), After(before, Acceleration(inputs, body)))

\* step_with_dirty
Step(world, inputs) ==
  [body \in Bodies |-> After(world[body], Acceleration(inputs, body))]

StepFits(world, inputs) ==
  \A body \in Bodies : BodyFits(world[body], inputs, body)

\* The components of the bodies in which two worlds differ
\* (dirty_set_describes_transition)
Transition(before, after) ==
  {cell \in Bodies \X {"position", "velocity"} \X Range(Axes) :
     before[cell[1]][cell[2]][cell[3]] # after[cell[1]][cell[2]][cell[3]]}

-----------------------------------------------------------------------------
\* body_is_active
Moves(body) == \E axis \in Range(Axes) : body.velocity[axis] # 0

\* DeterministicActiveSet::from_world and from_immutable
ActiveOf(world) == {body \in Bodies : Moves(world[body])}

\* find_entity_index: commands that name no body select nothing
InputBodies(inputs) ==
  {body \in Bodies : \E i \in DOMAIN inputs : inputs[i].entity = IdOf(body)}

\* A mutant: the bodies that stand still are not looked at.
CandidatesMoving(active, inputs) == active

\* set_union of the active bodies and of those the commands name
Candidates(active, inputs) == active \union InputBodies(inputs)

CandidatesFit(world, active, inputs) ==
  \A body \in Candidates(active, inputs) : BodyFits(world[body], inputs, body)

\* A mutant: the bodies that were active stay in the set, and no other joins.
ActiveStepSameSet(world, active, inputs) ==
  LET collected(after) ==
        [changed |-> Restrict(after, {body \in DOMAIN after : after[body] # world[body]}),
         active |-> {body \in active : Moves(after[body])}]
  IN  collected([body \in Candidates(active, inputs) |->
                   After(world[body], Acceleration(inputs, body))])

\* What the loop over the candidates of step_immutable_active and of
\* step_radix_active collects: the bodies that change and the bodies that
\* move afterwards.
ActiveStepOf(world, active, inputs) ==
  LET collected(after) ==
        [changed |-> Restrict(after, {body \in DOMAIN after : after[body] # world[body]}),
         active |-> {body \in DOMAIN after : Moves(after[body])}]
  IN  collected(Evaluated([body \in Candidates(active, inputs) |->
                             After(world[body], Acceleration(inputs, body))]))

---------------------------------------------------------------------------
CONSTANT PageSize   \* values of a component in a page, not zero

ComponentPageOf(body) == body \div PageSize

ComponentPages == {ComponentPageOf(body) : body \in Bodies}

BodiesOfPage(page) == {body \in Bodies : ComponentPageOf(body) = page}

ComponentsOfBody == {"position", "velocity"} \X Range(Axes)

\* make_directory and make_component_world
MakeComponentWorld(world) ==
  [component \in ComponentsOfBody |->
     [page \in ComponentPages |->
        [body \in BodiesOfPage(page) |->
           world[body][component[1]][component[2]]]]]

\* component_at
ComponentAt(directories, component, body) ==
  directories[component][ComponentPageOf(body)][body]

\* body_at and materialize
MaterializeComponents(directories) == Evaluated(
  [body \in Bodies |->
     [kind \in {"position", "velocity"} |->
        [axis \in Range(Axes) |->
           ComponentAt(directories, <<kind, axis>>, body)]]])

\* apply_component_updates and apply_component_patches_direct: an update is
\* the mask of the components it sets and a value for each.  A page is copied
\* once from the source, then overwritten by every update of it.
ApplyUpdates(directories, updates) ==
  LET selected(component) ==
        {body \in DOMAIN updates : component \in updates[body].mask}
      touched(component) ==
        {ComponentPageOf(body) : body \in selected(component)}
  IN  Evaluated([component \in ComponentsOfBody |->
         [page \in ComponentPages |->
            IF page \notin touched(component)
            THEN directories[component][page]
            ELSE [body \in BodiesOfPage(page) |->
                    IF body \in selected(component)
                    THEN updates[body].body[component[1]][component[2]]
                    ELSE directories[component][page][body]]]])

\* A mutant: the position is marked when the velocity changes.
MaskOfVelocity(before, after) ==
  {component \in ComponentsOfBody :
     before.velocity[component[2]] # after.velocity[component[2]]}

\* The mask of an update (append_direct_update)
MaskOf(before, after) ==
  {component \in ComponentsOfBody :
     before[component[1]][component[2]] # after[component[1]][component[2]]}

DirtyOf(updates) ==
  {<<body, component[1], component[2]>> :
     <<body, component>> \in
       {<<b, c>> \in (DOMAIN updates) \X ComponentsOfBody : c \in updates[b].mask}}

\* step_component_active when there is no input and every body is active: the
\* positions move by the products the vector kernel made of whole pages, the
\* velocities are shared, and the active set is taken as it is.
StepEveryBody(directories, active) ==
  LET moved(body, axis) == TimesDelta(ComponentAt(directories, <<"velocity", axis>>, body))
  IN  [state |-> [component \in ComponentsOfBody |->
                    IF component[1] = "velocity" THEN directories[component]
                    ELSE [page \in ComponentPages |->
                            [body \in BodiesOfPage(page) |->
                               ComponentAt(directories, component, body)
                                 + moved(body, component[2])]]],
       active |-> active,
       dirty |-> {<<body, "position", axis>> : <<body, axis>> \in
                    {<<b, a>> \in Bodies \X Range(Axes) : moved(b, a) # 0}}]

\* The products the general path makes before it looks at the commands; a
\* body with an acceleration has its own made again.
PositionDelta(before, acceleration, axis) ==
  IF \E a \in Range(Axes) : acceleration[a] # 0
  THEN TimesDelta(before.velocity[axis] + TimesDelta(acceleration[axis]))
  ELSE TimesDelta(before.velocity[axis])

\* append_direct_update for the candidates, and the four directories
StepCandidates(directories, active, inputs) ==
  LET stepped(before, acceleration) ==
        [velocity |-> [axis \in Range(Axes) |->
           before.velocity[axis] + TimesDelta(acceleration[axis])],
         position |-> [axis \in Range(Axes) |->
           before.position[axis] + PositionDelta(before, acceleration, axis)]]
      updated(after, updates) ==
        [state |-> ApplyUpdates(directories, updates),
         active |-> {body \in DOMAIN after : Moves(after[body])},
         dirty |-> DirtyOf(updates)]
      compared(world, after) ==
        updated(after, Evaluated(
          [body \in {b \in DOMAIN after : MaskOf(world[b], after[b]) # {}} |->
             [body |-> after[body], mask |-> MaskOf(world[body], after[body])]]))
      from(world) ==
        compared(world, Evaluated([body \in Candidates(active, inputs) |->
                                     stepped(world[body], Acceleration(inputs, body))]))
  IN  from(MaterializeComponents(directories))

\* step_component_active
StepComponentActive(directories, active, inputs) ==
  IF inputs = <<>> /\ Candidates(active, inputs) = Bodies
  THEN StepEveryBody(directories, active)
  ELSE StepCandidates(directories, active, inputs)

\* step_component_active_legacy: bodies are put together, stepped and taken
\* apart again, on one path for all
StepComponentActiveLegacy(directories, active, inputs) ==
  LET updated(step, updates) ==
        [state |-> ApplyUpdates(directories, updates),
         active |-> step.active,
         dirty |-> DirtyOf(updates)]
      masked(world, step) ==
        updated(step, [body \in DOMAIN step.changed |->
                         [body |-> step.changed[body],
                          mask |-> MaskOf(world[body], step.changed[body])]])
      from(world) == masked(world, ActiveStepOf(world, active, inputs))
  IN  from(MaterializeComponents(directories))

\* apply_component_patches refuses patches of no component, and patches that
\* are not of distinct bodies in ascending order.
PatchesValid(patches) ==
  /\ \A i \in DOMAIN patches : patches[i].index \in Bodies /\ patches[i].mask # {}
  /\ \A i \in 2..Len(patches) : patches[i - 1].index < patches[i].index

ApplyComponentPatches(directories, patches) ==
  ApplyUpdates(directories,
    [body \in {patches[i].index : i \in DOMAIN patches} |->
       patches[CHOOSE i \in DOMAIN patches : patches[i].index = body]])

===========================================================================
