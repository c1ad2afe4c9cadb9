---------------------------- MODULE AtomicPhysics ----------------------------
(***************************************************************************)
(* AtomicPhysicsEngine of src/atomic_physics.cpp: velocities, masses and a *)
(* manifold of contacts, mutated by the input of a frame and projected;    *)
(* every frame is copied into a ring.  Positions are copied with the rest  *)
(* and never change, so they are left out.  A step that throws leaves the  *)
(* mutations it had made, and the caller restores or corrects.  The input  *)
(* of a frame is set before the frame is simulated, none of a later one.   *)
(***************************************************************************)
EXTENDS TemporalKernel

CONSTANTS
  World,           \* initial bodies and contacts
  Inputs,          \* bound: the inputs of a frame
  MaxFrame,        \* bound: frames
  MaxCorrections   \* bound: restores and corrections

VARIABLES
  state,         \* the live arrays; lookup is the manifold the matching map was built from
  snapshots,     \* snapshots_
  inputs,        \* inputs_: slot -> frame and input
  script,        \* the inputs in force, by frame
  failed,        \* the last step threw and nothing was restored since
  refused,       \* a correction of a frame no longer retained was refused
  corrections    \* bound

vars == <<state, snapshots, inputs, script, failed, refused, corrections>>

Start ==
  LET manifold == [c \in ContactIds |-> Canonical(World.manifold[c])]
  IN  [frame |-> 0, vel |-> World.vel, mass |-> World.mass, manifold |-> manifold,
       dual |-> [c \in ContactIds |-> 0], lookup |-> manifold]

\* The mutations of a frame in order; the first that is not valid throws.
Touch(r, m, valid, s) ==
  IF ~r.ok \/ ~valid THEN [r EXCEPT !.ok = FALSE]
  ELSE [r EXCEPT !.s = s, !.dirty = @ \union ({ContactOf(r.s.lookup, m[1])} \ {-1})]

MutateBodies(s, input) ==
  LET velocity(r, m) == Touch(r, m, m[1] \in Bodies, [r.s EXCEPT !.vel[m[1]] = @ + m[2]])
      mass(r, m) == Touch(r, m, m[1] \in Bodies /\ m[2] # 0, [r.s EXCEPT !.mass[m[1]] = m[2]])
  IN  FoldLeft(mass, FoldLeft(velocity, [ok |-> TRUE, s |-> s, dirty |-> {}], input.velocity),
               input.mass)

MutateContacts(r, contacts) ==
  FoldLeft(LAMBDA x, m :
             IF ~x.ok \/ m[1] \notin ContactIds \/ m[2].first = m[2].second
             THEN [x EXCEPT !.ok = FALSE]
             ELSE [x EXCEPT !.s.manifold[m[1]] = Canonical(m[2]), !.dirty = @ \union {m[1]}],
           r, contacts)

\* rebuild_matching_map, when a contact changed; it throws for a contact
\* beyond the bodies.
Mapped(r, changed) ==
  IF ~r.ok \/ ~changed THEN r
  ELSE IF \E c \in ContactIds : ~(Ends(r.s.manifold[c]) \subseteq Bodies)
       THEN [r EXCEPT !.ok = FALSE]
       ELSE [r EXCEPT !.s.lookup = r.s.manifold]

\* The contacts projected: those that are dirty in a matching, or all.  The
\* projection refuses two equal contacts and sorts them; their impulses are
\* handed to the contacts in the order before the sort.
ProjectDirty(r) ==
  LET matching == Matching(r.s.lookup)
      ids == SetToSortSeq(IF matching THEN r.dirty ELSE ContactIds, <)
      contacts == [i \in DOMAIN ids |-> r.s.manifold[ids[i]]]
      kept(solved) ==
        [r EXCEPT !.s.vel = solved.vel,
                  !.s.dual = [c \in ContactIds |->
                     IF c \in Range(ids) THEN solved.dual[CHOOSE i \in DOMAIN ids : ids[i] = c]
                     ELSE @[c]]]
  IN  IF ~r.ok \/ ids = <<>> THEN r
      ELSE IF ~IsInjective(contacts) THEN [r EXCEPT !.ok = FALSE]
      ELSE kept(ProjectFallback(r.s.vel, r.s.mass, contacts))

\* step_one without its capture
StepState(s, input) ==
  LET ended(r) == Result(r.ok, IF r.ok THEN [r.s EXCEPT !.frame = @ + 1] ELSE r.s)
  IN  ended(ProjectDirty(Mapped(MutateContacts(MutateBodies(s, input), input.contact),
                                input.contact # <<>>)))

Capture(ring, s) == [ring EXCEPT ![SlotOf(s.frame)] =
  [frame |-> s.frame, vel |-> s.vel, mass |-> s.mass, dual |-> s.dual, manifold |-> s.manifold]]

FindInput(ring, f) == IF ring[SlotOf(f)].frame = f THEN ring[SlotOf(f)].input ELSE NoInput

SetInput(ring, f, input) == [ring EXCEPT ![SlotOf(f)] = [frame |-> f, input |-> input]]

\* simulate_to
SimulateTo(from, target, ring) ==
  LET kept(x, r) ==
        [ok |-> r.ok, state |-> r.k,
         snapshots |-> IF r.ok THEN Capture(x.snapshots, r.k) ELSE x.snapshots]
  IN  FoldLeft(LAMBDA x, f : IF x.ok THEN kept(x, StepState(x.state, FindInput(ring, f))) ELSE x,
               from, [i \in 1..(target - from.state.frame) |-> from.state.frame + i])

\* A mutant: the map is kept from before the restore.
RestoredKeepsMap(f) ==
  LET slot == snapshots[SlotOf(f)]
  IN  [frame |-> f, vel |-> slot.vel, mass |-> slot.mass, dual |-> slot.dual,
       manifold |-> slot.manifold, lookup |-> state.lookup]

\* restore
Restored(f) ==
  LET slot == snapshots[SlotOf(f)]
  IN  [frame |-> f, vel |-> slot.vel, mass |-> slot.mass, dual |-> slot.dual,
       manifold |-> slot.manifold, lookup |-> slot.manifold]

TruncatedAfter(ring, f) ==
  [s \in DOMAIN ring |-> IF ring[s].frame # NoFrame /\ ring[s].frame > f
                         THEN [frame |-> NoFrame] ELSE ring[s]]

Install(r) ==
  /\ state' = r.state /\ snapshots' = r.snapshots /\ failed' = ~r.ok

Init ==
  /\ state = Start /\ snapshots = Capture(EmptyRing, Start)
  /\ inputs = [s \in 0..(Capacity - 1) |-> [frame |-> NoFrame, input |-> NoInput]]
  /\ script = <<>> /\ failed = FALSE /\ refused = FALSE /\ corrections = 0

\* set_input for the next frame, and simulate_to it
Advance(input) ==
  LET f == state.frame + 1
  IN  /\ ~failed /\ f <= MaxFrame
      /\ inputs' = SetInput(inputs, f, input)
      /\ script' = Append(SubSeq(script, 1, f - 1), input)
      /\ Install(SimulateTo([ok |-> TRUE, state |-> state, snapshots |-> snapshots], f, inputs'))
      /\ UNCHANGED <<refused, corrections>>

Restore(f) ==
  /\ corrections < MaxCorrections
  /\ f \in RetainedFrames(snapshots) /\ f <= state.frame
  /\ Install([ok |-> TRUE, state |-> Restored(f), snapshots |-> snapshots])
  /\ script' = SubSeq(script, 1, f)
  /\ corrections' = corrections + 1
  /\ UNCHANGED <<inputs, refused>>

\* correct_and_resimulate, up to where the engine is or to the next frame: the
\* input is stored before the restore is tried, in the slot of a frame that may
\* still be needed.
Correct(f, input) ==
  /\ corrections < MaxCorrections
  /\ f \in 1..(state.frame + 1) /\ f <= MaxFrame
  /\ inputs' = SetInput(inputs, f, input)
  /\ corrections' = corrections + 1
  /\ IF f - 1 \in RetainedFrames(snapshots)
     THEN LET target == Max({f, state.frame})
          IN  /\ Install(SimulateTo([ok |-> TRUE, state |-> Restored(f - 1),
                                     snapshots |-> TruncatedAfter(snapshots, f - 1)],
                                    target, inputs'))
              /\ script' = [g \in 1..target |-> IF g = f THEN input ELSE script[g]]
              /\ UNCHANGED refused
     ELSE /\ refused' = TRUE
          /\ UNCHANGED <<state, snapshots, failed, script>>

Next ==
  \/ \E input \in Inputs : Advance(input)
  \/ \E f \in 0..MaxFrame : Restore(f)
  \/ \E f \in 1..MaxFrame, input \in Inputs : Correct(f, input)

Spec == Init /\ [][Next]_vars

-----------------------------------------------------------------------------
CleanRun ==
  LET run[n \in 0..Len(script)] == IF n = 0 THEN Start ELSE StepState(run[n - 1], script[n]).k
  IN  run

\* As long as no correction was refused, after any restores and corrections,
\* the engine and every frame it retains are what a clean run of the inputs in force makes them,
\* and so is the matching map the next step reads (rollback.equivalent_to(clean)
\* of apps/v15_fuzz.cpp:44).
AtomicRollbackEqualsClean ==
  LET agree(clean) ==
        /\ state = clean[state.frame]
        /\ \A f \in RetainedFrames(snapshots) : f <= state.frame => Restored(f) = clean[f]
  IN  ~failed /\ ~refused => agree(CleanRun)
=============================================================================
