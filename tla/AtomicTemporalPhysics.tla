---- MODULE AtomicTemporalPhysics ----
(***************************************************************************)
(* AtomicTemporalPhysicsEngine with its internal history: a ring of        *)
(* snapshots of the bodies and contacts, the temporal caches they share in *)
(* a pool of 2 * capacity + 1 slots, and a ring of inputs.  The caller     *)
(* sets inputs, steps, restores and corrects, and restores the current     *)
(* frame after a step that threw.                                          *)
(***************************************************************************)
EXTENDS TemporalKernel

CONSTANTS
    World,       \* initial bodies and contacts
    Inputs,      \* the inputs a caller may set
    MaxFrame,    \* bound: the last frame simulated
    MaxCorrections \* bound: restores and corrections of a behaviour

VARIABLES
    kernel,      \* the live arrays (a TemporalKernel record)
    snapshots,   \* snapshots_: slot -> frame, arrays, cache slot and generation
    caches,      \* cache_slots_: slot -> generation, bounds, pairs, validUntil
    current,     \* current_cache_slot_ and current_cache_generation_
    generation,  \* next_cache_generation_
    inputs,      \* inputs_: slot -> frame and input
    script,      \* the inputs in force, by frame: what a clean run is given
    failed,      \* the last step threw and nothing was restored since
    corrections  \* restores and corrections so far

engine == <<kernel, snapshots, caches, current, generation>>
vars == <<engine, inputs, script, failed, corrections>>

CacheSlots == 0 .. 2 * Capacity
NoCache == [generation |-> 0, bounds |-> <<>>, pairs |-> <<>>, validUntil |-> 0]

\* Everything a step or a restore changes.
Engine(k, s, c, cur, g, ok) ==
    [kernel |-> k, snapshots |-> s, caches |-> c, current |-> cur, generation |-> g, ok |-> ok]
Live == Engine(kernel, snapshots, caches, current, generation, TRUE)

AcquireCacheSlotOfCurrent(e) == e.current.slot

\* acquire_cache_slot: the first slot no retained snapshot refers to.
AcquireCacheSlot(e) ==
    Min({c \in CacheSlots : \A s \in DOMAIN e.snapshots :
            \/ e.snapshots[s].frame = NoFrame
            \/ e.snapshots[s].cache.slot # c
            \/ e.snapshots[s].cache.generation # e.caches[c].generation})

\* persist_current_cache, for the cache the kernel has just rebuilt.
PersistCurrentCache(e) ==
    LET c == AcquireCacheSlot(e)
        g == e.generation
    IN [e EXCEPT !.caches[c] = [generation |-> g, bounds |-> e.kernel.bounds,
                                pairs |-> e.kernel.pairs, validUntil |-> e.kernel.validUntil],
                 !.current = [slot |-> c, generation |-> g], !.generation = g + 1]

\* capture.
Capture(e) ==
    LET k == e.kernel
    IN [e EXCEPT !.snapshots[SlotOf(k.frame)] =
            [frame |-> k.frame, cache |-> e.current, pos |-> k.pos, vel |-> k.vel, mass |-> k.mass,
             dual |-> k.dual, manifold |-> k.manifold, stable |-> k.stable]]

FindInput(ring, f) == IF ring[SlotOf(f)].frame = f THEN ring[SlotOf(f)].input ELSE NoInput

\* step_one.  When the cache is rebuilt before the contacts are tested and again
\* at the end of the step, the second takes the slot of the first, to which no
\* snapshot refers yet: one persisted cache stands for both.
StepOne(e, input) ==
    LET captured(after) ==
            IF ~after.ok THEN after
            ELSE Capture(IF after.kernel.rebuilt THEN PersistCurrentCache(after) ELSE after)
        stepped(r) == captured([e EXCEPT !.kernel = r.k, !.ok = r.ok])
    IN stepped(Step(e.kernel, input, FALSE))

\* simulate_to.
SimulateTo(e, target, ring) ==
    FoldLeft(LAMBDA x, f : IF x.ok THEN StepOne(x, FindInput(ring, f)) ELSE x,
             e, [i \in 1 .. target - e.kernel.frame |-> e.kernel.frame + i])

\* restore: the arrays, the cache they were captured with, and the indexes
\* built from them; the islands are left as they are.
Restored(e, f) ==
    LET s == e.snapshots[SlotOf(f)]
        c == e.caches[s.cache.slot]
    IN [e EXCEPT !.current = s.cache,
                 !.kernel = [@ EXCEPT !.pos = s.pos, !.vel = s.vel, !.mass = s.mass,
                     !.dual = s.dual, !.manifold = s.manifold, !.stable = s.stable,
                     !.bounds = c.bounds, !.pairs = c.pairs, !.validUntil = c.validUntil,
                     !.frame = f, !.lookup = s.manifold,
                     !.candidate = CandidateMap(s.manifold, c.pairs)]]

\* The generation the snapshot was captured with is still in its slot.
Restorable(e, f) ==
    LET s == e.snapshots[SlotOf(f)]
    IN s.frame = f /\ e.caches[s.cache.slot].generation = s.cache.generation

TruncatedAfter(e, f) ==
    [e EXCEPT !.snapshots = [s \in DOMAIN @ |->
        IF @[s].frame # NoFrame /\ @[s].frame > f THEN [frame |-> NoFrame] ELSE @[s]]]

Install(e) ==
    /\ kernel' = e.kernel /\ snapshots' = e.snapshots /\ caches' = e.caches
    /\ current' = e.current /\ generation' = e.generation

Init ==
    LET empty == Engine(Initial(World), EmptyRing, [c \in CacheSlots |-> NoCache],
                        [slot |-> 0, generation |-> 0], 1, TRUE)
        e == Capture(PersistCurrentCache(empty))
    IN /\ kernel = e.kernel /\ snapshots = e.snapshots /\ caches = e.caches
       /\ current = e.current /\ generation = e.generation
       /\ inputs = [s \in 0 .. Capacity - 1 |-> [frame |-> NoFrame, input |-> NoInput]]
       /\ script = <<>> /\ failed = FALSE /\ corrections = 0

\* set_input and the step that applies it, one frame at a time.
Advance(input) ==
    LET f == kernel.frame + 1
        ring == [inputs EXCEPT ![SlotOf(f)] = [frame |-> f, input |-> input]]
    IN /\ ~failed /\ f <= MaxFrame
       /\ inputs' = ring
       /\ script' = Append(script, input)
       /\ \E e \in {StepOne(Live, input)} : Install(e) /\ failed' = ~e.ok
       /\ UNCHANGED corrections

\* restore; the future is kept until it is simulated again.
Restore(f) ==
    /\ corrections < MaxCorrections
    /\ f \in RetainedFrames(snapshots) /\ f <= kernel.frame
    /\ Install(Restored(Live, f))
    /\ script' = SubSeq(script, 1, f)
    /\ failed' = FALSE
    /\ corrections' = corrections + 1
    /\ UNCHANGED inputs

\* correct_and_resimulate up to the frame the engine is at.
Correct(f, input) ==
    LET ring == [inputs EXCEPT ![SlotOf(f)] = [frame |-> f, input |-> input]]
        rewound == TruncatedAfter(Restored(Live, f - 1), f - 1)
    IN /\ corrections < MaxCorrections /\ ~failed
       /\ f \in 1 .. kernel.frame /\ f - 1 \in RetainedFrames(snapshots)
       /\ inputs' = ring
       /\ script' = [script EXCEPT ![f] = input]
       /\ \E e \in {SimulateTo(rewound, kernel.frame, ring)} : Install(e) /\ failed' = ~e.ok
       /\ corrections' = corrections + 1

Next ==
    \/ \E input \in Inputs : Advance(input)
    \/ \E f \in 0 .. MaxFrame : Restore(f)
    \/ \E f \in 1 .. MaxFrame, input \in Inputs : Correct(f, input)

Spec == Init /\ [][Next]_vars

(***************************************************************************)
(* Properties.                                                             *)
(***************************************************************************)
\* A run from the start that is given the inputs in force, once each.
CleanRun(force) ==
    LET run[n \in 0 .. Len(script)] ==
            IF n = 0 THEN Initial(World) ELSE Step(run[n - 1], script[n], force).k
    IN run

\* After any restores and corrections the engine is what a clean run of the
\* inputs in force would have made it, and so is every frame it retains: the
\* arrays, the certificates, and the cache, whose slot nobody took over
\* (rollback.equivalent_to(clean) in test_main.cpp and v16_fuzz.cpp).
RollbackEqualsClean ==
    ~failed =>
        LET clean == CleanRun(FALSE)
        IN /\ Complete(kernel) = Complete(clean[kernel.frame])
           /\ \A f \in RetainedFrames(snapshots) : f <= kernel.frame =>
                 /\ Restorable(Live, f)
                 /\ Complete(Restored(Live, f).kernel) = Complete(clean[f])

\* Reusing the temporal cache changes nothing physical: the bodies and
\* contacts are those of an engine that rebuilds the cache in every frame
\* (rollback.physically_equivalent_to(rebuild) in test_main.cpp and
\* v16_fuzz.cpp).
CacheEqualsRebuild ==
    ~failed => Physical(kernel) = Physical(CleanRun(TRUE)[kernel.frame])
====
