---- MODULE TemporalKernel ----
(***************************************************************************)
(* AtomicTemporalPhysicsEngine (atomic_temporal_physics.cpp) without its   *)
(* history: one step of bodies that move, contacts that push them apart,   *)
(* and a cache of the pairs that can meet within a horizon of frames.      *)
(*                                                                         *)
(* Abstractions.  Bodies move along one axis, a normal is 1 or -1, and one *)
(* unit of velocity is one unit of position in a frame.  A topology        *)
(* signature is the manifold it is the hash of.  The structured solvers    *)
(* (single tree, axis forest) are switched off, as they are by default,    *)
(* the feasibility tolerance is less than the unit of velocity,            *)
(* and the pair cache has room for every pair.  Arrays are functions from  *)
(* 0 on, so that the pages of a history can cut them.                      *)
(***************************************************************************)
EXTENDS PairHistories

CONSTANTS
    M,            \* contacts of the manifold (config.contacts)
    HalfExtent,   \* half_extent
    Horizon,      \* horizon_frames
    Guard,        \* velocity_mutation_guard_raw
    Iterations    \* projection.maximum_iterations

KernelAssumption ==
    /\ M \in Nat /\ Horizon \in Nat \ {0} /\ Iterations \in Nat \ {0}
    /\ HalfExtent \in Nat /\ Guard \in Nat

ContactIds == 0 .. M - 1
Array(seq) == [i \in 0 .. Len(seq) - 1 |-> seq[i + 1]]

(***************************************************************************)
(* Contacts.                                                               *)
(***************************************************************************)
Contact(first, second, normal) == [first |-> first, second |-> second, normal |-> normal]
Canonical(c) == IF c.second < c.first THEN Contact(c.second, c.first, -c.normal) ELSE c
Ends(c) == {c.first, c.second}
PairOf(c) == <<c.first, c.second>>
JoinedPairs(manifold) == {PairOf(manifold[c]) : c \in ContactIds}

\* rebuild_contact_lookup: the last contact of a body, whether no body has
\* two, and the contact a pair stands for.
ContactOf(lookup, b) == Max({-1} \union {c \in ContactIds : b \in Ends(lookup[c])})
Matching(lookup) ==
    \A c, d \in ContactIds : c # d => Ends(lookup[c]) \intersect Ends(lookup[d]) = {}
ContactForPair(lookup, p) ==
    IF Matching(lookup)
    THEN IF ContactOf(lookup, p[1]) = ContactOf(lookup, p[2]) /\ ContactOf(lookup, p[1]) >= 0
         THEN ContactOf(lookup, p[1]) ELSE M
    ELSE Min({M} \union {c \in ContactIds : PairOf(lookup[c]) = p})

CandidateMap(lookup, pairs) ==
    [c \in ContactIds |-> \E p \in Range(pairs) : ContactForPair(lookup, p) = c]

(***************************************************************************)
(* Projection of velocities (arbitrary_normal_projection.cpp).             *)
(***************************************************************************)
\* rounded_div_ties_to_floor.
Nearest(a, b) == -((b - 2 * a) \div (2 * b))

\* project_pair: two bodies that approach get the velocity of their centre of
\* mass along the normal.
ProjectPair(vel, mass, c) ==
    LET first == c.normal * vel[c.first]
        second == c.normal * vel[c.second]
        sum == mass[c.first] + mass[c.second]
        common == Nearest(mass[c.first] * first + mass[c.second] * second, sum)
    IN IF first <= second THEN [vel |-> vel, impulse |-> 0]
       ELSE [vel |-> [b \in Bodies |-> IF b \in Ends(c) THEN c.normal * common ELSE vel[b]],
             impulse |-> Nearest((first - second) * mass[c.first] * mass[c.second], sum)]

Violated(vel, contacts) ==
    \E i \in DOMAIN contacts :
        contacts[i].normal * vel[contacts[i].first] > contacts[i].normal * vel[contacts[i].second]

\* One pass over the contacts; the impulses add up.
Sweep(s, mass, contacts) ==
    FoldLeft(LAMBDA t, i :
                LET p == ProjectPair(t.vel, mass, contacts[i])
                IN [vel |-> p.vel, dual |-> [t.dual EXCEPT ![i] = @ + p.impulse]],
             s, [i \in 1 .. Len(contacts) |-> i])

\* project_verified_matching_inplace.
ProjectMatching(vel, mass, contacts) ==
    Sweep([vel |-> vel, dual |-> [i \in DOMAIN contacts |-> 0]], mass, contacts)

\* project_arbitrary_normals_inplace: the contacts in ascending order, swept
\* until none is violated or the iterations are used up.
ContactLess(c, d) ==
    \/ Precedes(PairOf(c), PairOf(d))
    \/ PairOf(c) = PairOf(d) /\ c.normal < d.normal
ProjectFallback(vel, mass, contacts) ==
    LET sorted == SortSeq(contacts, ContactLess)
        start == [vel |-> vel, dual |-> [i \in DOMAIN contacts |-> 0]]
    IN FoldLeft(LAMBDA s, n : IF n > 1 /\ ~Violated(s.vel, sorted) THEN s
                              ELSE Sweep(s, mass, sorted),
                start, [n \in 1 .. Iterations |-> n])

(***************************************************************************)
(* The temporal cache.                                                     *)
(***************************************************************************)
Overlaps(a, b) == a[1] <= b[2] /\ b[1] <= a[2]
Encloses(outer, inner) == outer[1] <= inner[1] /\ inner[2] <= outer[2]

\* make_bound_range, and make_transition_bound.
BoundOver(points) == <<Min(points) - HalfExtent, Max(points) + HalfExtent>>
BoundRange(position, slowest, fastest) ==
    BoundOver({position, position + slowest * Horizon, position + fastest * Horizon})
TransitionBound(position, velocity, remaining) ==
    BoundOver({position, position + velocity, position + velocity + velocity * remaining})

\* rebuild_temporal_cache: bounds wide enough for the velocity as it is, as
\* the contacts would leave it, and for a mutation of the size of the guard.
RebuildCache(k) ==
    LET guard == IF Matching(k.lookup)
                 THEN ProjectMatching(k.vel, k.mass, [i \in 1 .. M |-> k.manifold[i - 1]]).vel
                 ELSE k.vel
        boundsFor(contacts) == [b \in Bodies |->
            BoundRange(k.pos[b], Min({k.vel[b], contacts[b]}) - Guard,
                                 Max({k.vel[b], contacts[b]}) + Guard)]
        pairsOf(bounds) == Array(Sorted({p \in AllPairs : Overlaps(bounds[p[1]], bounds[p[2]])}))
        with(bounds, pairs) ==
            [k EXCEPT !.bounds = bounds, !.pairs = pairs, !.rebuilt = TRUE,
                      !.candidate = CandidateMap(k.lookup, pairs),
                      !.validUntil = k.frame + Horizon]
        rebuilt(bounds) == with(bounds, pairsOf(bounds))
    IN rebuilt(boundsFor(guard))

\* narrowphase_pair: the two bodies touch at some moment of the step.
Narrowphase(k, c) ==
    LET relative == k.pos[c.second] - k.pos[c.first]
        delta == k.vel[c.second] - k.vel[c.first]
    IN Overlaps(<<Min({relative, relative + delta}), Max({relative, relative + delta})>>,
                <<-2 * HalfExtent, 2 * HalfExtent>>)

(***************************************************************************)
(* Inputs: [velocity, mass, contact], sequences of mutations.  An invalid  *)
(* one throws and leaves those before it applied.                          *)
(***************************************************************************)
NoInput == [velocity |-> <<>>, mass |-> <<>>, contact |-> <<>>]
Result(ok, k) == [ok |-> ok, k |-> k]

\* mark_body_for_cache_check, and the contact of the body is dirty.
Marked(k, b) ==
    [k EXCEPT !.checked = @ \union {b},
              !.dirty = @ \union ({ContactOf(k.lookup, b)} \ {-1})]

MutateVelocity(r, m) ==
    IF ~r.ok \/ m[1] \notin Bodies THEN Result(FALSE, r.k)
    ELSE Result(TRUE, Marked([r.k EXCEPT !.vel[m[1]] = @ + m[2]], m[1]))
MutateMass(r, m) ==
    IF ~r.ok \/ m[1] \notin Bodies \/ m[2] = 0 THEN Result(FALSE, r.k)
    ELSE Result(TRUE, Marked([r.k EXCEPT !.mass[m[1]] = m[2]], m[1]))
MutateContact(r, m) ==
    IF ~r.ok \/ m[1] \notin ContactIds THEN Result(FALSE, r.k)
    ELSE Result(TRUE, [r.k EXCEPT
            !.checked = @ \union Ends(r.k.manifold[m[1]]) \union Ends(m[2]),
            !.manifold[m[1]] = Canonical(m[2]),
            !.dirty = @ \union {m[1]}, !.stable[m[1]] = FALSE, !.topology = TRUE])

Apply(k, input) ==
    FoldLeft(MutateContact,
        FoldLeft(MutateMass,
            FoldLeft(MutateVelocity, Result(TRUE, k), input.velocity), input.mass), input.contact)

\* rebuild_contact_lookup, rebuild_island_index and rebuild_candidate_map
\* after a change of the manifold; expand_cache_checks_to_islands.
Indexed(k) ==
    IF ~k.topology THEN k
    ELSE [k EXCEPT !.lookup = k.manifold, !.islands = k.manifold,
                   !.candidate = CandidateMap(k.manifold, k.pairs)]
Expanded(k) ==
    LET keys == Keys(JoinedPairs(k.islands))
    IN [k EXCEPT !.checked = {b \in Bodies : \E d \in k.checked : keys[b] = keys[d]}]

(***************************************************************************)
(* step_one.  A contact that was stable and that nothing touched keeps its *)
(* certificate: it is active without a test and is not projected.          *)
(***************************************************************************)
Reusable(k, c) == k.stable[c] /\ c \notin k.dirty

ActiveContacts(k) ==
    {c \in ContactIds : k.candidate[c] /\ (Reusable(k, c) \/ Narrowphase(k, k.manifold[c]))}

\* Which contacts are active, which of them are to be projected, and what
\* that makes dirty.
Classified(k) ==
    LET active == ActiveContacts(k)
        reused == {c \in active : Reusable(k, c)}
    IN [k |-> [k EXCEPT !.dirty = @ \union (active \ reused)
                                    \union {c \in ContactIds \ active : k.stable[c]},
                        !.stable = [c \in ContactIds |-> c \in active /\ k.stable[c]]],
        active |-> active,
        projected |-> SetToSortSeq(active \ reused, <)]

\* The velocities and impulses of the contacts to project; two equal ones
\* among them are refused by the fallback.
Projected(k, ids) ==
    LET contacts == [i \in DOMAIN ids |-> k.manifold[ids[i]]]
        s == IF Matching(k.lookup) THEN ProjectMatching(k.vel, k.mass, contacts)
             ELSE ProjectFallback(k.vel, k.mass, contacts)
    IN IF ~Matching(k.lookup) /\ ~IsInjective(contacts) THEN Result(FALSE, k)
       ELSE Result(TRUE, [k EXCEPT
               !.vel = s.vel,
               !.dual = [c \in ContactIds |->
                   IF c \in Range(ids) THEN s.dual[CHOOSE i \in DOMAIN ids : ids[i] = c] ELSE @[c]],
               !.checked = @ \union UNION {Ends(contacts[i]) : i \in DOMAIN ids}])

CacheValid(k, force) ==
    /\ ~force
    /\ k.frame + 1 <= k.validUntil
    /\ \A b \in k.checked :
          Encloses(k.bounds[b], TransitionBound(k.pos[b], k.vel[b], k.validUntil - (k.frame + 1)))

\* The end of the step: positions, certificates, and the cache if it no
\* longer holds.
Integrated(k, active, force) ==
    LET next == [k EXCEPT
            !.pos = [b \in Bodies |-> k.pos[b] + k.vel[b]],
            !.moved = {b \in Bodies : k.vel[b] # 0},
            !.stable = [c \in ContactIds |->
                c \in active /\ k.vel[k.manifold[c].first] = k.vel[k.manifold[c].second]],
            !.frame = @ + 1]
    IN IF CacheValid(k, force) THEN next ELSE RebuildCache(next)

Step(k, input, force) ==
    LET cleared == [k EXCEPT !.dirty = {}, !.checked = {}, !.moved = {},
                             !.rebuilt = FALSE, !.topology = FALSE]
        covered(expanded) ==
            IF force \/ k.frame + 1 > k.validUntil THEN RebuildCache(expanded) ELSE expanded
        integrated(projected, active) ==
            IF projected.ok THEN Result(TRUE, Integrated(projected.k, active, force))
            ELSE projected
        solved(classified) ==
            integrated(Projected(classified.k, classified.projected), classified.active)
        stepped(applied) ==
            IF applied.ok THEN solved(Classified(covered(Expanded(Indexed(applied.k)))))
            ELSE applied
    IN stepped(Apply(cleared, input))

\* initialize, without the capture.
Initial(w) ==
    LET manifold == [c \in ContactIds |-> Canonical(w.manifold[c])]
    IN RebuildCache(
        [frame |-> 0, pos |-> w.pos, vel |-> w.vel, mass |-> w.mass,
         dual |-> [c \in ContactIds |-> 0], manifold |-> manifold,
         stable |-> [c \in ContactIds |-> FALSE], candidate |-> [c \in ContactIds |-> FALSE],
         bounds |-> [b \in Bodies |-> <<0, 0>>], pairs |-> <<>>, validUntil |-> 0,
         lookup |-> manifold, islands |-> manifold,
         dirty |-> {}, checked |-> {}, moved |-> {}, rebuilt |-> FALSE, topology |-> FALSE])

\* What equivalent_to compares, with the candidates that the next step reads,
\* and what physically_equivalent_to compares.
Complete(k) == [k EXCEPT !.lookup = 0, !.islands = 0, !.dirty = {}, !.checked = {},
                         !.moved = {}, !.rebuilt = FALSE, !.topology = FALSE]
Physical(k) == [pos |-> k.pos, vel |-> k.vel, mass |-> k.mass, dual |-> k.dual,
                manifold |-> k.manifold]
====
