---- MODULE PairHistories ----
(***************************************************************************)
(* What the histories of broadphase pairs have in common                   *)
(* (versioned_island_pair_history.cpp, dynamic_island_pair_history.cpp,    *)
(* segmented_dynamic_pair_history.cpp, paged_segmented_pair_history.cpp):  *)
(* contacts cut the bodies into islands, pools of reference counted        *)
(* generations hold the immutable payloads, and a ring of snapshots,       *)
(* indexed by frame % capacity, refers to them.                            *)
(*                                                                         *)
(* A pair is <<first, second>> with first < second (canonical_pair); a     *)
(* list of distinct pairs is its set, and a restored list is the set in    *)
(* ascending order.  The signature of a topology stands for the contacts   *)
(* it is the hash of: collisions are left out.                             *)
(***************************************************************************)
EXTENDS Integers, FiniteSetsExt, SequencesExt

CONSTANTS
    N,         \* bodies of the world
    Capacity   \* snapshots a history retains (history_capacity)

PairHistoriesAssumption == N \in Nat \ {0} /\ Capacity \in Nat /\ Capacity >= 2

Bodies == 0 .. N - 1
AllPairs == {p \in Bodies \X Bodies : p[1] < p[2]}
None == -1          \* no_generation
NoFrame == -1       \* empty_frame
Staging == -1       \* staging_refcount: acquired, not yet owned by anything

(***************************************************************************)
(* build_topology: union-find in which the smaller root wins, so that the  *)
(* key of an island is its smallest body.                                  *)
(***************************************************************************)
Unite(roots, c) ==
    LET first == roots[c[1]]
        second == roots[c[2]]
    IN [b \in Bodies |-> IF roots[b] \in {first, second}
                         THEN Min({first, second}) ELSE roots[b]]

Keys(contacts) == FoldSet(LAMBDA c, roots : Unite(roots, c), [b \in Bodies |-> b], contacts)

\* The islands as the older histories number them, in the order in which the
\* loop over the bodies meets them (root_to_island).
IslandNumbers(keys) ==
    [b \in Bodies |-> Cardinality({k \in Range(keys) : k < keys[b]})]

\* The pairs of one island, and those that join two of them.
Within(pairs, keys, k) == {p \in pairs : keys[p[1]] = k /\ keys[p[2]] = k}
Spill(pairs, keys) == {p \in pairs : keys[p[1]] # keys[p[2]]}

\* std::sort over BroadphasePair.
Precedes(p, q) == p[1] < q[1] \/ (p[1] = q[1] /\ p[2] < q[2])
Sorted(pairs) == SetToSortSeq(pairs, Precedes)

(***************************************************************************)
(* A pool of generations: index -> references and payload.                 *)
(***************************************************************************)
Unused == [refs |-> 0, item |-> None]
EmptyPool(size) == [i \in 0 .. size - 1 |-> Unused]

Free(pool) == {i \in DOMAIN pool : pool[i].refs = 0}
Exhausted(pool, count) == Cardinality(Free(pool)) < count

\* acquire_*: the first free generation, held by the capture in progress.
Acquired(pool) == Min(Free(pool))
Staged(pool, i, item) == [pool EXCEPT ![i] = [refs |-> Staging, item |-> item]]

\* The references a committed snapshot takes: one for what was staged, one
\* more for what is shared.
Committed(pool, ids) ==
    [i \in DOMAIN pool |->
        IF i \notin ids THEN pool[i]
        ELSE [pool[i] EXCEPT !.refs = IF @ = Staging THEN 1 ELSE @ + 1]]

\* release_*: a generation nobody refers to any more is free again.
Released(pool, ids) ==
    [i \in DOMAIN pool |->
        IF i \notin ids \/ pool[i].refs \in {0, Staging} THEN pool[i]
        ELSE IF pool[i].refs = 1 THEN Unused
        ELSE [pool[i] EXCEPT !.refs = @ - 1]]

\* release_staging: what a capture that throws had acquired.
WithoutStaged(pool) ==
    [i \in DOMAIN pool |-> IF pool[i].refs = Staging THEN Unused ELSE pool[i]]

\* What release_table drops when it gives back the last reference.
LastReference(pool, i) == i \in DOMAIN pool /\ pool[i].refs = 1

(***************************************************************************)
(* The ring of snapshots.                                                  *)
(***************************************************************************)
SlotOf(frame) == frame % Capacity
EmptyRing == [s \in 0 .. Capacity - 1 |-> [frame |-> NoFrame]]
Holds(snapshots, frame) == snapshots[SlotOf(frame)].frame = frame
RetainedFrames(snapshots) == {snapshots[s].frame : s \in DOMAIN snapshots} \ {NoFrame}

(***************************************************************************)
(* What the caller hands to a capture besides the frame: the contacts and  *)
(* the pairs of the world, whether the list also names a body out of       *)
(* range, and the hints: bodies whose pairs may differ from the frame      *)
(* before, whether the contacts changed, and whether each hint is          *)
(* complete.                                                               *)
(***************************************************************************)
BodiesOf(pairs) == UNION {{p[1], p[2]} : p \in pairs}
ChangedBodies(old, new) == BodiesOf((old \ new) \union (new \ old))

Answer(ok, h) == [ok |-> ok, h |-> h]
====
