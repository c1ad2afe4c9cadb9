---------------------- MODULE PooledPairHistories ----------------------
(***************************************************************************)
(* The three pair histories that keep whole generations in pools: of every *)
(* island (versioned_island_pair_history.cpp), of all pairs and of the     *)
(* topology (dynamic_island_pair_history.cpp), and of segments of pairs    *)
(* per island of a changing topology (segmented_dynamic_pair_history.cpp). *)
(* The operators of each begin with its name.                              *)
(***************************************************************************)
EXTENDS PairHistories

---------------------------------------------------------------------------
(***************************************************************************)
(* DynamicIslandPairHistory: a snapshot names one generation of the pairs  *)
(* and one of the topology, each shared with the frame before when the     *)
(* caller's hints say that nothing changed.                                *)
(***************************************************************************)

CONSTANTS
    PairGenerations,      \* pair_generations, 0 for the default
    TopologyGenerations   \* topology_generations, 0 for the default

DynamicPoolSize(configured) == IF configured = 0 THEN Capacity + 2 ELSE configured

DynamicEmpty == [initialized |-> FALSE, snapshots |-> EmptyRing,
                 pairs |-> EmptyPool(DynamicPoolSize(PairGenerations)),
                 topologies |-> EmptyPool(DynamicPoolSize(TopologyGenerations))]

DynamicReleaseSnapshot(h, s) ==
    IF h.snapshots[s].frame = NoFrame THEN h
    ELSE [h EXCEPT !.pairs = Released(@, {h.snapshots[s].pairs}),
                   !.topologies = Released(@, {h.snapshots[s].topology}),
                   !.snapshots[s] = [frame |-> NoFrame]]

\* build_topology and write_pairs: the payloads.
DynamicTopology(contacts) == [signature |-> contacts, islands |-> IslandNumbers(Keys(contacts))]
DynamicPairPayload(pairs, topology) ==
    [pairs |-> pairs,
     spill |-> {p \in pairs : topology.islands[p[1]] # topology.islands[p[2]]}]

\* The last steps of initialize and capture: references first given back by
\* the slot, then taken for the new snapshot.
DynamicRetain(h, frame, p, t) ==
    LET released == DynamicReleaseSnapshot(h, SlotOf(frame))
    IN [released EXCEPT
          !.snapshots[SlotOf(frame)] = [frame |-> frame, pairs |-> p, topology |-> t],
          !.pairs = Committed(@, {p}), !.topologies = Committed(@, {t})]

\* What the hints leave to be written.  A complete hint is believed; the
\* number of pairs is compared in any case.
DynamicTopologyDirty(h, before, contacts, changed, complete) ==
    changed \/ (~complete /\ contacts # h.topologies[before.topology].item.signature)

DynamicPairsDirtyBySize(h, before, size, dirty, topologyDirty) ==
    size # Cardinality(h.pairs[before.pairs].item.pairs)

DynamicPairsDirty(h, before, size, dirty, topologyDirty) ==
    \/ topologyDirty
    \/ dirty # {}
    \/ size # Cardinality(h.pairs[before.pairs].item.pairs)

DynamicInitialize(frame, contacts, pairs, bad) ==
    LET t == DynamicTopology(contacts)
        h == [DynamicEmpty EXCEPT !.initialized = TRUE,
                           !.topologies = Staged(@, 0, t),
                           !.pairs = Staged(@, 0, DynamicPairPayload(pairs, t))]
    IN IF bad THEN Answer(FALSE, DynamicEmpty) ELSE Answer(TRUE, DynamicRetain(h, frame, 0, 0))

\* The two acquisitions come before the try block: when the second finds no
\* generation, the topology acquired first stays staged.
DynamicCapture(h, frame, contacts, pairs, bad, dirty, changed, complete) ==
    LET before == h.snapshots[SlotOf(frame - 1)]
        size == Cardinality(pairs) + (IF bad THEN 1 ELSE 0)
        newTopology == DynamicTopologyDirty(h, before, contacts, changed, complete)
        newPairs == DynamicPairsDirty(h, before, size, dirty, newTopology)
        t == IF newTopology THEN Acquired(h.topologies) ELSE before.topology
        p == IF newPairs THEN Acquired(h.pairs) ELSE before.pairs
        topology == IF newTopology THEN DynamicTopology(contacts) ELSE h.topologies[t].item
        staged == IF newTopology THEN [h EXCEPT !.topologies = Staged(@, t, topology)] ELSE h
        written == IF newPairs
                   THEN [staged EXCEPT !.pairs = Staged(@, p, DynamicPairPayload(pairs, topology))]
                   ELSE staged
    IN IF before.frame # frame - 1 \/ (newTopology /\ Exhausted(h.topologies, 1))
       THEN Answer(FALSE, h)
       ELSE IF newPairs /\ Exhausted(h.pairs, 1) THEN Answer(FALSE, staged)
       ELSE IF newPairs /\ bad
       THEN Answer(FALSE, [h EXCEPT !.topologies = WithoutStaged(@), !.pairs = WithoutStaged(@)])
       ELSE Answer(TRUE, DynamicRetain(written, frame, p, t))

DynamicTruncateAfter(h, frame) ==
    FoldSet(LAMBDA s, g : DynamicReleaseSnapshot(g, s), h,
            {s \in DOMAIN h.snapshots : h.snapshots[s].frame > frame})

DynamicRestorePairs(h, frame) ==
    Sorted(h.pairs[h.snapshots[SlotOf(frame)].pairs].item.pairs)
DynamicRestoreSpill(h, frame) ==
    Sorted(h.pairs[h.snapshots[SlotOf(frame)].pairs].item.spill)
DynamicRestoreIslands(h, frame) ==
    h.topologies[h.snapshots[SlotOf(frame)].topology].item.islands

DynamicExactReferences(h) ==
    LET Retained == {s \in DOMAIN h.snapshots : h.snapshots[s].frame # NoFrame}
    IN /\ \A p \in DOMAIN h.pairs :
             h.pairs[p].refs = Cardinality({s \in Retained : h.snapshots[s].pairs = p})
       /\ \A t \in DOMAIN h.topologies :
             h.topologies[t].refs = Cardinality({s \in Retained : h.snapshots[s].topology = t})

---------------------------------------------------------------------------
(***************************************************************************)
(* SegmentedDynamicPairHistory: a table per topology and set of segments,  *)
(* a segment for the pairs of each island that has any, and one spill list *)
(* for the pairs between islands.  Segments are shared between tables.     *)
(***************************************************************************)

CONSTANTS
    SegmentPool,      \* segment_generations, 0 for the default
    SegmentRoom       \* maximum_pairs_per_segment

SegmentedEmpty == [initialized |-> FALSE, snapshots |-> EmptyRing,
                   tables |-> EmptyPool(Capacity + 2), spills |-> EmptyPool(Capacity + 2),
                   segments |-> EmptyPool(IF SegmentPool = 0 THEN N + Capacity + 2 ELSE SegmentPool)]

SegmentedSegmentIds(table) == Range(table.segments) \ {None}

\* release_table cascades to the segments and the spill of the table.
SegmentedReleaseTableOnly(h, t) == [h EXCEPT !.tables = Released(@, {t})]

SegmentedReleaseTable(h, t) ==
    LET table == h.tables[t].item
    IN IF ~LastReference(h.tables, t) THEN [h EXCEPT !.tables = Released(@, {t})]
       ELSE [h EXCEPT !.tables = Released(@, {t}),
                      !.segments = Released(@, SegmentedSegmentIds(table)),
                      !.spills = Released(@, {table.spill})]

SegmentedReleaseSnapshot(h, s) ==
    IF h.snapshots[s].frame = NoFrame THEN h
    ELSE [SegmentedReleaseTable(h, h.snapshots[s].table) EXCEPT !.snapshots[s] = [frame |-> NoFrame]]

SegmentedRetain(h, frame, table) ==
    [SegmentedReleaseSnapshot(h, SlotOf(frame)) EXCEPT
        !.initialized = TRUE,
        !.snapshots[SlotOf(frame)] = [frame |-> frame, table |-> table]]

\* The islands whose segment is compared or rewritten rather than taken over.
SegmentedDirtyKeys(keys, dirty, topologyEqual, pairsComplete) ==
    IF pairsComplete /\ topologyEqual THEN {keys[b] : b \in dirty} ELSE Range(keys)

\* The segments of the new table: shared with the table before when the
\* topology is the same and the island is clean or its pairs are equal.
SegmentedReusable(h, before, k, run, topologyEqual, dirtyKeys) ==
    /\ topologyEqual
    /\ h.tables[before].item.segments[k] # None
    /\ k \in dirtyKeys => h.segments[h.tables[before].item.segments[k]].item = run

SegmentedStageSegments(h, before, keys, pairs, topologyEqual, dirtyKeys) ==
    LET runs == {k \in Range(keys) : Within(pairs, keys, k) # {}}
        Step(k, acc) ==
            LET run == Within(pairs, keys, k)
                g == Acquired(acc.pool)
            IN IF SegmentedReusable(h, before, k, run, topologyEqual, dirtyKeys)
               THEN [acc EXCEPT !.map[k] = h.tables[before].item.segments[k]]
               ELSE IF ~acc.ok \/ Cardinality(run) > SegmentRoom \/ Exhausted(acc.pool, 1)
               THEN [acc EXCEPT !.ok = FALSE]
               ELSE [acc EXCEPT !.map[k] = g, !.pool = Staged(@, g, run)]
    IN FoldSet(Step, [ok |-> TRUE, pool |-> h.segments, map |-> [k \in Bodies |-> None]], runs)

\* capture from partition_pairs on: stage everything, then commit.
SegmentedCaptureTable(h, frame, before, contacts, keys, pairs, topologyEqual, dirtyKeys) ==
    LET t == Acquired(h.tables)
        segments == SegmentedStageSegments(h, before, keys, pairs, topologyEqual, dirtyKeys)
        spill == Spill(pairs, keys)
        oldSpill == IF topologyEqual THEN h.tables[before].item.spill ELSE None
        keepSpill == IF oldSpill = None THEN spill = {} ELSE h.spills[oldSpill].item = spill
        s == IF keepSpill THEN oldSpill
             ELSE IF spill = {} THEN None ELSE Acquired(h.spills)
        table == [signature |-> contacts, keys |-> keys, count |-> Cardinality(pairs),
                  segments |-> segments.map, spill |-> s]
        staged == [h EXCEPT
                      !.tables = Staged(@, t, table), !.segments = segments.pool,
                      !.spills = IF keepSpill \/ spill = {} THEN @ ELSE Staged(@, s, spill)]
    IN IF \/ Exhausted(h.tables, 1) \/ ~segments.ok
          \/ ~keepSpill /\ spill # {} /\ Exhausted(h.spills, 1)
       THEN Answer(FALSE, [h EXCEPT !.segments = WithoutStaged(segments.pool)])
       ELSE Answer(TRUE, SegmentedRetain(
              [staged EXCEPT !.tables = Committed(@, {t}),
                             !.segments = Committed(@, SegmentedSegmentIds(table)),
                             !.spills = Committed(@, {s})], frame, t))

SegmentedSharesTable(equal, dirty, changed, topologyComplete, pairsComplete) ==
    equal /\ topologyComplete /\ ~changed /\ pairsComplete /\ dirty = {}

SegmentedCapture(h, frame, contacts, pairs, bad, dirty, changed, topologyComplete, pairsComplete) ==
    LET keys == Keys(contacts)
        before == IF frame > 0 /\ Holds(h.snapshots, frame - 1)
                  THEN h.snapshots[SlotOf(frame - 1)].table ELSE None
        equal == /\ before # None
                 /\ h.tables[before].item.signature = contacts
                 /\ h.tables[before].item.keys = keys
    IN IF \/ h.initialized /\ frame = 0
          \/ topologyComplete /\ changed = equal
       THEN Answer(FALSE, h)
       ELSE IF SegmentedSharesTable(equal, dirty, changed, topologyComplete, pairsComplete)
       THEN Answer(TRUE,
              [SegmentedRetain(h, frame, before) EXCEPT !.tables = Committed(@, {before})])
       ELSE IF bad THEN Answer(FALSE, h)
       ELSE SegmentedCaptureTable(h, frame, before, contacts, keys, pairs, equal,
                         SegmentedDirtyKeys(keys, dirty, equal, pairsComplete))

SegmentedInitialize(frame, contacts, pairs, bad) ==
    SegmentedCapture(SegmentedEmpty, frame, contacts, pairs, bad, {}, TRUE, TRUE, FALSE)

SegmentedTruncateAfter(h, frame) ==
    FoldSet(LAMBDA s, g : SegmentedReleaseSnapshot(g, s), h,
            {s \in DOMAIN h.snapshots : h.snapshots[s].frame > frame})

SegmentedTableOf(h, frame) == h.tables[h.snapshots[SlotOf(frame)].table].item
SegmentedSpillOf(h, frame) ==
    IF SegmentedTableOf(h, frame).spill = None THEN {} ELSE h.spills[SegmentedTableOf(h, frame).spill].item
SegmentedRestorePairs(h, frame) ==
    Sorted(UNION {h.segments[g].item : g \in SegmentedSegmentIds(SegmentedTableOf(h, frame))}
           \union SegmentedSpillOf(h, frame))
SegmentedRestoreSpill(h, frame) == Sorted(SegmentedSpillOf(h, frame))
SegmentedRestoreKeys(h, frame) == SegmentedTableOf(h, frame).keys

SegmentedExactReferences(h) ==
    LET Live == {t \in DOMAIN h.tables : h.tables[t].refs > 0}
    IN /\ \A t \in DOMAIN h.tables :
             h.tables[t].refs = Cardinality({s \in DOMAIN h.snapshots :
                 h.snapshots[s].frame # NoFrame /\ h.snapshots[s].table = t})
       /\ \A g \in DOMAIN h.segments : h.segments[g].refs =
             Cardinality({t \in Live : g \in SegmentedSegmentIds(h.tables[t].item)})
       /\ \A s \in DOMAIN h.spills : h.spills[s].refs =
             Cardinality({t \in Live : h.tables[t].item.spill = s})

---------------------------------------------------------------------------
(***************************************************************************)
(* VersionedIslandPairHistory: the islands are those of the contacts given *)
(* to initialize and never change; each has a pool of generations of its   *)
(* own, and a table names one generation per island.  A capture writes the *)
(* islands of the dirty bodies and shares the rest.                        *)
(***************************************************************************)

CONSTANT ExtraPairs    \* extra_pairs_per_island

VersionedGenerationsPerIsland == Capacity + 2
VersionedTableCount == Capacity + 2

VersionedIslands(h) == Range(h.keys)

\* capacities_: a pair per contact of the island and the extra ones.
VersionedSegmentCapacity(h, k) == Max({1, Cardinality(Within(h.contacts, h.keys, k)) + ExtraPairs})

\* build_topology: everything retained is forgotten.
VersionedFresh(contacts) ==
    LET keys == Keys(contacts)
    IN [contacts |-> contacts, keys |-> keys, snapshots |-> EmptyRing,
        tables |-> EmptyPool(VersionedTableCount),
        generations |-> [k \in Range(keys) |-> EmptyPool(VersionedGenerationsPerIsland)]]

\* release_table: the last reference to a table gives back its generations.
VersionedReleaseTable(h, t) ==
    [h EXCEPT !.tables = Released(@, {t}),
              !.generations =
                  IF LastReference(h.tables, t)
                  THEN [k \in DOMAIN @ |-> Released(@[k], {h.tables[t].item[k]})]
                  ELSE @]

VersionedReleaseSnapshotOnly(h, s) == [h EXCEPT !.snapshots[s] = [frame |-> NoFrame]]

VersionedReleaseSnapshot(h, s) ==
    IF h.snapshots[s].frame = NoFrame THEN h
    ELSE [VersionedReleaseTable(h, h.snapshots[s].table) EXCEPT !.snapshots[s] = [frame |-> NoFrame]]

\* The slot of the frame is released only now, after every acquisition.
VersionedRetain(h, frame, table, count) ==
    [VersionedReleaseSnapshot(h, SlotOf(frame)) EXCEPT
        !.snapshots[SlotOf(frame)] = [frame |-> frame, table |-> table, count |-> count]]

\* partition_pairs: a pair across islands, a body out of range or an island
\* with more pairs than it has room for is refused.
VersionedPartitionable(h, dirty, pairs, bad) ==
    /\ ~bad
    /\ Spill(pairs, h.keys) = {}
    /\ \A k \in dirty : Cardinality(Within(pairs, h.keys, k)) <= VersionedSegmentCapacity(h, k)

VersionedWritten(h, table, dirty, pairs) ==
    [h EXCEPT !.generations =
        [k \in DOMAIN @ |->
            IF k \in dirty
            THEN Staged(@[k], Acquired(@[k]), Within(pairs, h.keys, k)) ELSE @[k]]]

\* A new table, with the generations of the clean islands from the old one.
VersionedCaptureTable(h, frame, base, dirty, pairs, bad) ==
    LET t == Acquired(h.tables)
        acquired == [k \in VersionedIslands(h) |->
                        IF k \in dirty THEN Acquired(h.generations[k]) ELSE base[k]]
        written == VersionedWritten([h EXCEPT !.tables = Staged(@, t, acquired)], t, dirty, pairs)
        committed == [written EXCEPT
                         !.tables = Committed(@, {t}),
                         !.generations = [k \in DOMAIN @ |-> Committed(@[k], {acquired[k]})]]
    IN IF \/ Exhausted(h.tables, 1)
          \/ \E k \in dirty : Exhausted(h.generations[k], 1)
          \/ ~VersionedPartitionable(h, dirty, pairs, bad)
       THEN Answer(FALSE, h)
       ELSE Answer(TRUE, VersionedRetain(committed, frame, t, Cardinality(pairs)))

VersionedInitialize(frame, contacts, pairs, bad) ==
    LET h == VersionedFresh(contacts)
    IN VersionedCaptureTable(h, frame, [k \in VersionedIslands(h) |-> None], VersionedIslands(h), pairs, bad)

\* capture: with no dirty body the table of the frame before is shared, and
\* then the number of pairs may not differ.
VersionedDirtyIslandsOfPairs(h, dirty) == {h.keys[b] : b \in dirty} \ {0}

VersionedDirtyIslands(h, dirty) == {h.keys[b] : b \in dirty}

VersionedCapture(h, frame, pairs, bad, dirty, forceFull) ==
    LET islands == IF forceFull THEN VersionedIslands(h) ELSE VersionedDirtyIslands(h, dirty)
        before == h.snapshots[SlotOf(frame - 1)]
        size == Cardinality(pairs) + (IF bad THEN 1 ELSE 0)
    IN IF \/ before.frame = NoFrame
          \/ before.frame # frame - 1
          \/ ~forceFull /\ dirty = {} /\ size # before.count
       THEN Answer(FALSE, h)
       ELSE IF islands = {}
       THEN Answer(TRUE,
              [VersionedRetain(h, frame, before.table, size) EXCEPT !.tables = Committed(@, {before.table})])
       ELSE VersionedCaptureTable(h, frame, h.tables[before.table].item, islands, pairs, bad)

VersionedTruncateAfter(h, frame) ==
    FoldSet(LAMBDA s, g : VersionedReleaseSnapshot(g, s), h,
            {s \in DOMAIN h.snapshots : h.snapshots[s].frame > frame})

\* restore: the generations of all islands, sorted.
VersionedRestore(h, frame) ==
    LET table == h.tables[h.snapshots[SlotOf(frame)].table].item
    IN Sorted(UNION {h.generations[k][table[k]].item : k \in VersionedIslands(h)})

\* References as the snapshots and the tables really hold them.
VersionedExactReferences(h) ==
    /\ \A t \in DOMAIN h.tables :
          h.tables[t].refs = Cardinality({s \in DOMAIN h.snapshots :
              h.snapshots[s].frame # NoFrame /\ h.snapshots[s].table = t})
    /\ \A k \in VersionedIslands(h) : \A g \in DOMAIN h.generations[k] :
          h.generations[k][g].refs = Cardinality({t \in DOMAIN h.tables :
              h.tables[t].refs > 0 /\ h.tables[t].item[k] = g})

===========================================================================
