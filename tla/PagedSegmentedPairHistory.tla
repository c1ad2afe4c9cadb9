---- MODULE PagedSegmentedPairHistory ----
(***************************************************************************)
(* PagedSegmentedPairHistory: a table is two lists of pages, the keys of   *)
(* the bodies and the segments of the islands, both shared page by page.   *)
(* Segments are owned by the pages of the segment map, pages and spill     *)
(* lists by tables, tables by snapshots.  Every pool has a slot allocator  *)
(* beside its reference counts.                                            *)
(***************************************************************************)
EXTENDS PairHistories, Integers, FiniteSetsExt

---------------------------------------------------------------------------
(***************************************************************************)
(* FixedSlotAllocator (fixed_slot_allocator.cpp): which of a fixed number  *)
(* of slots an acquisition hands out.  The two bitmap levels are the set   *)
(* of free slots and the set of words that have one.                       *)
(***************************************************************************)

CONSTANTS
    WordBits,    \* slots of a word: 64 in the code
    Mode         \* FixedSlotAllocatorMode

AllocationModes == {"NextFit", "HierarchicalBitmap", "Adaptive"}

Word(i) == i \div WordBits

\* configure and reset.
Reset(capacity) ==
    [capacity |-> capacity, free |-> 0 .. capacity - 1, cursor |-> 0,
     summary |-> {Word(i) : i \in 0 .. capacity - 1}]

Used(a) == a.capacity - Cardinality(a.free)

\* mark_used: a word whose last slot goes leaves the summary.
MarkUsedKeepsSummary(a, i) == [a EXCEPT !.free = @ \ {i}]

MarkUsed(a, i) ==
    LET free == a.free \ {i}
    IN [a EXCEPT !.free = free,
                 !.summary = IF \E j \in free : Word(j) = Word(i) THEN @ ELSE @ \ {Word(i)}]

MarkFreeKeepsSummary(a, i) == [a EXCEPT !.free = @ \union {i}]

MarkFree(a, i) == [a EXCEPT !.free = @ \union {i}, !.summary = @ \union {Word(i)}]

\* acquire_next_fit: the first free slot from the cursor on, around the end.
NextFit(a) ==
    LET offset == Min({o \in 0 .. a.capacity - 1 : (a.cursor + o) % a.capacity \in a.free})
    IN (a.cursor + offset) % a.capacity

\* acquire_bitmap: the lowest slot of the lowest word the summary names.
Bitmap(a) ==
    LET word == Min(a.summary)
    IN Min({i \in a.free : Word(i) = word})

\* acquire_adaptive: the bitmap from two thirds of the slots on.
UsesBitmap(a) ==
    \/ Mode = "HierarchicalBitmap"
    \/ Mode = "Adaptive" /\ Used(a) * 3 >= a.capacity * 2

CanAcquire(a) == IF UsesBitmap(a) THEN a.summary # {} ELSE a.free # {}
Next(a) == IF UsesBitmap(a) THEN Bitmap(a) ELSE NextFit(a)
Acquire(a) ==
    LET i == Next(a)
        marked == MarkUsed(a, i)
    IN IF UsesBitmap(a) THEN marked ELSE [marked EXCEPT !.cursor = (i + 1) % a.capacity]

Release(a, ids) == FoldSet(LAMBDA i, b : MarkFree(b, i), a, ids)

---------------------------------------------------------------------------
CONSTANTS
    PageElements,     \* table_page_elements
    BodyPagePool,     \* body_key_page_generations, 0 for the default
    SegmentPagePool,  \* segment_map_page_generations, 0 for the default
    SegmentPool,      \* segment_generations, 0 for the default
    SegmentRoom,      \* maximum_pairs_per_segment
    MaximumPairs      \* maximum_pairs

PageCount == (N + PageElements - 1) \div PageElements
Pages == 0 .. PageCount - 1
PageBodies(p) == {b \in Bodies : b \div PageElements = p}
OnPage(f, p) == [b \in PageBodies(p) |-> f[b]]

Configured(size, default) == IF size = 0 THEN default ELSE size
AllocatedPool(size) == [cells |-> EmptyPool(size), slots |-> Reset(size)]

Empty ==
    [initialized |-> FALSE, snapshots |-> EmptyRing,
     tables |-> AllocatedPool(Capacity + 2),
     spills |-> AllocatedPool(Capacity + 2),
     segments |-> AllocatedPool(Configured(SegmentPool, MaximumPairs + Capacity + 2)),
     bodyPages |-> AllocatedPool(Configured(BodyPagePool, PageCount + Capacity + 2)),
     segmentPages |-> AllocatedPool(Configured(SegmentPagePool, PageCount + Capacity + 2))]

\* acquire_*: a slot of the allocator whose generation must be unreferenced
\* (anything else is the code's logic_error), held by the capture.
Stage(pool, item) ==
    LET i == Next(pool.slots)
    IN [cells |-> Staged(pool.cells, i, item), slots |-> Acquire(pool.slots)]
StagedId(pool) == Next(pool.slots)
Obtainable(pool) == CanAcquire(pool.slots) /\ pool.cells[Next(pool.slots)].refs = 0

\* The cells that become unreferenced go back to the allocator.
Freed(pool, cells) ==
    [cells |-> cells,
     slots |-> Release(pool.slots, Free(cells) \ Free(pool.cells))]
Drop(pool, ids) == Freed(pool, Released(pool.cells, ids))
Unstage(pool) == Freed(pool, WithoutStaged(pool.cells))
Take(pool, ids) == [pool EXCEPT !.cells = Committed(@, ids)]

\* The segments a page of the map owns.
OwnedSegments(page) == Range(page) \ {None}

\* release_segment_page and release_table.
ReleaseSegmentPage(h, p) ==
    LET last == LastReference(h.segmentPages.cells, p)
    IN [h EXCEPT !.segmentPages = Drop(@, {p}),
                 !.segments = IF last THEN Drop(@, OwnedSegments(h.segmentPages.cells[p].item))
                              ELSE @]

ReleaseTable(h, t) ==
    LET table == h.tables.cells[t].item
        pages == [h EXCEPT !.tables = Drop(@, {t}),
                           !.bodyPages = Drop(@, Range(table.bodies)),
                           !.spills = Drop(@, {table.spill})]
    IN IF ~LastReference(h.tables.cells, t) THEN [h EXCEPT !.tables = Drop(@, {t})]
       ELSE FoldSet(LAMBDA p, g : ReleaseSegmentPage(g, p), pages, Range(table.segments))

ReleaseSnapshot(h, s) ==
    IF h.snapshots[s].frame = NoFrame THEN h
    ELSE [ReleaseTable(h, h.snapshots[s].table) EXCEPT !.snapshots[s] = [frame |-> NoFrame]]

Retain(h, frame, table) ==
    [ReleaseSnapshot(h, SlotOf(frame)) EXCEPT
        !.initialized = TRUE,
        !.snapshots[SlotOf(frame)] = [frame |-> frame, table |-> table]]

\* release_staging.
ReleaseStaging(h) ==
    [h EXCEPT !.tables = Unstage(@), !.spills = Unstage(@), !.segments = Unstage(@),
              !.bodyPages = Unstage(@), !.segmentPages = Unstage(@)]

TableOf(h, frame) == h.tables.cells[h.snapshots[SlotOf(frame)].table].item
SegmentsOf(h, table) ==
    [b \in Bodies |-> h.segmentPages.cells[table.segments[b \div PageElements]].item[b]]
KeysOf(h, table) ==
    [b \in Bodies |-> h.bodyPages.cells[table.bodies[b \div PageElements]].item[b]]

\* build_topology; topology_signature mixes the contacts in any order
BuildTopology(contacts) == Keys(contacts)
TopologySignature(contacts) == <<Cardinality(contacts), contacts>>

\* partition_pairs: the runs of the islands that have pairs, and the rest
PartitionPairs(pairs, keys) ==
    [runs |-> [k \in {keys[p[1]] : p \in pairs \ Spill(pairs, keys)} |->
                  Within(pairs, keys, k)],
     spill |-> Spill(pairs, keys)]

\* same_segment, same_spill, body_page_equals and segment_page_equals
SameSegment(h, generation, run) == h.segments.cells[generation].item = run
SameSpill(h, generation, pairs) ==
    IF generation = None THEN pairs = {} ELSE h.spills.cells[generation].item = pairs
PageEquals(pool, generation, content) ==
    generation # None /\ pool.cells[generation].item = content

DirtyKeys(keys, dirty, topologyEqual, pairsComplete) ==
    IF pairsComplete /\ topologyEqual THEN {keys[b] : b \in dirty} ELSE Range(keys)

\* First one payload per island.  The segment the previous table has under
\* the same key is looked at even when the topology differs.
StageSegments(h, before, runs, dirtyKeys) ==
    LET old == IF before = None THEN [b \in Bodies |-> None]
               ELSE SegmentsOf(h, h.tables.cells[before].item)
        Step(acc, k) ==
            LET run == runs[k]
                reuse == /\ old[k] # None
                         /\ k \in dirtyKeys => SameSegment(h, old[k], run)
            IN IF reuse THEN [acc EXCEPT !.map[k] = old[k]]
               ELSE IF ~acc.ok \/ Cardinality(run) > SegmentRoom \/ ~Obtainable(acc.pool)
               THEN [acc EXCEPT !.ok = FALSE]
               ELSE [acc EXCEPT !.map[k] = StagedId(acc.pool), !.pool = Stage(@, run)]
    IN FoldLeft(Step, [ok |-> TRUE, pool |-> h.segments, map |-> [b \in Bodies |-> None]],
                SetToSortSeq(DOMAIN runs, <))

\* Then the pages, those of the previous table that are equal shared.
StagePages(pool, old, contents) ==
    LET Step(acc, p) ==
            IF PageEquals(acc.pool, old[p], contents[p])
            THEN [acc EXCEPT !.map[p] = old[p]]
            ELSE IF ~acc.ok \/ ~Obtainable(acc.pool) THEN [acc EXCEPT !.ok = FALSE]
            ELSE [acc EXCEPT !.map[p] = StagedId(acc.pool), !.pool = Stage(@, contents[p])]
    IN FoldLeft(Step, [ok |-> TRUE, pool |-> pool, map |-> [p \in Pages |-> None]],
                SetToSortSeq(Pages, <))

\* Committing a new page of the map takes a reference on each segment in it;
\* a shared page already owns its own.
CommitSegmentPagesAgain(h, ids) ==
    FoldSet(LAMBDA p, g :
                [g EXCEPT !.segments = Take(@, OwnedSegments(h.segmentPages.cells[p].item))],
            [h EXCEPT !.segmentPages = Take(@, ids)], ids)

CommitSegmentPages(h, ids) ==
    FoldSet(LAMBDA p, g :
                [g EXCEPT !.segments = Take(@, OwnedSegments(h.segmentPages.cells[p].item))],
            [h EXCEPT !.segmentPages = Take(@, ids)],
            {p \in ids : h.segmentPages.cells[p].refs = Staging})

CaptureTable(h, frame, before, contacts, keys, pairs, dirtyKeys) ==
    LET old == IF before = None
               THEN [bodies |-> [p \in Pages |-> None], segments |-> [p \in Pages |-> None],
                     spill |-> None]
               ELSE h.tables.cells[before].item
        parts == PartitionPairs(pairs, keys)
        keepSpill == SameSpill(h, old.spill, parts.spill)
        newSpill == ~keepSpill /\ parts.spill # {}
        id == StagedId(h.tables)
        committed(staged, table) ==
            [CommitSegmentPages(staged, Range(table.segments)) EXCEPT
                !.bodyPages = Take(@, Range(table.bodies)),
                !.spills = Take(@, {table.spill}), !.tables = Take(@, {id})]
        decided(ok, staged, table) ==
            IF ok THEN Answer(TRUE, Retain(committed(staged, table), frame, id))
            ELSE Answer(FALSE, ReleaseStaging([staged EXCEPT !.spills = h.spills]))
        staged(segments, bodyPages, segmentPages, table) ==
            decided(bodyPages.ok /\ segmentPages.ok /\ (newSpill => Obtainable(h.spills)),
                    [h EXCEPT !.segments = segments.pool, !.bodyPages = bodyPages.pool,
                              !.segmentPages = segmentPages.pool, !.tables = Stage(@, table),
                              !.spills = IF newSpill THEN Stage(@, parts.spill) ELSE @],
                    table)
        tabled(segments, bodyPages, segmentPages) ==
            staged(segments, bodyPages, segmentPages,
                   [signature |-> TopologySignature(contacts), count |-> Cardinality(pairs),
                    islands |-> Cardinality(Range(keys)),
                    bodies |-> bodyPages.map, segments |-> segmentPages.map,
                    spill |-> IF keepSpill THEN old.spill
                              ELSE IF newSpill THEN StagedId(h.spills) ELSE None])
        paged(segments) ==
            IF segments.ok /\ Obtainable(h.tables)
            THEN tabled(segments,
                        StagePages(h.bodyPages, old.bodies, [p \in Pages |-> OnPage(keys, p)]),
                        StagePages(h.segmentPages, old.segments,
                                   [p \in Pages |-> OnPage(segments.map, p)]))
            ELSE Answer(FALSE, ReleaseStaging([h EXCEPT !.segments = segments.pool]))
    IN paged(StageSegments(h, before, parts.runs, dirtyKeys))

SharesTable(before, dirty, changed, topologyComplete, pairsComplete) ==
    before # None /\ topologyComplete /\ ~changed /\ pairsComplete /\ dirty = {}

\* A complete unchanged hint is believed before anything is computed.
Capture(h, frame, contacts, pairs, bad, dirty, changed, topologyComplete, pairsComplete) ==
    LET keys == BuildTopology(contacts)
        before == IF frame > 0 /\ Holds(h.snapshots, frame - 1)
                  THEN h.snapshots[SlotOf(frame - 1)].table ELSE None
        equal == /\ before # None
                 /\ h.tables.cells[before].item.signature = TopologySignature(contacts)
                 /\ KeysOf(h, h.tables.cells[before].item) = keys
    IN IF h.initialized /\ frame = 0 THEN Answer(FALSE, h)
       ELSE IF SharesTable(before, dirty, changed, topologyComplete, pairsComplete)
       THEN Answer(TRUE, [Retain(h, frame, before) EXCEPT !.tables = Take(@, {before})])
       ELSE IF (topologyComplete /\ changed = equal) \/ bad THEN Answer(FALSE, h)
       ELSE CaptureTable(h, frame, before, contacts, keys, pairs,
                         DirtyKeys(keys, dirty, equal, pairsComplete))

\* clear: the rings, the pools and their allocators start again
Clear == Empty

Initialize(frame, contacts, pairs, bad) ==
    Capture(Clear, frame, contacts, pairs, bad, {}, TRUE, TRUE, FALSE)

TruncateAfter(h, frame) ==
    FoldSet(LAMBDA s, g : ReleaseSnapshot(g, s), h,
            {s \in DOMAIN h.snapshots : h.snapshots[s].frame > frame})

\* restore_pairs: runs that follow one another are copied, others merged.
Runs(h, frame) ==
    LET map == SegmentsOf(h, TableOf(h, frame))
        keyed == {k \in Bodies : map[k] # None}
        s == TableOf(h, frame).spill
    IN [i \in 1 .. Cardinality(keyed) |->
           Sorted(h.segments.cells[map[SetToSortSeq(keyed, <)[i]]].item)]
       \o (IF s = None THEN <<>> ELSE <<Sorted(h.spills.cells[s].item)>>)

GloballyOrdered(runs) == \A i \in 2 .. Len(runs) : ~Precedes(runs[i][1], Last(runs[i - 1]))

RestorePairs(h, frame) ==
    LET runs == Runs(h, frame)
    IN IF GloballyOrdered(runs) THEN FlattenSeq(runs)
       ELSE Sorted(UNION {Range(runs[i]) : i \in DOMAIN runs})
RestoreSpill(h, frame) ==
    LET s == TableOf(h, frame).spill
    IN IF s = None THEN <<>> ELSE Sorted(h.spills.cells[s].item)
RestoreKeys(h, frame) == KeysOf(h, TableOf(h, frame))

\* pair_count, island_count and spill_pair_count of a retained frame
PairCount(h, frame) == TableOf(h, frame).count
IslandCount(h, frame) == TableOf(h, frame).islands
SpillPairCount(h, frame) ==
    LET s == TableOf(h, frame).spill
    IN IF s = None THEN 0 ELSE Cardinality(h.spills.cells[s].item)

\* hash: what is mixed, in this order
Hash(h, frame) ==
    LET table == TableOf(h, frame)
        map == SegmentsOf(h, table)
        keyed == {k \in Bodies : map[k] # None}
    IN <<frame, table.signature, table.islands,
         [k \in keyed |-> h.segments.cells[map[k]].item],
         IF table.spill = None THEN {} ELSE h.spills.cells[table.spill].item>>

\* Every count is the number of owners, and the allocators agree with it.
ExactReferences(h) ==
    LET Live(pool) == {i \in DOMAIN pool.cells : pool.cells[i].refs > 0}
        Owners(field, i) == Cardinality({t \in Live(h.tables) :
                                i \in Range(h.tables.cells[t].item[field])})
    IN /\ \A t \in DOMAIN h.tables.cells :
             h.tables.cells[t].refs = Cardinality({s \in DOMAIN h.snapshots :
                 h.snapshots[s].frame # NoFrame /\ h.snapshots[s].table = t})
       /\ \A p \in DOMAIN h.bodyPages.cells : h.bodyPages.cells[p].refs = Owners("bodies", p)
       /\ \A p \in DOMAIN h.segmentPages.cells :
             h.segmentPages.cells[p].refs = Owners("segments", p)
       /\ \A g \in DOMAIN h.segments.cells : h.segments.cells[g].refs =
             Cardinality({p \in Live(h.segmentPages) :
                 g \in OwnedSegments(h.segmentPages.cells[p].item)})
       /\ \A s \in DOMAIN h.spills.cells : h.spills.cells[s].refs =
             Cardinality({t \in Live(h.tables) : h.tables.cells[t].item.spill = s})
       /\ \A pool \in {"tables", "bodyPages", "segmentPages", "segments", "spills"} :
             /\ h[pool].slots.free = Free(h[pool].cells)
             /\ h[pool].slots.summary = {Word(i) : i \in h[pool].slots.free}

===========================================================================
