---- MODULE PagedTemporalPhysics ----
(***************************************************************************)
(* The three engines that keep their history outside the temporal kernel:  *)
(* PagedAtomicTemporalPhysicsEngine (pages only),                          *)
(* AuthoritativePagedTemporalPhysicsEngine (pages and a dynamic pair       *)
(* history) and SegmentedAuthoritativePagedTemporalPhysicsEngine (pages,   *)
(* with the pairs in a paged segmented history).                           *)
(***************************************************************************)
EXTENDS TemporalKernel

---------------------------------------------------------------------------
(***************************************************************************)
(* PagedAtomicHistory (paged_atomic_history.cpp): a ring of snapshots of   *)
(* the arrays of a temporal kernel, cut into pages.  Each array has a pool *)
(* of reference counted pages; a capture shares the pages of the frame     *)
(* before that the hints call clean, or that turn out equal.  The x and y  *)
(* arrays of positions and velocities are one array each.                  *)
(***************************************************************************)

CONSTANTS
    PageSize,    \* page_elements
    PagePool     \* array -> pages of its pool

Arrays == {"pos", "vel", "mass", "dual", "manifold", "stable", "candidate", "bounds", "pairs"}

PageOf(i) == i \div PageSize
PagesOf(values) == {PageOf(i) : i \in DOMAIN values}
Page(values, p) == [i \in {j \in DOMAIN values : PageOf(j) = p} |-> values[i]]

Empty == [snapshots |-> EmptyRing, pools |-> [a \in Arrays |-> EmptyPool(PagePool[a])]]

\* release_snapshot.
ReleaseSnapshotTwice(h, s) ==
    [h EXCEPT !.snapshots[s] = [frame |-> NoFrame],
              !.pools = [a \in Arrays |->
                  IF h.snapshots[s].frame = NoFrame THEN @[a]
                  ELSE Released(Released(@[a], Range(h.snapshots[s].refs[a])),
                                Range(h.snapshots[s].refs[a]))]]

ReleaseSnapshot(h, s) ==
    [h EXCEPT !.snapshots[s] = [frame |-> NoFrame],
              !.pools = [a \in Arrays |->
                  IF h.snapshots[s].frame = NoFrame THEN @[a]
                  ELSE Released(@[a], Range(h.snapshots[s].refs[a]))]]

DirtyPagesOfMoved(a, k) ==
    CASE a \in {"pos", "vel", "mass"} -> {PageOf(b) : b \in k.moved}
      [] a \in {"dual", "stable"} -> {PageOf(c) : c \in k.dirty}
      [] a = "manifold" -> IF k.topology THEN PagesOf(k[a]) ELSE {}
      [] a \in {"candidate", "bounds", "pairs"} -> IF k.rebuilt THEN PagesOf(k[a]) ELSE {}

\* The pages of each array that the hints call dirty.
DirtyPages(a, k) ==
    CASE a = "pos" -> {PageOf(b) : b \in k.moved}
      [] a \in {"vel", "mass"} -> {PageOf(b) : b \in k.checked}
      [] a \in {"dual", "stable"} -> {PageOf(c) : c \in k.dirty}
      [] a = "manifold" -> IF k.topology THEN PagesOf(k[a]) ELSE {}
      [] a \in {"candidate", "bounds", "pairs"} -> IF k.rebuilt THEN PagesOf(k[a]) ELSE {}

\* capture_array: which pages are shared with the frame before, and the ids of
\* the others.  before is <<>> when that frame is not retained.
SharedPages(pool, values, before, dirty) ==
    {p \in PagesOf(values) \intersect DOMAIN before :
        /\ DOMAIN pool[before[p]].item = DOMAIN Page(values, p)
        /\ p \notin dirty \/ pool[before[p]].item = Page(values, p)}

CaptureArray(pool, values, before, dirty) ==
    LET shared == SharedPages(pool, values, before, dirty)
        copied == SetToSortSeq(PagesOf(values) \ shared, <)
        free == SetToSortSeq(Free(pool), <)
        NewId(p) == free[CHOOSE i \in DOMAIN copied : copied[i] = p]
        refs == [p \in PagesOf(values) |-> IF p \in shared THEN before[p] ELSE NewId(p)]
        staged == FoldSet(LAMBDA p, q : Staged(q, NewId(p), Page(values, p)), pool, Range(copied))
    IN IF Len(copied) > Len(free) THEN [ok |-> FALSE, pool |-> pool, refs |-> <<>>]
       ELSE [ok |-> TRUE, pool |-> Committed(staged, Range(refs)), refs |-> refs]

\* capture_internal: the pages are taken before the frame that is evicted gives
\* its own back; an exhausted pool leaves the history as it was.
Capture(h, k) ==
    LET before(a) == IF k.frame > 0 /\ Holds(h.snapshots, k.frame - 1)
                     THEN h.snapshots[SlotOf(k.frame - 1)].refs[a] ELSE <<>>
        taken == [a \in Arrays |-> CaptureArray(h.pools[a], k[a], before(a), DirtyPages(a, k))]
        released == ReleaseSnapshot([h EXCEPT !.pools = [a \in Arrays |-> taken[a].pool]],
                                    SlotOf(k.frame))
    IN IF \E a \in Arrays : ~taken[a].ok THEN Answer(FALSE, h)
       ELSE Answer(TRUE, [released EXCEPT !.snapshots[SlotOf(k.frame)] =
                [frame |-> k.frame, validUntil |-> k.validUntil, signature |-> k.lookup,
                 pairCount |-> Cardinality(DOMAIN k.pairs),
                 refs |-> [a \in Arrays |-> taken[a].refs]]])

TruncateAfter(h, f) ==
    FoldSet(LAMBDA s, g : ReleaseSnapshot(g, s), h,
            {s \in DOMAIN h.snapshots : h.snapshots[s].frame > f})

\* restore_array_delta: a page the current frame shares with the target is taken
\* to be in the live array already.
RestoreArray(pool, refs, current, live, size) ==
    [i \in 0 .. size - 1 |->
        IF PageOf(i) \in DOMAIN current /\ current[PageOf(i)] = refs[PageOf(i)]
        THEN IF i \in DOMAIN live THEN live[i] ELSE None
        ELSE pool[refs[PageOf(i)]].item[i]]

\* restore_direct_from_current, into the arrays of k, whose frame is the
\* current one; the metadata come back with it.
RestoreDirect(h, f, k, withPairs) ==
    LET s == h.snapshots[SlotOf(f)]
        current(a) == IF Holds(h.snapshots, k.frame)
                      THEN h.snapshots[SlotOf(k.frame)].refs[a] ELSE <<>>
        size(a) == IF a = "pairs" THEN s.pairCount ELSE Cardinality(DOMAIN k[a])
        kept == [i \in 0 .. s.pairCount - 1 |-> IF i \in DOMAIN k.pairs THEN k.pairs[i] ELSE None]
        restored(a) == RestoreArray(h.pools[a], s.refs[a], current(a), k[a], size(a))
    IN [k EXCEPT !.pos = restored("pos"), !.vel = restored("vel"), !.mass = restored("mass"),
                 !.dual = restored("dual"), !.manifold = restored("manifold"),
                 !.stable = restored("stable"), !.candidate = restored("candidate"),
                 !.bounds = restored("bounds"),
                 !.pairs = IF withPairs THEN restored("pairs") ELSE kept,
                 !.frame = f, !.validUntil = s.validUntil]

\* Each page has as many references as retained frames that show it, and is
\* free otherwise.
ExactReferences(h) ==
    LET retained == {s \in DOMAIN h.snapshots : h.snapshots[s].frame # NoFrame}
    IN \A a \in Arrays : \A i \in DOMAIN h.pools[a] :
          h.pools[a][i].refs = Cardinality({s \in retained : i \in Range(h.snapshots[s].refs[a])})

---------------------------------------------------------------------------
CONSTANTS
    World, Inputs, MaxFrame, MaxCorrections,  \* as in AtomicTemporalPhysics
    PairGenerations, TopologyGenerations, PageElements, BodyPagePool, SegmentPagePool,
    SegmentPool, SegmentRoom, MaximumPairs, WordBits, Mode

D == INSTANCE PooledPairHistories WITH ExtraPairs <- 0
P == INSTANCE PagedSegmentedPairHistory

VARIABLES
    flavor,      \* which of the three engines
    kernel,      \* kernel_
    history,     \* history_
    pairs,       \* pairs_, the pair history
    inputs,      \* inputs_: slot -> frame and input
    script,      \* the inputs in force, by frame
    failed,      \* a call threw, and no restore succeeded since
    trusted,     \* the hints held in every step so far
    corrections  \* restores and corrections so far

vars == <<flavor, kernel, history, pairs, inputs, script, failed, trusted, corrections>>

Flavors == {"paged", "authoritative", "segmented"}

Engine(k, h, p, ok, t) == [kernel |-> k, history |-> h, pairs |-> p, ok |-> ok, trusted |-> t]
Live == Engine(kernel, history, pairs, TRUE, trusted)

\* What the captures rely on: the step did not throw half way, a change of the
\* manifold came with a rebuilt cache, and where pairs have a history of their
\* own, a rebuilt cache moved the bounds of checked bodies only.
HintsHold(before, r) ==
    /\ r.ok
    /\ r.k.topology => r.k.rebuilt
    /\ flavor # "paged" /\ r.k.rebuilt =>
          \A b \in Bodies \ r.k.checked : r.k.bounds[b] = before.bounds[b]

\* capture_pairs: without a rebuilt cache the pairs are taken to be unchanged,
\* and with one the bodies whose pairs changed are taken to be the checked ones.
DirtyBodies(k) == IF k.rebuilt THEN k.checked ELSE {}
CapturePairs(p, k) ==
    IF flavor = "paged" THEN Answer(TRUE, p)
    ELSE IF flavor = "authoritative"
    THEN D!DynamicCapture(p, k.frame, JoinedPairs(k.manifold), Range(k.pairs), FALSE,
                   DirtyBodies(k), k.topology, TRUE)
    ELSE P!Capture(p, k.frame, JoinedPairs(k.manifold), Range(k.pairs), FALSE,
                   DirtyBodies(k), k.topology, TRUE, TRUE)

FindInput(ring, f) == IF ring[SlotOf(f)].frame = f THEN ring[SlotOf(f)].input ELSE NoInput

\* step_one: the kernel, the pages, the pairs, each of which may throw and
\* leave what came before it done.
StepOne(e, input) ==
    LET captured(k, h, p, t) ==
            IF h.ok THEN Engine(k, h.h, p.h, p.ok, t) ELSE Engine(k, e.history, e.pairs, FALSE, t)
        after(r, t) ==
            IF r.ok THEN captured(r.k, Capture(e.history, r.k), CapturePairs(e.pairs, r.k), t)
            ELSE Engine(r.k, e.history, e.pairs, FALSE, t)
        stepped(r) == after(r, e.trusted /\ HintsHold(e.kernel, r))
    IN stepped(Step(e.kernel, input, FALSE))

SimulateTo(e, target, ring) ==
    FoldLeft(LAMBDA x, f : IF x.ok THEN StepOne(x, FindInput(ring, f)) ELSE x,
             e, [i \in 1 .. target - e.kernel.frame |-> e.kernel.frame + i])

\* finalize_direct_restore: the indexes are rebuilt when the signature differs.
FinalizeDirectRestore(k, signature) ==
    IF signature = k.lookup THEN k ELSE [k EXCEPT !.lookup = k.manifold, !.islands = k.manifold]

\* synchronize_authoritative_pairs: as many pairs as the pages say there are.
SynchronizePairs(e, f) ==
    LET with(list) == IF DOMAIN list # DOMAIN e.kernel.pairs THEN [e EXCEPT !.ok = FALSE]
                      ELSE [e EXCEPT !.kernel.pairs = list]
    IN IF flavor = "paged" THEN e
       ELSE with(Array(IF flavor = "authoritative" THEN D!DynamicRestorePairs(e.pairs, f)
                       ELSE P!RestorePairs(e.pairs, f)))

RestoreTo(e, f) ==
    LET direct == RestoreDirect(e.history, f, e.kernel, flavor # "segmented")
        k == FinalizeDirectRestore(direct, e.history.snapshots[SlotOf(f)].signature)
    IN SynchronizePairs([e EXCEPT !.kernel = k], f)

Retained(h, p, f) ==
    Holds(h.snapshots, f) /\ (IF flavor = "paged" THEN TRUE ELSE Holds(p.snapshots, f))

TruncatedPairs(p, f) ==
    CASE flavor = "paged" -> p
      [] flavor = "authoritative" -> D!DynamicTruncateAfter(p, f)
      [] flavor = "segmented" -> P!TruncateAfter(p, f)
TruncatedAfter(e, f) ==
    [e EXCEPT !.history = TruncateAfter(e.history, f), !.pairs = TruncatedPairs(e.pairs, f)]

Install(e) ==
    /\ kernel' = e.kernel /\ history' = e.history /\ pairs' = e.pairs
    /\ failed' = ~e.ok /\ trusted' = e.trusted

Init ==
    LET k == Initial(World)
        contacts == JoinedPairs(k.manifold)
    IN /\ flavor \in Flavors
       /\ kernel = k
       /\ history = Capture(Empty, k).h
       /\ pairs = CASE flavor = "paged" -> <<>>
                    [] flavor = "authoritative" -> D!DynamicInitialize(0, contacts, Range(k.pairs), FALSE).h
                    [] flavor = "segmented" -> P!Initialize(0, contacts, Range(k.pairs), FALSE).h
       /\ inputs = [s \in 0 .. Capacity - 1 |-> [frame |-> NoFrame, input |-> NoInput]]
       /\ script = <<>> /\ failed = FALSE /\ trusted = TRUE /\ corrections = 0

\* set_input and simulate_to(frame + 1).
Advance(input) ==
    LET f == kernel.frame + 1
    IN /\ ~failed /\ f <= MaxFrame
       /\ inputs' = [inputs EXCEPT ![SlotOf(f)] = [frame |-> f, input |-> input]]
       /\ script' = Append(script, input)
       /\ Install(StepOne(Live, input))
       /\ UNCHANGED <<flavor, corrections>>

\* restore and truncate_after, as correct_and_resimulate calls them; also of the
\* frame the engine is at, which is how a caller recovers from a step that threw.
Restore(f) ==
    /\ corrections < MaxCorrections
    /\ f <= kernel.frame /\ Retained(history, pairs, f)
    /\ \E restored \in {RestoreTo(Live, f)} :
          Install(IF restored.ok THEN TruncatedAfter(restored, f) ELSE restored)
    /\ script' = SubSeq(script, 1, f)
    /\ corrections' = corrections + 1
    /\ UNCHANGED <<flavor, inputs>>

\* correct_and_resimulate up to the frame the engine is at.
Correct(f, input) ==
    LET ring == [inputs EXCEPT ![SlotOf(f)] = [frame |-> f, input |-> input]]
    IN /\ corrections < MaxCorrections /\ ~failed
       /\ f \in 1 .. kernel.frame /\ Retained(history, pairs, f - 1)
       /\ inputs' = ring
       /\ script' = [script EXCEPT ![f] = input]
       /\ \E restored \in {RestoreTo(Live, f - 1)} :
             Install(IF restored.ok
                     THEN SimulateTo(TruncatedAfter(restored, f - 1), kernel.frame, ring)
                     ELSE restored)
       /\ corrections' = corrections + 1
       /\ UNCHANGED flavor

Next ==
    \/ \E input \in Inputs : Advance(input)
    \/ \E f \in 0 .. MaxFrame : Restore(f)
    \/ \E f \in 1 .. MaxFrame, input \in Inputs : Correct(f, input)

Spec == Init /\ [][Next]_vars

(***************************************************************************)
(* Properties.                                                             *)
(***************************************************************************)
CleanRun ==
    LET run[n \in 0 .. Len(script)] ==
            IF n = 0 THEN Initial(World) ELSE Step(run[n - 1], script[n], FALSE).k
    IN run

Same(k, clean) == [Complete(k) EXCEPT !.pairs = Range(@)] = [Complete(clean) EXCEPT !.pairs = Range(@)]

GivesBackFrames(clean) ==
    /\ ~failed => Same(kernel, clean[kernel.frame])
    /\ \A f \in 0 .. kernel.frame : Retained(history, pairs, f) =>
          LET e == RestoreTo(Live, f) IN e.ok /\ Same(e.kernel, clean[f])

\* Restoring any retained frame, from wherever the engine is, gives back that
\* frame: the arrays, the cache, the candidates and the pairs are those of a
\* clean run of the inputs in force (restore of the three engines, and the
\* comment at segmented_authoritative_paged_temporal_physics.cpp:39, "The
\* kernel's changed_bodies set is complete for pair-cache dependencies.").
RestoreGivesBackFrame == GivesBackFrames(CleanRun)

\* Wherever the hints of the kernel hold, restoring a retained frame gives it
\* back, through shared pages, evictions, delta restores and corrections
\* (paged_atomic_history.cpp, the two pair histories and finalize_direct_restore).
HintedRestoreGivesBackFrame == trusted => GivesBackFrames(CleanRun)

\* The page and pair pools count exactly the frames that show each of their
\* generations, whatever was shared, evicted, truncated or refused.
PagesExact ==
    /\ ExactReferences(history)
    /\ flavor = "authoritative" => D!DynamicExactReferences(pairs)
    /\ flavor = "segmented" => P!ExactReferences(pairs)

===========================================================================
