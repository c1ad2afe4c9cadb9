---------------------------- MODULE EncodedStores ----------------------------
(***************************************************************************)
(* The stores of src/snapshot_store.cpp that do not keep every world       *)
(* whole.                                                                  *)
(*                                                                         *)
(* The entries of two of them are whole worlds or patches of the entry     *)
(* before.  DeltaCheckpointStore: every CheckpointInterval-th frame is     *)
(* kept whole, the frames between as patches, and the entry after an       *)
(* evicted one is promoted to a whole world first.  HybridAdaptiveStore:   *)
(* every frame is kept as a whole world, as the changed bodies or as the   *)
(* touched pages, whichever costs the fewest bytes once a penalty for      *)
(* changing the encoding is added.  An evicted entry's successor is        *)
(* promoted to a whole world but keeps the record of the decision it was   *)
(* captured with.                                                          *)
(*                                                                         *)
(* The snapshots of the other two share what did not change with the       *)
(* snapshot before.  PagedStore (the paged copy-on-write and the           *)
(* persistent chunk tree strategies): a snapshot is a vector of immutable  *)
(* pages; a capture copies the pages the dirty set touches.                *)
(* ComponentSoAStore: a snapshot is one array per component (identity, the *)
(* two coordinates of position and of velocity); a capture copies the      *)
(* arrays of the components that changed in any body.                      *)
(***************************************************************************)
EXTENDS Snapshots, FiniteSets

-----------------------------------------------------------------------------
(* DeltaCheckpointStore *)

VARIABLES
  deltas,         \* entries_: frame -> [full, patch]
  deltasLatest    \* latest_: the world of the newest entry

deltasVars == <<deltas, deltasLatest>>

\* A mutant: the oldest entry is dropped and its successor stays a patch.
EnforceDeltasNoPromotion(log) ==
  IF NewestEntry(log) - OldestEntry(log) + 1 > Capacity
  THEN [f \in DOMAIN log \ {OldestEntry(log)} |-> log[f]]
  ELSE log

\* A mutant: the successor is promoted without its own patches.
EnforceDeltasOldWorld(log) ==
  LET oldest == OldestEntry(log) IN
  IF NewestEntry(log) - oldest + 1 > Capacity
  THEN [f \in DOMAIN log \ {oldest} |->
          IF f = oldest + 1
          THEN [full |-> TRUE, patch |-> RestoreEntries(log, oldest)] ELSE log[f]]
  ELSE log

\* enforce_capacity: a capture adds one entry, so at most one is dropped
EnforceDeltas(log) ==
  LET oldest == OldestEntry(log) IN
  IF NewestEntry(log) - oldest + 1 > Capacity
  THEN [f \in DOMAIN log \ {oldest} |->
          IF f = oldest + 1
          THEN [full |-> TRUE, patch |-> RestoreEntries(log, f)] ELSE log[f]]
  ELSE log

\* add_checkpoint or the patch entry; indices are the reported changes
DeltaFor(frame, world, indices) ==
  IF frame % CheckpointInterval = 0
  THEN [full |-> TRUE, patch |-> world]
  ELSE [full |-> FALSE, patch |-> [body \in indices |-> world[body]]]

DeltasInit ==
  /\ deltas = Nothing
  /\ deltasLatest = Nothing

\* capture of the first world: a checkpoint, whatever its frame
CaptureFirstDelta(frame, world) ==
  /\ deltas = Nothing
  /\ deltas' = PushEntry(deltas, frame, [full |-> TRUE, patch |-> world])
  /\ deltasLatest' = world

\* capture of the frame after the newest
CaptureDelta(frame, world, dirty) ==
  /\ deltas # Nothing
  /\ frame = NewestEntry(deltas) + 1
  /\ deltas' =
       EnforceDeltas(
         PushEntry(deltas, frame,
              DeltaFor(frame, world,
                       BodiesOf(ChangedCells(deltasLatest, world, dirty)))))
  /\ deltasLatest' = world

TruncateDeltas(frame) ==
  /\ frame \in DOMAIN deltas
  /\ deltas' = PopEntriesAfter(deltas, frame)
  /\ deltasLatest' = RestoreEntries(deltas', frame)

DeltasNext ==
  \/ \E frame \in 0..MaxFrame, world \in World : CaptureFirstDelta(frame, world)
  \/ \E frame \in 0..MaxFrame, world \in World :
       \E dirty \in DirtySets(RestoreEntries(deltas, NewestEntry(deltas)), world) :
         CaptureDelta(frame, world, dirty)
  \/ \E frame \in 0..MaxFrame : TruncateDeltas(frame)

DeltasSpec == DeltasInit /\ [][DeltasNext]_deltasVars

-----------------------------------------------------------------------------
\* The oldest entry is always whole, whatever was evicted or truncated, so
\* that restore of a retained frame never ends in the logic_error "Delta
\* store has no retained checkpoint" (snapshot_store.cpp:341).
OldestDeltaIsWhole ==
  deltas # Nothing =>
    /\ deltas[OldestEntry(deltas)].full
    /\ \A f \in DOMAIN deltas :
         deltas[f].full => DOMAIN deltas[f].patch = Bodies

\* latest_, against which a capture without a dirty set is compared, is the
\* world restore returns for the newest frame (snapshot_store.cpp:326, 369).
LatestIsNewestDelta ==
  deltas # Nothing => deltasLatest = RestoreEntries(deltas, NewestEntry(deltas))

\* The delta store implements the snapshot store: what it restores for a
\* retained frame is the world that was captured with it, through evictions,
\* promotions and truncations.
FullDeltas == INSTANCE SnapshotStore WITH
                snapshots <- [f \in DOMAIN deltas |-> RestoreEntries(deltas, f)]

DeltasImplementSnapshotStore == FullDeltas!Spec

-----------------------------------------------------------------------------
(* HybridAdaptiveStore *)

Encodings == {"Full", "Delta", "Pages"}

VARIABLES
  hybrids,        \* entries_: frame -> [full, patch, encoding]; encoding is
                  \* decision.encoding, full is storage = Full
  hybridsLatest,  \* latest_
  lastDecision    \* last_decision_

hybridsVars == <<hybrids, hybridsLatest, lastDecision>>

\* The bodies of every page one of the indices lies in
TouchedBodies(indices) ==
  {body \in Bodies : \E index \in indices : PageOf(body) = PageOf(index)}

TouchedPages(indices) == {PageOf(index) : index \in indices}

Cost(encoding, indices) ==
  CASE encoding = "Full" -> BodyCount * BodyBytes
    [] encoding = "Delta" -> Cardinality(indices) * PatchBytes
    [] encoding = "Pages" ->
         Cardinality(TouchedPages(indices)) * PageIndexBytes
           + Cardinality(TouchedBodies(indices)) * BodyBytes

SwitchingPenalty ==
  LET share == (BodyCount * BodyBytes) \div 20
  IN  IF share < MaxPenalty THEN share ELSE MaxPenalty

Adjusted(last, encoding, indices) ==
  Cost(encoding, indices)
    + (IF encoding = last THEN 0 ELSE SwitchingPenalty)

\* min_element over Full, Delta, Pages: the first of the cheapest
Cheapest(last, indices) ==
  LET cost(e) == Adjusted(last, e, indices) IN
  IF cost("Full") <= cost("Delta") /\ cost("Full") <= cost("Pages")
  THEN "Full"
  ELSE IF cost("Delta") <= cost("Pages") THEN "Delta" ELSE "Pages"

Selected(frame, last, indices) ==
  IF frame % CheckpointInterval = 0 THEN "Full" ELSE Cheapest(last, indices)

\* A mutant: a page patch holds only the changed bodies of the page
\* that come first in it.
HybridForShortPages(encoding, world, indices) ==
  [full |-> encoding = "Full", encoding |-> encoding,
   patch |-> [body \in CASE encoding = "Full" -> Bodies
                         [] encoding = "Delta" -> indices
                         [] encoding = "Pages" ->
                              {b \in indices : b % PageBodies = 0}
                |-> world[body]]]

HybridFor(encoding, world, indices) ==
  [full |-> encoding = "Full", encoding |-> encoding,
   patch |-> [body \in CASE encoding = "Full" -> Bodies
                         [] encoding = "Delta" -> indices
                         [] encoding = "Pages" -> TouchedBodies(indices)
                |-> world[body]]]

\* A mutant: the eviction promotes the oldest entry's successor to a whole
\* world without the patches of the successor itself.
EnforceHybridsOldWorld(log) ==
  LET oldest == OldestEntry(log) IN
  IF NewestEntry(log) - oldest + 1 > Capacity
  THEN [f \in DOMAIN log \ {oldest} |->
          IF f = oldest + 1 /\ ~log[f].full
          THEN [log[f] EXCEPT !.full = TRUE, !.patch = RestoreEntries(log, oldest)]
          ELSE log[f]]
  ELSE log

EnforceHybrids(log) ==
  LET oldest == OldestEntry(log) IN
  IF NewestEntry(log) - oldest + 1 > Capacity
  THEN [f \in DOMAIN log \ {oldest} |->
          IF f = oldest + 1 /\ ~log[f].full
          THEN [log[f] EXCEPT !.full = TRUE, !.patch = RestoreEntries(log, f)]
          ELSE log[f]]
  ELSE log

\* restore: deltas and pages after the last whole world, in order
RestoredHybrid(frame) == RestoreEntries(hybrids, frame)

HybridsInit ==
  /\ hybrids = Nothing
  /\ hybridsLatest = Nothing
  /\ lastDecision = "Full"

CaptureFirstHybrid(frame, world) ==
  /\ hybrids = Nothing
  /\ hybrids' = PushEntry(hybrids, frame, HybridFor("Full", world, Bodies))
  /\ hybridsLatest' = world
  /\ UNCHANGED lastDecision

CaptureHybrid(frame, world, dirty) ==
  LET indices == BodiesOf(ChangedCells(hybridsLatest, world, dirty))
      selected == Selected(frame, lastDecision, indices)
  IN
  /\ hybrids # Nothing
  /\ frame = NewestEntry(hybrids) + 1
  /\ hybrids' = EnforceHybrids(
                  PushEntry(hybrids, frame, HybridFor(selected, world, indices)))
  /\ hybridsLatest' = world
  /\ lastDecision' = selected

\* A mutant: the decision of the frame that was cut off lives on.
TruncateHybridsKeepsDecision(frame) ==
  /\ frame \in DOMAIN hybrids
  /\ hybrids' = PopEntriesAfter(hybrids, frame)
  /\ hybridsLatest' = RestoreEntries(hybrids', frame)
  /\ UNCHANGED lastDecision

TruncateHybrids(frame) ==
  /\ frame \in DOMAIN hybrids
  /\ hybrids' = PopEntriesAfter(hybrids, frame)
  /\ hybridsLatest' = RestoreEntries(hybrids', frame)
  /\ lastDecision' = hybrids[frame].encoding

HybridsNext ==
  \/ \E frame \in 0..MaxFrame, world \in World : CaptureFirstHybrid(frame, world)
  \/ \E frame \in 0..MaxFrame, world \in World :
       \E dirty \in DirtySets(RestoredHybrid(NewestEntry(hybrids)), world) :
         CaptureHybrid(frame, world, dirty)
  \/ \E frame \in 0..MaxFrame : TruncateHybrids(frame)

HybridsSpec == HybridsInit /\ [][HybridsNext]_hybridsVars

-----------------------------------------------------------------------------
\* last_decision_ is the decision of the newest retained frame also after a
\* truncation, so that simulating the same frames again takes the same
\* encodings as the first time (snapshot_store.cpp:911, 961), even when the
\* newest entry has been promoted to a whole world meanwhile.
LastDecisionIsNewest ==
  hybrids # Nothing => lastDecision = hybrids[NewestEntry(hybrids)].encoding

\* The hybrid store implements the snapshot store, whatever encodings the
\* costs choose, through promotions of evicted entries' successors and
\* through truncations.
FullHybrids == INSTANCE SnapshotStore WITH
                 snapshots <- [f \in DOMAIN hybrids |-> RestoredHybrid(f)]

HybridsImplementSnapshotStore == FullHybrids!Spec


-----------------------------------------------------------------------------
(* PagedStore *)

Pages == {PageOf(body) : body \in Bodies}

BodiesOfPage(page) == {body \in Bodies : PageOf(body) = page}

VARIABLES
  pages,          \* snapshots_: frame -> page -> the bodies of the page
  pagesLatest     \* latest_

pagesVars == <<pages, pagesLatest>>

NewestPages == NewestOf(DOMAIN pages)

CopyPage(world, page) == [body \in BodiesOfPage(page) |-> world[body]]

\* A mutant: the page of an index is taken from its offset in the page.
TouchedByOffset(indices) == {index % PageBodies : index \in indices}

Touched(indices) == {PageOf(index) : index \in indices}

\* restore: the pages one after the other
RestorePages(snapshot) == [body \in Bodies |-> snapshot[PageOf(body)][body]]

\* A mutant: the page is chosen by the id of its first body.
LookupPagesByFirst(snapshot, entity) ==
  LET fitting == {page \in Pages :
                    entity <= IdOf(OldestOf(BodiesOfPage(page)))}
      page == OldestOf(fitting)
  IN IF fitting = {} THEN {}
     ELSE {snapshot[page][body] :
             body \in {b \in BodiesOfPage(page) : IdOf(b) = entity}}

\* lookup: the first page whose last body has an id that is not smaller
LookupPages(snapshot, entity) ==
  LET fitting == {page \in Pages :
                    entity <= IdOf(NewestOf(BodiesOfPage(page)))}
      page == OldestOf(fitting)
  IN IF fitting = {} THEN {}
     ELSE {snapshot[page][body] :
             body \in {b \in BodiesOfPage(page) : IdOf(b) = entity}}

PagesInit == pages = Nothing /\ pagesLatest = Nothing

\* capture into an empty store: every page is copied
CaptureFirstPages(frame, world) ==
  /\ pages = Nothing
  /\ pages' = [f \in {frame} |-> [page \in Pages |-> CopyPage(world, page)]]
  /\ pagesLatest' = world

\* capture: the touched pages are copied, then the pop_front loop
CapturePages(frame, world, dirty) ==
  LET touched == Touched(BodiesOf(ChangedCells(pagesLatest, world, dirty)))
      snapshot == [page \in Pages |->
                     IF page \in touched THEN CopyPage(world, page)
                     ELSE pages[NewestPages][page]]
  IN
  /\ pages # Nothing
  /\ frame = NewestPages + 1
  /\ pages' = [f \in {g \in DOMAIN pages \cup {frame} :
                        g > frame - Capacity} |->
                 IF f = frame THEN snapshot ELSE pages[f]]
  /\ pagesLatest' = world

\* A mutant: latest_ keeps the world of a frame that is gone.
TruncatePagesStale(frame) ==
  /\ frame \in DOMAIN pages
  /\ pages' = [f \in {g \in DOMAIN pages : g <= frame} |-> pages[f]]
  /\ UNCHANGED pagesLatest

TruncatePages(frame) ==
  /\ frame \in DOMAIN pages
  /\ pages' = [f \in {g \in DOMAIN pages : g <= frame} |-> pages[f]]
  /\ pagesLatest' = RestorePages(pages[frame])

PagesNext ==
  \/ \E frame \in 0..MaxFrame, world \in World : CaptureFirstPages(frame, world)
  \/ \E frame \in 0..MaxFrame, world \in World :
       \E dirty \in DirtySets(RestorePages(pages[NewestPages]), world) :
         CapturePages(frame, world, dirty)
  \/ \E frame \in 0..MaxFrame : TruncatePages(frame)

PagesSpec == PagesInit /\ [][PagesNext]_pagesVars

-----------------------------------------------------------------------------
\* latest_, against which a capture without a dirty set is compared, is what
\* restore returns for the newest frame (snapshot_store.cpp:537, 577).
LatestIsNewestPages ==
  pages # Nothing => pagesLatest = RestorePages(pages[NewestPages])

\* The paged store implements the snapshot store: sharing the untouched
\* pages of the newest snapshot never shows a body an older or a truncated
\* value.
FullPages == INSTANCE SnapshotStore WITH
               snapshots <- [f \in DOMAIN pages |-> RestorePages(pages[f])]

PagesImplementSnapshotStore == FullPages!Spec

-----------------------------------------------------------------------------
(* ComponentSoAStore *)

VARIABLES
  arrays,          \* snapshots_: frame -> component -> body -> value
  arraysLatest     \* latest_

arraysVars == <<arrays, arraysLatest>>

NewestArrays == NewestOf(DOMAIN arrays)

RestoreArrays(snapshot) ==
  [body \in Bodies |-> [c \in Components |-> snapshot[c][body]]]

\* lookup: the index of the id, then one value of every array
LookupArrays(snapshot, entity) ==
  {[c \in Components |-> snapshot[c][body]] :
     body \in {b \in Bodies : IdOf(b) = entity}}

\* make_component when the component has to be copied
Column(world, c) == [body \in Bodies |-> world[body][c]]

ArraysInit == arrays = Nothing /\ arraysLatest = Nothing

CaptureFirstArrays(frame, world) ==
  /\ arrays = Nothing
  /\ arrays' = [f \in {frame} |-> [c \in Components |-> Column(world, c)]]
  /\ arraysLatest' = world

\* aggregate: the union of the masks of the changed bodies
Aggregate(cells) == {cell[2] : cell \in cells}

SnapshotOf(world, aggregate) ==
  [c \in Components |-> IF c \in aggregate THEN Column(world, c)
                        ELSE arrays[NewestArrays][c]]

\* capture: the changed components are copied, then the pop_front loop
CaptureArrays(frame, world, dirty) ==
  LET aggregate == Aggregate(ChangedCells(arraysLatest, world, dirty)) IN
  /\ arrays # Nothing
  /\ frame = NewestArrays + 1
  /\ arrays' = [f \in {g \in DOMAIN arrays \cup {frame} :
                         g > frame - Capacity} |->
                  IF f = frame THEN SnapshotOf(world, aggregate)
                  ELSE arrays[f]]
  /\ arraysLatest' = world

\* A mutant: latest_ keeps the world of a frame that is gone.
TruncateArraysStale(frame) ==
  /\ frame \in DOMAIN arrays
  /\ arrays' = [f \in {g \in DOMAIN arrays : g <= frame} |-> arrays[f]]
  /\ UNCHANGED arraysLatest

TruncateArrays(frame) ==
  /\ frame \in DOMAIN arrays
  /\ arrays' = [f \in {g \in DOMAIN arrays : g <= frame} |-> arrays[f]]
  /\ arraysLatest' = RestoreArrays(arrays[frame])

ArraysNext ==
  \/ \E frame \in 0..MaxFrame, world \in World : CaptureFirstArrays(frame, world)
  \/ \E frame \in 0..MaxFrame, world \in World :
       \E dirty \in DirtySets(RestoreArrays(arrays[NewestArrays]), world) :
         CaptureArrays(frame, world, dirty)
  \/ \E frame \in 0..MaxFrame : TruncateArrays(frame)

ArraysSpec == ArraysInit /\ [][ArraysNext]_arraysVars

-----------------------------------------------------------------------------
\* The component store implements the snapshot store: a component array
\* that is shared because no body changed it never shows the value of a
\* frame that was cut off, also when the next capture is compared with
\* latest_ instead of coming with a dirty set (snapshot_store.cpp:645-699,
\* 737-743).
FullArrays == INSTANCE SnapshotStore WITH
                snapshots <- [f \in DOMAIN arrays |-> RestoreArrays(arrays[f])]

ArraysImplementSnapshotStore == FullArrays!Spec

=============================================================================
