-------------------------- MODULE StoreConformance --------------------------
(***************************************************************************)
(* All the stores that make_snapshot_store can hand to the engine, the     *)
(* ring of interactive sessions and the two histories of immutable worlds, *)
(* given the same calls at the same time.                                  *)
(* The store that keeps whole worlds is the reference (SnapshotStore, in   *)
(* the variable snapshots).  Whether a store accepts a call depends on the *)
(* frames it retains only, so that as long as the stores agree no store    *)
(* refuses what another accepts.                                           *)
(***************************************************************************)
EXTENDS SnapshotStore, EncodedStores, FiniteSetsExt

---------------------------------------------------------------------------
(***************************************************************************)
(* The live payload bytes a MemoryLedger counts for a store that keeps     *)
(* full worlds, patches and pages (src/snapshot_store.cpp:19-81): added    *)
(* when an entry is pushed, taken off when it is evicted or cut off, and   *)
(* exchanged when it is promoted to a whole world.  The counters that only *)
(* grow, and the metadata, which is one amount per entry, are left out.    *)
(***************************************************************************)

\* world_payload_bytes, after shrink_to_fit
WorldPayloadBytes == BodyCount * BodyBytes

\* payload_bytes of an entry, by the form it is stored in
PayloadBytes(entry, paged) ==
  IF entry.full THEN WorldPayloadBytes
  ELSE Cardinality(DOMAIN entry.patch) * (IF paged THEN BodyBytes
                                          ELSE PatchBytes)

AllocatePayload(live, bytes) == live + bytes

ReleasePayload(live, bytes) == live - bytes

\* Whether the patch of an entry is a list of pages.
IsPaged(entry) == "encoding" \in DOMAIN entry /\ entry.encoding = "Pages"

Bytes(entry) == PayloadBytes(entry, IsPaged(entry))

\* A mutant: the bytes of the patch stay counted after its promotion.
AfterEvictionKeepsPatch(live, log) ==
  LET oldest == OldestEntry(log)
      successor == log[oldest + 1]
  IN ReleasePayload(IF successor.full THEN live
                    ELSE AllocatePayload(live, WorldPayloadBytes),
                    Bytes(log[oldest]))

\* account_release and account_add of the entry that enforce_capacity
\* promotes, then account_release of the one it drops
AfterEviction(live, log) ==
  LET oldest == OldestEntry(log)
      successor == log[oldest + 1]
      exchanged == IF successor.full THEN live
                   ELSE AllocatePayload(ReleasePayload(live, Bytes(successor)),
                                        WorldPayloadBytes)
  IN ReleasePayload(exchanged, Bytes(log[oldest]))

\* A capture: log is the store with the new entry and before the eviction
AfterCapture(live, log) ==
  LET added == AllocatePayload(live, Bytes(log[NewestEntry(log)])) IN
  IF NewestEntry(log) - OldestEntry(log) + 1 > Capacity THEN AfterEviction(added, log)
                                              ELSE added

SumOfBytes(log, frames) == MapThenSumSet(LAMBDA f : Bytes(log[f]), frames)

\* truncate_after releases the entries it pops, one by one
AfterTruncation(live, log, frame) ==
  ReleasePayload(live, SumOfBytes(log, {f \in DOMAIN log : f > frame}))

LiveBytes(log) == SumOfBytes(log, DOMAIN log)

---------------------------------------------------------------------------
CONSTANTS
  NoValue,              \* what an empty slot of the ring holds
  ChunkSize,            \* of the immutable worlds
  MaxDeltaDepth,        \* of the persistent checkpoints
  AdaptiveDensityPpm    \* of the persistent checkpoints

\* What make_immutable_world and the constructor of the persistent
\* checkpoints require.
ASSUME HistoriesAssumption ==
  /\ ChunkSize \in Nat \ {0}
  /\ MaxDeltaDepth \in Nat \ {0}
  /\ AdaptiveDensityPpm \in 0..1000000

VARIABLES
  ringSlots, ringOldest, ringLatest,
  immutableTrees,
  checkpointPolicy, checkpointEntries, checkpointDepth,
  live      \* live payload bytes of the full, the delta and the hybrid store

ringVars == <<ringSlots, ringOldest, ringLatest>>
checkpointVars == <<checkpointPolicy, checkpointEntries, checkpointDepth>>
vars == <<snapshots, deltasVars, hybridsVars, pagesVars, arraysVars, ringVars,
          immutableTrees, checkpointVars, live>>

\* The ring's last frame number lies beyond the frames of the model.
Ring == INSTANCE IndexedFrameRing WITH
          slots <- ringSlots, oldest <- ringOldest, latest <- ringLatest,
          MaxFrame <- MaxFrame + 1

Immutable == INSTANCE ImmutableHistories WITH
               trees <- immutableTrees,
               policy <- checkpointPolicy, entries <- checkpointEntries,
               depth <- checkpointDepth

\* make_snapshot_store, once per strategy, and the other constructors
MakeStores ==
  /\ Init
  /\ DeltasInit /\ HybridsInit /\ PagesInit /\ ArraysInit /\ Ring!Init
  /\ Immutable!TreesInit /\ Immutable!CheckpointsInit
  /\ live = [full |-> 0, delta |-> 0, hybrid |-> 0]

\* FullCopyStore: every snapshot is a whole world
FullBytes(frames) == WorldPayloadBytes * Cardinality(frames)

\* The ledgers after a capture of the frame; the entries are the ones the
\* two stores push.
LedgersAfter(frame, deltaEntry, hybridEntry) ==
  [full |-> live.full + WorldPayloadBytes
              - FullBytes(DOMAIN snapshots \ DOMAIN snapshots'),
   delta |-> AfterCapture(live.delta, PushEntry(deltas, frame, deltaEntry)),
   hybrid |-> AfterCapture(live.hybrid, PushEntry(hybrids, frame, hybridEntry))]

\* ISnapshotStore::capture of the first world
CaptureFirst(frame, world) ==
  /\ DOMAIN snapshots = {}
  /\ Capture(frame, world)
  /\ CaptureFirstDelta(frame, world)
  /\ CaptureFirstHybrid(frame, world)
  /\ CaptureFirstPages(frame, world)
  /\ CaptureFirstArrays(frame, world)
  /\ Ring!Capture(frame, world)
  /\ Immutable!CaptureFirstTree(frame, world)
  /\ Immutable!CaptureFirstCheckpoint(frame, world)
  /\ live' = LedgersAfter(frame, [full |-> TRUE, patch |-> world],
                          HybridFor("Full", world, Bodies))

\* ISnapshotStore::capture of the frame after the newest; the dirty set, if
\* the engine passes one, covers what changed since then.
CaptureNext(world) ==
  /\ DOMAIN snapshots # {}
  /\ LET newest == NewestOf(DOMAIN snapshots) IN
     /\ newest < MaxFrame
     /\ \E dirty \in DirtySets(snapshots[newest], world) :
          /\ Capture(newest + 1, world)
          /\ CaptureDelta(newest + 1, world, dirty)
          /\ CaptureHybrid(newest + 1, world, dirty)
          /\ CapturePages(newest + 1, world, dirty)
          /\ CaptureArrays(newest + 1, world, dirty)
          /\ Ring!Capture(newest + 1, world)
          /\ Immutable!CaptureTree(newest + 1, world)
          /\ Immutable!CaptureCheckpoint(newest + 1, immutableTrees'[newest + 1],
                                ChangedCells(snapshots[newest], world, dirty))
          /\ LET indices == BodiesOf(ChangedCells(snapshots[newest], world,
                                                  dirty))
                 selected == Selected(newest + 1, lastDecision, indices)
             IN live' = LedgersAfter(
                          newest + 1,
                          DeltaFor(newest + 1, world, indices),
                          HybridFor(selected, world, indices))

\* ISnapshotStore::truncate_after
TruncateAll(frame) ==
  /\ TruncateAfter(frame)
  /\ TruncateDeltas(frame)
  /\ TruncateHybrids(frame)
  /\ TruncatePages(frame)
  /\ TruncateArrays(frame)
  /\ Ring!TruncateAfter(frame)
  /\ Immutable!TruncateTrees(frame)
  /\ Immutable!TruncateCheckpoints(frame)
  /\ live' = [full |-> live.full - FullBytes(DOMAIN snapshots
                                              \ DOMAIN snapshots'),
              delta |-> AfterTruncation(live.delta, deltas, frame),
              hybrid |-> AfterTruncation(live.hybrid, hybrids, frame)]

NextCall ==
  \/ \E frame \in 0..MaxFrame, world \in World : CaptureFirst(frame, world)
  \/ \E world \in World : CaptureNext(world)
  \/ \E frame \in 0..MaxFrame : TruncateAll(frame)

Calls == MakeStores /\ [][NextCall]_vars

\* bound: the worlds of the run, which differ from the first in one cell of
\* either page, in either component, in a page of which only the second body
\* changes, and in everything.
Rest == [body \in Bodies |-> [c \in Components |-> 0]]

SmallWorlds ==
  {Rest,
   [Rest EXCEPT ![0]["position"] = 1],
   [Rest EXCEPT ![1]["velocity"] = 1],
   [Rest EXCEPT ![2]["position"] = 1],
   [body \in Bodies |-> [c \in Components |-> 1]]}

-----------------------------------------------------------------------------
\* latest_ of each store that is compared with the next world is the newest
\* world the store restores, also right after a truncation
\* (snapshot_store.cpp:369, 577, 742, 962): otherwise the next capture
\* without a dirty set would miss a change.
LatestIsNewest ==
  DOMAIN snapshots # {} =>
    LET world == snapshots[NewestOf(DOMAIN snapshots)] IN
    deltasLatest = world /\ hybridsLatest = world
      /\ pagesLatest = world /\ arraysLatest = world

\* The ring finds every frame its size() counts in its slot
\* (indexed_ring.hpp:38-52, 65-68).
WindowIsStored == Ring!WindowIsStored

\* Every retained immutable world has the Merkle hash of a world built from
\* nothing, also when a restore has put it together from changes
\* (immutable_world.cpp:202-221, 353-424).
HashesAreFresh ==
  /\ Immutable!HashesAreFresh
  /\ \A f \in DOMAIN checkpointEntries \cap DOMAIN immutableTrees :
       Immutable!Restore(checkpointEntries, f) = immutableTrees[f]

\* A restore of the persistent checkpoints finds a whole world and applies
\* a bounded number of changes (persistent_checkpoint.cpp:102-122).
RestoreIsBounded == Immutable!RestoreIsBounded

\* The bytes a ledger calls live are those of the entries the store still
\* holds, through evictions, promotions and truncations
\* (snapshot_store.cpp:21-34, 399-427, 988-1008).
LedgersExact ==
  /\ live.full = FullBytes(DOMAIN snapshots)
  /\ live.delta = LiveBytes(deltas)
  /\ live.hybrid = LiveBytes(hybrids)

\* The window and the worlds a store gives back are those of the reference.
SameWindow(window) == window = snapshots

\* The delta store restores, for every frame the full-copy store restores
\* and for no other, the same world (snapshot_store.cpp:330-370).
DeltaAgrees == SameWindow([f \in DOMAIN deltas |->
                             RestoreEntries(deltas, f)])

\* The hybrid store agrees with the full-copy store whatever encodings its
\* costs choose (snapshot_store.cpp:915-963).
HybridAgrees == SameWindow([f \in DOMAIN hybrids |->
                              RestoreEntries(hybrids, f)])

\* The paged store agrees with the full-copy store although its snapshots
\* share the pages no dirty body lies in (snapshot_store.cpp:480-578).
PagedAgrees == SameWindow([f \in DOMAIN pages |->
                             RestorePages(pages[f])])

\* The component store agrees with the full-copy store although its
\* snapshots share the arrays of unchanged components
\* (snapshot_store.cpp:643-743).
ComponentAgrees == SameWindow([f \in DOMAIN arrays |->
                                 RestoreArrays(arrays[f])])

\* The ring agrees with the full-copy store although a slot is reused every
\* Capacity frames (indexed_ring.hpp:21-62).
RingAgrees ==
  SameWindow([f \in {g \in 0..MaxFrame : Ring!Contains(g)} |->
                ringSlots[f % Capacity].value])

\* Both histories of immutable worlds agree with the full-copy store
\* although their worlds share the nodes off the changed paths
\* (immutable_rollback.cpp:21-54, persistent_checkpoint.cpp:39-94).
ImmutableAgree ==
  /\ SameWindow([f \in DOMAIN immutableTrees |->
                    Immutable!Materialize(immutableTrees[f])])
  /\ SameWindow([f \in DOMAIN checkpointEntries |->
                    Immutable!Materialize(
                      Immutable!Restore(checkpointEntries, f))])

\* What the stores rely on between two calls, and a restore does not show:
\* the consequences come captures later.
Anchored ==
  OldestDeltaIsWhole /\ LatestIsNewest /\ LastDecisionIsNewest
    /\ WindowIsStored

\* The ledgers count what is held, and the two histories of immutable
\* worlds, which share nodes and their hashes, retain the same worlds.
LedgersAndTreesExact ==
  /\ LedgersExact
  /\ HashesAreFresh /\ RestoreIsBounded /\ ImmutableAgree

\* A lookup that does not restore the whole world finds the same body, or
\* none, for ids of bodies and for ids between them
\* (snapshot_store.cpp:556-565, 717-726).
LookupsAgree ==
  \A f \in DOMAIN snapshots, entity \in EntityIds :
    /\ LookupPages(pages[f], entity) = FindBody(snapshots[f], entity)
    /\ LookupArrays(arrays[f], entity) = FindBody(snapshots[f], entity)

\* Every store of make_snapshot_store and the ring restore what the full-copy
\* store restores, frame by frame, look up what it would look up, and keep
\* what the next captures rely on.
StoresAgree ==
  /\ DeltaAgrees /\ HybridAgrees /\ PagedAgrees /\ ComponentAgrees
  /\ RingAgrees /\ LookupsAgree
  /\ Anchored

\* Each encoding, seen through its restore, is a snapshot store: every call
\* is one capture or one truncation of the abstract window
\* (snapshot_store.cpp:1043-1061).
StoresImplement ==
  /\ DeltasImplementSnapshotStore
  /\ HybridsImplementSnapshotStore
  /\ PagesImplementSnapshotStore
  /\ ArraysImplementSnapshotStore
  /\ Ring!ImplementsSnapshotStore
  /\ Immutable!TreesImplementSnapshotStore
  /\ Immutable!CheckpointsImplementSnapshotStore

===========================================================================
