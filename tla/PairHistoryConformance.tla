---- MODULE PairHistoryConformance ----
(***************************************************************************)
(* Each of the four histories of pairs driven by a producer, as the fuzz   *)
(* apps drive them against an oracle: frames are captured with exact,      *)
(* withheld or overstated hints, some lists are refused, pools run out,    *)
(* and the producer rolls back and captures other worlds.                  *)
(***************************************************************************)
EXTENDS PairHistories

CONSTANTS
    Worlds,       \* the [contacts, pairs] the producer may show
    MaxFrame,     \* bound: the last frame captured
    MaxRollbacks, \* bound: rollbacks of a behaviour
    ExtraPairs, PairGenerations, TopologyGenerations, SegmentPool, SegmentRoom,
    PageElements, BodyPagePool, SegmentPagePool, MaximumPairs, WordBits, Mode

H == INSTANCE PooledPairHistories
P == INSTANCE PagedSegmentedPairHistory

VARIABLES
    kind,        \* which history this behaviour is about
    history,
    timeline,    \* the worlds of the frames it holds, and of the last two
    frame,       \* the newest frame
    held,        \* the frames it accepted and should still have
    rollbacks    \* rollbacks so far

vars == <<kind, history, timeline, frame, held, rollbacks>>

Kinds == {"versioned", "dynamic", "segmented", "paged"}
Hints == {"exact", "withheld", "overstated"}

Initialized(k, w) ==
    CASE k = "versioned" -> H!VersionedInitialize(0, w.contacts, w.pairs, FALSE)
      [] k = "dynamic" -> H!DynamicInitialize(0, w.contacts, w.pairs, FALSE)
      [] k = "segmented" -> H!SegmentedInitialize(0, w.contacts, w.pairs, FALSE)
      [] k = "paged" -> P!Initialize(0, w.contacts, w.pairs, FALSE)

\* Only the producer of the two segmented histories may withhold the dirty
\* bodies; the others are told all of them, or to write everything.
Captured(f, w, bad, dirty, changed, complete) ==
    LET told == IF complete THEN dirty ELSE {}
    IN CASE kind = "versioned" -> H!VersionedCapture(history, f, w.pairs, bad, dirty, ~complete)
         [] kind = "dynamic" ->
              H!DynamicCapture(history, f, w.contacts, w.pairs, bad, dirty, changed, complete)
         [] kind = "segmented" ->
              H!SegmentedCapture(history, f, w.contacts, w.pairs, bad, told, changed, complete, complete)
         [] kind = "paged" ->
              P!Capture(history, f, w.contacts, w.pairs, bad, told, changed, complete, complete)

Truncated(f) ==
    CASE kind = "versioned" -> H!VersionedTruncateAfter(history, f)
      [] kind = "dynamic" -> H!DynamicTruncateAfter(history, f)
      [] kind = "segmented" -> H!SegmentedTruncateAfter(history, f)
      [] kind = "paged" -> P!TruncateAfter(history, f)

Init ==
    \E w \in Worlds :
        /\ kind \in Kinds
        /\ \E answer \in {Initialized(kind, w)} : answer.ok /\ history = answer.h
        /\ timeline = (0 :> w) /\ frame = 0 /\ held = {0} /\ rollbacks = 0

\* A frame that is accepted takes the slot of the frame Capacity before it; a
\* refused one leaves the history as it was, and the producer goes on.
Capture(w, hint, bad) ==
    LET f == frame + 1
        dirty == ChangedBodies(timeline[frame].pairs, w.pairs) \union (IF bad THEN {0} ELSE {})
        changed == \/ hint = "overstated"
                   \/ hint = "exact" /\ w.contacts # timeline[frame].contacts
    IN /\ f <= MaxFrame
       /\ \E answer \in {Captured(f, w, bad, dirty, changed, hint # "withheld")} :
             /\ history' = answer.h
             /\ held' = IF answer.ok THEN {g \in held : SlotOf(g) # SlotOf(f)} \union {f}
                        ELSE held
       /\ frame' = f
       /\ timeline' = [g \in held' \union {f - 1, f} |-> IF g = f THEN w ELSE timeline[g]]
       /\ UNCHANGED <<kind, rollbacks>>

Rollback(f) ==
    /\ f \in held /\ f < frame /\ rollbacks < MaxRollbacks
    /\ rollbacks' = rollbacks + 1
    /\ history' = Truncated(f)
    /\ held' = {g \in held : g <= f}
    /\ timeline' = [g \in held' |-> timeline[g]]
    /\ frame' = f
    /\ UNCHANGED kind

Next ==
    \/ \E w \in Worlds, hint \in Hints, bad \in BOOLEAN : Capture(w, hint, bad)
    \/ \E f \in 0 .. MaxFrame : Rollback(f)

Spec == Init /\ [][Next]_vars

\* The counts and the hash of a paged frame are those of its world, whatever
\* generations it happens to share.
PagedSummaryIsOf(f, keys) ==
    LET w == timeline[f]
        parts == P!PartitionPairs(w.pairs, keys)
    IN /\ P!PairCount(history, f) = Cardinality(w.pairs)
       /\ P!IslandCount(history, f) = Cardinality(Range(keys))
       /\ P!SpillPairCount(history, f) = Cardinality(parts.spill)
       /\ P!Hash(history, f) = <<f, P!TopologySignature(w.contacts),
                                 Cardinality(Range(keys)), parts.runs, parts.spill>>

\* A history gives back, for every frame it accepted, the pairs, the spill
\* and the islands of that frame, in ascending order, and holds no other
\* frame: whatever it shared between frames, whatever a refused or exhausted
\* capture had staged, and whatever was rolled back (restore_pairs,
\* restore_spill_pairs, restore_body_island_keys of the four histories).
HistoriesAgree ==
    /\ RetainedFrames(history.snapshots) = held
    /\ \A f \in held :
          LET keys == Keys(timeline[f].contacts)
              pairs == Sorted(timeline[f].pairs)
              spill == Sorted(Spill(timeline[f].pairs, keys))
          IN CASE kind = "versioned" -> H!VersionedRestore(history, f) = pairs
               [] kind = "dynamic" -> /\ H!DynamicRestorePairs(history, f) = pairs
                                      /\ H!DynamicRestoreSpill(history, f) = spill
                                      /\ H!DynamicRestoreIslands(history, f) = IslandNumbers(keys)
               [] kind = "segmented" -> /\ H!SegmentedRestorePairs(history, f) = pairs
                                        /\ H!SegmentedRestoreSpill(history, f) = spill
                                        /\ H!SegmentedRestoreKeys(history, f) = keys
               [] kind = "paged" -> /\ P!RestorePairs(history, f) = pairs
                                    /\ P!RestoreSpill(history, f) = spill
                                    /\ P!RestoreKeys(history, f) = keys
                                    /\ PagedSummaryIsOf(f, keys)

\* Every reference count is the number of owners: a payload a retained frame
\* reads is never handed out again, and nothing a refused capture staged or a
\* rollback dropped is lost to the pool; the slot allocators agree with the
\* counts, which the code answers with logic_error when they do not.
ReferencesExact ==
    CASE kind = "versioned" -> H!VersionedExactReferences(history)
      [] kind = "dynamic" -> H!DynamicExactReferences(history)
      [] kind = "segmented" -> H!SegmentedExactReferences(history)
      [] kind = "paged" -> P!ExactReferences(history)
====
