---------------------------- MODULE StoreProofs ----------------------------
(***************************************************************************)
(* The stores behind make_snapshot_store and the ring implement            *)
(* SnapshotStore, each under its own calls, and restore what the full-copy *)
(* store restores when all are given the same calls.                       *)
(*                                                                         *)
(* Each store is related to a window w, the frames lo to hi with their     *)
(* worlds, by a predicate of its own (LogOf, PagesHold, ArraysHold,        *)
(* RingHolds); one lemma per operation says that the store after the       *)
(* operation holds the window after it.  The lemmas are about operators,   *)
(* so that the refinements use them with the window a store restores, and  *)
(* the comparison with the window of the reference.                        *)
(***************************************************************************)
EXTENDS StoreConformance, TLAPS

-----------------------------------------------------------------------------
(* Windows: what the reference keeps, and what a call makes of it *)

IsWorld(world) ==
  world = [body \in Bodies |-> [c \in Components |-> world[body][c]]]

\* The window from frame lo to frame hi
Spans(window, lo, hi) ==
  /\ lo \in Nat /\ hi \in Nat
  /\ lo <= hi /\ hi - lo < Capacity
  /\ window = [f \in lo..hi |-> window[f]]
  /\ \A f \in lo..hi : window[f] \in World

IsWindow(window) ==
  window = Nothing \/ \E lo, hi \in Nat : Spans(window, lo, hi)

\* What a capture of the frame and a truncation to it leave
Captured(window, frame, world) ==
  [f \in RetainedAfter(DOMAIN window, frame) |->
     IF f = frame THEN world ELSE window[f]]

Truncated(window, frame) ==
  [f \in RetainedUpTo(DOMAIN window, frame) |-> window[f]]

\* The oldest frame once hi + 1 has been captured
OldestAfter(lo, hi) == IF hi + 1 - lo = Capacity THEN lo + 1 ELSE lo

LEMMA NewestIs ==
  ASSUME NEW S \in SUBSET Int, NEW m \in S, \A g \in S : g <= m
  PROVE  NewestOf(S) = m
<1>1. \E f \in S : \A g \in S : g <= f
  OBVIOUS
<1>2. NewestOf(S) \in S /\ \A g \in S : g <= NewestOf(S)
  BY <1>1 DEF NewestOf
<1> DEFINE n == NewestOf(S)
<1>3. n \in Int /\ m \in Int /\ m <= n /\ n <= m
  BY <1>2
<1> HIDE DEF n
<1>4. n = m
  BY <1>3
<1> QED BY <1>4 DEF n

LEMMA OldestIs ==
  ASSUME NEW S \in SUBSET Int, NEW m \in S, \A g \in S : m <= g
  PROVE  OldestOf(S) = m
<1>1. \E f \in S : \A g \in S : f <= g
  OBVIOUS
<1>2. OldestOf(S) \in S /\ \A g \in S : OldestOf(S) <= g
  BY <1>1 DEF OldestOf
<1> DEFINE n == OldestOf(S)
<1>3. n \in Int /\ m \in Int /\ m <= n /\ n <= m
  BY <1>2
<1> HIDE DEF n
<1>4. n = m
  BY <1>3
<1> QED BY <1>4 DEF n

LEMMA EndsOfRange ==
  ASSUME NEW lo \in Nat, NEW hi \in Nat, lo <= hi
  PROVE  /\ NewestOf(lo..hi) = hi /\ OldestOf(lo..hi) = lo
         /\ lo..hi # {}
<1>1. lo..hi \in SUBSET Int /\ lo \in lo..hi /\ hi \in lo..hi
  OBVIOUS
<1>2. \A g \in lo..hi : lo <= g /\ g <= hi
  OBVIOUS
<1> QED BY <1>1, <1>2, NewestIs, OldestIs

LEMMA CapacityIsPositive == Capacity \in Nat /\ Capacity > 0
  BY SnapshotsAssumption DEF SnapshotsAssumption

LEMMA WorldsAreWorlds ==
  ASSUME NEW world \in World PROVE IsWorld(world)
  BY SnapshotsAssumption DEF SnapshotsAssumption, IsWorld

LEMMA SpansNotNothing ==
  ASSUME NEW w, NEW lo, NEW hi, Spans(w, lo, hi)
  PROVE  /\ w # Nothing /\ DOMAIN w = lo..hi /\ DOMAIN w # {}
         /\ NewestOf(DOMAIN w) = hi /\ OldestOf(DOMAIN w) = lo
<1>1. lo \in Nat /\ hi \in Nat /\ lo <= hi /\ DOMAIN w = lo..hi
  BY DEF Spans
<1>2. lo \in DOMAIN w /\ DOMAIN Nothing = {}
  BY <1>1 DEF Nothing
<1> QED BY <1>1, <1>2, EndsOfRange

\* The first capture
LEMMA CapturedFirst ==
  ASSUME NEW n \in Nat, NEW world \in World
  PROVE  /\ Captured(Nothing, n, world) = [f \in {n} |-> world]
         /\ Spans(Captured(Nothing, n, world), n, n)
<1>1. RetainedAfter(DOMAIN Nothing, n) = {n}
  BY CapacityIsPositive DEF RetainedAfter, Nothing
<1>2. Captured(Nothing, n, world) = [f \in {n} |-> world]
  BY <1>1 DEF Captured
<1>3. n..n = {n}
  OBVIOUS
<1> QED BY <1>2, <1>3, CapacityIsPositive DEF Spans

LEMMA RetainedIsRange ==
  ASSUME NEW lo \in Nat, NEW hi \in Nat, lo <= hi, hi - lo < Capacity
  PROVE  /\ RetainedAfter(lo..hi, hi + 1) = OldestAfter(lo, hi)..(hi + 1)
         /\ OldestAfter(lo, hi) \in Nat /\ OldestAfter(lo, hi) <= hi + 1
         /\ hi + 1 - OldestAfter(lo, hi) < Capacity
         /\ lo <= OldestAfter(lo, hi)
  BY CapacityIsPositive DEF RetainedAfter, OldestAfter

LEMMA CapturedSpans ==
  ASSUME NEW w, NEW lo, NEW hi, Spans(w, lo, hi), NEW world \in World
  PROVE  /\ Spans(Captured(w, hi + 1, world), OldestAfter(lo, hi), hi + 1)
         /\ Captured(w, hi + 1, world)[hi + 1] = world
         /\ \A f \in OldestAfter(lo, hi)..hi :
              f \in lo..hi /\ Captured(w, hi + 1, world)[f] = w[f]
<1> DEFINE first == OldestAfter(lo, hi)
           next == Captured(w, hi + 1, world)
<1>1. lo \in Nat /\ hi \in Nat /\ lo <= hi /\ hi - lo < Capacity
        /\ DOMAIN w = lo..hi /\ \A f \in lo..hi : w[f] \in World
  BY DEF Spans
<1>2. /\ RetainedAfter(lo..hi, hi + 1) = first..(hi + 1)
      /\ first \in Nat /\ first <= hi + 1
      /\ hi + 1 - first < Capacity /\ lo <= first
  BY <1>1, RetainedIsRange
<1>3. next = [f \in first..(hi + 1) |-> IF f = hi + 1 THEN world ELSE w[f]]
  BY <1>1, <1>2 DEF Captured
<1> HIDE DEF first, next
<1>4. \A f \in first..hi : f \in lo..hi /\ f \in first..(hi + 1) /\ f # hi + 1
  BY <1>1, <1>2
<1>5. \A f \in first..(hi + 1) : f = hi + 1 \/ f \in lo..hi
  BY <1>1, <1>2
<1>6. hi + 1 \in first..(hi + 1)
  BY <1>1, <1>2
<1>7. next[hi + 1] = world /\ \A f \in first..hi : next[f] = w[f]
  BY <1>3, <1>4, <1>6
<1>8. \A f \in first..(hi + 1) : next[f] \in World
  BY <1>1, <1>3, <1>5
<1>9. next = [f \in first..(hi + 1) |-> next[f]]
  BY <1>3
<1>10. Spans(next, first, hi + 1)
  BY <1>1, <1>2, <1>8, <1>9 DEF Spans
<1> QED BY <1>4, <1>7, <1>10 DEF first, next

LEMMA TruncatedSpans ==
  ASSUME NEW w, NEW lo, NEW hi, Spans(w, lo, hi), NEW n \in lo..hi
  PROVE  /\ Spans(Truncated(w, n), lo, n)
         /\ {g \in lo..hi : g <= n} = lo..n
         /\ \A f \in lo..n : f \in lo..hi /\ Truncated(w, n)[f] = w[f]
<1>1. lo \in Nat /\ hi \in Nat /\ lo <= hi /\ hi - lo < Capacity
        /\ DOMAIN w = lo..hi /\ \A f \in lo..hi : w[f] \in World
  BY DEF Spans
<1>2. {g \in lo..hi : g <= n} = lo..n /\ n \in Nat /\ lo <= n
        /\ n - lo < Capacity
  BY <1>1, CapacityIsPositive
<1>3. Truncated(w, n) = [f \in lo..n |-> w[f]]
  BY <1>1, <1>2 DEF Truncated, RetainedUpTo
<1>4. \A f \in lo..n : f \in lo..hi
  BY <1>1, <1>2
<1> QED BY <1>1, <1>2, <1>3, <1>4 DEF Spans

-----------------------------------------------------------------------------
(* Dirty sets *)

\* A cell that is not among the changed ones has the same value in both
\* worlds, whichever of the three dirty sets came with the capture.
LEMMA UnchangedCell ==
  ASSUME NEW before, NEW after, NEW dirty \in DirtySets(before, after),
         NEW body \in Bodies, NEW c \in Components,
         <<body, c>> \notin ChangedCells(before, after, dirty)
  PROVE  after[body][c] = before[body][c]
<1>1. <<body, c>> \in Bodies \X Components
  OBVIOUS
<1>2. \/ ChangedCells(before, after, dirty) = Difference(before, after)
      \/ ChangedCells(before, after, dirty) = Bodies \X Components
  BY DEF ChangedCells, DirtySets, FullDirty
<1>3. <<body, c>> \notin Difference(before, after)
  BY <1>1, <1>2
<1> QED BY <1>1, <1>3 DEF Difference

LEMMA UnchangedBody ==
  ASSUME NEW before, NEW after, IsWorld(before), IsWorld(after),
         NEW dirty \in DirtySets(before, after),
         NEW body \in Bodies,
         body \notin BodiesOf(ChangedCells(before, after, dirty))
  PROVE  after[body] = before[body]
<1>1. \A c \in Components :
        <<body, c>> \notin ChangedCells(before, after, dirty)
  BY DEF BodiesOf
<1>2. \A c \in Components : after[body][c] = before[body][c]
  BY <1>1, UnchangedCell
<1>3. /\ after[body] = [c \in Components |-> after[body][c]]
      /\ before[body] = [c \in Components |-> before[body][c]]
  BY DEF IsWorld
<1>4. [c \in Components |-> after[body][c]]
        = [c \in Components |-> before[body][c]]
  BY <1>2
<1> QED BY <1>3, <1>4

LEMMA UnchangedColumn ==
  ASSUME NEW before, NEW after, NEW dirty \in DirtySets(before, after),
         NEW c \in Components,
         c \notin Aggregate(ChangedCells(before, after, dirty))
  PROVE  \A body \in Bodies : after[body][c] = before[body][c]
<1>1. \A body \in Bodies :
        <<body, c>> \notin ChangedCells(before, after, dirty)
  BY DEF Aggregate
<1> QED BY <1>1, UnchangedCell

\* The dirty sets name bodies of the world only.
LEMMA ChangedAreBodies ==
  ASSUME NEW before, NEW after, NEW dirty \in DirtySets(before, after)
  PROVE  BodiesOf(ChangedCells(before, after, dirty)) \subseteq Bodies
<1>1. ChangedCells(before, after, dirty) \subseteq Bodies \X Components
  BY DEF ChangedCells, DirtySets, FullDirty, Difference
<1> QED BY <1>1 DEF BodiesOf

-----------------------------------------------------------------------------
(* Logs of whole worlds and patches *)

\* The entry of frame g is the last one up to frame f that writes the body.
Writes(log, f, body, g) ==
  /\ g \in DOMAIN log /\ g <= f
  /\ body \in DOMAIN log[g].patch
  /\ \A h \in DOMAIN log : g < h /\ h <= f => body \notin DOMAIN log[h].patch

\* Every body of every retained world is written by the entry that is the
\* last to write it: what restore relies on, whoever promoted, evicted or
\* popped entries before.
LogOf(log, window, lo, hi) ==
  /\ log = [f \in lo..hi |-> log[f]]
  /\ \A f \in lo..hi, body \in Bodies :
       \E g \in lo..hi : /\ Writes(log, f, body, g)
                         /\ log[g].patch[body] = window[f][body]

\* A whole entry writes every body, and the oldest one is whole.
WholeEntries(log, lo, hi) ==
  /\ log[lo].full
  /\ \A f \in lo..hi : log[f].full => DOMAIN log[f].patch = Bodies

LEMMA LastWriterIs ==
  ASSUME NEW log, DOMAIN log \in SUBSET Int, NEW f \in Int, NEW body,
         NEW g, Writes(log, f, body, g)
  PROVE  LastWriter(log, f, body) = g
<1> DEFINE writers == {h \in DOMAIN log :
                         h <= f /\ body \in DOMAIN log[h].patch}
<1>1. writers \in SUBSET Int /\ g \in writers
  BY DEF Writes
<1>2. \A h \in writers : h <= g
  BY DEF Writes
<1>3. NewestOf(writers) = g
  BY <1>1, <1>2, NewestIs
<1> QED BY <1>3 DEF LastWriter

LEMMA RestoreGives ==
  ASSUME NEW log, NEW w, NEW lo \in Nat, NEW hi \in Nat,
         LogOf(log, w, lo, hi), NEW f \in lo..hi, w[f] \in World
  PROVE  RestoreEntries(log, f) = w[f]
<1>1. DOMAIN log = lo..hi /\ f \in Int
  BY DEF LogOf
<1>2. ASSUME NEW body \in Bodies
      PROVE  log[LastWriter(log, f, body)].patch[body] = w[f][body]
  <2>1. PICK g \in lo..hi : /\ Writes(log, f, body, g)
                            /\ log[g].patch[body] = w[f][body]
    BY DEF LogOf
  <2>2. LastWriter(log, f, body) = g
    BY <1>1, <2>1, LastWriterIs
  <2> QED BY <2>1, <2>2
<1>3. RestoreEntries(log, f) = [body \in Bodies |-> w[f][body]]
  BY <1>2 DEF RestoreEntries
<1>4. IsWorld(w[f])
  BY WorldsAreWorlds
<1> QED BY <1>3, <1>4 DEF IsWorld

\* The log, read through restore, is the window.
LEMMA LogReadsAsWindow ==
  ASSUME NEW log, NEW w, NEW lo, NEW hi,
         Spans(w, lo, hi), LogOf(log, w, lo, hi)
  PROVE  /\ [f \in DOMAIN log |-> RestoreEntries(log, f)] = w
         /\ DOMAIN log = lo..hi /\ log # Nothing
         /\ NewestEntry(log) = hi /\ OldestEntry(log) = lo
<1>1. \A f \in lo..hi : RestoreEntries(log, f) = w[f]
  BY RestoreGives DEF Spans
<1>2. DOMAIN log = lo..hi /\ w = [f \in lo..hi |-> w[f]]
  BY DEF LogOf, Spans
<1>3. lo \in Nat /\ hi \in Nat /\ lo <= hi
  BY DEF Spans
<1>4. NewestEntry(log) = hi /\ OldestEntry(log) = lo
  BY <1>2, <1>3, EndsOfRange DEF NewestEntry, OldestEntry
<1>5. log # Nothing
  BY <1>2, <1>3 DEF Nothing
<1> QED BY <1>1, <1>2, <1>4, <1>5

LEMMA FirstEntry ==
  ASSUME NEW n \in Nat, NEW world \in World, NEW entry,
         DOMAIN entry.patch = Bodies,
         \A body \in Bodies : entry.patch[body] = world[body]
  PROVE  LET log == PushEntry(Nothing, n, entry) IN
         /\ LogOf(log, Captured(Nothing, n, world), n, n)
         /\ log[n] = entry
<1> DEFINE log == PushEntry(Nothing, n, entry)
<1>1. DOMAIN Nothing \cup {n} = n..n /\ n..n = {n}
  BY DEF Nothing
<1>2. log = [f \in n..n |-> entry]
  BY <1>1 DEF PushEntry
<1> HIDE DEF log
<1>3. \A body \in Bodies : Writes(log, n, body, n)
  BY <1>1, <1>2 DEF Writes
<1>4. Captured(Nothing, n, world)[n] = world
  BY CapturedFirst
<1> QED BY <1>1, <1>2, <1>3, <1>4 DEF LogOf, log

\* An entry with at least the bodies that changed.
Rewrites(entry, before, world) ==
  /\ \A body \in DOMAIN entry.patch : entry.patch[body] = world[body]
  /\ \A body \in Bodies \ DOMAIN entry.patch : world[body] = before[body]

\* The window next goes on from frame hi with the world.
GoesOn(next, w, lo, hi, world) ==
  next[hi + 1] = world /\ \A f \in lo..hi : next[f] = w[f]

\* push_back of such an entry.
LEMMA PushedEntry ==
  ASSUME NEW log, NEW w, NEW lo \in Nat, NEW hi \in Nat, lo <= hi,
         LogOf(log, w, lo, hi), NEW world, NEW entry,
         Rewrites(entry, w[hi], world),
         NEW next, GoesOn(next, w, lo, hi, world),
         NEW pushed, pushed = PushEntry(log, hi + 1, entry)
  PROVE  /\ LogOf(pushed, next, lo, hi + 1)
         /\ pushed[hi + 1] = entry
         /\ \A f \in lo..hi : pushed[f] = log[f]
<1>1. DOMAIN log = lo..hi
  BY DEF LogOf
<1>11. next[hi + 1] = world /\ \A f \in lo..hi : next[f] = w[f]
  BY DEF GoesOn
<1>2. (lo..hi) \cup {hi + 1} = lo..(hi + 1)
  OBVIOUS
<1>3. pushed = [f \in lo..(hi + 1) |-> IF f = hi + 1 THEN entry ELSE log[f]]
  BY <1>1, <1>2 DEF PushEntry
<1>4. /\ DOMAIN pushed = lo..(hi + 1)
      /\ pushed[hi + 1] = entry
      /\ \A f \in lo..hi : pushed[f] = log[f]
  BY <1>3
<1>5. ASSUME NEW f \in lo..hi, NEW body \in Bodies
      PROVE  \E g \in lo..hi : /\ Writes(pushed, f, body, g)
                               /\ pushed[g].patch[body] = next[f][body]
  <2>1. PICK g \in lo..hi : /\ Writes(log, f, body, g)
                            /\ log[g].patch[body] = w[f][body]
    BY DEF LogOf
  <2>2. pushed[g] = log[g] /\ next[f] = w[f]
    BY <1>4, <1>11
  <2>3. \A h \in lo..(hi + 1) : g < h /\ h <= f =>
          body \notin DOMAIN pushed[h].patch
    BY <1>1, <1>4, <2>1 DEF Writes
  <2>4. g \in lo..(hi + 1)
    OBVIOUS
  <2>5. Writes(pushed, f, body, g)
    BY <1>4, <2>1, <2>2, <2>3, <2>4 DEF Writes
  <2> QED BY <2>1, <2>2, <2>5
<1>6. ASSUME NEW body \in Bodies
      PROVE  \E g \in lo..(hi + 1) :
               /\ Writes(pushed, hi + 1, body, g)
               /\ pushed[g].patch[body] = next[hi + 1][body]
  <2>1. CASE body \in DOMAIN entry.patch
    <3>1. Writes(pushed, hi + 1, body, hi + 1)
      BY <1>4, <2>1 DEF Writes
    <3> QED BY <1>4, <1>11, <2>1, <3>1 DEF Rewrites
  <2>2. CASE body \notin DOMAIN entry.patch
    <3>1. hi \in lo..hi
      OBVIOUS
    <3>2. PICK g \in lo..hi : /\ Writes(pushed, hi, body, g)
                              /\ pushed[g].patch[body] = next[hi][body]
      BY <1>5, <3>1
    <3>3. next[hi][body] = next[hi + 1][body]
      BY <1>11, <2>2, <3>1 DEF Rewrites
    <3>4. \A h \in lo..(hi + 1) : g < h /\ h <= hi + 1 =>
            body \notin DOMAIN pushed[h].patch
      <4> SUFFICES ASSUME NEW h \in lo..(hi + 1), g < h
                   PROVE  body \notin DOMAIN pushed[h].patch
        OBVIOUS
      <4>1. CASE h = hi + 1
        BY <1>4, <2>2, <4>1
      <4>2. CASE h # hi + 1
        <5>1. h \in DOMAIN pushed /\ h <= hi
          BY <1>4, <4>2
        <5> QED BY <3>2, <5>1 DEF Writes
      <4> QED BY <4>1, <4>2
    <3>5. g \in lo..(hi + 1) /\ g <= hi + 1
      OBVIOUS
    <3>6. Writes(pushed, hi + 1, body, g)
      BY <1>4, <3>2, <3>4, <3>5 DEF Writes
    <3> QED BY <3>2, <3>3, <3>5, <3>6
  <2> QED BY <2>1, <2>2
<1>7. \A f \in lo..(hi + 1) : f = hi + 1 \/ f \in lo..hi
  OBVIOUS
<1>8. \A g \in lo..hi : g \in lo..(hi + 1)
  OBVIOUS
<1>9. pushed = [f \in lo..(hi + 1) |-> pushed[f]]
  BY <1>3
<1>10. LogOf(pushed, next, lo, hi + 1)
  BY <1>5, <1>6, <1>7, <1>8, <1>9 DEF LogOf
<1> QED BY <1>4, <1>10

\* The oldest entry goes, once its successor writes every body.
LEMMA EvictedEntry ==
  ASSUME NEW log, NEW w, NEW lo \in Nat, NEW hi \in Nat, lo < hi,
         LogOf(log, w, lo, hi),
         NEW kept, kept = [f \in (lo + 1)..hi |-> kept[f]],
         \A f \in (lo + 2)..hi : kept[f] = log[f],
         DOMAIN kept[lo + 1].patch = Bodies,
         \A body \in Bodies : kept[lo + 1].patch[body] = w[lo + 1][body]
  PROVE  LogOf(kept, w, lo + 1, hi)
<1>1. DOMAIN log = lo..hi /\ DOMAIN kept = (lo + 1)..hi
  BY DEF LogOf
<1> SUFFICES ASSUME NEW f \in (lo + 1)..hi, NEW body \in Bodies
             PROVE  \E g \in (lo + 1)..hi :
                      /\ Writes(kept, f, body, g)
                      /\ kept[g].patch[body] = w[f][body]
  BY DEF LogOf
<1>2. f \in lo..hi /\ lo + 1 \in lo..hi /\ lo + 1 \in (lo + 1)..hi
  OBVIOUS
<1>3. PICK g \in lo..hi : /\ Writes(log, f, body, g)
                          /\ log[g].patch[body] = w[f][body]
  BY <1>2 DEF LogOf
<1>4. CASE g >= lo + 2
  <2>1. g \in (lo + 2)..hi /\ g \in (lo + 1)..hi
    BY <1>4
  <2>2. \A h \in (lo + 1)..hi : g < h => h \in (lo + 2)..hi /\ h \in lo..hi
    BY <1>4
  <2>3. \A h \in (lo + 1)..hi : g < h /\ h <= f =>
          body \notin DOMAIN kept[h].patch
    BY <1>1, <1>3, <2>2 DEF Writes
  <2>4. Writes(kept, f, body, g)
    BY <1>1, <1>3, <2>1, <2>3 DEF Writes
  <2> QED BY <1>3, <2>1, <2>4
<1>5. CASE ~(g >= lo + 2)
  <2>1. g <= lo + 1
    BY <1>5
  <2>2. \A h \in (lo + 1)..hi : lo + 1 < h =>
          h \in (lo + 2)..hi /\ h \in lo..hi /\ g < h
    BY <2>1
  <2>3. \A h \in (lo + 1)..hi : lo + 1 < h /\ h <= f =>
          body \notin DOMAIN kept[h].patch
    BY <1>1, <1>3, <2>2 DEF Writes
  <2>4. Writes(kept, f, body, lo + 1)
    BY <1>1, <1>2, <2>3 DEF Writes
  <2>5. PICK k \in lo..hi : /\ Writes(log, lo + 1, body, k)
                            /\ log[k].patch[body] = w[lo + 1][body]
    BY <1>2 DEF LogOf
  <2>6. k = g
    <3>1. g <= lo + 1 /\ k <= lo + 1 /\ lo + 1 <= f
      BY <2>1, <2>5 DEF Writes
    <3>2. ~(k < g)
      BY <1>1, <1>3, <2>5, <3>1 DEF Writes
    <3>3. ~(g < k)
      BY <1>1, <1>3, <2>5, <3>1 DEF Writes
    <3> QED BY <3>2, <3>3
  <2>7. kept[lo + 1].patch[body] = w[f][body]
    BY <1>3, <2>5, <2>6
  <2> QED BY <1>2, <2>4, <2>7
<1> QED BY <1>4, <1>5

\* The pop_back loop of truncate_after.
LEMMA PoppedEntries ==
  ASSUME NEW log, NEW w, NEW lo \in Nat, NEW hi \in Nat, lo <= hi,
         LogOf(log, w, lo, hi), NEW n \in lo..hi,
         NEW next, \A f \in lo..n : next[f] = w[f]
  PROVE  LET popped == PopEntriesAfter(log, n) IN
         /\ LogOf(popped, next, lo, n)
         /\ \A f \in lo..n : popped[f] = log[f]
<1> DEFINE popped == PopEntriesAfter(log, n)
<1>1. DOMAIN log = lo..hi
  BY DEF LogOf
<1>2. {g \in lo..hi : g <= n} = lo..n /\ \A f \in lo..n : f \in lo..hi
  OBVIOUS
<1>3. popped = [f \in lo..n |-> log[f]]
  BY <1>1, <1>2 DEF PopEntriesAfter
<1> HIDE DEF popped
<1>4. DOMAIN popped = lo..n /\ \A f \in lo..n : popped[f] = log[f]
  BY <1>3
<1>5. ASSUME NEW f \in lo..n, NEW body \in Bodies
      PROVE  \E g \in lo..n : /\ Writes(popped, f, body, g)
                              /\ popped[g].patch[body] = next[f][body]
  <2>1. PICK g \in lo..hi : /\ Writes(log, f, body, g)
                            /\ log[g].patch[body] = w[f][body]
    BY <1>2 DEF LogOf
  <2>2. g <= f
    BY <2>1 DEF Writes
  <2>3. g \in lo..n
    BY <2>2
  <2>4. \A h \in lo..n : g < h /\ h <= f => body \notin DOMAIN popped[h].patch
    BY <1>1, <1>2, <1>4, <2>1 DEF Writes
  <2>5. Writes(popped, f, body, g)
    BY <1>4, <2>1, <2>3, <2>4 DEF Writes
  <2> QED BY <1>4, <2>1, <2>3, <2>5
<1>6. popped = [f \in lo..n |-> popped[f]]
  BY <1>3
<1>7. LogOf(popped, next, lo, n)
  BY <1>5, <1>6 DEF LogOf
<1> QED BY <1>4, <1>7 DEF popped

\* A log depends on the worlds of its own frames only.
LEMMA LogOfSame ==
  ASSUME NEW log, NEW w, NEW next, NEW lo \in Nat, NEW hi \in Nat,
         LogOf(log, w, lo, hi), \A f \in lo..hi : next[f] = w[f]
  PROVE  LogOf(log, next, lo, hi)
  BY DEF LogOf

\* enforce_capacity after the push_back of frame hi + 1: the oldest entry
\* goes when there is one too many, after its successor has been made whole
\* unless it was.
Enforced(kept, pushed, lo, hi) ==
  /\ kept = [f \in OldestAfter(lo, hi)..(hi + 1) |-> kept[f]]
  /\ \A f \in OldestAfter(lo, hi)..(hi + 1) :
       IF f = lo + 1 /\ hi + 1 - lo = Capacity
       THEN \/ kept[f].patch = RestoreEntries(pushed, f)
            \/ kept[f] = pushed[f] /\ DOMAIN pushed[f].patch = Bodies
       ELSE kept[f] = pushed[f]

\* A capture: an entry is pushed and the capacity enforced.
LEMMA CapturedLog ==
  ASSUME NEW log, NEW w, NEW lo, NEW hi,
         Spans(w, lo, hi), LogOf(log, w, lo, hi),
         NEW world \in World, NEW entry, Rewrites(entry, w[hi], world),
         NEW pushed, pushed = PushEntry(log, hi + 1, entry),
         NEW kept, Enforced(kept, pushed, lo, hi)
  PROVE  LogOf(kept, Captured(w, hi + 1, world), OldestAfter(lo, hi), hi + 1)
<1> DEFINE first == OldestAfter(lo, hi)
           next == Captured(w, hi + 1, world)
<1>1. lo \in Nat /\ hi \in Nat /\ lo <= hi /\ hi + 1 \in Nat
        /\ \A f \in lo..hi : w[f] \in World
  BY DEF Spans
<1>2. PICK mid : mid = [f \in lo..(hi + 1) |-> IF f = hi + 1 THEN world
                                               ELSE w[f]]
  OBVIOUS
<1>3. mid[hi + 1] = world /\ \A f \in lo..hi : mid[f] = w[f]
  BY <1>1, <1>2
<1>4. \A f \in lo..(hi + 1) : mid[f] \in World
  BY <1>1, <1>2
<1>5. LogOf(pushed, mid, lo, hi + 1)
  <2>1. GoesOn(mid, w, lo, hi, world)
    BY <1>3 DEF GoesOn
  <2>2. LogOf(log, w, lo, hi) /\ Rewrites(entry, w[hi], world)
          /\ pushed = PushEntry(log, hi + 1, entry)
    OBVIOUS
  <2> QED BY <1>1, <2>1, <2>2, PushedEntry
<1>6. /\ next[hi + 1] = world
      /\ \A f \in first..hi : f \in lo..hi /\ next[f] = w[f]
  BY CapturedSpans
<1>7. first \in Nat
  BY <1>1, CapacityIsPositive DEF OldestAfter
<1>8. \A f \in first..(hi + 1) : next[f] = mid[f]
  <2>1. \A f \in first..(hi + 1) : f = hi + 1 \/ f \in first..hi
    BY <1>1, <1>7
  <2> QED BY <1>3, <1>6, <2>1
<1>9. CASE hi + 1 - lo # Capacity
  <2>1. first = lo
    BY <1>9 DEF OldestAfter
  <2>2. \A f \in lo..(hi + 1) : kept[f] = pushed[f]
    BY <1>9, <2>1 DEF Enforced
  <2>3. pushed = [f \in lo..(hi + 1) |-> pushed[f]]
    BY <1>5 DEF LogOf
  <2>4. kept = pushed
    BY <2>1, <2>2, <2>3 DEF Enforced
  <2>5. LogOf(kept, mid, lo, hi + 1)
    BY <1>5, <2>4
  <2> HIDE DEF first, next
  <2> QED BY <1>1, <1>8, <2>1, <2>5, LogOfSame DEF first, next
<1>10. CASE hi + 1 - lo = Capacity
  <2>1. first = lo + 1
    BY <1>10 DEF OldestAfter
  <2>2. kept = [f \in (lo + 1)..(hi + 1) |-> kept[f]]
    BY <2>1 DEF Enforced
  <2>3. \A f \in (lo + 2)..(hi + 1) : f \in first..(hi + 1) /\ f # lo + 1
    BY <1>1, <2>1
  <2>4. \A f \in (lo + 2)..(hi + 1) : kept[f] = pushed[f]
    BY <2>3 DEF Enforced
  <2>5. lo + 1 \in lo..(hi + 1) /\ lo + 1 \in first..(hi + 1) /\ lo < hi + 1
    BY <1>1, <2>1
  <2>6. \/ kept[lo + 1].patch = RestoreEntries(pushed, lo + 1)
        \/ kept[lo + 1] = pushed[lo + 1]
             /\ DOMAIN pushed[lo + 1].patch = Bodies
    BY <1>10, <2>5 DEF Enforced
  <2>7. /\ DOMAIN kept[lo + 1].patch = Bodies
        /\ \A body \in Bodies : kept[lo + 1].patch[body] = mid[lo + 1][body]
    <3>1. CASE kept[lo + 1].patch = RestoreEntries(pushed, lo + 1)
      <4>1. RestoreEntries(pushed, lo + 1) = mid[lo + 1]
        BY <1>1, <1>4, <1>5, <2>5, RestoreGives
      <4>2. DOMAIN mid[lo + 1] = Bodies
        BY <1>4, <2>5, WorldsAreWorlds DEF IsWorld
      <4> QED BY <3>1, <4>1, <4>2
    <3>2. CASE /\ kept[lo + 1] = pushed[lo + 1]
               /\ DOMAIN pushed[lo + 1].patch = Bodies
      <4>1. ASSUME NEW body \in Bodies
            PROVE  pushed[lo + 1].patch[body] = mid[lo + 1][body]
        <5>1. PICK g \in lo..(hi + 1) :
                /\ Writes(pushed, lo + 1, body, g)
                /\ pushed[g].patch[body] = mid[lo + 1][body]
          BY <1>5, <2>5 DEF LogOf
        <5>2. lo + 1 \in DOMAIN pushed
          BY <1>5, <2>5 DEF LogOf
        <5>3. ~(g < lo + 1) /\ g <= lo + 1
          BY <1>1, <3>2, <5>1, <5>2 DEF Writes
        <5>4. g = lo + 1
          BY <1>1, <5>3
        <5> QED BY <5>1, <5>4
      <4> QED BY <3>2, <4>1
    <3> QED BY <2>6, <3>1, <3>2
  <2>8. LogOf(kept, mid, lo + 1, hi + 1)
    BY <1>1, <1>5, <2>2, <2>4, <2>5, <2>7, EvictedEntry
  <2> HIDE DEF first, next
  <2> QED BY <1>1, <1>8, <2>1, <2>8, LogOfSame DEF first, next
<1> QED BY <1>9, <1>10

\* What a push leaves, and when there is one entry too many.
PushedOnto(pushed, log, lo, hi, entry) ==
  /\ pushed = [f \in lo..(hi + 1) |-> pushed[f]]
  /\ pushed[hi + 1] = entry
  /\ \A f \in lo..hi : pushed[f] = log[f]
  /\ OldestEntry(pushed) = lo
  /\ NewestEntry(pushed) - OldestEntry(pushed) + 1 > Capacity
       <=> hi + 1 - lo = Capacity
  /\ DOMAIN pushed \ {OldestEntry(pushed)} = (lo + 1)..(hi + 1)

LEMMA PushedShape ==
  ASSUME NEW log, NEW w, NEW lo, NEW hi,
         Spans(w, lo, hi), LogOf(log, w, lo, hi), NEW entry,
         NEW pushed, pushed = PushEntry(log, hi + 1, entry)
  PROVE  PushedOnto(pushed, log, lo, hi, entry)
<1>1. lo \in Nat /\ hi \in Nat /\ lo <= hi /\ hi - lo < Capacity
  BY DEF Spans
<1>2. DOMAIN log = lo..hi
  BY DEF LogOf
<1>3. /\ (lo..hi) \cup {hi + 1} = lo..(hi + 1)
      /\ \A f \in lo..hi : f \in lo..(hi + 1) /\ f # hi + 1
      /\ hi + 1 \in lo..(hi + 1)
  BY <1>1
<1>4. pushed = [f \in lo..(hi + 1) |-> IF f = hi + 1 THEN entry ELSE log[f]]
  BY <1>2, <1>3 DEF PushEntry
<1>5. /\ pushed = [f \in lo..(hi + 1) |-> pushed[f]]
      /\ pushed[hi + 1] = entry
      /\ \A f \in lo..hi : pushed[f] = log[f]
  BY <1>3, <1>4
<1>6. DOMAIN pushed = lo..(hi + 1)
  BY <1>4
<1>7. NewestEntry(pushed) = hi + 1 /\ OldestEntry(pushed) = lo
  BY <1>1, <1>6, EndsOfRange DEF NewestEntry, OldestEntry
<1>8. /\ hi + 1 - lo + 1 > Capacity <=> hi + 1 - lo = Capacity
      /\ (lo..(hi + 1)) \ {lo} = (lo + 1)..(hi + 1)
  BY <1>1, CapacityIsPositive
<1>9. NewestEntry(pushed) - OldestEntry(pushed) + 1 > Capacity
        <=> hi + 1 - lo = Capacity
  BY <1>1, <1>7, <1>8
<1>10. DOMAIN pushed \ {OldestEntry(pushed)} = (lo + 1)..(hi + 1)
  BY <1>6, <1>7, <1>8
<1> QED BY <1>5, <1>7, <1>9, <1>10 DEF PushedOnto

\* A capture leaves whole entries whole, and the oldest one whole.
LEMMA WholeAfter ==
  ASSUME NEW log, NEW w, NEW lo, NEW hi, Spans(w, lo, hi),
         WholeEntries(log, lo, hi),
         NEW pushed, \A f \in lo..hi : pushed[f] = log[f],
         pushed[hi + 1].full => DOMAIN pushed[hi + 1].patch = Bodies,
         NEW kept,
         \A f \in OldestAfter(lo, hi)..(hi + 1) :
           IF f = lo + 1 /\ hi + 1 - lo = Capacity
           THEN kept[f].full /\ DOMAIN kept[f].patch = Bodies
           ELSE kept[f] = pushed[f]
  PROVE  WholeEntries(kept, OldestAfter(lo, hi), hi + 1)
<1> DEFINE first == OldestAfter(lo, hi)
<1>1. lo \in Nat /\ hi \in Nat /\ lo <= hi /\ hi - lo < Capacity
  BY DEF Spans
<1>2. first = (IF hi + 1 - lo = Capacity THEN lo + 1 ELSE lo)
  BY DEF OldestAfter
<1> HIDE DEF first
<1>3. /\ \A f \in first..(hi + 1) : f = hi + 1 \/ f \in lo..hi
      /\ first \in first..(hi + 1)
      /\ lo \in lo..hi
  BY <1>1, <1>2
<1>4. ASSUME NEW f \in first..(hi + 1), kept[f].full
      PROVE  DOMAIN kept[f].patch = Bodies
  <2>1. CASE f = lo + 1 /\ hi + 1 - lo = Capacity
    BY <2>1 DEF first
  <2>2. CASE ~(f = lo + 1 /\ hi + 1 - lo = Capacity)
    <3>1. kept[f] = pushed[f]
      BY <2>2 DEF first
    <3>2. CASE f = hi + 1
      BY <1>4, <3>1, <3>2
    <3>3. CASE f \in lo..hi
      BY <1>4, <3>1, <3>3 DEF WholeEntries
    <3> QED BY <1>3, <3>2, <3>3
  <2> QED BY <2>1, <2>2
<1>5. kept[first].full
  <2>1. CASE hi + 1 - lo = Capacity
    BY <1>2, <1>3, <2>1 DEF first
  <2>2. CASE hi + 1 - lo # Capacity
    <3>1. first = lo /\ kept[lo] = pushed[lo]
      BY <1>2, <1>3, <2>2 DEF first
    <3> QED BY <1>3, <3>1 DEF WholeEntries
  <2> QED BY <2>1, <2>2
<1> QED BY <1>4, <1>5 DEF WholeEntries, first

-----------------------------------------------------------------------------
(* The delta store *)

DeltasHold(log, latest, w, lo, hi) ==
  LogOf(log, w, lo, hi) /\ WholeEntries(log, lo, hi) /\ latest = w[hi]

LEMMA DeltasCaptureFirst ==
  ASSUME NEW n \in Nat, NEW world \in World
  PROVE  DeltasHold(PushEntry(Nothing, n, [full |-> TRUE, patch |-> world]),
                    world, Captured(Nothing, n, world), n, n)
<1> DEFINE entry == [full |-> TRUE, patch |-> world]
           log == PushEntry(Nothing, n, entry)
<1>1. DOMAIN world = Bodies
  BY WorldsAreWorlds DEF IsWorld
<1>2. entry.full /\ entry.patch = world
  OBVIOUS
<1> HIDE DEF entry
<1>3. LogOf(log, Captured(Nothing, n, world), n, n) /\ log[n] = entry
  BY <1>1, <1>2, FirstEntry
<1>4. \A f \in n..n : f = n
  OBVIOUS
<1>5. WholeEntries(log, n, n)
  BY <1>1, <1>2, <1>3, <1>4 DEF WholeEntries
<1>6. Captured(Nothing, n, world)[n] = world
  BY CapturedFirst
<1> QED BY <1>3, <1>5, <1>6 DEF DeltasHold, entry

LEMMA DeltasCapture ==
  ASSUME NEW log, NEW latest, NEW w, NEW lo, NEW hi,
         Spans(w, lo, hi), DeltasHold(log, latest, w, lo, hi),
         NEW world \in World, NEW dirty \in DirtySets(w[hi], world)
  PROVE  DeltasHold(
           EnforceDeltas(
             PushEntry(log, hi + 1,
               DeltaFor(hi + 1, world,
                        BodiesOf(ChangedCells(latest, world, dirty))))),
           world, Captured(w, hi + 1, world), OldestAfter(lo, hi), hi + 1)
<1> DEFINE first == OldestAfter(lo, hi)
           next == Captured(w, hi + 1, world)
<1>1. PICK indices : indices = BodiesOf(ChangedCells(w[hi], world, dirty))
  OBVIOUS
<1>2. PICK entry : entry = DeltaFor(hi + 1, world, indices)
  OBVIOUS
<1>3. PICK pushed : pushed = PushEntry(log, hi + 1, entry)
  OBVIOUS
<1>4. PICK kept : kept = EnforceDeltas(pushed)
  OBVIOUS
<1>5. /\ latest = w[hi] /\ LogOf(log, w, lo, hi)
      /\ WholeEntries(log, lo, hi)
  BY DEF DeltasHold
<1>6. lo \in Nat /\ hi \in Nat /\ lo <= hi /\ hi \in lo..hi /\ w[hi] \in World
        /\ hi - lo < Capacity
  BY DEF Spans
<1>7. IsWorld(world) /\ IsWorld(w[hi]) /\ DOMAIN world = Bodies
  BY <1>6, WorldsAreWorlds DEF IsWorld
<1>8. indices \subseteq Bodies
  BY <1>1, ChangedAreBodies
<1>9. \/ entry = [full |-> TRUE, patch |-> world]
      \/ entry = [full |-> FALSE, patch |-> [body \in indices |-> world[body]]]
  BY <1>2 DEF DeltaFor
<1>10. /\ \A body \in DOMAIN entry.patch : entry.patch[body] = world[body]
       /\ indices \subseteq DOMAIN entry.patch
       /\ entry.full => DOMAIN entry.patch = Bodies
  BY <1>7, <1>8, <1>9
<1>11. Rewrites(entry, w[hi], world)
  BY <1>1, <1>7, <1>10, UnchangedBody DEF Rewrites
<1>12. /\ pushed = [f \in lo..(hi + 1) |-> pushed[f]]
       /\ pushed[hi + 1] = entry
       /\ \A f \in lo..hi : pushed[f] = log[f]
       /\ OldestEntry(pushed) = lo
       /\ NewestEntry(pushed) - OldestEntry(pushed) + 1 > Capacity
            <=> hi + 1 - lo = Capacity
       /\ DOMAIN pushed \ {OldestEntry(pushed)} = (lo + 1)..(hi + 1)
  <2>1. PushedOnto(pushed, log, lo, hi, entry)
    BY <1>3, <1>5, PushedShape
  <2> QED BY <2>1 DEF PushedOnto
<1>13. /\ kept = [f \in first..(hi + 1) |-> kept[f]]
       /\ \A f \in first..(hi + 1) :
            IF f = lo + 1 /\ hi + 1 - lo = Capacity
            THEN kept[f] = [full |-> TRUE, patch |-> RestoreEntries(pushed, f)]
            ELSE kept[f] = pushed[f]
  <2>1. CASE hi + 1 - lo = Capacity
    <3>1. kept = [f \in DOMAIN pushed \ {OldestEntry(pushed)} |->
                    IF f = OldestEntry(pushed) + 1
                    THEN [full |-> TRUE, patch |-> RestoreEntries(pushed, f)]
                    ELSE pushed[f]]
      BY <1>4, <1>12, <2>1 DEF EnforceDeltas
    <3>2. kept = [f \in (lo + 1)..(hi + 1) |->
                    IF f = lo + 1
                    THEN [full |-> TRUE, patch |-> RestoreEntries(pushed, f)]
                    ELSE pushed[f]]
      BY <1>12, <2>1, <3>1
    <3>3. first = lo + 1
      BY <2>1 DEF OldestAfter
    <3> HIDE DEF first
    <3> QED BY <2>1, <3>2, <3>3
  <2>2. CASE hi + 1 - lo # Capacity
    <3>1. kept = pushed
      BY <1>4, <1>12, <2>2 DEF EnforceDeltas
    <3>2. first = lo
      BY <2>2 DEF OldestAfter
    <3> HIDE DEF first
    <3> QED BY <1>12, <2>2, <3>1, <3>2
  <2> QED BY <2>1, <2>2
<1>14. Enforced(kept, pushed, lo, hi)
  BY <1>13 DEF Enforced
<1>15. LogOf(kept, next, first, hi + 1)
  BY <1>3, <1>5, <1>11, <1>14, CapturedLog
<1>16. WholeEntries(kept, first, hi + 1)
  <2>1. pushed[hi + 1].full => DOMAIN pushed[hi + 1].patch = Bodies
    BY <1>10, <1>12
  <2>2. \A f \in first..(hi + 1) :
          IF f = lo + 1 /\ hi + 1 - lo = Capacity
          THEN kept[f].full /\ DOMAIN kept[f].patch = Bodies
          ELSE kept[f] = pushed[f]
    BY <1>13 DEF RestoreEntries
  <2>3. \A f \in lo..hi : pushed[f] = log[f]
    BY <1>12
  <2> HIDE DEF first
  <2> QED BY <1>5, <2>1, <2>2, <2>3, WholeAfter DEF first
<1>17. next[hi + 1] = world
  BY CapturedSpans
<1> QED BY <1>1, <1>2, <1>3, <1>4, <1>5, <1>15, <1>16, <1>17 DEF DeltasHold

LEMMA DeltasTruncate ==
  ASSUME NEW log, NEW latest, NEW w, NEW lo, NEW hi,
         Spans(w, lo, hi), DeltasHold(log, latest, w, lo, hi),
         NEW n \in lo..hi
  PROVE  DeltasHold(PopEntriesAfter(log, n),
                    RestoreEntries(PopEntriesAfter(log, n), n),
                    Truncated(w, n), lo, n)
<1>1. PICK popped : popped = PopEntriesAfter(log, n)
  OBVIOUS
<1>2. PICK next : next = Truncated(w, n)
  OBVIOUS
<1>3. lo \in Nat /\ hi \in Nat /\ lo <= hi /\ n \in Nat /\ lo \in lo..n
        /\ n \in lo..n /\ \A f \in lo..n : f \in lo..hi
  BY DEF Spans
<1>4. Spans(next, lo, n) /\ \A f \in lo..n : next[f] = w[f]
  BY <1>2, TruncatedSpans
<1>5. LogOf(log, w, lo, hi) /\ WholeEntries(log, lo, hi)
  BY DEF DeltasHold
<1>6. LogOf(popped, next, lo, n) /\ \A f \in lo..n : popped[f] = log[f]
  BY <1>1, <1>3, <1>4, <1>5, PoppedEntries
<1>7. next[n] \in World
  BY <1>3, <1>4 DEF Spans
<1>8. RestoreEntries(popped, n) = next[n]
  BY <1>3, <1>6, <1>7, RestoreGives
<1>9. WholeEntries(popped, lo, n)
  BY <1>3, <1>5, <1>6 DEF WholeEntries
<1> QED BY <1>1, <1>2, <1>6, <1>8, <1>9 DEF DeltasHold

-----------------------------------------------------------------------------
(* The hybrid store *)

HybridEntries(log, lo, hi) ==
  \A f \in lo..hi :
    log[f] = [full |-> log[f].full, encoding |-> log[f].encoding,
              patch |-> log[f].patch]

HybridsHold(log, latest, decision, w, lo, hi) ==
  /\ LogOf(log, w, lo, hi) /\ WholeEntries(log, lo, hi) /\ latest = w[hi]
  /\ HybridEntries(log, lo, hi)
  /\ decision = log[hi].encoding

\* An entry with this encoding, of the bodies that changed or more.
EncodedAs(entry, encoding, indices, world) ==
  /\ entry = [full |-> entry.full, encoding |-> entry.encoding,
              patch |-> entry.patch]
  /\ entry.encoding = encoding
  /\ \A body \in DOMAIN entry.patch : entry.patch[body] = world[body]
  /\ indices \subseteq DOMAIN entry.patch
  /\ entry.full <=> encoding = "Full"
  /\ entry.full => DOMAIN entry.patch = Bodies

\* Whatever the costs choose.
LEMMA HybridEntry ==
  ASSUME NEW world, DOMAIN world = Bodies, NEW indices \in SUBSET Bodies,
         NEW encoding \in Encodings
  PROVE  EncodedAs(HybridFor(encoding, world, indices), encoding, indices,
                   world)
<1>1. PICK domain : domain = CASE encoding = "Full" -> Bodies
                               [] encoding = "Delta" -> indices
                               [] encoding = "Pages" -> TouchedBodies(indices)
  OBVIOUS
<1>2. PICK entry : entry = HybridFor(encoding, world, indices)
  OBVIOUS
<1>3. PICK full : full = (encoding = "Full")
  OBVIOUS
<1>4. entry = [full |-> full, encoding |-> encoding,
               patch |-> [body \in domain |-> world[body]]]
  BY <1>1, <1>2, <1>3 DEF HybridFor
<1>5. /\ entry.full = full /\ entry.encoding = encoding
      /\ entry.patch = [body \in domain |-> world[body]]
      /\ entry = [full |-> entry.full, encoding |-> entry.encoding,
                  patch |-> entry.patch]
  BY <1>4
<1>6. indices \subseteq TouchedBodies(indices)
  BY DEF TouchedBodies
<1>7. indices \subseteq domain /\ (encoding = "Full" => domain = Bodies)
  BY <1>1, <1>6 DEF Encodings
<1>8. entry.full <=> encoding = "Full"
  BY <1>3, <1>5, Zenon
<1>9. EncodedAs(entry, encoding, indices, world)
  BY <1>5, <1>7, <1>8 DEF EncodedAs
<1> QED BY <1>2, <1>9

LEMMA SelectedIsEncoding ==
  ASSUME NEW frame, NEW last, NEW indices
  PROVE  Selected(frame, last, indices) \in Encodings
  BY DEF Selected, Cheapest, Encodings

LEMMA HybridsCaptureFirst ==
  ASSUME NEW n \in Nat, NEW world \in World
  PROVE  HybridsHold(PushEntry(Nothing, n, HybridFor("Full", world, Bodies)),
                     world, "Full", Captured(Nothing, n, world), n, n)
<1>1. PICK entry : entry = HybridFor("Full", world, Bodies)
  OBVIOUS
<1>2. PICK log : log = PushEntry(Nothing, n, entry)
  OBVIOUS
<1>3. DOMAIN world = Bodies
  BY WorldsAreWorlds DEF IsWorld
<1>4. /\ entry = [full |-> entry.full, encoding |-> entry.encoding,
                  patch |-> entry.patch]
      /\ entry.encoding = "Full"
      /\ \A body \in DOMAIN entry.patch : entry.patch[body] = world[body]
      /\ entry.full
      /\ DOMAIN entry.patch = Bodies
  <2>1. EncodedAs(entry, "Full", Bodies, world)
    BY <1>1, <1>3, HybridEntry DEF Encodings
  <2> QED BY <2>1 DEF EncodedAs
<1>5. LogOf(log, Captured(Nothing, n, world), n, n) /\ log[n] = entry
  BY <1>2, <1>4, FirstEntry
<1>6. \A f \in n..n : f = n
  OBVIOUS
<1>7. WholeEntries(log, n, n)
  BY <1>4, <1>5, <1>6 DEF WholeEntries
<1>8. HybridEntries(log, n, n)
  BY <1>4, <1>5, <1>6 DEF HybridEntries
<1>9. Captured(Nothing, n, world)[n] = world
  BY CapturedFirst
<1>10. log[n].encoding = "Full"
  BY <1>4, <1>5
<1> QED BY <1>1, <1>2, <1>5, <1>7, <1>8, <1>9, <1>10 DEF HybridsHold

LEMMA HybridsCapture ==
  ASSUME NEW log, NEW latest, NEW decision, NEW w, NEW lo, NEW hi,
         Spans(w, lo, hi), HybridsHold(log, latest, decision, w, lo, hi),
         NEW world \in World, NEW dirty \in DirtySets(w[hi], world),
         NEW indices,
         indices = BodiesOf(ChangedCells(latest, world, dirty)),
         NEW selected \in Encodings
  PROVE  HybridsHold(
           EnforceHybrids(
             PushEntry(log, hi + 1, HybridFor(selected, world, indices))),
           world, selected,
           Captured(w, hi + 1, world), OldestAfter(lo, hi), hi + 1)
<1> DEFINE first == OldestAfter(lo, hi)
           next == Captured(w, hi + 1, world)
<1>1. PICK entry : entry = HybridFor(selected, world, indices)
  OBVIOUS
<1>2. PICK pushed : pushed = PushEntry(log, hi + 1, entry)
  OBVIOUS
<1>3. PICK kept : kept = EnforceHybrids(pushed)
  OBVIOUS
<1>4. /\ latest = w[hi] /\ LogOf(log, w, lo, hi)
      /\ WholeEntries(log, lo, hi) /\ HybridEntries(log, lo, hi)
  BY DEF HybridsHold
<1>5. lo \in Nat /\ hi \in Nat /\ lo <= hi /\ w[hi] \in World
        /\ \A f \in lo..(hi + 1) : f = hi + 1 \/ f \in lo..hi
  BY DEF Spans
<1>6. IsWorld(world) /\ IsWorld(w[hi]) /\ DOMAIN world = Bodies
  BY <1>5, WorldsAreWorlds DEF IsWorld
<1>7. indices \in SUBSET Bodies
  BY <1>4, ChangedAreBodies
<1>8. /\ entry = [full |-> entry.full, encoding |-> entry.encoding,
                  patch |-> entry.patch]
      /\ entry.encoding = selected
      /\ \A body \in DOMAIN entry.patch : entry.patch[body] = world[body]
      /\ indices \subseteq DOMAIN entry.patch
      /\ entry.full => DOMAIN entry.patch = Bodies
  <2>1. EncodedAs(entry, selected, indices, world)
    BY <1>1, <1>6, <1>7, HybridEntry
  <2> QED BY <2>1 DEF EncodedAs
<1>9. Rewrites(entry, w[hi], world)
  BY <1>4, <1>6, <1>8, UnchangedBody DEF Rewrites
<1>10. /\ pushed = [f \in lo..(hi + 1) |-> pushed[f]]
       /\ pushed[hi + 1] = entry
       /\ \A f \in lo..hi : pushed[f] = log[f]
       /\ OldestEntry(pushed) = lo
       /\ NewestEntry(pushed) - OldestEntry(pushed) + 1 > Capacity
            <=> hi + 1 - lo = Capacity
       /\ DOMAIN pushed \ {OldestEntry(pushed)} = (lo + 1)..(hi + 1)
  <2>1. PushedOnto(pushed, log, lo, hi, entry)
    BY <1>2, <1>4, PushedShape
  <2> QED BY <2>1 DEF PushedOnto
<1>11. \A f \in lo..(hi + 1) :
         pushed[f].full => DOMAIN pushed[f].patch = Bodies
  BY <1>4, <1>5, <1>8, <1>10 DEF WholeEntries
<1>12. HybridEntries(pushed, lo, hi + 1)
  BY <1>4, <1>5, <1>8, <1>10 DEF HybridEntries
<1>13. first \in Nat /\ \A f \in first..(hi + 1) : f \in lo..(hi + 1)
  BY <1>5 DEF OldestAfter
<1>14. /\ kept = [f \in first..(hi + 1) |-> kept[f]]
       /\ \A f \in first..(hi + 1) :
            IF f = lo + 1 /\ hi + 1 - lo = Capacity /\ ~pushed[f].full
            THEN kept[f] = [pushed[f] EXCEPT !.full = TRUE,
                                    !.patch = RestoreEntries(pushed, f)]
            ELSE kept[f] = pushed[f]
  <2>1. CASE hi + 1 - lo = Capacity
    <3>1. kept = [f \in DOMAIN pushed \ {OldestEntry(pushed)} |->
                    IF f = OldestEntry(pushed) + 1 /\ ~pushed[f].full
                    THEN [pushed[f] EXCEPT !.full = TRUE,
                                  !.patch = RestoreEntries(pushed, f)]
                    ELSE pushed[f]]
      BY <1>3, <1>10, <2>1 DEF EnforceHybrids
    <3>2. kept = [f \in (lo + 1)..(hi + 1) |->
                    IF f = lo + 1 /\ ~pushed[f].full
                    THEN [pushed[f] EXCEPT !.full = TRUE,
                                  !.patch = RestoreEntries(pushed, f)]
                    ELSE pushed[f]]
      BY <1>10, <3>1
    <3>3. first = lo + 1
      BY <2>1 DEF OldestAfter
    <3> HIDE DEF first
    <3> QED BY <2>1, <3>2, <3>3
  <2>2. CASE hi + 1 - lo # Capacity
    <3>1. kept = pushed
      BY <1>3, <1>10, <2>2 DEF EnforceHybrids
    <3>2. first = lo
      BY <2>2 DEF OldestAfter
    <3> HIDE DEF first
    <3> QED BY <1>10, <2>2, <3>1, <3>2
  <2> QED BY <2>1, <2>2
\* what a promotion keeps and what it changes
<1>15. \A f \in first..(hi + 1) :
         /\ kept[f] = [full |-> kept[f].full, encoding |-> kept[f].encoding,
                       patch |-> kept[f].patch]
         /\ kept[f].encoding = pushed[f].encoding
         /\ IF f = lo + 1 /\ hi + 1 - lo = Capacity /\ ~pushed[f].full
            THEN /\ kept[f].full
                 /\ kept[f].patch = RestoreEntries(pushed, f)
            ELSE kept[f] = pushed[f]
  <2> SUFFICES ASSUME NEW f \in first..(hi + 1)
               PROVE  /\ kept[f] = [full |-> kept[f].full,
                                    encoding |-> kept[f].encoding,
                                    patch |-> kept[f].patch]
                      /\ kept[f].encoding = pushed[f].encoding
                      /\ IF f = lo + 1 /\ hi + 1 - lo = Capacity
                              /\ ~pushed[f].full
                         THEN /\ kept[f].full
                              /\ kept[f].patch = RestoreEntries(pushed, f)
                         ELSE kept[f] = pushed[f]
    OBVIOUS
  <2>1. pushed[f] = [full |-> pushed[f].full, encoding |-> pushed[f].encoding,
                     patch |-> pushed[f].patch]
    BY <1>12, <1>13 DEF HybridEntries
  <2>2. CASE f = lo + 1 /\ hi + 1 - lo = Capacity /\ ~pushed[f].full
    <3>1. kept[f] = [pushed[f] EXCEPT !.full = TRUE,
                             !.patch = RestoreEntries(pushed, f)]
      BY <1>14, <2>2
    <3>2. kept[f] = [full |-> TRUE, encoding |-> pushed[f].encoding,
                     patch |-> RestoreEntries(pushed, f)]
      BY <2>1, <3>1
    <3> QED BY <2>2, <3>2
  <2>3. CASE ~(f = lo + 1 /\ hi + 1 - lo = Capacity /\ ~pushed[f].full)
    <3>1. kept[f] = pushed[f]
      BY <1>14, <2>3
    <3> QED BY <2>1, <2>3, <3>1
  <2> QED BY <2>2, <2>3
<1> HIDE DEF first, next
<1>16. Enforced(kept, pushed, lo, hi)
  BY <1>11, <1>13, <1>14, <1>15 DEF Enforced, first
<1>17. LogOf(kept, next, first, hi + 1)
  BY <1>2, <1>4, <1>9, <1>16, CapturedLog DEF first, next
<1>18. WholeEntries(kept, first, hi + 1)
  <2>1. pushed[hi + 1].full => DOMAIN pushed[hi + 1].patch = Bodies
    BY <1>8, <1>10
  <2>2. \A f \in first..(hi + 1) :
          IF f = lo + 1 /\ hi + 1 - lo = Capacity
          THEN kept[f].full /\ DOMAIN kept[f].patch = Bodies
          ELSE kept[f] = pushed[f]
    BY <1>11, <1>13, <1>15 DEF RestoreEntries
  <2>3. \A f \in lo..hi : pushed[f] = log[f]
    BY <1>10
  <2> QED BY <1>4, <2>1, <2>2, <2>3, WholeAfter DEF first
<1>19. HybridEntries(kept, first, hi + 1)
  BY <1>15 DEF HybridEntries
<1>20. hi + 1 \in first..(hi + 1)
  BY <1>5, <1>13, CapacityIsPositive DEF first, OldestAfter
<1>21. kept[hi + 1].encoding = selected
  BY <1>8, <1>10, <1>15, <1>20
<1>22. next[hi + 1] = world
  BY CapturedSpans DEF next
<1> QED BY <1>1, <1>2, <1>3, <1>17, <1>18, <1>19, <1>21, <1>22
        DEF HybridsHold, first, next

LEMMA HybridsTruncate ==
  ASSUME NEW log, NEW latest, NEW decision, NEW w, NEW lo, NEW hi,
         Spans(w, lo, hi), HybridsHold(log, latest, decision, w, lo, hi),
         NEW n \in lo..hi
  PROVE  HybridsHold(PopEntriesAfter(log, n),
                     RestoreEntries(PopEntriesAfter(log, n), n),
                     log[n].encoding, Truncated(w, n), lo, n)
<1>1. PICK popped : popped = PopEntriesAfter(log, n)
  OBVIOUS
<1>2. PICK next : next = Truncated(w, n)
  OBVIOUS
<1>3. lo \in Nat /\ hi \in Nat /\ lo <= hi /\ n \in Nat /\ lo \in lo..n
        /\ n \in lo..n /\ \A f \in lo..n : f \in lo..hi
  BY DEF Spans
<1>4. Spans(next, lo, n) /\ \A f \in lo..n : next[f] = w[f]
  BY <1>2, TruncatedSpans
<1>5. LogOf(log, w, lo, hi) /\ WholeEntries(log, lo, hi)
        /\ HybridEntries(log, lo, hi)
  BY DEF HybridsHold
<1>6. LogOf(popped, next, lo, n) /\ \A f \in lo..n : popped[f] = log[f]
  BY <1>1, <1>3, <1>4, <1>5, PoppedEntries
<1>7. next[n] \in World
  BY <1>3, <1>4 DEF Spans
<1>8. RestoreEntries(popped, n) = next[n]
  BY <1>3, <1>6, <1>7, RestoreGives
<1>9. WholeEntries(popped, lo, n)
  BY <1>3, <1>5, <1>6 DEF WholeEntries
<1>10. HybridEntries(popped, lo, n)
  BY <1>3, <1>5, <1>6 DEF HybridEntries
<1>11. popped[n].encoding = log[n].encoding
  BY <1>3, <1>6
<1> QED BY <1>1, <1>2, <1>6, <1>8, <1>9, <1>10, <1>11 DEF HybridsHold

-----------------------------------------------------------------------------
(* The paged and the component store *)

\* push_back and the pop_front loop over snapshots that stay as they are
SlideOf(store, frame, snapshot) ==
  [f \in {g \in DOMAIN store \cup {frame} : g > frame - Capacity} |->
     IF f = frame THEN snapshot ELSE store[f]]

Slid(kept, store, lo, hi, snapshot) ==
  /\ kept = [f \in OldestAfter(lo, hi)..(hi + 1) |-> kept[f]]
  /\ kept[hi + 1] = snapshot
  /\ \A f \in OldestAfter(lo, hi)..hi : kept[f] = store[f]

LEMMA SlidWindow ==
  ASSUME NEW w, NEW lo, NEW hi, Spans(w, lo, hi),
         NEW store, DOMAIN store = lo..hi, NEW snapshot
  PROVE  Slid(SlideOf(store, hi + 1, snapshot), store, lo, hi, snapshot)
<1> DEFINE first == OldestAfter(lo, hi)
           kept == SlideOf(store, hi + 1, snapshot)
<1>1. lo \in Nat /\ hi \in Nat /\ lo <= hi /\ hi - lo < Capacity
  BY DEF Spans
<1>2. SlideOf(store, hi + 1, snapshot)
        = [f \in first..(hi + 1) |-> IF f = hi + 1 THEN snapshot
                                     ELSE store[f]]
  <2>1. RetainedAfter(lo..hi, hi + 1) = first..(hi + 1)
    BY <1>1, RetainedIsRange
  <2>2. RetainedAfter(DOMAIN store, hi + 1) = first..(hi + 1)
    BY <2>1
  <2>3. SlideOf(store, hi + 1, snapshot)
          = [f \in RetainedAfter(DOMAIN store, hi + 1) |->
               IF f = hi + 1 THEN snapshot ELSE store[f]]
    BY DEF RetainedAfter, SlideOf
  <2> QED BY <2>2, <2>3
<1>3. first \in Nat /\ first <= hi + 1
  BY <1>1, RetainedIsRange
<1> HIDE DEF first
<1>4. kept = [f \in first..(hi + 1) |-> IF f = hi + 1 THEN snapshot
                                        ELSE store[f]]
  BY <1>2
<1> HIDE DEF kept
<1>5. \A f \in first..hi : f \in first..(hi + 1) /\ f # hi + 1
  BY <1>1, <1>3
<1>6. hi + 1 \in first..(hi + 1)
  BY <1>1, <1>3
<1>7. kept[hi + 1] = snapshot /\ \A f \in first..hi : kept[f] = store[f]
  BY <1>4, <1>5, <1>6
<1>8. kept = [f \in first..(hi + 1) |-> kept[f]]
  BY <1>4
<1> QED BY <1>7, <1>8 DEF first, kept, Slid

PagesHold(store, latest, w, lo, hi) ==
  /\ store = [f \in lo..hi |-> store[f]]
  /\ \A f \in lo..hi, body \in Bodies :
       store[f][PageOf(body)][body] = w[f][body]
  /\ latest = w[hi]

LEMMA PagesCaptureFirst ==
  ASSUME NEW n \in Nat, NEW world \in World
  PROVE  PagesHold([f \in {n} |-> [page \in Pages |-> CopyPage(world, page)]],
                   world, Captured(Nothing, n, world), n, n)
<1>1. \A body \in Bodies :
        /\ PageOf(body) \in Pages
        /\ CopyPage(world, PageOf(body))[body] = world[body]
  BY DEF Pages, CopyPage, BodiesOfPage
<1>2. n..n = {n}
  OBVIOUS
<1>3. Captured(Nothing, n, world)[n] = world
  BY CapturedFirst
<1> QED BY <1>1, <1>2, <1>3 DEF PagesHold

\* A page no dirty body lies in is the page of the newest snapshot.
LEMMA PagesCapture ==
  ASSUME NEW store, NEW latest, NEW w, NEW lo, NEW hi,
         Spans(w, lo, hi), PagesHold(store, latest, w, lo, hi),
         NEW world \in World, NEW dirty \in DirtySets(w[hi], world),
         NEW touched,
         touched = Touched(BodiesOf(ChangedCells(latest, world, dirty))),
         NEW snapshot,
         snapshot = [page \in Pages |->
                       IF page \in touched THEN CopyPage(world, page)
                       ELSE store[NewestOf(DOMAIN store)][page]],
         NEW kept, kept = SlideOf(store, hi + 1, snapshot)
  PROVE  PagesHold(kept, world, Captured(w, hi + 1, world),
                   OldestAfter(lo, hi), hi + 1)
<1> DEFINE first == OldestAfter(lo, hi)
           next == Captured(w, hi + 1, world)
<1>1. lo \in Nat /\ hi \in Nat /\ lo <= hi /\ hi \in lo..hi /\ w[hi] \in World
  BY DEF Spans
<1>2. DOMAIN store = lo..hi /\ latest = w[hi]
        /\ \A f \in lo..hi, body \in Bodies :
             store[f][PageOf(body)][body] = w[f][body]
  BY DEF PagesHold
<1>3. NewestOf(DOMAIN store) = hi
  BY <1>1, <1>2, EndsOfRange
<1>4. IsWorld(world) /\ IsWorld(w[hi])
  BY <1>1, WorldsAreWorlds
<1>5. ASSUME NEW body \in Bodies
      PROVE  snapshot[PageOf(body)][body] = world[body]
  <2>1. PageOf(body) \in Pages
    BY DEF Pages
  <2>2. CASE PageOf(body) \in touched
    <3>1. snapshot[PageOf(body)] = CopyPage(world, PageOf(body))
      BY <2>1, <2>2
    <3> QED BY <3>1 DEF CopyPage, BodiesOfPage
  <2>3. CASE PageOf(body) \notin touched
    <3>1. body \notin BodiesOf(ChangedCells(w[hi], world, dirty))
      BY <1>2, <2>3 DEF Touched
    <3>2. world[body] = w[hi][body]
      BY <1>4, <3>1, UnchangedBody
    <3>3. snapshot[PageOf(body)] = store[hi][PageOf(body)]
      BY <1>3, <2>1, <2>3
    <3> QED BY <1>1, <1>2, <3>2, <3>3
  <2> QED BY <2>2, <2>3
<1>6. /\ kept = [f \in first..(hi + 1) |-> kept[f]]
      /\ kept[hi + 1] = snapshot
      /\ \A f \in first..hi : kept[f] = store[f]
  <2>1. Slid(kept, store, lo, hi, snapshot)
    BY <1>2, SlidWindow
  <2> QED BY <2>1 DEF Slid
<1>7. /\ next[hi + 1] = world
      /\ \A f \in first..hi : f \in lo..hi /\ next[f] = w[f]
  BY CapturedSpans
<1>8. \A f \in first..(hi + 1) : f = hi + 1 \/ f \in first..hi
  BY <1>1, RetainedIsRange DEF Spans
<1> HIDE DEF first, next
<1>9. ASSUME NEW f \in first..(hi + 1), NEW body \in Bodies
      PROVE  kept[f][PageOf(body)][body] = next[f][body]
  <2>1. CASE f = hi + 1
    BY <1>5, <1>6, <1>7, <2>1
  <2>2. CASE f \in first..hi
    <3>1. kept[f] = store[f] /\ next[f] = w[f] /\ f \in lo..hi
      BY <1>6, <1>7, <2>2
    <3> QED BY <1>2, <3>1
  <2> QED BY <1>8, <2>1, <2>2
<1> QED BY <1>6, <1>7, <1>9 DEF PagesHold, first, next

LEMMA PagesRead ==
  ASSUME NEW store, NEW latest, NEW w, NEW lo, NEW hi,
         Spans(w, lo, hi), PagesHold(store, latest, w, lo, hi)
  PROVE  /\ [f \in DOMAIN store |-> RestorePages(store[f])] = w
         /\ \A f \in lo..hi : RestorePages(store[f]) = w[f]
         /\ DOMAIN store = lo..hi /\ store # Nothing
         /\ NewestOf(DOMAIN store) = hi
<1>1. lo \in Nat /\ hi \in Nat /\ lo <= hi
        /\ w = [f \in lo..hi |-> w[f]] /\ \A f \in lo..hi : w[f] \in World
  BY DEF Spans
<1>2. DOMAIN store = lo..hi
  BY DEF PagesHold
<1>3. ASSUME NEW f \in lo..hi PROVE RestorePages(store[f]) = w[f]
  <2>1. RestorePages(store[f]) = [body \in Bodies |-> w[f][body]]
    BY DEF PagesHold, RestorePages
  <2>2. IsWorld(w[f])
    BY <1>1, WorldsAreWorlds
  <2> QED BY <2>1, <2>2 DEF IsWorld
<1>4. [f \in DOMAIN store |-> RestorePages(store[f])] = w
  BY <1>1, <1>2, <1>3
<1>5. NewestOf(DOMAIN store) = hi
  BY <1>1, <1>2, EndsOfRange
<1>6. store # Nothing
  BY <1>1, <1>2 DEF Nothing
<1> QED BY <1>2, <1>3, <1>4, <1>5, <1>6

LEMMA PagesTruncate ==
  ASSUME NEW store, NEW latest, NEW w, NEW lo, NEW hi,
         Spans(w, lo, hi), PagesHold(store, latest, w, lo, hi),
         NEW n \in lo..hi, NEW kept,
         kept = [f \in {g \in DOMAIN store : g <= n} |-> store[f]]
  PROVE  PagesHold(kept, RestorePages(store[n]), Truncated(w, n), lo, n)
<1>1. DOMAIN store = lo..hi
        /\ \A f \in lo..hi, body \in Bodies :
             store[f][PageOf(body)][body] = w[f][body]
  BY DEF PagesHold
<1>2. PICK next : next = Truncated(w, n)
  OBVIOUS
<1>3. /\ Spans(next, lo, n)
      /\ {g \in lo..hi : g <= n} = lo..n
      /\ \A f \in lo..n : f \in lo..hi /\ next[f] = w[f]
  BY <1>2, TruncatedSpans
<1>4. kept = [f \in lo..n |-> store[f]]
  BY <1>1, <1>3
<1>5. n \in lo..n
  BY <1>3 DEF Spans
<1>6. RestorePages(store[n]) = next[n]
  BY <1>3, <1>5, PagesRead
<1>7. PagesHold(kept, next[n], next, lo, n)
  BY <1>1, <1>3, <1>4 DEF PagesHold
<1> QED BY <1>2, <1>6, <1>7

ArraysHold(store, latest, w, lo, hi) ==
  /\ store = [f \in lo..hi |-> store[f]]
  /\ \A f \in lo..hi, body \in Bodies, c \in Components :
       store[f][c][body] = w[f][body][c]
  /\ latest = w[hi]

LEMMA ArraysCaptureFirst ==
  ASSUME NEW n \in Nat, NEW world \in World
  PROVE  ArraysHold([f \in {n} |-> [c \in Components |-> Column(world, c)]],
                    world, Captured(Nothing, n, world), n, n)
<1>1. n..n = {n}
  OBVIOUS
<1>2. Captured(Nothing, n, world)[n] = world
  BY CapturedFirst
<1> QED BY <1>1, <1>2 DEF ArraysHold, Column

\* The array of a component no dirty body has changed is the array of the
\* newest snapshot.
LEMMA ArraysCapture ==
  ASSUME NEW store, NEW latest, NEW w, NEW lo, NEW hi,
         Spans(w, lo, hi), ArraysHold(store, latest, w, lo, hi),
         NEW world \in World, NEW dirty \in DirtySets(w[hi], world),
         NEW aggregate,
         aggregate = Aggregate(ChangedCells(latest, world, dirty)),
         NEW snapshot,
         snapshot = [c \in Components |->
                       IF c \in aggregate THEN Column(world, c)
                       ELSE store[NewestOf(DOMAIN store)][c]],
         NEW kept, kept = SlideOf(store, hi + 1, snapshot)
  PROVE  ArraysHold(kept, world, Captured(w, hi + 1, world),
                    OldestAfter(lo, hi), hi + 1)
<1> DEFINE first == OldestAfter(lo, hi)
           next == Captured(w, hi + 1, world)
<1>1. lo \in Nat /\ hi \in Nat /\ lo <= hi /\ hi \in lo..hi
  BY DEF Spans
<1>2. DOMAIN store = lo..hi /\ latest = w[hi]
        /\ \A f \in lo..hi, body \in Bodies, c \in Components :
             store[f][c][body] = w[f][body][c]
  BY DEF ArraysHold
<1>3. NewestOf(DOMAIN store) = hi
  BY <1>1, <1>2, EndsOfRange
<1>4. ASSUME NEW body \in Bodies, NEW c \in Components
      PROVE  snapshot[c][body] = world[body][c]
  <2>1. CASE c \in aggregate
    <3>1. snapshot[c] = Column(world, c)
      BY <2>1
    <3> QED BY <3>1 DEF Column
  <2>2. CASE c \notin aggregate
    <3>1. c \notin Aggregate(ChangedCells(w[hi], world, dirty))
      BY <1>2, <2>2
    <3>2. world[body][c] = w[hi][body][c]
      BY <3>1, UnchangedColumn
    <3>3. snapshot[c] = store[hi][c]
      BY <1>3, <2>2
    <3> QED BY <1>1, <1>2, <3>2, <3>3
  <2> QED BY <2>1, <2>2
<1>5. /\ kept = [f \in first..(hi + 1) |-> kept[f]]
      /\ kept[hi + 1] = snapshot
      /\ \A f \in first..hi : kept[f] = store[f]
  <2>1. Slid(kept, store, lo, hi, snapshot)
    BY <1>2, SlidWindow
  <2> QED BY <2>1 DEF Slid
<1>6. /\ next[hi + 1] = world
      /\ \A f \in first..hi : f \in lo..hi /\ next[f] = w[f]
  BY CapturedSpans
<1>7. \A f \in first..(hi + 1) : f = hi + 1 \/ f \in first..hi
  BY <1>1, RetainedIsRange DEF Spans
<1> HIDE DEF first, next
<1>8. ASSUME NEW f \in first..(hi + 1), NEW body \in Bodies,
             NEW c \in Components
      PROVE  kept[f][c][body] = next[f][body][c]
  <2>1. CASE f = hi + 1
    <3>1. kept[f] = snapshot /\ next[f] = world
      BY <1>5, <1>6, <2>1
    <3> QED BY <1>4, <3>1
  <2>2. CASE f \in first..hi
    <3>1. kept[f] = store[f] /\ next[f] = w[f] /\ f \in lo..hi
      BY <1>5, <1>6, <2>2
    <3> QED BY <1>2, <3>1
  <2> QED BY <1>7, <2>1, <2>2
<1> QED BY <1>5, <1>6, <1>8 DEF ArraysHold, first, next

LEMMA ArraysRead ==
  ASSUME NEW store, NEW latest, NEW w, NEW lo, NEW hi,
         Spans(w, lo, hi), ArraysHold(store, latest, w, lo, hi)
  PROVE  /\ [f \in DOMAIN store |-> RestoreArrays(store[f])] = w
         /\ \A f \in lo..hi : RestoreArrays(store[f]) = w[f]
         /\ DOMAIN store = lo..hi /\ store # Nothing
         /\ NewestOf(DOMAIN store) = hi
<1>1. lo \in Nat /\ hi \in Nat /\ lo <= hi
        /\ w = [f \in lo..hi |-> w[f]] /\ \A f \in lo..hi : w[f] \in World
  BY DEF Spans
<1>2. DOMAIN store = lo..hi
  BY DEF ArraysHold
<1>3. ASSUME NEW f \in lo..hi PROVE RestoreArrays(store[f]) = w[f]
  <2>1. RestoreArrays(store[f])
          = [body \in Bodies |-> [c \in Components |-> w[f][body][c]]]
    BY DEF ArraysHold, RestoreArrays
  <2>2. IsWorld(w[f])
    BY <1>1, WorldsAreWorlds
  <2> QED BY <2>1, <2>2 DEF IsWorld
<1>4. [f \in DOMAIN store |-> RestoreArrays(store[f])] = w
  BY <1>1, <1>2, <1>3
<1>5. NewestOf(DOMAIN store) = hi
  BY <1>1, <1>2, EndsOfRange
<1>6. store # Nothing
  BY <1>1, <1>2 DEF Nothing
<1> QED BY <1>2, <1>3, <1>4, <1>5, <1>6

LEMMA ArraysTruncate ==
  ASSUME NEW store, NEW latest, NEW w, NEW lo, NEW hi,
         Spans(w, lo, hi), ArraysHold(store, latest, w, lo, hi),
         NEW n \in lo..hi, NEW kept,
         kept = [f \in {g \in DOMAIN store : g <= n} |-> store[f]]
  PROVE  ArraysHold(kept, RestoreArrays(store[n]), Truncated(w, n), lo, n)
<1>1. DOMAIN store = lo..hi
        /\ \A f \in lo..hi, body \in Bodies, c \in Components :
             store[f][c][body] = w[f][body][c]
  BY DEF ArraysHold
<1>2. PICK next : next = Truncated(w, n)
  OBVIOUS
<1>3. /\ Spans(next, lo, n)
      /\ {g \in lo..hi : g <= n} = lo..n
      /\ \A f \in lo..n : f \in lo..hi /\ next[f] = w[f]
  BY <1>2, TruncatedSpans
<1>4. kept = [f \in lo..n |-> store[f]]
  BY <1>1, <1>3
<1>5. n \in lo..n
  BY <1>3 DEF Spans
<1>6. RestoreArrays(store[n]) = next[n]
  BY <1>3, <1>5, ArraysRead
<1>7. ArraysHold(kept, next[n], next, lo, n)
  BY <1>1, <1>3, <1>4 DEF ArraysHold
<1> QED BY <1>2, <1>6, <1>7

-----------------------------------------------------------------------------
(* Lookups *)

LEMMA DivisionBounds ==
  ASSUME NEW p \in Nat, p > 0, NEW b \in Nat
  PROVE  /\ b \div p \in Nat
         /\ p * (b \div p) <= b /\ b < p * (b \div p) + p
  OBVIOUS

LEMMA DivisionIs ==
  ASSUME NEW p \in Nat, p > 0, NEW b \in Nat, NEW q \in Nat,
         p * q <= b, b < p * q + p
  PROVE  b \div p = q
<1>1. PICK d \in Nat : d = b \div p /\ p * d <= b /\ b < p * d + p
  BY DivisionBounds
<1>2. ~(d > q)
  <2>1. SUFFICES ASSUME d > q PROVE FALSE
    OBVIOUS
  <2>2. d - q >= 1 /\ d - q \in Nat
    BY <2>1
  <2>3. p * (d - q) >= p
    BY <2>2
  <2>4. p * (d - q) = p * d - p * q
    OBVIOUS
  <2> QED BY <1>1, <2>3, <2>4
<1>3. ~(d < q)
  <2>1. SUFFICES ASSUME d < q PROVE FALSE
    OBVIOUS
  <2>2. q - d >= 1 /\ q - d \in Nat
    BY <2>1
  <2>3. p * (q - d) >= p
    BY <2>2
  <2>4. p * (q - d) = p * q - p * d
    OBVIOUS
  <2> QED BY <1>1, <2>3, <2>4
<1> QED BY <1>1, <1>2, <1>3

LEMMA DivisionIsMonotone ==
  ASSUME NEW p \in Nat, p > 0, NEW a \in Nat, NEW b \in Nat, a <= b
  PROVE  a \div p <= b \div p
<1>1. PICK d \in Nat : d = a \div p /\ p * d <= a /\ a < p * d + p
  BY DivisionBounds
<1>2. PICK e \in Nat : e = b \div p /\ p * e <= b /\ b < p * e + p
  BY DivisionBounds
<1>3. ~(d > e)
  <2>1. SUFFICES ASSUME d > e PROVE FALSE
    OBVIOUS
  <2>2. d - e >= 1 /\ d - e \in Nat
    BY <2>1
  <2>3. p * (d - e) >= p
    BY <2>2
  <2>4. p * (d - e) = p * d - p * e
    OBVIOUS
  <2> QED BY <1>1, <1>2, <2>3, <2>4
<1> QED BY <1>1, <1>2, <1>3

LEMMA PagesAreSized ==
  /\ PageBodies \in Nat /\ PageBodies > 0
  /\ BodyCount \in Nat /\ BodyCount > 0
  /\ Bodies \subseteq Nat
  BY SnapshotsAssumption DEF SnapshotsAssumption, Bodies

\* A page has a last body.
LEMMA LastBody ==
  ASSUME NEW page \in Pages
  PROVE  \E m \in BodiesOfPage(page) : \A b \in BodiesOfPage(page) : b <= m
<1>1. PICK p \in Nat, n \in Nat :
        p = PageBodies /\ n = BodyCount /\ p > 0 /\ n > 0
  BY PagesAreSized
<1>2. PICK body \in Bodies : page = PageOf(body)
  BY DEF Pages
<1>3. Bodies = 0..(n - 1) /\ body \in Nat /\ body <= n - 1
  BY <1>1 DEF Bodies
<1>4. PageOf(body) = body \div p /\ \A b \in Bodies : PageOf(b) = b \div p
  BY <1>1 DEF PageOf
<1>5. page \in Nat /\ p * page <= body /\ body < p * page + p
  BY <1>1, <1>2, <1>3, <1>4, DivisionBounds
<1>6. PICK end \in Nat : end = p * page
  BY <1>1, <1>5
<1>7. \A b \in BodiesOfPage(page) :
        b \in Nat /\ b <= n - 1 /\ b < end + p
  <2> SUFFICES ASSUME NEW b \in BodiesOfPage(page)
               PROVE  b \in Nat /\ b <= n - 1 /\ b < end + p
    OBVIOUS
  <2>1. b \in Nat /\ b <= n - 1 /\ b \div p = page
    BY <1>3, <1>4 DEF BodiesOfPage
  <2>2. b < p * (b \div p) + p
    BY <1>1, <2>1, DivisionBounds
  <2> QED BY <1>6, <2>1, <2>2
<1>8. \A m \in 0..(n - 1) : end <= m /\ m < end + p => m \in BodiesOfPage(page)
  <2> SUFFICES ASSUME NEW m \in 0..(n - 1), end <= m, m < end + p
               PROVE  m \in BodiesOfPage(page)
    OBVIOUS
  <2>1. m \div p = page
    BY <1>1, <1>5, <1>6, DivisionIs
  <2> QED BY <1>3, <1>4, <2>1 DEF BodiesOfPage
<1>9. CASE end + p - 1 <= n - 1
  <2>1. end + p - 1 \in BodiesOfPage(page)
    BY <1>1, <1>8, <1>9
  <2>2. \A b \in BodiesOfPage(page) : b <= end + p - 1
    BY <1>1, <1>7
  <2> QED BY <2>1, <2>2
<1>10. CASE ~(end + p - 1 <= n - 1)
  <2>1. n - 1 \in BodiesOfPage(page)
    BY <1>1, <1>3, <1>5, <1>6, <1>8, <1>10
  <2> QED BY <1>7, <2>1
<1> QED BY <1>9, <1>10

\* The first page whose last body has an id that is not smaller is the page
\* of the body with the id.
LEMMA LookupPagesFinds ==
  ASSUME NEW snapshot, NEW world, NEW entity \in Nat,
         \A body \in Bodies : snapshot[PageOf(body)][body] = world[body]
  PROVE  LookupPages(snapshot, entity) = FindBody(world, entity)
<1> DEFINE fitting == {page \in Pages :
                         entity <= IdOf(NewestOf(BodiesOfPage(page)))}
           found(page) == {snapshot[page][body] :
                             body \in {b \in BodiesOfPage(page) :
                                         IdOf(b) = entity}}
<1>1. LookupPages(snapshot, entity)
        = IF fitting = {} THEN {} ELSE found(OldestOf(fitting))
  BY DEF LookupPages
<1>2. \A a, b \in Bodies :
        /\ a \in Nat /\ IdOf(a) \in Nat
        /\ IdOf(a) <= IdOf(b) <=> a <= b
        /\ IdOf(a) = IdOf(b) <=> a = b
  BY PagesAreSized DEF IdOf
<1>3. CASE \A body \in Bodies : IdOf(body) # entity
  <2>1. FindBody(world, entity) = {}
    BY <1>3 DEF FindBody
  <2>2. \A page : found(page) = {}
    BY <1>3 DEF BodiesOfPage
  <2> HIDE DEF found, fitting
  <2> QED BY <1>1, <2>1, <2>2
<1>4. ASSUME NEW body \in Bodies, IdOf(body) = entity
      PROVE  LookupPages(snapshot, entity) = FindBody(world, entity)
  <2>1. FindBody(world, entity) = {world[body]}
    BY <1>2, <1>4 DEF FindBody
  <2>2. found(PageOf(body)) = {snapshot[PageOf(body)][body]}
    BY <1>2, <1>4 DEF BodiesOfPage
  <2>3. \A page \in Pages :
          /\ NewestOf(BodiesOfPage(page)) \in BodiesOfPage(page)
          /\ \A b \in BodiesOfPage(page) : b <= NewestOf(BodiesOfPage(page))
    <3> SUFFICES ASSUME NEW page \in Pages
                 PROVE /\ NewestOf(BodiesOfPage(page)) \in BodiesOfPage(page)
                       /\ \A b \in BodiesOfPage(page) :
                            b <= NewestOf(BodiesOfPage(page))
      OBVIOUS
    <3>1. PICK m \in BodiesOfPage(page) : \A b \in BodiesOfPage(page) : b <= m
      BY LastBody
    <3>2. BodiesOfPage(page) \in SUBSET Int
      <4>1. \A b \in Bodies : b \in Int
        BY PagesAreSized
      <4> QED BY <4>1 DEF BodiesOfPage
    <3>3. NewestOf(BodiesOfPage(page)) = m
      BY <3>1, <3>2, NewestIs
    <3> QED BY <3>1, <3>3
  <2>4. PageOf(body) \in fitting
    <3>1. PageOf(body) \in Pages /\ body \in BodiesOfPage(PageOf(body))
      BY DEF Pages, BodiesOfPage
    <3>2. PICK last : last = NewestOf(BodiesOfPage(PageOf(body)))
      OBVIOUS
    <3>3. last \in Bodies /\ body <= last
      BY <2>3, <3>1, <3>2 DEF BodiesOfPage
    <3>4. entity <= IdOf(last)
      BY <1>2, <1>4, <3>3
    <3> QED BY <3>1, <3>2, <3>4
  <2>5. ASSUME NEW page \in fitting
        PROVE  page \in Int /\ PageOf(body) <= page
    <3>1. PICK last : last = NewestOf(BodiesOfPage(page))
      OBVIOUS
    <3>2. last \in Bodies /\ PageOf(last) = page
      BY <2>3, <3>1 DEF BodiesOfPage
    <3>3. entity <= IdOf(last)
      BY <3>1
    <3>4. body <= last
      BY <1>2, <1>4, <3>2, <3>3
    <3>5. body \in Nat /\ last \in Nat
      BY <1>2, <3>2
    <3>6. PageOf(body) <= PageOf(last) /\ PageOf(last) \in Nat
      BY <3>4, <3>5, PagesAreSized, DivisionIsMonotone, DivisionBounds
         DEF PageOf
    <3> QED BY <3>2, <3>6
  <2>6. OldestOf(fitting) = PageOf(body)
    <3>1. fitting \in SUBSET Int
      BY <2>5
    <3> HIDE DEF fitting
    <3> QED BY <2>4, <2>5, <3>1, OldestIs
  <2>7. fitting # {}
    BY <2>4
  <2>8. snapshot[PageOf(body)][body] = world[body]
    OBVIOUS
  <2> HIDE DEF found, fitting
  <2>9. LookupPages(snapshot, entity) = found(PageOf(body))
    BY <1>1, <2>6, <2>7
  <2> QED BY <2>1, <2>2, <2>8, <2>9
<1> QED BY <1>3, <1>4

LEMMA LookupArraysFinds ==
  ASSUME NEW snapshot, NEW world, NEW entity, IsWorld(world),
         \A body \in Bodies, c \in Components :
           snapshot[c][body] = world[body][c]
  PROVE  LookupArrays(snapshot, entity) = FindBody(world, entity)
<1> DEFINE value(body) == [c \in Components |-> snapshot[c][body]]
<1>1. ASSUME NEW body \in Bodies
      PROVE  value(body) = world[body]
  <2>1. world[body] = [c \in Components |-> world[body][c]]
    BY DEF IsWorld
  <2>2. value(body) = [c \in Components |-> world[body][c]]
    OBVIOUS
  <2> QED BY <2>1, <2>2
<1>2. PICK having : having = {b \in Bodies : IdOf(b) = entity}
  OBVIOUS
<1>3. LookupArrays(snapshot, entity) = {value(body) : body \in having}
  BY <1>2 DEF LookupArrays
<1> HIDE DEF value
<1>4. {value(body) : body \in having} = {world[body] : body \in having}
  BY <1>1, <1>2
<1> QED BY <1>2, <1>3, <1>4 DEF FindBody

-----------------------------------------------------------------------------
(* The ring *)

LEMMA RemainderIs ==
  ASSUME NEW p \in Nat, p > 0, NEW b \in Nat
  PROVE  \E q, r \in Int : b = p * q + r /\ r = b % p
  OBVIOUS

LEMMA SlotsDiffer ==
  ASSUME NEW f \in Nat, NEW g \in Nat, f < g, NEW C \in Nat, g - f < C
  PROVE  f % C # g % C
<1>1. C > 0
  OBVIOUS
<1> SUFFICES ASSUME f % C = g % C PROVE FALSE
  OBVIOUS
<1>2. PICK q \in Int, r \in Int : f = C * q + r /\ r = f % C
  BY <1>1, RemainderIs
<1>3. PICK p \in Int, s \in Int : g = C * p + s /\ s = g % C
  BY <1>1, RemainderIs
<1>4. g - f = C * (p - q)
  BY <1>2, <1>3
<1>5. p - q > 0
  BY <1>1, <1>4
<1>6. C * (p - q) >= C
  BY <1>1, <1>5
<1> QED BY <1>4, <1>6

LEMMA SlotsAreIndices ==
  ASSUME NEW f \in Nat, NEW C \in Nat, C > 0
  PROVE  f % C \in 0..(C - 1)
  OBVIOUS

RingHolds(slots, oldest, latest, w, lo, hi) ==
  /\ slots = [index \in 0..(Capacity - 1) |-> slots[index]]
  /\ oldest = lo /\ latest = hi
  /\ \A f \in lo..hi : /\ slots[f % Capacity].frame = f
                       /\ slots[f % Capacity].value = w[f]

RingIsEmpty(slots, oldest, latest) ==
  /\ slots = [index \in 0..(Capacity - 1) |-> slots[index]]
  /\ oldest = -1 /\ latest = -1

RingSlotsAfter(slots, frame, value) ==
  [slots EXCEPT ![frame % Capacity] = [frame |-> frame, value |-> value]]

LEMMA RingCaptureFirst ==
  ASSUME NEW slots, NEW oldest, NEW latest, RingIsEmpty(slots, oldest, latest),
         NEW n \in Nat, NEW world \in World
  PROVE  RingHolds(RingSlotsAfter(slots, n, world), n, n,
                   Captured(Nothing, n, world), n, n)
<1>1. n % Capacity \in 0..(Capacity - 1)
  BY CapacityIsPositive, SlotsAreIndices
<1>2. Captured(Nothing, n, world)[n] = world
  BY CapturedFirst
<1>3. \A f \in n..n : f = n
  OBVIOUS
<1>4. /\ RingSlotsAfter(slots, n, world)[n % Capacity]
           = [frame |-> n, value |-> world]
      /\ RingSlotsAfter(slots, n, world)
           = [index \in 0..(Capacity - 1) |->
                RingSlotsAfter(slots, n, world)[index]]
  BY <1>1 DEF RingSlotsAfter, RingIsEmpty
<1> QED BY <1>2, <1>3, <1>4 DEF RingHolds

\* The slot a capture takes is that of no frame the window keeps.
LEMMA RingCapture ==
  ASSUME NEW slots, NEW oldest, NEW latest, NEW w, NEW lo, NEW hi,
         Spans(w, lo, hi), RingHolds(slots, oldest, latest, w, lo, hi),
         NEW world \in World
  PROVE  RingHolds(RingSlotsAfter(slots, hi + 1, world),
                   OldestAfter(lo, hi), hi + 1,
                   Captured(w, hi + 1, world), OldestAfter(lo, hi), hi + 1)
<1> DEFINE first == OldestAfter(lo, hi)
           next == Captured(w, hi + 1, world)
           index(f) == f % Capacity
<1>1. PICK after : after = RingSlotsAfter(slots, hi + 1, world)
  OBVIOUS
<1>2. lo \in Nat /\ hi \in Nat /\ lo <= hi
  BY DEF Spans
<1>3. first \in Nat /\ lo <= first /\ first <= hi + 1
        /\ hi + 1 - first < Capacity
  BY RetainedIsRange DEF Spans
<1>4. /\ next[hi + 1] = world
      /\ \A f \in first..hi : f \in lo..hi /\ next[f] = w[f]
  BY CapturedSpans
<1>5. index(hi + 1) \in 0..(Capacity - 1)
  BY <1>2, CapacityIsPositive, SlotsAreIndices
<1>6. /\ after[index(hi + 1)] = [frame |-> hi + 1, value |-> world]
      /\ \A i \in 0..(Capacity - 1) : i # index(hi + 1) => after[i] = slots[i]
      /\ after = [i \in 0..(Capacity - 1) |-> after[i]]
  BY <1>1, <1>5 DEF RingSlotsAfter, RingHolds
<1> HIDE DEF first, next
<1>7. ASSUME NEW f \in first..hi
      PROVE  index(f) \in 0..(Capacity - 1) /\ index(f) # index(hi + 1)
  <2>1. f \in Nat /\ f < hi + 1 /\ hi + 1 - f < Capacity /\ hi + 1 \in Nat
    BY <1>2, <1>3, CapacityIsPositive
  <2>2. PICK n \in Nat : n = hi + 1
    BY <2>1
  <2>3. f % Capacity # n % Capacity
    <3>1. f < n /\ n - f < Capacity
      BY <1>2, <2>1, <2>2
    <3>2. f \in Nat /\ Capacity \in Nat
      BY <2>1, CapacityIsPositive
    <3> QED BY <3>1, <3>2, SlotsDiffer
  <2>4. f % Capacity \in 0..(Capacity - 1)
    BY <2>1, CapacityIsPositive, SlotsAreIndices
  <2> QED BY <2>2, <2>3, <2>4
<1>8. \A f \in first..(hi + 1) : f = hi + 1 \/ f \in first..hi
  BY <1>2, <1>3
<1> HIDE DEF index
<1>9. ASSUME NEW f \in first..(hi + 1)
      PROVE  after[index(f)].frame = f /\ after[index(f)].value = next[f]
  <2>1. CASE f = hi + 1
    BY <1>4, <1>6, <2>1
  <2>2. CASE f \in first..hi
    <3>1. after[index(f)] = slots[index(f)] /\ next[f] = w[f] /\ f \in lo..hi
      BY <1>4, <1>6, <1>7, <2>2
    <3>2. slots[index(f)].frame = f /\ slots[index(f)].value = w[f]
      BY <3>1 DEF RingHolds, index
    <3> QED BY <3>1, <3>2
  <2> QED BY <1>8, <2>1, <2>2
<1> QED BY <1>1, <1>6, <1>9 DEF RingHolds, first, next, index

\* A truncation empties no slot of a frame that stays.
LEMMA RingTruncate ==
  ASSUME NEW slots, NEW oldest, NEW latest, NEW w, NEW lo, NEW hi,
         Spans(w, lo, hi), RingHolds(slots, oldest, latest, w, lo, hi),
         NEW n \in lo..hi, NEW empty, NEW after,
         after = [index \in DOMAIN slots |->
                    IF \E f \in (n + 1)..latest :
                         index = f % Capacity /\ slots[index].frame = f
                    THEN empty ELSE slots[index]]
  PROVE  RingHolds(after, oldest, n, Truncated(w, n), lo, n)
<1>1. lo \in Nat /\ hi \in Nat /\ lo <= hi /\ n \in Nat
  BY DEF Spans
<1>2. PICK next : next = Truncated(w, n)
  OBVIOUS
<1>3. \A f \in lo..n : f \in lo..hi /\ next[f] = w[f]
  BY <1>2, TruncatedSpans
<1>4. DOMAIN slots = 0..(Capacity - 1)
        /\ after = [index \in 0..(Capacity - 1) |-> after[index]]
  BY DEF RingHolds
<1>5. ASSUME NEW f \in lo..n
      PROVE  /\ after[f % Capacity].frame = f
             /\ after[f % Capacity].value = next[f]
  <2>1. PICK i : i = f % Capacity
    OBVIOUS
  <2>2. i \in DOMAIN slots
    BY <1>1, <1>4, <2>1, CapacityIsPositive, SlotsAreIndices
  <2>3. slots[i].frame = f /\ slots[i].value = next[f]
    BY <1>3, <2>1 DEF RingHolds
  <2>4. ~(\E g \in (n + 1)..latest : i = g % Capacity /\ slots[i].frame = g)
    BY <1>1, <2>3 DEF RingHolds
  <2>5. after[i] = slots[i]
    BY <2>2, <2>4
  <2> QED BY <2>1, <2>3, <2>5
<1> QED BY <1>2, <1>4, <1>5 DEF RingHolds

-----------------------------------------------------------------------------
(* Each store implements the reference *)

\* A call of the reference, with frames up to max, takes the window w to the
\* window next.
WindowStep(max, w, next) ==
  \/ \E frame \in 0..max, world \in World :
       FollowsLatest(DOMAIN w, frame) /\ next = Captured(w, frame, world)
  \/ \E frame \in 0..max :
       frame \in DOMAIN w /\ next = Truncated(w, frame)

LEMMA FirstFollows ==
  ASSUME NEW max, NEW frame \in 0..max, NEW world \in World
  PROVE  WindowStep(max, Nothing, Captured(Nothing, frame, world))
<1>1. FollowsLatest(DOMAIN Nothing, frame)
  BY DEF FollowsLatest, Nothing
<1> QED BY <1>1 DEF WindowStep

LEMMA NextFollows ==
  ASSUME NEW max, NEW w, NEW lo, NEW hi, Spans(w, lo, hi), NEW world \in World,
         hi + 1 \in 0..max
  PROVE  WindowStep(max, w, Captured(w, hi + 1, world))
<1>1. DOMAIN w = lo..hi /\ lo \in Nat /\ hi \in Nat /\ lo <= hi
  BY DEF Spans
<1>2. FollowsLatest(lo..hi, hi + 1)
  BY <1>1 DEF FollowsLatest
<1>3. FollowsLatest(DOMAIN w, hi + 1)
  BY <1>1, <1>2
<1> QED BY <1>3 DEF WindowStep

LEMMA TruncationFollows ==
  ASSUME NEW max, NEW w, NEW frame \in 0..max, frame \in DOMAIN w
  PROVE  WindowStep(max, w, Truncated(w, frame))
  BY DEF WindowStep

DeltasWindow == [f \in DOMAIN deltas |-> RestoreEntries(deltas, f)]

DeltasInv ==
  \/ deltas = Nothing
  \/ \E lo, hi \in Nat :
       /\ Spans(DeltasWindow, lo, hi)
       /\ DeltasHold(deltas, deltasLatest, DeltasWindow, lo, hi)

LEMMA DeltasStep == DeltasInv /\ DeltasNext =>
  DeltasInv' /\ WindowStep(MaxFrame, DeltasWindow, DeltasWindow')
<1> SUFFICES ASSUME DeltasInv, DeltasNext
             PROVE  /\ DeltasInv'
                    /\ WindowStep(MaxFrame, DeltasWindow, DeltasWindow')
  OBVIOUS
\* what the lemmas on the log give for the window after the step
<1>1. ASSUME NEW next, NEW lo, NEW hi, Spans(next, lo, hi),
             DeltasHold(deltas', deltasLatest', next, lo, hi)
      PROVE  DeltasInv' /\ DeltasWindow' = next
  <2>1. [f \in DOMAIN deltas' |-> RestoreEntries(deltas', f)] = next
    BY <1>1, LogReadsAsWindow DEF DeltasHold
  <2>2. DeltasWindow' = next
    BY <2>1 DEF DeltasWindow
  <2>3. lo \in Nat /\ hi \in Nat
    BY <1>1 DEF Spans
  <2> QED BY <1>1, <2>2, <2>3 DEF DeltasInv
<1>2. CASE deltas = Nothing
  <2>1. DeltasWindow = Nothing
    BY <1>2 DEF DeltasWindow, Nothing
  <2>2. PICK frame \in 0..MaxFrame, world \in World :
          CaptureFirstDelta(frame, world)
    BY <1>2 DEF DeltasNext, CaptureDelta, TruncateDeltas, Nothing
  <2>3. frame \in Nat
    OBVIOUS
  <2>4. DeltasHold(deltas', deltasLatest', Captured(Nothing, frame, world),
                   frame, frame)
    BY <1>2, <2>2, <2>3, DeltasCaptureFirst DEF CaptureFirstDelta
  <2>5. Spans(Captured(Nothing, frame, world), frame, frame)
    BY <2>3, CapturedFirst
  <2>6. DeltasInv' /\ DeltasWindow' = Captured(Nothing, frame, world)
    BY <1>1, <2>4, <2>5
  <2> QED BY <2>1, <2>6, FirstFollows
<1>3. CASE deltas # Nothing
  <2>1. PICK lo \in Nat, hi \in Nat :
          /\ Spans(DeltasWindow, lo, hi)
          /\ DeltasHold(deltas, deltasLatest, DeltasWindow, lo, hi)
    BY <1>3 DEF DeltasInv
  <2>2. /\ NewestEntry(deltas) = hi /\ DOMAIN deltas = lo..hi
        /\ LogOf(deltas, DeltasWindow, lo, hi)
    BY <2>1, LogReadsAsWindow DEF DeltasHold
  <2>3. RestoreEntries(deltas, NewestEntry(deltas)) = DeltasWindow[hi]
    <3>1. hi \in DOMAIN deltas
      BY <2>1, <2>2 DEF Spans
    <3> QED BY <2>2, <3>1 DEF DeltasWindow
  <2>4. ASSUME NEW frame \in 0..MaxFrame, NEW world \in World,
               NEW dirty \in DirtySets(DeltasWindow[hi], world),
               CaptureDelta(frame, world, dirty)
        PROVE  DeltasInv' /\ WindowStep(MaxFrame, DeltasWindow, DeltasWindow')
    <3>1. frame = hi + 1
      BY <2>2, <2>4 DEF CaptureDelta
    <3>2. DeltasHold(deltas', deltasLatest',
                     Captured(DeltasWindow, hi + 1, world),
                     OldestAfter(lo, hi), hi + 1)
      BY <2>1, <2>4, <3>1, DeltasCapture DEF CaptureDelta
    <3>3. Spans(Captured(DeltasWindow, hi + 1, world),
                OldestAfter(lo, hi), hi + 1)
      BY <2>1, CapturedSpans
    <3>4. DeltasInv' /\ DeltasWindow' = Captured(DeltasWindow, hi + 1, world)
      BY <1>1, <3>2, <3>3
    <3>5. WindowStep(MaxFrame, DeltasWindow,
                     Captured(DeltasWindow, hi + 1, world))
      BY <2>1, <2>4, <3>1, NextFollows
    <3> QED BY <3>4, <3>5
  <2>5. ASSUME NEW frame \in 0..MaxFrame, TruncateDeltas(frame)
        PROVE  DeltasInv' /\ WindowStep(MaxFrame, DeltasWindow, DeltasWindow')
    <3>1. frame \in lo..hi /\ frame \in DOMAIN DeltasWindow
      BY <2>2, <2>5 DEF TruncateDeltas, DeltasWindow
    <3>2. DeltasHold(deltas', deltasLatest', Truncated(DeltasWindow, frame),
                     lo, frame)
      BY <2>1, <2>5, <3>1, DeltasTruncate DEF TruncateDeltas
    <3>3. Spans(Truncated(DeltasWindow, frame), lo, frame)
      BY <2>1, <3>1, TruncatedSpans
    <3>4. DeltasInv' /\ DeltasWindow' = Truncated(DeltasWindow, frame)
      BY <1>1, <3>2, <3>3
    <3> QED BY <3>1, <3>4, TruncationFollows
  <2> QED BY <1>3, <2>3, <2>4, <2>5 DEF DeltasNext, CaptureFirstDelta
<1> QED BY <1>2, <1>3

\* The delta store is a snapshot store for every interval and capacity: what
\* it restores is what was captured, through evictions, promotions and
\* truncations (snapshot_store.cpp:220-440).
THEOREM DeltasImplement == DeltasSpec => DeltasImplementSnapshotStore
<1>1. DeltasInit => DeltasInv /\ FullDeltas!Init
  BY DEF DeltasInit, DeltasInv, FullDeltas!Init, FullDeltas!Nothing, Nothing
<1>2. DeltasInv /\ [DeltasNext]_deltasVars => DeltasInv'
  <2>1. DeltasInv /\ UNCHANGED deltasVars => DeltasInv'
    BY DEF DeltasInv, DeltasWindow, deltasVars
  <2> QED BY <2>1, DeltasStep
<1>3. DeltasInv /\ [DeltasNext]_deltasVars =>
        [FullDeltas!Next]_([f \in DOMAIN deltas |-> RestoreEntries(deltas, f)])
  <2>1. WindowStep(MaxFrame, DeltasWindow, DeltasWindow') => FullDeltas!Next
    BY DEF WindowStep, DeltasWindow, Captured, Truncated, RetainedAfter,
           RetainedUpTo, FollowsLatest, FullDeltas!Next, FullDeltas!Capture,
           FullDeltas!TruncateAfter, FullDeltas!RetainedAfter,
           FullDeltas!RetainedUpTo, FullDeltas!FollowsLatest
  <2>2. UNCHANGED deltasVars =>
          UNCHANGED [f \in DOMAIN deltas |-> RestoreEntries(deltas, f)]
    BY DEF deltasVars
  <2> QED BY <2>1, <2>2, DeltasStep
<1> QED BY <1>1, <1>2, <1>3, PTL
        DEF DeltasSpec, DeltasImplementSnapshotStore, FullDeltas!Spec

HybridsWindow == [f \in DOMAIN hybrids |-> RestoreEntries(hybrids, f)]

HybridsInv ==
  \/ hybrids = Nothing /\ lastDecision = "Full"
  \/ \E lo, hi \in Nat :
       /\ Spans(HybridsWindow, lo, hi)
       /\ HybridsHold(hybrids, hybridsLatest, lastDecision,
                      HybridsWindow, lo, hi)

LEMMA HybridsStep == HybridsInv /\ HybridsNext =>
  HybridsInv' /\ WindowStep(MaxFrame, HybridsWindow, HybridsWindow')
<1> SUFFICES ASSUME HybridsInv, HybridsNext
             PROVE  /\ HybridsInv'
                    /\ WindowStep(MaxFrame, HybridsWindow, HybridsWindow')
  OBVIOUS
\* what the lemmas on the log give for the window after the step
<1>1. ASSUME NEW next, NEW lo, NEW hi, Spans(next, lo, hi),
             HybridsHold(hybrids', hybridsLatest', lastDecision', next, lo, hi)
      PROVE  HybridsInv' /\ HybridsWindow' = next
  <2>1. [f \in DOMAIN hybrids' |-> RestoreEntries(hybrids', f)] = next
    BY <1>1, LogReadsAsWindow DEF HybridsHold
  <2>2. HybridsWindow' = next
    BY <2>1 DEF HybridsWindow
  <2>3. lo \in Nat /\ hi \in Nat
    BY <1>1 DEF Spans
  <2> QED BY <1>1, <2>2, <2>3 DEF HybridsInv
<1>2. CASE hybrids = Nothing
  <2>1. HybridsWindow = Nothing
    BY <1>2 DEF HybridsWindow, Nothing
  <2>2. PICK frame \in 0..MaxFrame, world \in World :
          CaptureFirstHybrid(frame, world)
    BY <1>2 DEF HybridsNext, CaptureHybrid, TruncateHybrids, Nothing
  <2>3. frame \in Nat
    OBVIOUS
  <2>4. HybridsHold(hybrids', hybridsLatest', lastDecision',
                    Captured(Nothing, frame, world), frame, frame)
    <3>1. lastDecision = "Full"
      BY <2>1, SpansNotNothing DEF HybridsInv
    <3>2. /\ hybrids' = PushEntry(Nothing, frame,
                                 HybridFor("Full", world, Bodies))
          /\ hybridsLatest' = world /\ lastDecision' = "Full"
      BY <1>2, <2>2, <3>1 DEF CaptureFirstHybrid
    <3> QED BY <2>3, <3>2, HybridsCaptureFirst
  <2>5. Spans(Captured(Nothing, frame, world), frame, frame)
    BY <2>3, CapturedFirst
  <2>6. HybridsInv' /\ HybridsWindow' = Captured(Nothing, frame, world)
    BY <1>1, <2>4, <2>5
  <2> QED BY <2>1, <2>6, FirstFollows
<1>3. CASE hybrids # Nothing
  <2>1. PICK lo \in Nat, hi \in Nat :
          /\ Spans(HybridsWindow, lo, hi)
          /\ HybridsHold(hybrids, hybridsLatest, lastDecision,
                         HybridsWindow, lo, hi)
    BY <1>3 DEF HybridsInv
  <2>2. /\ NewestEntry(hybrids) = hi /\ DOMAIN hybrids = lo..hi
        /\ LogOf(hybrids, HybridsWindow, lo, hi)
    BY <2>1, LogReadsAsWindow DEF HybridsHold
  <2>3. RestoreEntries(hybrids, NewestEntry(hybrids)) = HybridsWindow[hi]
    <3>1. hi \in DOMAIN hybrids
      BY <2>1, <2>2 DEF Spans
    <3> QED BY <2>2, <3>1 DEF HybridsWindow
  <2>4. ASSUME NEW frame \in 0..MaxFrame, NEW world \in World,
               NEW dirty \in DirtySets(HybridsWindow[hi], world),
               CaptureHybrid(frame, world, dirty)
        PROVE  /\ HybridsInv'
               /\ WindowStep(MaxFrame, HybridsWindow, HybridsWindow')
    <3>1. frame = hi + 1
      BY <2>2, <2>4 DEF CaptureHybrid
    <3>2. HybridsHold(hybrids', hybridsLatest', lastDecision',
                      Captured(HybridsWindow, hi + 1, world),
                      OldestAfter(lo, hi), hi + 1)
      <4>1. PICK indices :
              indices = BodiesOf(ChangedCells(hybridsLatest, world, dirty))
        OBVIOUS
      <4>2. PICK selected \in Encodings :
              selected = Selected(hi + 1, lastDecision, indices)
        BY SelectedIsEncoding
      <4>3. /\ hybrids' = EnforceHybrids(
                           PushEntry(hybrids, hi + 1,
                                     HybridFor(selected, world, indices)))
            /\ hybridsLatest' = world /\ lastDecision' = selected
        BY <2>4, <3>1, <4>1, <4>2 DEF CaptureHybrid
      <4> QED BY <2>1, <4>1, <4>3, HybridsCapture
    <3>3. Spans(Captured(HybridsWindow, hi + 1, world),
                OldestAfter(lo, hi), hi + 1)
      BY <2>1, CapturedSpans
    <3>4. HybridsInv' /\ HybridsWindow' = Captured(HybridsWindow, hi + 1, world)
      BY <1>1, <3>2, <3>3
    <3>5. WindowStep(MaxFrame, HybridsWindow,
                     Captured(HybridsWindow, hi + 1, world))
      BY <2>1, <2>4, <3>1, NextFollows
    <3> QED BY <3>4, <3>5
  <2>5. ASSUME NEW frame \in 0..MaxFrame, TruncateHybrids(frame)
        PROVE  /\ HybridsInv'
               /\ WindowStep(MaxFrame, HybridsWindow, HybridsWindow')
    <3>1. frame \in lo..hi /\ frame \in DOMAIN HybridsWindow
      BY <2>2, <2>5 DEF TruncateHybrids, HybridsWindow
    <3>2. HybridsHold(hybrids', hybridsLatest', lastDecision',
                      Truncated(HybridsWindow, frame), lo, frame)
      BY <2>1, <2>5, <3>1, HybridsTruncate DEF TruncateHybrids
    <3>3. Spans(Truncated(HybridsWindow, frame), lo, frame)
      BY <2>1, <3>1, TruncatedSpans
    <3>4. HybridsInv' /\ HybridsWindow' = Truncated(HybridsWindow, frame)
      BY <1>1, <3>2, <3>3
    <3> QED BY <3>1, <3>4, TruncationFollows
  <2> QED BY <1>3, <2>3, <2>4, <2>5
         DEF HybridsNext, CaptureFirstHybrid, RestoredHybrid
<1> QED BY <1>2, <1>3

\* So is the hybrid store, whatever encodings its costs choose
\* (snapshot_store.cpp:760-1040).
THEOREM HybridsImplement == HybridsSpec => HybridsImplementSnapshotStore
<1>1. HybridsInit => HybridsInv /\ FullHybrids!Init
  BY DEF HybridsInit, HybridsInv, FullHybrids!Init, FullHybrids!Nothing, Nothing
<1>2. HybridsInv /\ [HybridsNext]_hybridsVars => HybridsInv'
  <2>1. HybridsInv /\ UNCHANGED hybridsVars => HybridsInv'
    BY DEF HybridsInv, HybridsWindow, hybridsVars
  <2> QED BY <2>1, HybridsStep
<1>3. HybridsInv /\ [HybridsNext]_hybridsVars =>
        [FullHybrids!Next]_([f \in DOMAIN hybrids |-> RestoredHybrid(f)])
  <2>1. WindowStep(MaxFrame, HybridsWindow, HybridsWindow') => FullHybrids!Next
    BY DEF WindowStep, HybridsWindow, RestoredHybrid, Captured, Truncated,
           RetainedAfter, RetainedUpTo, FollowsLatest, FullHybrids!Next, FullHybrids!Capture,
           FullHybrids!TruncateAfter, FullHybrids!RetainedAfter,
           FullHybrids!RetainedUpTo, FullHybrids!FollowsLatest
  <2>2. UNCHANGED hybridsVars =>
          UNCHANGED [f \in DOMAIN hybrids |-> RestoredHybrid(f)]
    BY DEF hybridsVars, RestoredHybrid
  <2> QED BY <2>1, <2>2, HybridsStep
<1> QED BY <1>1, <1>2, <1>3, PTL
        DEF HybridsSpec, HybridsImplementSnapshotStore, FullHybrids!Spec

PagesWindow == [f \in DOMAIN pages |-> RestorePages(pages[f])]

PagesInv ==
  \/ pages = Nothing
  \/ \E lo, hi \in Nat :
       /\ Spans(PagesWindow, lo, hi)
       /\ PagesHold(pages, pagesLatest, PagesWindow, lo, hi)

LEMMA PagesStep == PagesInv /\ PagesNext =>
  PagesInv' /\ WindowStep(MaxFrame, PagesWindow, PagesWindow')
<1> SUFFICES ASSUME PagesInv, PagesNext
             PROVE  /\ PagesInv'
                    /\ WindowStep(MaxFrame, PagesWindow, PagesWindow')
  OBVIOUS
\* what the lemmas on the log give for the window after the step
<1>1. ASSUME NEW next, NEW lo, NEW hi, Spans(next, lo, hi),
             PagesHold(pages', pagesLatest', next, lo, hi)
      PROVE  PagesInv' /\ PagesWindow' = next
  <2>1. [f \in DOMAIN pages' |-> RestorePages(pages'[f])] = next
    BY <1>1, PagesRead
  <2>2. PagesWindow' = next
    BY <2>1 DEF PagesWindow
  <2>3. lo \in Nat /\ hi \in Nat
    BY <1>1 DEF Spans
  <2> QED BY <1>1, <2>2, <2>3 DEF PagesInv
<1>2. CASE pages = Nothing
  <2>1. PagesWindow = Nothing
    BY <1>2 DEF PagesWindow, Nothing
  <2>2. PICK frame \in 0..MaxFrame, world \in World :
          CaptureFirstPages(frame, world)
    BY <1>2 DEF PagesNext, CapturePages, TruncatePages, Nothing
  <2>3. frame \in Nat
    OBVIOUS
  <2>4. PagesHold(pages', pagesLatest', Captured(Nothing, frame, world),
                   frame, frame)
    BY <1>2, <2>2, <2>3, PagesCaptureFirst DEF CaptureFirstPages
  <2>5. Spans(Captured(Nothing, frame, world), frame, frame)
    BY <2>3, CapturedFirst
  <2>6. PagesInv' /\ PagesWindow' = Captured(Nothing, frame, world)
    BY <1>1, <2>4, <2>5
  <2> QED BY <2>1, <2>6, FirstFollows
<1>3. CASE pages # Nothing
  <2>1. PICK lo \in Nat, hi \in Nat :
          /\ Spans(PagesWindow, lo, hi)
          /\ PagesHold(pages, pagesLatest, PagesWindow, lo, hi)
    BY <1>3 DEF PagesInv
  <2>2. NewestPages = hi /\ DOMAIN pages = lo..hi
    BY <2>1, PagesRead DEF NewestPages
  <2>3. RestorePages(pages[NewestPages]) = PagesWindow[hi]
    <3>1. hi \in DOMAIN pages
      BY <2>1, <2>2 DEF Spans
    <3> QED BY <2>2, <3>1 DEF PagesWindow
  <2>4. ASSUME NEW frame \in 0..MaxFrame, NEW world \in World,
               NEW dirty \in DirtySets(PagesWindow[hi], world),
               CapturePages(frame, world, dirty)
        PROVE  PagesInv' /\ WindowStep(MaxFrame, PagesWindow, PagesWindow')
    <3>1. frame = hi + 1
      BY <2>2, <2>4 DEF CapturePages
    <3>2. PagesHold(pages', pagesLatest',
                     Captured(PagesWindow, hi + 1, world),
                     OldestAfter(lo, hi), hi + 1)
      <4>1. PICK touched :
              touched = Touched(BodiesOf(ChangedCells(pagesLatest, world, dirty)))
        OBVIOUS
      <4>2. PICK snapshot :
              snapshot = [page \in Pages |->
                            IF page \in touched THEN CopyPage(world, page)
                            ELSE pages[NewestOf(DOMAIN pages)][page]]
        OBVIOUS
      <4>3. pages' = SlideOf(pages, hi + 1, snapshot) /\ pagesLatest' = world
        BY <2>4, <3>1, <4>1, <4>2 DEF CapturePages, NewestPages, SlideOf
      <4> QED BY <2>1, <4>1, <4>2, <4>3, PagesCapture
    <3>3. Spans(Captured(PagesWindow, hi + 1, world),
                OldestAfter(lo, hi), hi + 1)
      BY <2>1, CapturedSpans
    <3>4. PagesInv' /\ PagesWindow' = Captured(PagesWindow, hi + 1, world)
      BY <1>1, <3>2, <3>3
    <3>5. WindowStep(MaxFrame, PagesWindow,
                     Captured(PagesWindow, hi + 1, world))
      BY <2>1, <2>4, <3>1, NextFollows
    <3> QED BY <3>4, <3>5
  <2>5. ASSUME NEW frame \in 0..MaxFrame, TruncatePages(frame)
        PROVE  PagesInv' /\ WindowStep(MaxFrame, PagesWindow, PagesWindow')
    <3>1. frame \in lo..hi /\ frame \in DOMAIN PagesWindow
      BY <2>2, <2>5 DEF TruncatePages, PagesWindow
    <3>2. PagesHold(pages', pagesLatest', Truncated(PagesWindow, frame),
                     lo, frame)
      BY <2>1, <2>5, <3>1, PagesTruncate DEF TruncatePages
    <3>3. Spans(Truncated(PagesWindow, frame), lo, frame)
      BY <2>1, <3>1, TruncatedSpans
    <3>4. PagesInv' /\ PagesWindow' = Truncated(PagesWindow, frame)
      BY <1>1, <3>2, <3>3
    <3> QED BY <3>1, <3>4, TruncationFollows
  <2> QED BY <1>3, <2>3, <2>4, <2>5 DEF PagesNext, CaptureFirstPages
<1> QED BY <1>2, <1>3

\* So is the paged store: sharing pages never shows a body an older value
\* (snapshot_store.cpp:443-600).
THEOREM PagesImplement == PagesSpec => PagesImplementSnapshotStore
<1>1. PagesInit => PagesInv /\ FullPages!Init
  BY DEF PagesInit, PagesInv, FullPages!Init, FullPages!Nothing, Nothing
<1>2. PagesInv /\ [PagesNext]_pagesVars => PagesInv'
  <2>1. PagesInv /\ UNCHANGED pagesVars => PagesInv'
    BY DEF PagesInv, PagesWindow, pagesVars
  <2> QED BY <2>1, PagesStep
<1>3. PagesInv /\ [PagesNext]_pagesVars =>
        [FullPages!Next]_([f \in DOMAIN pages |-> RestorePages(pages[f])])
  <2>1. WindowStep(MaxFrame, PagesWindow, PagesWindow') => FullPages!Next
    BY DEF WindowStep, PagesWindow, Captured, Truncated, RetainedAfter,
           RetainedUpTo, FollowsLatest, FullPages!Next, FullPages!Capture,
           FullPages!TruncateAfter, FullPages!RetainedAfter,
           FullPages!RetainedUpTo, FullPages!FollowsLatest
  <2>2. UNCHANGED pagesVars =>
          UNCHANGED [f \in DOMAIN pages |-> RestorePages(pages[f])]
    BY DEF pagesVars
  <2> QED BY <2>1, <2>2, PagesStep
<1> QED BY <1>1, <1>2, <1>3, PTL
        DEF PagesSpec, PagesImplementSnapshotStore, FullPages!Spec

ArraysWindow == [f \in DOMAIN arrays |-> RestoreArrays(arrays[f])]

ArraysInv ==
  \/ arrays = Nothing
  \/ \E lo, hi \in Nat :
       /\ Spans(ArraysWindow, lo, hi)
       /\ ArraysHold(arrays, arraysLatest, ArraysWindow, lo, hi)

LEMMA ArraysStep == ArraysInv /\ ArraysNext =>
  ArraysInv' /\ WindowStep(MaxFrame, ArraysWindow, ArraysWindow')
<1> SUFFICES ASSUME ArraysInv, ArraysNext
             PROVE  /\ ArraysInv'
                    /\ WindowStep(MaxFrame, ArraysWindow, ArraysWindow')
  OBVIOUS
\* what the lemmas on the log give for the window after the step
<1>1. ASSUME NEW next, NEW lo, NEW hi, Spans(next, lo, hi),
             ArraysHold(arrays', arraysLatest', next, lo, hi)
      PROVE  ArraysInv' /\ ArraysWindow' = next
  <2>1. [f \in DOMAIN arrays' |-> RestoreArrays(arrays'[f])] = next
    BY <1>1, ArraysRead
  <2>2. ArraysWindow' = next
    BY <2>1 DEF ArraysWindow
  <2>3. lo \in Nat /\ hi \in Nat
    BY <1>1 DEF Spans
  <2> QED BY <1>1, <2>2, <2>3 DEF ArraysInv
<1>2. CASE arrays = Nothing
  <2>1. ArraysWindow = Nothing
    BY <1>2 DEF ArraysWindow, Nothing
  <2>2. PICK frame \in 0..MaxFrame, world \in World :
          CaptureFirstArrays(frame, world)
    BY <1>2 DEF ArraysNext, CaptureArrays, TruncateArrays, Nothing
  <2>3. frame \in Nat
    OBVIOUS
  <2>4. ArraysHold(arrays', arraysLatest', Captured(Nothing, frame, world),
                   frame, frame)
    BY <1>2, <2>2, <2>3, ArraysCaptureFirst DEF CaptureFirstArrays
  <2>5. Spans(Captured(Nothing, frame, world), frame, frame)
    BY <2>3, CapturedFirst
  <2>6. ArraysInv' /\ ArraysWindow' = Captured(Nothing, frame, world)
    BY <1>1, <2>4, <2>5
  <2> QED BY <2>1, <2>6, FirstFollows
<1>3. CASE arrays # Nothing
  <2>1. PICK lo \in Nat, hi \in Nat :
          /\ Spans(ArraysWindow, lo, hi)
          /\ ArraysHold(arrays, arraysLatest, ArraysWindow, lo, hi)
    BY <1>3 DEF ArraysInv
  <2>2. NewestArrays = hi /\ DOMAIN arrays = lo..hi
    BY <2>1, ArraysRead DEF NewestArrays
  <2>3. RestoreArrays(arrays[NewestArrays]) = ArraysWindow[hi]
    <3>1. hi \in DOMAIN arrays
      BY <2>1, <2>2 DEF Spans
    <3> QED BY <2>2, <3>1 DEF ArraysWindow
  <2>4. ASSUME NEW frame \in 0..MaxFrame, NEW world \in World,
               NEW dirty \in DirtySets(ArraysWindow[hi], world),
               CaptureArrays(frame, world, dirty)
        PROVE  ArraysInv' /\ WindowStep(MaxFrame, ArraysWindow, ArraysWindow')
    <3>1. frame = hi + 1
      BY <2>2, <2>4 DEF CaptureArrays
    <3>2. ArraysHold(arrays', arraysLatest',
                     Captured(ArraysWindow, hi + 1, world),
                     OldestAfter(lo, hi), hi + 1)
      <4>1. PICK aggregate :
              aggregate = Aggregate(ChangedCells(arraysLatest, world, dirty))
        OBVIOUS
      <4>2. PICK snapshot :
              snapshot = [c \in Components |->
                            IF c \in aggregate THEN Column(world, c)
                            ELSE arrays[NewestOf(DOMAIN arrays)][c]]
        OBVIOUS
      <4>3. /\ arrays' = SlideOf(arrays, hi + 1, snapshot)
            /\ arraysLatest' = world
        BY <2>4, <3>1, <4>1, <4>2
           DEF CaptureArrays, SnapshotOf, NewestArrays, SlideOf
      <4> QED BY <2>1, <4>1, <4>2, <4>3, ArraysCapture
    <3>3. Spans(Captured(ArraysWindow, hi + 1, world),
                OldestAfter(lo, hi), hi + 1)
      BY <2>1, CapturedSpans
    <3>4. ArraysInv' /\ ArraysWindow' = Captured(ArraysWindow, hi + 1, world)
      BY <1>1, <3>2, <3>3
    <3>5. WindowStep(MaxFrame, ArraysWindow,
                     Captured(ArraysWindow, hi + 1, world))
      BY <2>1, <2>4, <3>1, NextFollows
    <3> QED BY <3>4, <3>5
  <2>5. ASSUME NEW frame \in 0..MaxFrame, TruncateArrays(frame)
        PROVE  ArraysInv' /\ WindowStep(MaxFrame, ArraysWindow, ArraysWindow')
    <3>1. frame \in lo..hi /\ frame \in DOMAIN ArraysWindow
      BY <2>2, <2>5 DEF TruncateArrays, ArraysWindow
    <3>2. ArraysHold(arrays', arraysLatest', Truncated(ArraysWindow, frame),
                     lo, frame)
      BY <2>1, <2>5, <3>1, ArraysTruncate DEF TruncateArrays
    <3>3. Spans(Truncated(ArraysWindow, frame), lo, frame)
      BY <2>1, <3>1, TruncatedSpans
    <3>4. ArraysInv' /\ ArraysWindow' = Truncated(ArraysWindow, frame)
      BY <1>1, <3>2, <3>3
    <3> QED BY <3>1, <3>4, TruncationFollows
  <2> QED BY <1>3, <2>3, <2>4, <2>5 DEF ArraysNext, CaptureFirstArrays
<1> QED BY <1>2, <1>3

\* So is the component store: sharing arrays never shows a value of a frame
\* that was cut off (snapshot_store.cpp:603-757).
THEOREM ArraysImplement == ArraysSpec => ArraysImplementSnapshotStore
<1>1. ArraysInit => ArraysInv /\ FullArrays!Init
  BY DEF ArraysInit, ArraysInv, FullArrays!Init, FullArrays!Nothing, Nothing
<1>2. ArraysInv /\ [ArraysNext]_arraysVars => ArraysInv'
  <2>1. ArraysInv /\ UNCHANGED arraysVars => ArraysInv'
    BY DEF ArraysInv, ArraysWindow, arraysVars
  <2> QED BY <2>1, ArraysStep
<1>3. ArraysInv /\ [ArraysNext]_arraysVars =>
        [FullArrays!Next]_([f \in DOMAIN arrays |-> RestoreArrays(arrays[f])])
  <2>1. WindowStep(MaxFrame, ArraysWindow, ArraysWindow') => FullArrays!Next
    BY DEF WindowStep, ArraysWindow, Captured, Truncated, RetainedAfter,
           RetainedUpTo, FollowsLatest, FullArrays!Next, FullArrays!Capture,
           FullArrays!TruncateAfter, FullArrays!RetainedAfter,
           FullArrays!RetainedUpTo, FullArrays!FollowsLatest
  <2>2. UNCHANGED arraysVars =>
          UNCHANGED [f \in DOMAIN arrays |-> RestoreArrays(arrays[f])]
    BY DEF arraysVars
  <2> QED BY <2>1, <2>2, ArraysStep
<1> QED BY <1>1, <1>2, <1>3, PTL
        DEF ArraysSpec, ArraysImplementSnapshotStore, FullArrays!Spec

\* What contains and at of the ring give back
RingReads(max, slots, oldest, latest) ==
  [f \in {g \in 0..max : /\ oldest # -1
                         /\ oldest <= g /\ g <= latest
                         /\ slots[g % Capacity].frame = g} |->
     slots[f % Capacity].value]

LEMMA RingRead ==
  ASSUME NEW slots, NEW oldest, NEW latest, NEW w, NEW lo, NEW hi,
         Spans(w, lo, hi), RingHolds(slots, oldest, latest, w, lo, hi),
         NEW max \in Nat, hi <= max
  PROVE  RingReads(max, slots, oldest, latest) = w
<1>1. lo \in Nat /\ hi \in Nat /\ lo <= hi /\ w = [f \in lo..hi |-> w[f]]
  BY DEF Spans
<1>2. oldest = lo /\ latest = hi
        /\ \A f \in lo..hi : /\ slots[f % Capacity].frame = f
                             /\ slots[f % Capacity].value = w[f]
  BY DEF RingHolds
<1>3. {g \in 0..max : /\ oldest # -1 /\ oldest <= g /\ g <= latest
                      /\ slots[g % Capacity].frame = g} = lo..hi
  <2>1. \A g \in 0..max : oldest <= g /\ g <= latest => g \in lo..hi
    BY <1>1, <1>2
  <2>2. \A g \in lo..hi : g \in 0..max /\ lo <= g /\ g <= hi /\ lo # -1
    BY <1>1
  <2> QED BY <1>2, <2>1, <2>2
<1> QED BY <1>1, <1>2, <1>3 DEF RingReads

LEMMA RingReadsNothing ==
  ASSUME NEW max, NEW slots, NEW latest
  PROVE  RingReads(max, slots, -1, latest) = Nothing
  BY DEF RingReads, Nothing

RingWindow == RingReads(MaxFrame + 1, ringSlots, ringOldest, ringLatest)

RingInv ==
  \/ RingIsEmpty(ringSlots, ringOldest, ringLatest)
  \/ \E lo, hi \in Nat :
       /\ Spans(RingWindow, lo, hi) /\ hi <= MaxFrame + 1
       /\ RingHolds(ringSlots, ringOldest, ringLatest, RingWindow, lo, hi)

LEMMA MaxFrameIsNat == MaxFrame \in Nat
  BY SnapshotsAssumption DEF SnapshotsAssumption

\* The two operations of the ring, on a ring that holds a window
LEMMA RingCaptures ==
  ASSUME NEW w, NEW lo, NEW hi, Spans(w, lo, hi),
         RingHolds(ringSlots, ringOldest, ringLatest, w, lo, hi),
         NEW frame, NEW world \in World, Ring!Capture(frame, world)
  PROVE  /\ frame = hi + 1 /\ hi # MaxFrame + 1
         /\ RingHolds(ringSlots', ringOldest', ringLatest',
                      Captured(w, hi + 1, world), OldestAfter(lo, hi), hi + 1)
<1>1. lo \in Nat /\ hi \in Nat /\ lo <= hi /\ hi - lo < Capacity
  BY DEF Spans
<1>2. ringOldest = lo /\ ringLatest = hi
  BY DEF RingHolds
<1>3. frame = hi + 1 /\ hi # MaxFrame + 1
  BY <1>1, <1>2 DEF Ring!Capture
<1>4. ringSlots' = RingSlotsAfter(ringSlots, hi + 1, world)
  BY <1>3 DEF Ring!Capture, Ring!SlotIndex, RingSlotsAfter
<1>5. ringLatest' = hi + 1
  BY <1>3 DEF Ring!Capture
<1>6. ringOldest' = OldestAfter(lo, hi)
  <2>1. ringOldest' = IF hi + 1 - lo + 1 > Capacity
                      THEN hi + 1 - Capacity + 1 ELSE lo
    BY <1>1, <1>2, <1>3, CapacityIsPositive DEF Ring!Capture
  <2> QED BY <1>1, <2>1, CapacityIsPositive DEF OldestAfter
<1>7. RingHolds(RingSlotsAfter(ringSlots, hi + 1, world),
                OldestAfter(lo, hi), hi + 1,
                Captured(w, hi + 1, world), OldestAfter(lo, hi), hi + 1)
  BY RingCapture
<1> QED BY <1>3, <1>4, <1>5, <1>6, <1>7

LEMMA RingTruncates ==
  ASSUME NEW w, NEW lo, NEW hi, Spans(w, lo, hi),
         RingHolds(ringSlots, ringOldest, ringLatest, w, lo, hi),
         NEW frame \in Nat, Ring!TruncateAfter(frame)
  PROVE  /\ frame \in lo..hi
         /\ RingHolds(ringSlots', ringOldest', ringLatest',
                      Truncated(w, frame), lo, frame)
<1>1. ringOldest = lo /\ ringLatest = hi /\ lo \in Nat /\ hi \in Nat
  BY DEF Spans, RingHolds
<1>2. frame \in lo..hi
  BY <1>1 DEF Ring!TruncateAfter, Ring!Contains
<1>3. ringSlots' =
        [index \in DOMAIN ringSlots |->
           IF \E f \in (frame + 1)..ringLatest :
                index = f % Capacity /\ ringSlots[index].frame = f
           THEN Ring!EmptySlot ELSE ringSlots[index]]
  BY DEF Ring!TruncateAfter, Ring!SlotIndex
<1>4. ringOldest' = ringOldest /\ ringLatest' = frame
  BY DEF Ring!TruncateAfter
<1>5. PICK after : after =
        [index \in DOMAIN ringSlots |->
           IF \E f \in (frame + 1)..ringLatest :
                index = f % Capacity /\ ringSlots[index].frame = f
           THEN Ring!EmptySlot ELSE ringSlots[index]]
  OBVIOUS
<1>6. RingHolds(after, ringOldest, frame, Truncated(w, frame), lo, frame)
  BY <1>2, <1>5, RingTruncate
<1> QED BY <1>2, <1>3, <1>4, <1>5, <1>6

LEMMA RingCapturesFirst ==
  ASSUME RingIsEmpty(ringSlots, ringOldest, ringLatest),
         NEW frame \in Nat, NEW world \in World, Ring!Capture(frame, world)
  PROVE  RingHolds(ringSlots', ringOldest', ringLatest',
                   Captured(Nothing, frame, world), frame, frame)
<1>1. ringOldest = -1 /\ ringLatest = -1
  BY DEF RingIsEmpty
<1>2. ringSlots' = RingSlotsAfter(ringSlots, frame, world)
  BY DEF Ring!Capture, Ring!SlotIndex, RingSlotsAfter
<1>3. ringLatest' = frame
  BY DEF Ring!Capture
<1>4. ringOldest' = frame
  <2>1. ringOldest' = IF frame - frame + 1 > Capacity
                      THEN frame - Capacity + 1 ELSE frame
    BY <1>1 DEF Ring!Capture
  <2> QED BY <2>1, CapacityIsPositive
<1> QED BY <1>2, <1>3, <1>4, RingCaptureFirst

LEMMA RingStep == RingInv /\ Ring!Next =>
  RingInv' /\ WindowStep(MaxFrame + 1, RingWindow, RingWindow')
<1> SUFFICES ASSUME RingInv, Ring!Next
             PROVE  /\ RingInv'
                    /\ WindowStep(MaxFrame + 1, RingWindow, RingWindow')
  OBVIOUS
<1>1. ASSUME NEW next, NEW lo, NEW hi, Spans(next, lo, hi), hi <= MaxFrame + 1,
             RingHolds(ringSlots', ringOldest', ringLatest', next, lo, hi)
      PROVE  RingInv' /\ RingWindow' = next
  <2>1. RingReads(MaxFrame + 1, ringSlots', ringOldest', ringLatest') = next
    BY <1>1, RingRead, MaxFrameIsNat
  <2>2. RingWindow' = next
    BY <2>1 DEF RingWindow
  <2>3. lo \in Nat /\ hi \in Nat
    BY <1>1 DEF Spans
  <2> QED BY <1>1, <2>2, <2>3 DEF RingInv
<1>2. CASE RingIsEmpty(ringSlots, ringOldest, ringLatest)
  <2>1. RingWindow = Nothing
    BY <1>2, RingReadsNothing DEF RingWindow, RingIsEmpty
  <2>2. PICK frame \in 0..(MaxFrame + 1), world \in World :
          Ring!Capture(frame, world)
    BY <1>2 DEF Ring!Next, Ring!TruncateAfter, RingIsEmpty
  <2>3. frame \in Nat /\ frame <= MaxFrame + 1
    BY MaxFrameIsNat
  <2>4. RingHolds(ringSlots', ringOldest', ringLatest',
                  Captured(Nothing, frame, world), frame, frame)
    BY <1>2, <2>2, <2>3, RingCapturesFirst
  <2>5. Spans(Captured(Nothing, frame, world), frame, frame)
    BY <2>3, CapturedFirst
  <2>6. RingInv' /\ RingWindow' = Captured(Nothing, frame, world)
    BY <1>1, <2>3, <2>4, <2>5
  <2> QED BY <2>1, <2>6, FirstFollows
<1>3. CASE \E lo, hi \in Nat :
             /\ Spans(RingWindow, lo, hi) /\ hi <= MaxFrame + 1
             /\ RingHolds(ringSlots, ringOldest, ringLatest, RingWindow, lo, hi)
  <2>1. PICK lo \in Nat, hi \in Nat :
          /\ Spans(RingWindow, lo, hi) /\ hi <= MaxFrame + 1
          /\ RingHolds(ringSlots, ringOldest, ringLatest, RingWindow, lo, hi)
    BY <1>3
  <2>2. ASSUME NEW frame \in 0..(MaxFrame + 1), NEW world \in World,
               Ring!Capture(frame, world)
        PROVE  RingInv' /\ WindowStep(MaxFrame + 1, RingWindow, RingWindow')
    <3>1. frame = hi + 1
      BY <2>1, <2>2, RingCaptures
    <3>2. RingHolds(ringSlots', ringOldest', ringLatest',
                    Captured(RingWindow, hi + 1, world),
                    OldestAfter(lo, hi), hi + 1)
      BY <2>1, <2>2, RingCaptures
    <3>3. Spans(Captured(RingWindow, hi + 1, world), OldestAfter(lo, hi), hi + 1)
      BY <2>1, CapturedSpans
    <3>4. hi + 1 <= MaxFrame + 1
      BY <3>1, MaxFrameIsNat
    <3>5. RingInv' /\ RingWindow' = Captured(RingWindow, hi + 1, world)
      BY <1>1, <3>2, <3>3, <3>4
    <3> QED BY <2>1, <3>1, <3>5, NextFollows
  <2>3. ASSUME NEW frame \in 0..(MaxFrame + 1), Ring!TruncateAfter(frame)
        PROVE  RingInv' /\ WindowStep(MaxFrame + 1, RingWindow, RingWindow')
    <3>1. frame \in Nat /\ frame <= MaxFrame + 1
      BY MaxFrameIsNat
    <3>2. frame \in lo..hi /\ RingHolds(ringSlots', ringOldest', ringLatest',
                                        Truncated(RingWindow, frame), lo, frame)
      BY <2>1, <2>3, <3>1, RingTruncates
    <3>3. Spans(Truncated(RingWindow, frame), lo, frame)
      BY <2>1, <3>2, TruncatedSpans
    <3>4. RingInv' /\ RingWindow' = Truncated(RingWindow, frame)
      BY <1>1, <3>1, <3>2, <3>3
    <3>5. frame \in DOMAIN RingWindow
      BY <2>1, <3>2 DEF Spans
    <3> QED BY <3>4, <3>5, TruncationFollows
  <2> QED BY <2>2, <2>3 DEF Ring!Next
<1> QED BY <1>2, <1>3 DEF RingInv

\* So is the ring: a slot is reused only when its frame has left the window
\* (indexed_ring.hpp:15-75).
THEOREM RingImplements == Ring!Spec => Ring!ImplementsSnapshotStore
<1> DEFINE mapped == [f \in {g \in 0..(MaxFrame + 1) : Ring!Contains(g)} |->
                        ringSlots[Ring!SlotIndex(f)].value]
<1>1. mapped = RingWindow /\ mapped' = RingWindow'
  BY DEF RingWindow, RingReads, Ring!Contains, Ring!SlotIndex
<1>2. Ring!Init => RingInv /\ Ring!Full!Init
  <2>1. Ring!Init => RingIsEmpty(ringSlots, ringOldest, ringLatest)
    BY DEF Ring!Init, RingIsEmpty
  <2>2. Ring!Init => mapped = Nothing
    <3> SUFFICES ASSUME Ring!Init PROVE RingWindow = Nothing
      BY <1>1
    <3>1. ringOldest = -1
      BY <2>1 DEF RingIsEmpty
    <3> QED BY <3>1, RingReadsNothing DEF RingWindow
  <2> QED BY <2>1, <2>2 DEF RingInv, Ring!Full!Init, Ring!Full!Nothing, Nothing
<1>3. RingInv /\ [Ring!Next]_(Ring!vars) => RingInv'
  <2>1. RingInv /\ UNCHANGED Ring!vars => RingInv'
    BY DEF RingInv, RingWindow, Ring!vars
  <2> QED BY <2>1, RingStep
<1>4. RingInv /\ [Ring!Next]_(Ring!vars) => [Ring!Full!Next]_(mapped)
  <2>1. WindowStep(MaxFrame + 1, mapped, mapped') => Ring!Full!Next
    BY DEF WindowStep, Captured, Truncated, RetainedAfter,
           RetainedUpTo, FollowsLatest, Ring!Full!Next, Ring!Full!Capture,
           Ring!Full!TruncateAfter, Ring!Full!RetainedAfter,
           Ring!Full!RetainedUpTo, Ring!Full!FollowsLatest
  <2>2. UNCHANGED Ring!vars => UNCHANGED mapped
    BY DEF Ring!vars, Ring!Contains, Ring!SlotIndex
  <2> QED BY <1>1, <2>1, <2>2, RingStep
<1> QED BY <1>2, <1>3, <1>4, PTL
        DEF Ring!Spec, Ring!ImplementsSnapshotStore, Ring!Full!Spec

-----------------------------------------------------------------------------
(* All the stores under the same calls *)

StoresHold(w, lo, hi) ==
  /\ Spans(w, lo, hi) /\ hi <= MaxFrame
  /\ DeltasHold(deltas, deltasLatest, w, lo, hi)
  /\ HybridsHold(hybrids, hybridsLatest, lastDecision, w, lo, hi)
  /\ PagesHold(pages, pagesLatest, w, lo, hi)
  /\ ArraysHold(arrays, arraysLatest, w, lo, hi)
  /\ RingHolds(ringSlots, ringOldest, ringLatest, w, lo, hi)

StoresEmpty ==
  /\ snapshots = Nothing /\ deltas = Nothing /\ pages = Nothing
  /\ arrays = Nothing
  /\ hybrids = Nothing /\ lastDecision = "Full"
  /\ RingIsEmpty(ringSlots, ringOldest, ringLatest)

StoresInv ==
  StoresEmpty \/ \E lo, hi \in Nat : StoresHold(snapshots, lo, hi)

LEMMA CaptureFirstKeeps ==
  ASSUME StoresInv, NEW frame \in 0..MaxFrame, NEW world \in World,
         CaptureFirst(frame, world)
  PROVE  StoresInv'
<1>1. StoresEmpty
  <2>1. DOMAIN snapshots = {}
    BY DEF CaptureFirst
  <2> QED BY <2>1, SpansNotNothing DEF StoresInv, StoresHold
<1>2. frame \in Nat /\ frame <= MaxFrame
  OBVIOUS
<1>3. snapshots' = Captured(Nothing, frame, world)
  BY <1>1 DEF StoresEmpty, CaptureFirst, Capture, Captured
<1>4. Spans(Captured(Nothing, frame, world), frame, frame)
  BY <1>2, CapturedFirst
<1>5. DeltasHold(deltas', deltasLatest', Captured(Nothing, frame, world),
                 frame, frame)
  BY <1>1, <1>2, DeltasCaptureFirst
     DEF StoresEmpty, CaptureFirst, CaptureFirstDelta
<1>6. HybridsHold(hybrids', hybridsLatest', lastDecision',
                  Captured(Nothing, frame, world), frame, frame)
  <2>1. /\ hybrids' = PushEntry(Nothing, frame,
                               HybridFor("Full", world, Bodies))
        /\ hybridsLatest' = world /\ lastDecision' = "Full"
    BY <1>1 DEF StoresEmpty, CaptureFirst, CaptureFirstHybrid
  <2> QED BY <1>2, <2>1, HybridsCaptureFirst
<1>7. PagesHold(pages', pagesLatest', Captured(Nothing, frame, world),
                frame, frame)
  BY <1>2, PagesCaptureFirst DEF CaptureFirst, CaptureFirstPages
<1>8. ArraysHold(arrays', arraysLatest', Captured(Nothing, frame, world),
                 frame, frame)
  BY <1>2, ArraysCaptureFirst DEF CaptureFirst, CaptureFirstArrays
<1>9. RingHolds(ringSlots', ringOldest', ringLatest',
                Captured(Nothing, frame, world), frame, frame)
  BY <1>1, <1>2, RingCapturesFirst DEF StoresEmpty, CaptureFirst
<1>10. StoresHold(snapshots, frame, frame)'
  BY <1>2, <1>3, <1>4, <1>5, <1>6, <1>7, <1>8, <1>9 DEF StoresHold
<1> QED BY <1>2, <1>10 DEF StoresInv

LEMMA CaptureNextKeeps ==
  ASSUME StoresInv, NEW world \in World, CaptureNext(world)
  PROVE  StoresInv'
<1>1. PICK lo \in Nat, hi \in Nat : StoresHold(snapshots, lo, hi)
  BY DEF StoresInv, StoresEmpty, CaptureNext, Nothing
<1>2. Spans(snapshots, lo, hi) /\ DOMAIN snapshots = lo..hi
        /\ NewestOf(DOMAIN snapshots) = hi
  BY <1>1, SpansNotNothing DEF StoresHold
<1>3. PICK dirty \in DirtySets(snapshots[hi], world) :
        /\ Capture(hi + 1, world)
        /\ CaptureDelta(hi + 1, world, dirty)
        /\ CaptureHybrid(hi + 1, world, dirty)
        /\ CapturePages(hi + 1, world, dirty)
        /\ CaptureArrays(hi + 1, world, dirty)
        /\ Ring!Capture(hi + 1, world)
  BY <1>2 DEF CaptureNext
<1> DEFINE next == Captured(snapshots, hi + 1, world)
           first == OldestAfter(lo, hi)
<1>4. hi + 1 <= MaxFrame
  BY <1>2, MaxFrameIsNat DEF CaptureNext
<1>5. snapshots' = next
  BY <1>3 DEF Capture, Captured
<1>6. Spans(next, first, hi + 1)
  BY <1>2, CapturedSpans
<1>7. DeltasHold(deltas', deltasLatest', next, first, hi + 1)
  <2>1. DeltasHold(deltas, deltasLatest, snapshots, lo, hi)
    BY <1>1 DEF StoresHold
  <2> QED BY <1>2, <1>3, <2>1, DeltasCapture DEF CaptureDelta
<1>8. HybridsHold(hybrids', hybridsLatest', lastDecision', next, first, hi + 1)
  <2>1. HybridsHold(hybrids, hybridsLatest, lastDecision, snapshots, lo, hi)
    BY <1>1 DEF StoresHold
  <2>2. PICK indices :
          indices = BodiesOf(ChangedCells(hybridsLatest, world, dirty))
    OBVIOUS
  <2>3. PICK selected \in Encodings :
          selected = Selected(hi + 1, lastDecision, indices)
    BY SelectedIsEncoding
  <2>4. /\ hybrids' = EnforceHybrids(
                       PushEntry(hybrids, hi + 1,
                                 HybridFor(selected, world, indices)))
        /\ hybridsLatest' = world /\ lastDecision' = selected
    BY <1>3, <2>2, <2>3 DEF CaptureHybrid
  <2> QED BY <1>2, <2>1, <2>2, <2>4, HybridsCapture
<1>9. PagesHold(pages', pagesLatest', next, first, hi + 1)
  <2>1. PagesHold(pages, pagesLatest, snapshots, lo, hi)
    BY <1>1 DEF StoresHold
  <2>2. PICK touched :
          touched = Touched(BodiesOf(ChangedCells(pagesLatest, world, dirty)))
    OBVIOUS
  <2>3. PICK snapshot :
          snapshot = [page \in Pages |->
                        IF page \in touched THEN CopyPage(world, page)
                        ELSE pages[NewestOf(DOMAIN pages)][page]]
    OBVIOUS
  <2>4. pages' = SlideOf(pages, hi + 1, snapshot) /\ pagesLatest' = world
    BY <1>3, <2>2, <2>3 DEF CapturePages, NewestPages, SlideOf
  <2> QED BY <1>2, <2>1, <2>2, <2>3, <2>4, PagesCapture
<1>10. ArraysHold(arrays', arraysLatest', next, first, hi + 1)
  <2>1. ArraysHold(arrays, arraysLatest, snapshots, lo, hi)
    BY <1>1 DEF StoresHold
  <2>2. PICK aggregate :
          aggregate = Aggregate(ChangedCells(arraysLatest, world, dirty))
    OBVIOUS
  <2>3. PICK snapshot :
          snapshot = [c \in Components |->
                        IF c \in aggregate THEN Column(world, c)
                        ELSE arrays[NewestOf(DOMAIN arrays)][c]]
    OBVIOUS
  <2>4. arrays' = SlideOf(arrays, hi + 1, snapshot) /\ arraysLatest' = world
    BY <1>3, <2>2, <2>3 DEF CaptureArrays, SnapshotOf, NewestArrays, SlideOf
  <2> QED BY <1>2, <2>1, <2>2, <2>3, <2>4, ArraysCapture
<1>11. RingHolds(ringSlots', ringOldest', ringLatest', next, first, hi + 1)
  <2>1. RingHolds(ringSlots, ringOldest, ringLatest, snapshots, lo, hi)
    BY <1>1 DEF StoresHold
  <2> QED BY <1>2, <1>3, <2>1, RingCaptures
<1> HIDE DEF next
<1>12. StoresHold(snapshots, first, hi + 1)'
  BY <1>4, <1>5, <1>6, <1>7, <1>8, <1>9, <1>10, <1>11 DEF StoresHold
<1>13. first \in Nat /\ hi + 1 \in Nat
  BY <1>6 DEF Spans
<1> QED BY <1>12, <1>13 DEF StoresInv

LEMMA TruncateKeeps ==
  ASSUME StoresInv, NEW frame \in 0..MaxFrame, TruncateAll(frame)
  PROVE  StoresInv'
<1>1. frame \in DOMAIN snapshots /\ frame \in Nat /\ frame <= MaxFrame
  BY DEF TruncateAll, TruncateAfter
<1>2. PICK lo \in Nat, hi \in Nat : StoresHold(snapshots, lo, hi)
  BY <1>1 DEF StoresInv, StoresEmpty, Nothing
<1>3. Spans(snapshots, lo, hi) /\ frame \in lo..hi
  BY <1>1, <1>2, SpansNotNothing DEF StoresHold
<1>4. snapshots' = Truncated(snapshots, frame)
  BY DEF TruncateAll, TruncateAfter, Truncated
<1>5. Spans(Truncated(snapshots, frame), lo, frame)
  BY <1>3, TruncatedSpans
<1>6. DeltasHold(deltas', deltasLatest', Truncated(snapshots, frame), lo, frame)
  <2>1. DeltasHold(deltas, deltasLatest, snapshots, lo, hi)
    BY <1>2 DEF StoresHold
  <2> QED BY <1>3, <2>1, DeltasTruncate DEF TruncateAll, TruncateDeltas
<1>7. HybridsHold(hybrids', hybridsLatest', lastDecision',
                  Truncated(snapshots, frame), lo, frame)
  <2>1. HybridsHold(hybrids, hybridsLatest, lastDecision, snapshots, lo, hi)
    BY <1>2 DEF StoresHold
  <2> QED BY <1>3, <2>1, HybridsTruncate DEF TruncateAll, TruncateHybrids
<1>8. PagesHold(pages', pagesLatest', Truncated(snapshots, frame), lo, frame)
  <2>1. PagesHold(pages, pagesLatest, snapshots, lo, hi)
    BY <1>2 DEF StoresHold
  <2> QED BY <1>3, <2>1, PagesTruncate DEF TruncateAll, TruncatePages
<1>9. ArraysHold(arrays', arraysLatest', Truncated(snapshots, frame), lo, frame)
  <2>1. ArraysHold(arrays, arraysLatest, snapshots, lo, hi)
    BY <1>2 DEF StoresHold
  <2> QED BY <1>3, <2>1, ArraysTruncate DEF TruncateAll, TruncateArrays
<1>10. RingHolds(ringSlots', ringOldest', ringLatest',
                 Truncated(snapshots, frame), lo, frame)
  <2>1. RingHolds(ringSlots, ringOldest, ringLatest, snapshots, lo, hi)
    BY <1>2 DEF StoresHold
  <2> QED BY <1>1, <1>3, <2>1, RingTruncates DEF TruncateAll
<1>11. StoresHold(snapshots, lo, frame)'
  BY <1>1, <1>4, <1>5, <1>6, <1>7, <1>8, <1>9, <1>10 DEF StoresHold
<1> QED BY <1>1, <1>11 DEF StoresInv

LEMMA StoresInvariant == Calls => []StoresInv
<1>1. MakeStores => StoresInv
  BY DEF MakeStores, Init, DeltasInit, HybridsInit, PagesInit, ArraysInit,
         Ring!Init, RingIsEmpty, StoresEmpty, StoresInv
<1>2. StoresInv /\ [NextCall]_vars => StoresInv'
  <2>1. StoresInv /\ NextCall => StoresInv'
    BY CaptureFirstKeeps, CaptureNextKeeps, TruncateKeeps DEF NextCall
  <2>2. StoresInv /\ UNCHANGED vars => StoresInv'
    BY DEF StoresInv, StoresEmpty, StoresHold, vars, deltasVars, hybridsVars,
           pagesVars, arraysVars, ringVars
  <2> QED BY <2>1, <2>2
<1> QED BY <1>1, <1>2, PTL DEF Calls

\* What restores do not show follows from the invariant, and so does what
\* they show.
LEMMA InvariantGivesAnchors == StoresInv => Anchored
<1> SUFFICES ASSUME StoresInv PROVE Anchored
  OBVIOUS
<1>1. CASE StoresEmpty
  <2>1. DOMAIN Nothing = {}
    BY DEF Nothing
  <2> QED BY <1>1, <2>1
          DEF StoresEmpty, RingIsEmpty, Anchored, OldestDeltaIsWhole,
              LatestIsNewest, LastDecisionIsNewest, WindowIsStored,
              Ring!WindowIsStored
<1>2. ASSUME NEW lo \in Nat, NEW hi \in Nat, StoresHold(snapshots, lo, hi)
      PROVE  Anchored
  <2>1. Spans(snapshots, lo, hi) /\ NewestOf(DOMAIN snapshots) = hi
    BY <1>2, SpansNotNothing DEF StoresHold
  <2>2. LatestIsNewest
    BY <1>2, <2>1 DEF StoresHold, DeltasHold, HybridsHold, PagesHold,
                      ArraysHold, LatestIsNewest
  <2>3. OldestDeltaIsWhole
    <3>1. LogOf(deltas, snapshots, lo, hi) /\ WholeEntries(deltas, lo, hi)
      BY <1>2 DEF StoresHold, DeltasHold
    <3>2. OldestEntry(deltas) = lo /\ DOMAIN deltas = lo..hi
      BY <2>1, <3>1, LogReadsAsWindow
    <3> QED BY <3>1, <3>2 DEF OldestDeltaIsWhole, WholeEntries
  <2>4. LastDecisionIsNewest
    <3>1. LogOf(hybrids, snapshots, lo, hi) /\ lastDecision = hybrids[hi].encoding
      BY <1>2 DEF StoresHold, HybridsHold
    <3>2. NewestEntry(hybrids) = hi
      BY <2>1, <3>1, LogReadsAsWindow
    <3> QED BY <3>1, <3>2 DEF LastDecisionIsNewest
  <2>5. WindowIsStored
    <3>1. RingHolds(ringSlots, ringOldest, ringLatest, snapshots, lo, hi)
      BY <1>2 DEF StoresHold
    <3>2. ringOldest = lo /\ ringLatest = hi
            /\ \A f \in lo..hi : f \in Nat /\ lo <= f /\ f <= hi /\ lo # -1
                                 /\ ringSlots[f % Capacity].frame = f
      BY <3>1 DEF RingHolds
    <3> QED BY <3>2 DEF WindowIsStored, Ring!WindowIsStored, Ring!Contains,
                        Ring!SlotIndex
  <2> QED BY <2>2, <2>3, <2>4, <2>5 DEF Anchored
<1> QED BY <1>1, <1>2 DEF StoresInv

LEMMA InvariantGivesAgreement == StoresInv => StoresAgree
<1> SUFFICES ASSUME StoresInv PROVE StoresAgree
  OBVIOUS
<1>1. CASE StoresEmpty
  <2>1. DOMAIN Nothing = {} /\ snapshots = Nothing /\ ringOldest = -1
    BY <1>1 DEF StoresEmpty, RingIsEmpty, Nothing
  <2>2. DeltaAgrees /\ HybridAgrees /\ PagedAgrees /\ ComponentAgrees
    BY <1>1 DEF StoresEmpty, DeltaAgrees, HybridAgrees, PagedAgrees,
                ComponentAgrees, SameWindow, Nothing
  <2>3. RingAgrees
    BY <2>1 DEF RingAgrees, SameWindow, Ring!Contains, Nothing
  <2>4. LookupsAgree
    BY <2>1 DEF LookupsAgree
  <2> QED BY <2>2, <2>3, <2>4, InvariantGivesAnchors DEF StoresAgree
<1>2. ASSUME NEW lo \in Nat, NEW hi \in Nat, StoresHold(snapshots, lo, hi)
      PROVE  StoresAgree
  <2>1. Spans(snapshots, lo, hi) /\ hi <= MaxFrame
    BY <1>2 DEF StoresHold
  <2>2. DeltaAgrees
    <3>1. LogOf(deltas, snapshots, lo, hi)
      BY <1>2 DEF StoresHold, DeltasHold
    <3> QED BY <2>1, <3>1, LogReadsAsWindow DEF DeltaAgrees, SameWindow
  <2>3. HybridAgrees
    <3>1. LogOf(hybrids, snapshots, lo, hi)
      BY <1>2 DEF StoresHold, HybridsHold
    <3> QED BY <2>1, <3>1, LogReadsAsWindow DEF HybridAgrees, SameWindow
  <2>4. PagedAgrees
    <3>1. PagesHold(pages, pagesLatest, snapshots, lo, hi)
      BY <1>2 DEF StoresHold
    <3> QED BY <2>1, <3>1, PagesRead DEF PagedAgrees, SameWindow
  <2>5. ComponentAgrees
    <3>1. ArraysHold(arrays, arraysLatest, snapshots, lo, hi)
      BY <1>2 DEF StoresHold
    <3> QED BY <2>1, <3>1, ArraysRead DEF ComponentAgrees, SameWindow
  <2>6. RingAgrees
    <3>1. RingHolds(ringSlots, ringOldest, ringLatest, snapshots, lo, hi)
      BY <1>2 DEF StoresHold
    <3>2. RingReads(MaxFrame, ringSlots, ringOldest, ringLatest) = snapshots
      BY <2>1, <3>1, RingRead, MaxFrameIsNat
    <3> QED BY <3>2 DEF RingAgrees, SameWindow, RingReads, Ring!Contains,
                        Ring!SlotIndex
  <2>7. LookupsAgree
    <3> SUFFICES ASSUME NEW f \in DOMAIN snapshots, NEW entity \in EntityIds
                 PROVE  /\ LookupPages(pages[f], entity)
                             = FindBody(snapshots[f], entity)
                        /\ LookupArrays(arrays[f], entity)
                             = FindBody(snapshots[f], entity)
      BY DEF LookupsAgree
    <3>1. f \in lo..hi /\ snapshots[f] \in World
      BY <2>1 DEF Spans
    <3>2. entity \in Nat
      BY PagesAreSized DEF EntityIds
    <3>3. \A body \in Bodies :
            pages[f][PageOf(body)][body] = snapshots[f][body]
      BY <1>2, <3>1 DEF StoresHold, PagesHold
    <3>4. \A body \in Bodies, c \in Components :
            arrays[f][c][body] = snapshots[f][body][c]
      BY <1>2, <3>1 DEF StoresHold, ArraysHold
    <3>5. IsWorld(snapshots[f])
      BY <3>1, WorldsAreWorlds
    <3> QED BY <3>2, <3>3, <3>4, <3>5, LookupPagesFinds, LookupArraysFinds
  <2> QED BY <2>2, <2>3, <2>4, <2>5, <2>6, <2>7, InvariantGivesAnchors
          DEF StoresAgree
<1> QED BY <1>1, <1>2 DEF StoresInv

\* Whatever the calls, the worlds, the dirty sets, the number of bodies, the
\* size of a page, the interval and the capacity: every store and the ring
\* restore for the same frames the same worlds as the full-copy store, look
\* up the same bodies, and keep what later captures rely on
\* (snapshot_store.cpp:1043-1061, indexed_ring.hpp:15-75).
THEOREM StoresAgreeAlways == Calls => []StoresAgree
  BY StoresInvariant, InvariantGivesAgreement, PTL

=============================================================================
