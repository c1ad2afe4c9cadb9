---------------------------- MODULE Diagnostics ----------------------------
(***************************************************************************)
(* What the core tells a person about a run: TraceBuffer and               *)
(* TimeTravelDebugger of src/observability.cpp, the budget samples and the *)
(* divergence report of src/diagnostics.cpp.  A body has two components;   *)
(* the four of the code are compared one after the other in the same way.  *)
(***************************************************************************)
EXTENDS SequencesExt, Integers, Sequences, FiniteSets

---------------------------------------------------------------------------
(***************************************************************************)
(* The Merkle tree over the bodies of a world (src/state_evidence.cpp):    *)
(* the bodies are cut into chunks, the chunks are the leaves of a full     *)
(* binary tree padded with empty leaves, and the root binds the frame and  *)
(* the shape of the tree.  SHA-256 is a free constructor: two digests are  *)
(* equal when they were made of equal bytes.  The append_ functions write  *)
(* every field with a fixed width or a length before it, so bytes stand    *)
(* for the tuple of the fields.                                            *)
(***************************************************************************)

\* external: sha256 of the bytes of these fields under one of the domains
Sha256(domain, fields) == <<domain, fields>>

ZeroDigest == <<"zero", <<>> >>

Least(a, b) == IF a <= b THEN a ELSE b

CheckedChunkCount(bodyCount, chunkSize) ==
  IF bodyCount = 0 THEN 0 ELSE 1 + (bodyCount - 1) \div chunkSize

\* The capacities std::bit_ceil returns, and what a cursor that is halved n
\* times was divided by
PowerOfTwo(n) ==
  LET power[k \in 0..n] == IF k = 0 THEN 1 ELSE 2 * power[k - 1]
  IN power[n]

\* std::bit_ceil and its exponent: the leaves of the tree and its height
Height(chunkCount) ==
  CHOOSE h \in 0..chunkCount :
    /\ PowerOfTwo(h) >= chunkCount
    /\ \A g \in 0..(h - 1) : PowerOfTwo(g) < chunkCount

LeafCapacity(chunkCount) == PowerOfTwo(Height(chunkCount))

HashLeaf(chunk, firstBody, bodies) ==
  Sha256("leaf", <<chunk, firstBody, bodies>>)

HashEmptyLeaf(chunk) == Sha256("empty", <<chunk>>)

HashNode(level, left, right) == Sha256("node", <<level, left, right>>)

HashRoot(frame, bodyCount, chunkSize, chunkCount, leafCapacity, tree) ==
  Sha256("root", <<frame, bodyCount, chunkSize, chunkCount, leafCapacity,
                   tree>>)

\* The bodies of a chunk, counted from zero.
ChunkBodies(world, chunkSize, chunk) ==
  SubSeq(world.bodies, chunk * chunkSize + 1,
         Least((chunk + 1) * chunkSize, Len(world.bodies)))

\* build_levels: level 0 holds the leaves, the last level one node.
BuildLevels(world, chunkSize) ==
  LET chunks == CheckedChunkCount(Len(world.bodies), chunkSize)
      height == Height(chunks)
      levels[l \in 0..height] ==
        [i \in 0..(PowerOfTwo(height - l) - 1) |->
           IF l = 0
           THEN IF i < chunks
                THEN HashLeaf(i, i * chunkSize, ChunkBodies(world, chunkSize, i))
                ELSE HashEmptyLeaf(i)
           ELSE HashNode(l - 1, levels[l - 1][2 * i], levels[l - 1][2 * i + 1])]
  IN levels

\* state_merkle_sha256
MerkleRoot(world, chunkSize) ==
  LET chunks == CheckedChunkCount(Len(world.bodies), chunkSize)
  IN HashRoot(world.frame, Len(world.bodies), chunkSize, chunks,
              LeafCapacity(chunks),
              BuildLevels(world, chunkSize)[Height(chunks)][0])

Sibling(cursor) == IF cursor % 2 = 0 THEN cursor + 1 ELSE cursor - 1

MakeMerkleProofOneSided(world, chunk, chunkSize) ==
  LET chunks == CheckedChunkCount(Len(world.bodies), chunkSize)
      levels == BuildLevels(world, chunkSize)
  IN [frame |-> world.frame, bodyCount |-> Len(world.bodies),
      chunkSize |-> chunkSize, chunkCount |-> chunks,
      leafCapacity |-> LeafCapacity(chunks), chunk |-> chunk,
      path |-> [l \in 1..Height(chunks) |->
                  LET cursor == chunk \div PowerOfTwo(l - 1)
                  IN [sibling |-> levels[l - 1][Sibling(cursor)],
                      onLeft |-> chunk % 2 = 1]]]

\* make_state_merkle_proof
MakeMerkleProof(world, chunk, chunkSize) ==
  LET chunks == CheckedChunkCount(Len(world.bodies), chunkSize)
      levels == BuildLevels(world, chunkSize)
  IN [frame |-> world.frame, bodyCount |-> Len(world.bodies),
      chunkSize |-> chunkSize, chunkCount |-> chunks,
      leafCapacity |-> LeafCapacity(chunks), chunk |-> chunk,
      path |-> [l \in 1..Height(chunks) |->
                  LET cursor == chunk \div PowerOfTwo(l - 1)
                  IN [sibling |-> levels[l - 1][Sibling(cursor)],
                      onLeft |-> Sibling(cursor) < cursor]]]

\* The shape a proof must have before any digest is computed.
ProofShapeValid(bodies, proof) ==
  /\ proof.chunkSize # 0 /\ proof.chunkCount # 0
  /\ proof.chunk < proof.chunkCount
  /\ proof.leafCapacity >= proof.chunkCount
  /\ proof.leafCapacity = PowerOfTwo(Len(proof.path))
  /\ proof.chunk * proof.chunkSize < proof.bodyCount
  /\ Len(bodies) = Least(proof.chunkSize,
                         proof.bodyCount - proof.chunk * proof.chunkSize)

\* verify_state_merkle_proof: the digest is carried up the path, and every
\* sibling must be on the side the chunk's index asks for.
VerifyMerkleProof(bodies, proof, expectedRoot) ==
  LET Cursor(l) == proof.chunk \div PowerOfTwo(l)
      up[l \in 0..Len(proof.path)] ==
        IF l = 0
        THEN HashLeaf(proof.chunk, proof.chunk * proof.chunkSize, bodies)
        ELSE IF Cursor(l - 1) % 2 = 1
             THEN HashNode(l - 1, proof.path[l].sibling, up[l - 1])
             ELSE HashNode(l - 1, up[l - 1], proof.path[l].sibling)
  IN /\ ProofShapeValid(bodies, proof)
     /\ \A l \in DOMAIN proof.path :
          proof.path[l].onLeft = (Cursor(l - 1) % 2 = 1)
     /\ HashRoot(proof.frame, proof.bodyCount, proof.chunkSize,
                 proof.chunkCount, proof.leafCapacity,
                 up[Len(proof.path)]) = expectedRoot

---------------------------------------------------------------------------
CONSTANTS
  TraceCapacity,   \* events_.size() of a TraceBuffer
  FrameCapacity    \* records_.size() of a TimeTravelDebugger

\* The constructors refuse an empty buffer.
ASSUME DiagnosticsAssumption ==
  TraceCapacity \in Nat \ {0} /\ FrameCapacity \in Nat \ {0}

-----------------------------------------------------------------------------
(* TraceBuffer: a ring that overwrites its oldest event                    *)

EmptyTraces ==
  [events |-> [i \in 0..(TraceCapacity - 1) |-> {}], next |-> 0, size |-> 0,
   sequence |-> 0, overwritten |-> 0]

\* The event with the next sequence number in it
Numbered(event, sequence) ==
  [field \in DOMAIN event \cup {"sequence"} |->
     IF field = "sequence" THEN sequence ELSE event[field]]

RecordEvent(traces, event) ==
  LET full == traces.size = TraceCapacity IN
  [events |-> [traces.events EXCEPT ![traces.next] =
                 Numbered(event, traces.sequence)],
   next |-> (traces.next + 1) % TraceCapacity,
   size |-> IF full THEN traces.size ELSE traces.size + 1,
   sequence |-> traces.sequence + 1,
   overwritten |-> traces.overwritten + (IF full THEN 1 ELSE 0)]

RecordEvents(traces, events) ==
  LET after[n \in 0..Len(events)] ==
        IF n = 0 THEN traces ELSE RecordEvent(after[n - 1], events[n])
  IN after[Len(events)]

\* snapshot: oldest first
Snapshot(traces) ==
  LET start == IF traces.size = TraceCapacity THEN traces.next ELSE 0
  IN [p \in 1..traces.size |->
        traces.events[(start + p - 1) % TraceCapacity]]

ByFrame(traces, frame) ==
  SelectSeq(Snapshot(traces), LAMBDA e : e.frame = frame)

ByCorrelation(traces, correlation) ==
  SelectSeq(Snapshot(traces), LAMBDA e : e.correlation = correlation)

\* The sample a ScopedBudgetMeasurement records when its scope ends, however
\* it ends; the budgets of the core have no limit, so none is exceeded.
BudgetSample(id, correlation, frame) ==
  [code |-> "BudgetSampled", frame |-> frame, correlation |-> correlation,
   detail |-> id]

-----------------------------------------------------------------------------
(* TimeTravelDebugger: a ring of frames                                    *)

NoFrame == [world |-> [frame |-> 0, bodies |-> <<>>], inputs |-> <<>>,
            events |-> <<>>]

EmptyDebugger ==
  [records |-> [i \in 0..(FrameCapacity - 1) |-> NoFrame], oldest |-> 0,
   size |-> 0]

LogicalIndex(debugger, position) ==
  (debugger.oldest + position) % FrameCapacity

FramesOf(debugger) ==
  [p \in 1..debugger.size |-> debugger.records[LogicalIndex(debugger, p - 1)]]

\* record_frame takes frames in increasing order only.
FrameAccepted(debugger, world) ==
  debugger.size > 0 => Last(FramesOf(debugger)).world.frame < world.frame

\* A full ring whose first slot is overwritten, wherever the oldest is.
RecordFrameInFirst(debugger, world, inputs, events) ==
  LET record == [world |-> world, inputs |-> inputs, events |-> events] IN
  IF debugger.size < FrameCapacity
  THEN [debugger EXCEPT !.records[debugger.size] = record, !.size = @ + 1]
  ELSE [debugger EXCEPT !.records[debugger.oldest] = record,
                        !.oldest = (@ + 1) % FrameCapacity]

RecordFrame(debugger, world, inputs, events) ==
  LET record == [world |-> world, inputs |-> inputs, events |-> events] IN
  IF debugger.size < FrameCapacity
  THEN [debugger EXCEPT
          !.records[LogicalIndex(debugger, debugger.size)] = record,
          !.size = @ + 1]
  ELSE [debugger EXCEPT
          !.records[debugger.oldest] = record,
          !.oldest = (@ + 1) % FrameCapacity]

\* truncate_after: the newest frames go, down to the first that may stay.
TruncateAfter(debugger, frame) ==
  LET kept == Cardinality({p \in 1..debugger.size :
                             FramesOf(debugger)[p].world.frame <= frame})
  IN [records |-> [i \in DOMAIN debugger.records |->
                     IF \E p \in kept..(debugger.size - 1) :
                          i = LogicalIndex(debugger, p)
                     THEN NoFrame ELSE debugger.records[i]],
      oldest |-> IF kept = 0 THEN 0 ELSE debugger.oldest,
      size |-> kept]

\* export_reproducible_json: the schema, seed and environment, which are
\* there even when no frame is, then worlds, inputs, and the events without
\* the frame they belong to
ExportFrames(debugger) ==
  <<"neoeng.dcore.time-travel.v1">>
  \o [p \in 1..debugger.size |->
        LET r == FramesOf(debugger)[p]
        IN [world |-> r.world, inputs |-> r.inputs,
            events |-> [e \in DOMAIN r.events |->
                          [correlation |-> r.events[e].correlation,
                           sequence |-> r.events[e].sequence,
                           code |-> r.events[e].code]]]]

\* correlate: the events of the retained frames, by frame and sequence
Correlate(debugger, correlation) ==
  LET events == {e \in UNION {ToSet(FramesOf(debugger)[p].events) :
                                p \in 1..debugger.size} :
                   e.correlation = correlation}
  IN SetToSortSeq(events, LAMBDA a, b :
       IF a.frame = b.frame THEN a.sequence < b.sequence ELSE a.frame < b.frame)

Components == {"position", "velocity"}

ComponentDiff(left, right, component) ==
  [entity |-> left.id, what |-> component,
   from |-> left[component], to |-> right[component]]

\* append_component_diffs
ComponentDiffs(left, right) ==
  LET Diffs(component) == IF left[component] = right[component] THEN <<>>
                          ELSE <<ComponentDiff(left, right, component)>>
  IN Diffs("position") \o Diffs("velocity")

Removed(body) == [entity |-> body.id, what |-> "entity.removed",
                  from |-> 1, to |-> 0]
Added(body) == [entity |-> body.id, what |-> "entity.added",
                from |-> 0, to |-> 1]

\* compare: the bodies of two frames, both in the order of their ids, are
\* merged; at[k] is how far either side is after k rounds.
Compare(left, right) ==
  LET l == left.world.bodies
      r == right.world.bodies
      OnlyLeft(s) == s.l < Len(l)
                     /\ (s.r < Len(r) => l[s.l + 1].id < r[s.r + 1].id)
      OnlyRight(s) == s.r < Len(r)
                      /\ (s.l < Len(l) => r[s.r + 1].id < l[s.l + 1].id)
      merged[k \in 0..(Len(l) + Len(r))] ==
        IF k = 0 THEN [l |-> 0, r |-> 0, changes |-> <<>>]
        ELSE LET s == merged[k - 1] IN
             IF OnlyLeft(s)
             THEN [s EXCEPT !.l = @ + 1,
                            !.changes = Append(@, Removed(l[s.l + 1]))]
             ELSE IF OnlyRight(s)
             THEN [s EXCEPT !.r = @ + 1,
                            !.changes = Append(@, Added(r[s.r + 1]))]
             ELSE IF s.l < Len(l)
             THEN [l |-> s.l + 1, r |-> s.r + 1,
                   changes |-> s.changes
                               \o ComponentDiffs(l[s.l + 1], r[s.r + 1])]
             ELSE s
      frames == IF left.world.frame = right.world.frame THEN <<>>
                ELSE <<[entity |-> 0, what |-> "state.frame",
                        from |-> left.world.frame, to |-> right.world.frame]>>
  IN frames \o merged[Len(l) + Len(r)].changes

-----------------------------------------------------------------------------
(* diagnose_state_divergence                                               *)

NoDivergence == [divergent |-> FALSE, what |-> "", chunk |-> -1]

FirstComponent(expected, actual) ==
  IF expected.id # actual.id THEN "identity"
  ELSE IF expected.position # actual.position THEN "position" ELSE "velocity"

\* A chunk computed from a count instead of an index.
ChunkOfCount(count, chunkSize) == count \div chunkSize

\* The chunk of the body with this place in the list.
ChunkOf(count, chunkSize) == (count - 1) \div chunkSize

\* Worlds with equal roots are equal.  The first index at which two lists of
\* bodies differ is the one at which one of them ends or the bodies differ.
Diagnose(expected, actual, chunkSize) ==
  LET e == expected.bodies
      a == actual.bodies
      Differs(i) == (i > Len(e)) # (i > Len(a))
                    \/ (i <= Len(e) /\ i <= Len(a) /\ e[i] # a[i])
      first == CHOOSE i \in 1..(Len(e) + Len(a) + 1) :
                 Differs(i) /\ \A j \in 1..(i - 1) : ~Differs(j)
      what == IF first > Len(e) THEN "entity.added"
              ELSE IF first > Len(a) THEN "entity.removed"
              ELSE FirstComponent(e[first], a[first])
  IN IF MerkleRoot(expected, chunkSize) = MerkleRoot(actual, chunkSize)
     THEN NoDivergence
     ELSE IF expected.frame # actual.frame
     THEN [divergent |-> TRUE, what |-> "state.frame", chunk |-> -1]
     ELSE [divergent |-> TRUE, what |-> what,
           chunk |-> ChunkOf(first, chunkSize)]

\* The events of a report, the budget sample last.
DivergenceEvents(report, correlation, frame) ==
  LET event(code, detail) == [code |-> code, frame |-> frame,
                              correlation |-> correlation, detail |-> detail]
  IN (IF report.divergent
      THEN <<event("StateDivergence",
                   IF report.chunk = -1 THEN 0 ELSE report.chunk)>>
      ELSE <<>>)
     \o (IF report.divergent /\ report.chunk # -1
         THEN <<event("DivergenceLocalized", report.chunk)>> ELSE <<>>)
     \o <<BudgetSample("DivergenceLocalization", correlation, frame)>>

===========================================================================
