--------------------------- MODULE SupportCapture ---------------------------
(***************************************************************************)
(* A host that keeps the evidence of its run: it steps a world, has every  *)
(* frame recorded by a TimeTravelDebugger and the events of the run by a   *)
(* TraceBuffer, appends evidence of its worlds to chains that may fork,    *)
(* anchors them, compares worlds, and exports all of it in support bundles *)
(* that a provider key protects.                                           *)
(*                                                                         *)
(* Who receives records and protected bundles may find them damaged, mixed *)
(* up or incomplete: the properties look at every such mixture.            *)
(***************************************************************************)
EXTENDS Diagnostics, SequencesExt

---------------------------------------------------------------------------
(***************************************************************************)
(* EvidenceChain of src/state_evidence.cpp: for every world it is given, a *)
(* chain appends an envelope that binds the world, its place in the chain  *)
(* and the envelope before it; a chain may fork from a record of another.  *)
(* A signature names its key and the digest it was made over.  The stable  *)
(* hash, the canonical digest and the number of bodies of a world are      *)
(* functions of the world and are one field here.  The producer is the     *)
(* same for all chains, the schema of every envelope is the current one,   *)
(* and the time of an envelope is bound by nothing: they are left out.     *)
(***************************************************************************)

CONSTANT ChunkSize   \* merkle_chunk_size_

NoSignature == [key |-> "none", over |-> ZeroDigest]

\* evidence_envelope_hash over canonical_evidence_envelope_bytes; the
\* monotonic time of an envelope is not among the bytes.
EnvelopeHash(envelope) ==
  Sha256("envelope", <<envelope.sequence, envelope.frame, envelope.world,
                       envelope.root, envelope.previous, envelope.branch,
                       envelope.parent, envelope.parentFrame,
                       envelope.correlation>>)

\* canonical_state_sha256, with stable_hash
StateDigest(world) == Sha256("state", <<world.frame, world.bodies>>)

\* The constructor.
NewChain(branch) ==
  [branch |-> branch, parent |-> ZeroDigest, parentFrame |-> 0,
   records |-> <<>>]

\* fork_from a record; a branch id must differ from that of its parent.
ForkFrom(record, branch) ==
  [branch |-> branch, parent |-> record.hash,
   parentFrame |-> record.envelope.frame, records |-> <<>>]

\* The record that append makes for a world and signs with a key.
NewRecord(chain, world, correlation, key) ==
  LET envelope ==
        [sequence |-> Len(chain.records), frame |-> world.frame,
         world |-> StateDigest(world),
         root |-> MerkleRoot(world, ChunkSize),
         previous |-> IF chain.records = <<>> THEN ZeroDigest
                      ELSE chain.records[Len(chain.records)].hash,
         branch |-> chain.branch, parent |-> chain.parent,
         parentFrame |-> chain.parentFrame, correlation |-> correlation]
      hash == EnvelopeHash(envelope)
  IN [envelope |-> envelope, hash |-> hash,
      signature |-> IF key = "none" THEN NoSignature
                    ELSE [key |-> key, over |-> hash]]

\* metadata_valid, of what is modelled of it
MetadataValid(envelope) == envelope.branch # 0

\* A signature is required together with a verifier; one that is there is
\* checked when there is a verifier (which is external).
SignatureAccepted(record, required, verifier) ==
  /\ required => record.signature # NoSignature /\ verifier
  /\ record.signature # NoSignature /\ verifier =>
       record.signature.over = record.hash

LinkValidUnsequenced(records, i) ==
  LET e == records[i].envelope IN
  IF i = 1
  THEN e.parent = ZeroDigest => e.parentFrame = 0
  ELSE e.previous = records[i - 1].hash

\* What verify_evidence_chain asks of a record and the one before it.
LinkValid(records, i) ==
  LET e == records[i].envelope IN
  IF i = 1
  THEN /\ e.sequence = 0 /\ e.previous = ZeroDigest
       /\ e.parent = ZeroDigest => e.parentFrame = 0
  ELSE /\ e.sequence = i - 1
       /\ e.previous = records[i - 1].hash
       /\ e.branch = records[1].envelope.branch
       /\ e.parent = records[1].envelope.parent
       /\ e.parentFrame = records[1].envelope.parentFrame

\* The loop of verify_evidence_chain: the code of the event of the first
\* test that the record fails
RecordFailure(records, i, required, verifier) ==
  LET record == records[i] IN
  IF ~MetadataValid(record.envelope) THEN "EvidenceVerificationFailed"
  ELSE IF ~LinkValid(records, i) THEN "EvidenceChainBroken"
  ELSE IF record.hash # EnvelopeHash(record.envelope)
  THEN "EvidenceVerificationFailed"
  ELSE IF ~SignatureAccepted(record, required, verifier)
  THEN "EvidenceSignatureRejected"
  ELSE "None"

\* verify_evidence_chain without an anchor
ChainValid(records, required, verifier) ==
  \A i \in DOMAIN records :
    RecordFailure(records, i, required, verifier) = "None"

\* make_evidence_chain_anchor of a valid chain that is not empty
MakeAnchor(records) ==
  [branch |-> records[1].envelope.branch, count |-> Len(records),
   head |-> records[Len(records)].hash,
   parent |-> records[1].envelope.parent,
   parentFrame |-> records[1].envelope.parentFrame]

\* verify_evidence_chain with an anchor
ChainMatchesAnchor(records, anchor) ==
  records # <<>> /\ anchor = MakeAnchor(records)

\* The event of a verification that fails; record_evidence_trace
FailureEvent(code, envelope) ==
  [code |-> code, frame |-> envelope.frame,
   correlation |-> envelope.correlation, detail |-> 0]

\* The events verify_evidence_chain leaves: none when it accepts, else one
\* of the first record that fails, or of the last if only the anchor does.
ChainEvents(records, required, verifier, anchor) ==
  LET bad == {i \in DOMAIN records :
                RecordFailure(records, i, required, verifier) # "None"}
      first == CHOOSE i \in bad : \A j \in bad : i <= j
  IN IF bad # {}
     THEN <<FailureEvent(RecordFailure(records, first, required, verifier),
                         records[first].envelope)>>
     ELSE IF ChainMatchesAnchor(records, anchor) THEN <<>>
     ELSE <<FailureEvent("EvidenceChainBroken",
                         IF records = <<>> THEN [frame |-> 0, correlation |-> 0]
                         ELSE Last(records).envelope)>>

\* verify_state_evidence: the code of the first test that fails
StateFailure(world, record, required, verifier) ==
  LET envelope == record.envelope IN
  IF ~MetadataValid(envelope) \/ record.hash # EnvelopeHash(envelope)
  THEN "EvidenceVerificationFailed"
  ELSE IF ~SignatureAccepted(record, required, verifier)
  THEN "EvidenceSignatureRejected"
  ELSE IF envelope.frame # world.frame \/ envelope.world # StateDigest(world)
  THEN "StateDivergence"
  ELSE IF envelope.root # MerkleRoot(world, ChunkSize)
  THEN "MerkleProofRejected"
  ELSE "None"

---------------------------------------------------------------------------
(***************************************************************************)
(* Support bundles: build_support_bundle and verify_support_bundle of      *)
(* src/support_bundle.cpp, and their protection by an encryption provider  *)
(* in src/production_security.cpp.                                         *)
(*                                                                         *)
(* An entry's content is what went into it and how long its text is; text  *)
(* itself, and the manifest's as well, is left out, so that the manifest   *)
(* is the list its parser reads back, and every path is safe and every     *)
(* entry UTF-8.  An encryption provider is external: what it opens is what *)
(* it sealed, under the same key, nonce and additional data; it has the    *)
(* key it is asked for, an allowed algorithm and a tag of a legal length.  *)
(***************************************************************************)

CONSTANTS
  MaxEntryBytes,     \* policy.maximum_entry_bytes
  MaxTotalBytes,     \* policy.maximum_total_bytes
  MaxTraceEvents,    \* policy.maximum_trace_events
  ManifestBytes(_),  \* length of the manifest of so many entries
  MaxCiphertext      \* maximum_plaintext_bytes, maximum_ciphertext_bytes

NoBundle == [entries |-> <<>>, manifest |-> <<>>, digest |-> ZeroDigest]

HashText(content) == Sha256("text", <<content>>)

\* exceeds_limit: addition > limit || total > limit - addition
ExceedsLimit(total, addition, limit) ==
  addition > limit \/ total > limit - addition

Required == {"metadata.json", "traces.json", "evidence-chain.json",
             "deferred-validation-gates.json", "redaction-report.json"}

\* traces_json: the newest events, at most as many as the policy exports,
\* with their times only if it says so; the subjects are pseudonymized with
\* its salt.
ExportedTraces(events, policy) ==
  LET n == Len(events)
      offset == IF n > MaxTraceEvents THEN n - MaxTraceEvents ELSE 0
  IN [i \in 1..(n - offset) |->
        [event |-> events[offset + i], timed |-> policy.timestamps,
         salt |-> policy.salt]]

\* gate_valid; export_deferred_validation_gates_json refuses other gates
GatesComplete(gates) == \A i \in DOMAIN gates : gates[i].complete

\* redaction_json tells whether time stamps are in the traces
Redaction(policy) == <<policy.timestamps>>

\* export_evidence_chain_json: every field of every record
ExportChain(records) ==
  [i \in DOMAIN records |->
     <<records[i].envelope, records[i].hash, records[i].signature>>]

\* The paths of the entries.  The text of the frames, when there is one, and
\* the visual records, when there are any, are entries of their own if the
\* policy wants them.
IncludesFrames(context, policy) ==
  policy.includeTimeTravel /\ context.frames # <<>>

IncludesVisual(context, policy) ==
  policy.includeVisual /\ context.visual # <<>>

\* Sorted, as std::sort leaves the entries
Paths(context, policy) ==
  <<"deferred-validation-gates.json", "evidence-chain.json", "metadata.json",
    "redaction-report.json">>
    \o (IF IncludesFrames(context, policy) THEN <<"time-travel.json">> ELSE <<>>)
    \o <<"traces.json">>
    \o (IF IncludesVisual(context, policy) THEN <<"visual-correlation.json">>
                                           ELSE <<>>)

\* What an entry is made of; metadata_json is text the context gives.
Content(path, context, policy) ==
  CASE path = "traces.json" -> ExportedTraces(context.traces, policy)
    [] path = "evidence-chain.json" -> ExportChain(context.evidence)
    [] path = "deferred-validation-gates.json" -> context.gates
    [] path = "redaction-report.json" -> Redaction(policy)
    [] path = "time-travel.json" -> context.frames
    [] path = "visual-correlation.json" -> context.visual
    [] OTHER -> <<path>>

Size(content) == 1 + Len(content)

\* What add_entry counts
TotalSize(entries) ==
  LET total[n \in 0..Len(entries)] ==
        IF n = 0 THEN 0 ELSE total[n - 1] + Size(entries[n].content)
  IN total[Len(entries)]

\* manifest_json, read back by ManifestParser
ManifestOf(entries) ==
  [i \in DOMAIN entries |->
     [path |-> entries[i].path, size |-> Size(entries[i].content),
      sha256 |-> entries[i].sha256]]

\* build_support_bundle: what it returns
Build(context, policy) ==
  LET paths == Paths(context, policy)
      entries == [i \in DOMAIN paths |->
                    LET content == Content(paths[i], context, policy)
                    IN [path |-> paths[i], content |-> content,
                        sha256 |-> HashText(content)]]
  IN [entries |-> entries, manifest |-> ManifestOf(entries),
      digest |-> HashText(ManifestOf(entries))]

\* A mutant: the manifest is not counted.
BuildAcceptedWithoutManifest(context, policy) ==
  LET entries == Build(context, policy).entries
  IN /\ policy.salt # ""
     /\ IncludesFrames(context, policy) => policy.authorized
     /\ GatesComplete(context.gates)
     /\ \A i \in DOMAIN context.visual : context.visual[i].valid
     /\ \A i \in DOMAIN entries : Size(entries[i].content) <= MaxEntryBytes
     /\ TotalSize(entries) <= MaxTotalBytes

\* What the beginning, add_entry and the end of build_support_bundle refuse;
\* the limits of the policy are positive and the context's names are there.
\* A frame log leaves only when its export is authorized.
BuildAccepted(context, policy) ==
  LET entries == Build(context, policy).entries
      manifest == ManifestBytes(Len(entries))
  IN /\ policy.salt # ""
     /\ IncludesFrames(context, policy) => policy.authorized
     /\ GatesComplete(context.gates)
     /\ \A i \in DOMAIN context.visual : context.visual[i].valid
     /\ \A i \in DOMAIN entries : Size(entries[i].content) <= MaxEntryBytes
     /\ TotalSize(entries) <= MaxTotalBytes
     /\ manifest <= MaxEntryBytes
     /\ ~ExceedsLimit(TotalSize(entries), manifest, MaxTotalBytes)

\* The events build_support_bundle leaves: one for every deferred gate, one
\* for the bundle; a build that is refused leaves its budget sample only.
BuildEvents(context, correlation) ==
  LET event(code, detail) == [code |-> code, frame |-> 0,
                              correlation |-> correlation, detail |-> detail]
  IN [i \in DOMAIN context.gates |-> event("ValidationGateDeferred", i - 1)]
     \o <<event("SupportBundleCreated", 0)>>

\* verify_support_bundle
BundleVerified(bundle) ==
  LET entries == bundle.entries
      manifest == bundle.manifest
      length == ManifestBytes(Len(manifest))
  IN /\ length <= MaxEntryBytes /\ length <= MaxTotalBytes
     /\ \A i, j \in DOMAIN entries : entries[i].path = entries[j].path => i = j
     /\ \A i \in DOMAIN entries :
          /\ Size(entries[i].content) <= MaxEntryBytes
          /\ HashText(entries[i].content) = entries[i].sha256
     /\ length + TotalSize(entries) <= MaxTotalBytes
     /\ Required \subseteq {entries[i].path : i \in DOMAIN entries}
     /\ HashText(manifest) = bundle.digest
     /\ Len(manifest) = Len(entries)
     /\ \A i, j \in DOMAIN manifest : manifest[i].path = manifest[j].path => i = j
     /\ \A i \in DOMAIN manifest :
          \E j \in DOMAIN entries :
            /\ entries[j].path = manifest[i].path
            /\ Size(entries[j].content) = manifest[i].size
            /\ entries[j].sha256 = manifest[i].sha256

-----------------------------------------------------------------------------
(* Protection                                                              *)

\* key_active_for: a valid descriptor for bundle encryption, active, inside
\* its validity
KeyActive(key, now) ==
  /\ key.epoch # 0 /\ key.notBefore < key.notAfter
  /\ key.purpose = "BundleEncryption" /\ key.lifecycle = "Active"
  /\ key.notBefore <= now /\ now < key.notAfter

\* canonical_bundle_bytes and their length
PlaintextBytes(bundle) ==
  TotalSize(bundle.entries) + ManifestBytes(Len(bundle.manifest))

\* A mutant: the digests and the epoch are bound to nothing.
BundleAadUnbound(key, epoch, nonce, plaintextDigest, manifestDigest) ==
  <<key, nonce>>

\* bundle_aad: what a sealed bundle is bound to
BundleAad(key, epoch, nonce, plaintextDigest, manifestDigest) ==
  <<key, epoch, nonce, plaintextDigest, manifestDigest>>

\* protect_support_bundle, when it does not refuse
ProtectAccepted(bundle, key, now) ==
  /\ BundleVerified(bundle)
  /\ KeyActive(key, now)
  /\ PlaintextBytes(bundle) <= MaxCiphertext

\* The tag of the provider is made with the key over everything it is given.
Protect(artifact, key, nonce) ==
  LET plaintextDigest == HashText(artifact)
      aad == BundleAad(key.id, key.epoch, nonce, plaintextDigest, artifact.digest)
  IN [key |-> key.id, epoch |-> key.epoch, nonce |-> nonce,
      plaintextDigest |-> plaintextDigest, manifestDigest |-> artifact.digest,
      ciphertext |-> artifact, tag |-> <<key.id, aad, nonce, artifact>>]

\* open_protected_support_bundle: whether it returns p.ciphertext's bundle
OpenAccepted(p, key, now) ==
  LET aad == BundleAad(p.key, p.epoch, p.nonce, p.plaintextDigest, p.manifestDigest)
  IN
  /\ p.epoch # 0
  /\ KeyActive(key, now)
  /\ p.key = key.id /\ p.epoch = key.epoch
  /\ p.tag = <<key.id, aad, p.nonce, p.ciphertext>>
  /\ PlaintextBytes(p.ciphertext) <= MaxCiphertext
  /\ HashText(p.ciphertext) = p.plaintextDigest
  /\ p.ciphertext.digest = p.manifestDigest
  /\ BundleVerified(p.ciphertext)

---------------------------------------------------------------------------
CONSTANTS
  BodyLists,     \* the bodies a step may leave, in the order of their ids
  Branches,      \* evidence branch ids; the first chain has the least
  BundleKeys,    \* ExternalKeyDescriptors of the provider
  Policies,      \* SupportBundlePolicies a host may use
  MaxSteps,      \* bound: steps
  MaxEvidence,   \* bound: records of a chain
  MaxCalls       \* bound: calls of the host between its steps

\* A world lists its bodies in the order of their ids, and no id twice
\* (validate_world); a chunk, a limit of the policy and a branch id are not
\* zero; a manifest of the entries a bundle can have has a length.
ASSUME SupportAssumption ==
  /\ {ChunkSize, MaxEntryBytes, MaxTotalBytes, MaxTraceEvents} \subseteq Nat \ {0}
  /\ {MaxCiphertext, MaxSteps, MaxEvidence, MaxCalls} \subseteq Nat
  /\ \A n \in 0..7 : ManifestBytes(n) \in Nat
  /\ Branches \subseteq Nat \ {0} /\ Branches # {}
  /\ \A bodies \in BodyLists :
       /\ bodies \in Seq(ToSet(bodies))
       /\ \A k \in DOMAIN bodies : bodies[k].id \in Nat
       /\ \A k, m \in DOMAIN bodies : k < m => bodies[k].id < bodies[m].id

VARIABLES
  world,      \* the host's WorldState
  debugger,   \* TimeTravelDebugger
  traces,     \* TraceBuffer
  chains,     \* branch -> EvidenceChain
  anchors,    \* anchors made, with the records they were made of
  bundle,     \* the bundle built last
  sealed,     \* ProtectedSupportBundles
  calls,
  log,        \* history: every event that was recorded
  steps,      \* history: every world that was recorded
  kept        \* history: the frames a debugger of this capacity should hold

supportVars == <<world, debugger, traces, chains, anchors, bundle, sealed, calls,
          log, steps, kept>>

\* The events of one call reach the buffer one after the other.
Trace(events) ==
  /\ traces' = RecordEvents(traces, events)
  /\ log' = log \o [i \in DOMAIN events |->
                      Numbered(events[i], Len(log) + i - 1)]

SupportInit ==
  /\ world = [frame |-> 0, bodies |-> <<>>]
  /\ debugger = EmptyDebugger /\ traces = EmptyTraces
  /\ chains = [b \in {CHOOSE m \in Branches : \A n \in Branches : m <= n}
                 |-> NewChain(b)]
  /\ anchors = {} /\ bundle = NoBundle /\ sealed = {}
  /\ calls = 0 /\ log = <<>> /\ steps = <<>> /\ kept = <<>>

\* The host advances the world, traces the frame and has it recorded with
\* the events of that frame.
StepWorld(bodies) ==
  LET next == [frame |-> world.frame + 1, bodies |-> bodies]
      event == [code |-> "FrameAdvanced", frame |-> next.frame,
                correlation |-> 1, detail |-> 0]
  IN /\ world.frame < MaxSteps
     /\ world' = next
     /\ Trace(<<event>>)
     /\ FrameAccepted(debugger, next)
     /\ debugger' = RecordFrame(debugger, next, <<>>,
                                ByFrame(traces', next.frame))
     /\ steps' = Append(steps, next)
     /\ kept' = LET all == Append(kept, next)
                IN IF Len(all) > FrameCapacity THEN Tail(all) ELSE all
     /\ UNCHANGED <<chains, anchors, bundle, sealed, calls>>

Call == calls < MaxCalls /\ calls' = calls + 1

\* A rollback: the frames after the one the host goes back to are dropped.
Rollback(p) ==
  LET target == FramesOf(debugger)[p].world IN
  /\ Call
  /\ world' = target
  /\ debugger' = TruncateAfter(debugger, target.frame)
  /\ kept' = SubSeq(kept, 1, p)
  /\ UNCHANGED <<traces, chains, anchors, bundle, sealed, log, steps>>

\* EvidenceChain::append, without a signer or with one.  A signer that fails
\* leaves the chain as it was; the budget sample is recorded when the call
\* ends, by return or by exception.
AppendEvidence(b, signer) ==
  LET sample == BudgetSample("EvidenceCheckpoint", 2, world.frame)
      created == [code |-> "EvidenceCreated", frame |-> world.frame,
                  correlation |-> 2, detail |-> 0]
  IN /\ Len(chains[b].records) < MaxEvidence
     /\ Call
     /\ IF signer = "fails"
        THEN /\ Trace(<<sample>>)
             /\ UNCHANGED chains
        ELSE /\ chains' = [chains EXCEPT ![b].records =
                             Append(@, NewRecord(chains[b], world, 2, signer))]
             /\ Trace(<<created, sample>>)
     /\ UNCHANGED <<world, debugger, anchors, bundle, sealed, steps, kept>>

\* verify_state_evidence of the world the host is at against a record
VerifyState(b, i, required, verifier) ==
  LET record == chains[b].records[i]
      failure == StateFailure(world, record, required, verifier)
  IN /\ Call
     /\ Trace(IF failure = "None" THEN <<>>
              ELSE <<FailureEvent(failure, record.envelope)>>)
     /\ UNCHANGED <<world, debugger, chains, anchors, bundle, sealed, steps, kept>>

\* verify_evidence_chain of a chain against an anchor made before
VerifyChain(b, anchor, required, verifier) ==
  /\ Call
  /\ Trace(ChainEvents(chains[b].records, required, verifier, anchor))
  /\ UNCHANGED <<world, debugger, chains, anchors, bundle, sealed, steps, kept>>

\* EvidenceChain::fork_from a record of another branch, which refuses the
\* branch id of its parent; the host gives every chain an id of its own.
Fork(b, i, branch) ==
  /\ Call
  /\ branch \notin DOMAIN chains
  /\ chains' = [c \in DOMAIN chains \cup {branch} |->
                  IF c = branch THEN ForkFrom(chains[b].records[i], branch)
                  ELSE chains[c]]
  /\ UNCHANGED <<world, debugger, traces, anchors, bundle, sealed, log, steps, kept>>

\* make_evidence_chain_anchor
Anchor(b) ==
  /\ Call
  /\ chains[b].records # <<>>
  /\ ChainValid(chains[b].records, FALSE, FALSE)
  /\ anchors' = {[anchor |-> MakeAnchor(chains[b].records),
                  records |-> chains[b].records]}
  /\ UNCHANGED <<world, debugger, traces, chains, bundle, sealed, log, steps, kept>>

\* diagnose_state_divergence of a retained frame against the world
DiagnoseFrame(p) ==
  /\ Call
  /\ Trace(DivergenceEvents(
             Diagnose(FramesOf(debugger)[p].world, world, ChunkSize),
             3, world.frame))
  /\ UNCHANGED <<world, debugger, chains, anchors, bundle, sealed, steps, kept>>

Context(b) ==
  [traces |-> Snapshot(traces), evidence |-> chains[b].records,
   frames |-> ExportFrames(debugger), visual |-> <<>>,
   gates |-> <<[complete |-> TRUE]>>]

\* build_support_bundle of what the host has; it may refuse.
BuildBundle(b, policy) ==
  LET context == Context(b)
      sample == BudgetSample("SupportBundleExport", 4, 0)
  IN /\ Call
     /\ IF BuildAccepted(context, policy)
        THEN /\ bundle' = Build(context, policy)
             /\ Trace(BuildEvents(context, 4) \o <<sample>>)
        ELSE /\ Trace(<<sample>>)
             /\ UNCHANGED bundle
     /\ UNCHANGED <<world, debugger, chains, anchors, sealed, steps, kept>>

\* protect_support_bundle at the time of the world's frame, with a nonce that
\* was not used before; it refuses, or its provider fails, without a trace.
ProtectBundle(key) ==
  /\ Call
  /\ \/ /\ ProtectAccepted(bundle, key, world.frame)
        /\ sealed' = sealed \cup {Protect(bundle, key, Cardinality(sealed) + 1)}
     \/ UNCHANGED sealed
  /\ UNCHANGED <<world, debugger, traces, chains, anchors, bundle, log, steps, kept>>

SupportNext ==
  \/ \E bodies \in BodyLists : StepWorld(bodies)
  \/ \E p \in 1..debugger.size : Rollback(p)
  \/ \E b \in DOMAIN chains, signer \in {"none", "key", "fails"} :
       AppendEvidence(b, signer)
  \/ \E b \in DOMAIN chains, required, verifier \in BOOLEAN :
       \E i \in DOMAIN chains[b].records : VerifyState(b, i, required, verifier)
  \/ \E b \in DOMAIN chains, x \in anchors, required, verifier \in BOOLEAN :
       VerifyChain(b, x.anchor, required, verifier)
  \/ \E b \in DOMAIN chains, branch \in Branches :
       \E i \in DOMAIN chains[b].records : Fork(b, i, branch)
  \/ \E b \in DOMAIN chains : Anchor(b)
  \/ \E p \in 1..debugger.size : DiagnoseFrame(p)
  \/ \E b \in DOMAIN chains, policy \in Policies : BuildBundle(b, policy)
  \/ \E key \in BundleKeys : ProtectBundle(key)

SupportSpec == SupportInit /\ [][SupportNext]_supportVars

-----------------------------------------------------------------------------
(* Properties                                                              *)

AllRecords == UNION {ToSet(chains[b].records) : b \in DOMAIN chains}

\* Records as they were made, and the same with one field changed: with the
\* old digest, and with the digest computed again over the old signature.
Altered ==
  LET later(r) == [r EXCEPT !.envelope.frame = @ + 1]
  IN AllRecords
     \cup {later(r) : r \in AllRecords}
     \cup {[later(r) EXCEPT !.hash = EnvelopeHash(later(r).envelope)] :
             r \in AllRecords}

SignedChainsAreRecorded ==
  \A a \in SeqOf(Altered, 2) :
    ChainValid(a, TRUE, TRUE) =>
      /\ \E b \in DOMAIN chains : IsPrefix(a, chains[b].records)
      /\ \A x \in anchors : ChainMatchesAnchor(a, x.anchor) <=> a = x.records

ProofsAreOfTheirWorld ==
  \A i, j \in DOMAIN steps :
    \A c \in 0..(CheckedChunkCount(Len(steps[i].bodies), ChunkSize) - 1) :
      LET bodies == ChunkBodies(steps[i], ChunkSize, c)
          proof == MakeMerkleProof(steps[i], c, ChunkSize)
      IN VerifyMerkleProof(bodies, proof, MerkleRoot(steps[j], ChunkSize))
         <=> steps[i] = steps[j]

\* However its records are damaged, dropped, repeated or mixed with those of
\* another branch, a signed chain that verify_evidence_chain accepts is what
\* one branch recorded first, and with an anchor exactly what was anchored;
\* and a proof of a chunk is accepted against the root of a world for the
\* bodies of that chunk and for no others, whichever world it was made of.
EvidenceExact == SignedChainsAreRecorded /\ ProofsAreOfTheirWorld

NewestEventsKept ==
  LET newest == Least(Len(log), TraceCapacity)
  IN Snapshot(traces) = SubSeq(log, Len(log) - newest + 1, Len(log))

NewestFramesKept ==
  [p \in 1..debugger.size |-> FramesOf(debugger)[p].world] = kept

\* What Compare lists for two frames is what turns one into the other.
ComparedExactly(left, right) ==
  LET Ids(w) == {w.bodies[k].id : k \in DOMAIN w.bodies}
      Of(w, id) == w.bodies[CHOOSE k \in DOMAIN w.bodies : w.bodies[k].id = id]
      l == left.world
      r == right.world
      diff == ToSet(Compare(left, right))
      Named(what) == {d.entity : d \in {e \in diff : e.what = what}}
  IN /\ Named("entity.removed") = Ids(l) \ Ids(r)
     /\ Named("entity.added") = Ids(r) \ Ids(l)
     /\ \A c \in Components :
          Named(c) = {id \in Ids(l) \cap Ids(r) : Of(l, id)[c] # Of(r, id)[c]}

\* The chunk a divergence of two worlds is placed in is the first whose leaf
\* differs.
PlacedInFirstLeaf(expected, actual) ==
  LET leaves == BuildLevels(expected, ChunkSize)[0]
      others == BuildLevels(actual, ChunkSize)[0]
      Differs(c) == IF c \in DOMAIN leaves /\ c \in DOMAIN others
                    THEN leaves[c] # others[c]
                    ELSE c \in DOMAIN leaves \cup DOMAIN others
      report == Diagnose(expected, actual, ChunkSize)
  IN report.divergent =>
       Differs(report.chunk) /\ \A c \in 0..(report.chunk - 1) : ~Differs(c)

\* What a person is shown is what happened: the buffer holds the newest
\* events in their order, the debugger the newest frames that no rollback
\* dropped, a comparison of two frames lists exactly what turns one into the
\* other, and a divergence is placed in the first chunk whose leaf differs.
DiagnosisExact ==
  /\ NewestEventsKept
  /\ NewestFramesKept
  /\ \A p, q \in 1..debugger.size :
       ComparedExactly(FramesOf(debugger)[p], FramesOf(debugger)[q])
  /\ \A i, j \in DOMAIN steps :
       PlacedInFirstLeaf([steps[i] EXCEPT !.frame = steps[j].frame], steps[j])

\* A bundle that was built verifies, and what the holder of an active key
\* opens is a bundle as it was protected, even when the parts of protected
\* bundles are exchanged (protect_support_bundle, verify_support_bundle,
\* open_protected_support_bundle).
OpenedIsProtected ==
  /\ bundle # NoBundle => BundleVerified(bundle)
  /\ \A p \in sealed :
       \E key \in BundleKeys : key.id = p.key /\ key.epoch = p.epoch
  /\ \A p, q \in sealed, key \in BundleKeys :
       \A x \in {p,
                 [p EXCEPT !.epoch = key.epoch],
                 [p EXCEPT !.ciphertext = q.ciphertext],
                 [p EXCEPT !.manifestDigest = q.manifestDigest],
                 [p EXCEPT !.nonce = q.nonce, !.tag = q.tag]} :
         OpenAccepted(x, key, world.frame) => x \in sealed

===========================================================================
