-------------------------- MODULE TemporalContract --------------------------
(***************************************************************************)
(* What src/temporal_contract.cpp keeps past a rollback and past the       *)
(* process: the ledger of effects on the world outside, and the timeline   *)
(* on disk.  They share no state.                                          *)
(*                                                                         *)
(* ExternalEffectLedger: effects are prepared with an idempotency key      *)
(* while the simulation runs ahead, committed through the host's executor  *)
(* once their frame is confirmed, compensated when the host asks for it,   *)
(* and reconciled when the simulation rolls back.  The executor is the     *)
(* host's and is modelled by what it promises (temporal_contract.hpp,      *)
(* ExternalEffectApplyResult): a durable store of keys makes it answer     *)
(* AlreadyApplied to a repeated call.  A call may fail before it did       *)
(* anything, or its answer may be lost after it did.  The simulation       *)
(* resumes after a rollback and prepares again, with the same key, the     *)
(* same intent or another one.                                             *)
(*                                                                         *)
(* DurableTimelineRecorder: an append-only log of one file per record,     *)
(* chained by hashes, written to a temporary file that is flushed, renamed *)
(* and flushed again.  The process can stop between any two of these       *)
(* steps, and each of them can fail.  The file system keeps what was       *)
(* flushed.  A file whose contents were not flushed is torn by a crash,    *)
(* and a name whose directory was not flushed may or may not be there      *)
(* afterwards, in any combination.  A hash is the sequence of everything   *)
(* it covers: it never collides.  Files with the suffix .pending are not   *)
(* records; recover does not look at them.                                 *)
(***************************************************************************)
EXTENDS Integers, Sequences

-----------------------------------------------------------------------------
(* The ledger of external effects *)

CONSTANTS
  Keys,              \* idempotency keys
  LastFrame,          \* bound: frames of a behaviour
  MaxLostAnswers     \* bound: executor answers that get lost

ASSUME LedgerAssumption == LastFrame \in Nat /\ MaxLostAnswers \in Nat

EffectFrames == 0..LastFrame

\* kind and payload are compared and not looked at: one bit stands for both
Intent == [frame : EffectFrames, payload : {0, 1}, compensable : BOOLEAN]

States == {"Prepared", "Committed", "Compensated"}

VARIABLES
  ledger,      \* records_: key -> [intent, state]
  confirmed,   \* the host's confirmed horizon
  applied,     \* executor: key -> the intent that took effect outside
  undone,      \* executor: keys whose effect was compensated
  orphans,     \* history: keys whose effect is out although the ledger has
               \* discarded the intent
  reported,    \* history: what the last rollback reported as crossed
  lost         \* what the bound counts

ledgerVars == <<ledger, confirmed, applied, undone, orphans, reported, lost>>

WithKey(f, key, value) ==
  [k \in DOMAIN f \cup {key} |-> IF k = key THEN value ELSE f[k]]

LedgerInit ==
  /\ ledger = [k \in {} |-> 0]
  /\ confirmed = 0
  /\ applied = [k \in {} |-> 0]
  /\ undone = {}
  /\ orphans = {}
  /\ reported = {}
  /\ lost = 0

\* The host's horizon only grows.
Confirm ==
  /\ confirmed < LastFrame
  /\ confirmed' = confirmed + 1
  /\ UNCHANGED <<ledger, applied, undone, orphans, reported, lost>>

\* prepare; the same intent again answers the state it is in, another intent
\* under a known key is an IdempotencyConflict
Prepare(key, intent) ==
  /\ key \notin DOMAIN ledger
  /\ ledger' = WithKey(ledger, key, [intent |-> intent, state |-> "Prepared"])
  /\ UNCHANGED <<confirmed, applied, undone, orphans, reported, lost>>

\* A mutant: the confirmed horizon is not compared.
MayCommitAlways(key) ==
  key \in DOMAIN ledger /\ ledger[key].state = "Prepared"

\* commit reaches the executor
MayCommit(key) ==
  /\ key \in DOMAIN ledger
  /\ ledger[key].state = "Prepared"
  /\ ledger[key].intent.frame <= confirmed

\* commit answered Applied or AlreadyApplied by the executor
Commit(key) ==
  /\ MayCommit(key)
  /\ applied' = IF key \in DOMAIN applied THEN applied
                ELSE WithKey(applied, key, ledger[key].intent)
  /\ ledger' = [ledger EXCEPT ![key].state = "Committed"]
  /\ UNCHANGED <<confirmed, undone, orphans, reported, lost>>

\* A mutant: an executor failure is taken for success.
CommitFailsCommits(key) ==
  /\ MayCommit(key)
  /\ ledger' = [ledger EXCEPT ![key].state = "Committed"]
  /\ UNCHANGED <<confirmed, applied, undone, orphans, reported, lost>>

\* commit whose executor failed without an effect
CommitFails(key) ==
  /\ MayCommit(key)
  /\ UNCHANGED ledgerVars

\* commit whose executor failed after the effect
CommitAnswerLost(key) ==
  /\ MayCommit(key)
  /\ lost < MaxLostAnswers /\ lost' = lost + 1
  /\ applied' = IF key \in DOMAIN applied THEN applied
                ELSE WithKey(applied, key, ledger[key].intent)
  /\ UNCHANGED <<ledger, confirmed, undone, orphans, reported>>

MayCompensate(key) ==
  /\ key \in DOMAIN ledger
  /\ ledger[key].intent.compensable
  /\ ledger[key].state = "Committed"

Compensate(key) ==
  /\ MayCompensate(key)
  /\ undone' = undone \cup {key}
  /\ ledger' = [ledger EXCEPT ![key].state = "Compensated"]
  /\ UNCHANGED <<confirmed, applied, orphans, reported, lost>>

CompensateAnswerLost(key) ==
  /\ MayCompensate(key)
  /\ lost < MaxLostAnswers /\ lost' = lost + 1
  /\ undone' = undone \cup {key}
  /\ UNCHANGED <<ledger, confirmed, applied, orphans, reported>>

\* A mutant: a committed effect is discarded with the prepared ones.
DiscardedAll(frame) ==
  {key \in DOMAIN ledger : ledger[key].intent.frame > frame}

Discarded(frame) ==
  {key \in DOMAIN ledger : /\ ledger[key].intent.frame > frame
                           /\ ledger[key].state = "Prepared"}

\* A mutant: the first frame after the restored one is not counted.
CrossedBeyondNext(frame) ==
  {key \in DOMAIN ledger : /\ ledger[key].intent.frame > frame + 1
                           /\ ledger[key].state = "Committed"}

Crossed(frame) ==
  {key \in DOMAIN ledger : /\ ledger[key].intent.frame > frame
                           /\ ledger[key].state = "Committed"}

\* reconcile_rollback
ReconcileRollback(frame) ==
  /\ reported' = Crossed(frame)
  /\ ledger' = [key \in DOMAIN ledger \ Discarded(frame) |-> ledger[key]]
  /\ orphans' = orphans \cup {key \in Discarded(frame) \cap DOMAIN applied :
                                ledger[key].state = "Prepared"}
  /\ UNCHANGED <<confirmed, applied, undone, lost>>

LedgerNext ==
  \/ Confirm
  \/ \E key \in Keys, intent \in Intent : Prepare(key, intent)
  \/ \E key \in Keys : \/ Commit(key)
                       \/ CommitFails(key)
                       \/ CommitAnswerLost(key)
                       \/ Compensate(key)
                       \/ CompensateAnswerLost(key)
  \/ \E frame \in EffectFrames : ReconcileRollback(frame)

LedgerSpec == LedgerInit /\ [][LedgerNext]_ledgerVars

-----------------------------------------------------------------------------
(* Properties of the ledger *)

\* Every variable keeps its type.
LedgerTypeOK ==
  /\ DOMAIN ledger \subseteq Keys
  /\ ledger \in [DOMAIN ledger -> [intent : Intent, state : States]]
  /\ DOMAIN applied \subseteq Keys
  /\ applied \in [DOMAIN applied -> Intent]
  /\ confirmed \in EffectFrames
  /\ undone \subseteq Keys /\ orphans \subseteq Keys
  /\ reported \subseteq Keys
  /\ lost \in 0..MaxLostAnswers

\* Nothing takes effect outside before its frame is confirmed, although a
\* key can be prepared, discarded by a rollback and prepared again with
\* another frame (temporal_contract.cpp:602-611).
OnlyConfirmedTakesEffect ==
  \A key \in DOMAIN applied : applied[key].frame <= confirmed

\* The ledger claims an effect only when it is out: a committed record's key
\* took effect, and it took effect as the intent on record says, unless an
\* answer for that key was lost before the simulation prepared it anew.
CommittedIsOut ==
  \A key \in DOMAIN ledger :
    ledger[key].state # "Prepared" =>
      /\ key \in DOMAIN applied
      /\ key \notin orphans => applied[key] = ledger[key].intent

\* An effect that is out and was not undone is never forgotten: the ledger
\* has it on record, except when the answer to its commit was lost and a
\* rollback discarded the intent (temporal_contract.cpp:683-702).
NothingForgotten ==
  \A key \in DOMAIN applied :
    key \notin undone \cup orphans => key \in DOMAIN ledger

\* The ledger and the world outside tell one story.
LedgerMatchesWorld == OnlyConfirmedTakesEffect /\ CommittedIsOut /\ NothingForgotten

\* A rollback that crosses a committed effect says so: after it, every effect
\* of a later frame that is out, not undone and not orphaned is among what
\* the rollback reported, whatever its key went through before
\* (temporal_contract.cpp:683-711, TEMPORAL_CLOSURE_V1.md section 3).
ReportsCrossed ==
  \A frame \in EffectFrames :
    ReconcileRollback(frame) =>
      \A key \in DOMAIN applied :
        applied[key].frame > frame /\ key \notin undone \cup orphans' =>
          key \in reported'
RollbackReportsCrossed == [][ReportsCrossed]_ledgerVars

-----------------------------------------------------------------------------
(* The timeline on disk *)

CONSTANTS
  Payloads,      \* what a record carries: timeline and evidence
  MaxRecords,    \* bound: length of the log
  MaxMishaps     \* bound: crashes, failed calls and damaged files

ASSUME RecorderAssumption == MaxRecords \in Nat /\ MaxMishaps \in Nat

VARIABLES
  directory,   \* record files: sequence -> [record, flushed]
  synced,      \* sequences whose name is on stable storage
  records,     \* records_
  recovered,   \* recovered_
  stage,          \* where append is: "idle", "write", "flush", "rename", "sync"
  record,      \* the record of that append
  pending,     \* the temporary file: [record, flushed]
  acked,       \* history: the records append answered for
  unsure,      \* history: an append failed after its file was renamed
  damaged,     \* history: a file was altered from outside
  outcome,     \* history: how the last recover ended
  mishaps      \* what the bound counts

recorderVars == <<directory, synced, records, recovered, stage, record, pending, acked,
          unsure, damaged, outcome, mishaps>>

Chain == UNION {[1..n -> Payloads] : n \in 0..MaxRecords}

Record == [sequence : 0..(MaxRecords - 1), previous : Chain, payload : Payloads]

\* A torn or altered file: some hash of it does not fit.
Torn == [sequence |-> -1, previous |-> <<>>, payload |-> "torn"]

NoFile == [record |-> Torn, flushed |-> FALSE]

Hash(r) == Append(r.previous, r.payload)

LastHash(log) == IF log = <<>> THEN <<>> ELSE Hash(log[Len(log)])

NextSequence == Len(records)

Mishap == mishaps < MaxMishaps /\ mishaps' = mishaps + 1

WithFile(f, key, value) ==
  [k \in DOMAIN f \cup {key} |-> IF k = key THEN value ELSE f[k]]

(* recover *)

\* decode_record of the file found at an index, with the name that is
\* checked after it
Decodes(index, previous) ==
  /\ directory[index].record.sequence = index
  /\ directory[index].record.previous = previous

\* A mutant: the hash of the record before is not compared.
VerifiedUnchained(n) ==
  \A index \in 0..(n - 1) :
    /\ index \in DOMAIN directory
    /\ directory[index].record.sequence = index

\* The first n files in the order of their names are the records 0..n-1 and
\* form a chain.
Verified(n) ==
  /\ 0..(n - 1) \subseteq DOMAIN directory
  /\ \A index \in 0..(n - 1) :
       Decodes(index, IF index = 0 THEN <<>>
                      ELSE Hash(directory[index - 1].record))

Log(n) == [i \in 1..n |-> directory[i - 1].record]

\* The loop of recover gets past n files and stops at the next, or at the end.
StopsAfter(n) ==
  Verified(n) /\ ~Verified(n + 1)

-----------------------------------------------------------------------------
RecorderInit ==
  /\ directory = [s \in {} |-> NoFile]
  /\ synced = {}
  /\ records = <<>>
  /\ recovered = FALSE
  /\ stage = "idle"
  /\ record = Torn
  /\ pending = NoFile
  /\ acked = {}
  /\ unsure = FALSE
  /\ damaged = FALSE
  /\ outcome = "none"
  /\ mishaps = 0

Recover ==
  /\ stage = "idle"
  /\ \E n \in 0..MaxRecords :
       /\ StopsAfter(n)
       /\ records' = Log(n)
       /\ recovered' = (DOMAIN directory = 0..(n - 1))
       /\ outcome' = IF recovered' THEN "recovered" ELSE "rejected"
  /\ UNCHANGED <<directory, synced, stage, record, pending, acked, unsure,
                 damaged, mishaps>>

\* The directory or a file of it cannot be read: the records before it stay
\* in records_, or are cleared when the library throws.
RecoverCannotRead ==
  /\ stage = "idle" /\ Mishap
  /\ \E n \in 0..MaxRecords :
       /\ n = 0 \/ n \in DOMAIN directory
       /\ Verified(n)
       /\ records' = Log(n)
  /\ recovered' = FALSE
  /\ outcome' = "io"
  /\ UNCHANGED <<directory, synced, stage, record, pending, acked, unsure,
                 damaged>>

\* A mutant: the destination is not looked up before it is written.
BeginAppendBlind(payload) ==
  /\ stage = "idle" /\ recovered
  /\ NextSequence < MaxRecords
  /\ record' = [sequence |-> NextSequence, previous |-> LastHash(records),
                payload |-> payload]
  /\ pending' = NoFile
  /\ stage' = "write"
  /\ UNCHANGED <<directory, synced, records, recovered, acked, unsure,
                 damaged, outcome, mishaps>>

\* append up to the removal of an old temporary file; an append that is
\* refused (NotRecovered, InvalidInput, RecordTooLarge, SequenceMismatch)
\* changes nothing
BeginAppend(payload) ==
  /\ stage = "idle" /\ recovered
  /\ NextSequence < MaxRecords
  /\ NextSequence \notin DOMAIN directory
  /\ record' = [sequence |-> NextSequence, previous |-> LastHash(records),
                payload |-> payload]
  /\ pending' = NoFile
  /\ stage' = "write"
  /\ UNCHANGED <<directory, synced, records, recovered, acked, unsure,
                 damaged, outcome, mishaps>>

Write ==
  /\ stage = "write"
  /\ pending' = [record |-> record, flushed |-> FALSE]
  /\ stage' = "flush"
  /\ UNCHANGED <<directory, synced, records, recovered, record, acked,
                 unsure, damaged, outcome, mishaps>>

\* A mutant: the temporary file is renamed without being flushed.
FlushTemporarySkipped ==
  /\ stage = "flush"
  /\ stage' = "rename"
  /\ UNCHANGED <<directory, synced, records, recovered, record, pending,
                 acked, unsure, damaged, outcome, mishaps>>

FlushTemporary ==
  /\ stage = "flush"
  /\ pending' = [pending EXCEPT !.flushed = TRUE]
  /\ stage' = "rename"
  /\ UNCHANGED <<directory, synced, records, recovered, record, acked,
                 unsure, damaged, outcome, mishaps>>

Rename ==
  /\ stage = "rename"
  /\ directory' = WithFile(directory, record.sequence, pending)
  /\ pending' = NoFile
  /\ stage' = "sync"
  /\ UNCHANGED <<synced, records, recovered, record, acked, unsure, damaged,
                 outcome, mishaps>>

\* A mutant: the directory is not flushed before the append is answered.
SyncForgotten ==
  /\ stage = "sync"
  /\ records' = Append(records, record)
  /\ acked' = acked \cup {record}
  /\ stage' = "idle"
  /\ UNCHANGED <<directory, synced, recovered, record, pending, unsure,
                 damaged, outcome, mishaps>>

\* The destination and the directory are flushed, then records_ grows and
\* the append is answered.
Sync ==
  /\ stage = "sync"
  /\ directory' = [directory EXCEPT ![record.sequence].flushed = TRUE]
  /\ synced' = DOMAIN directory
  /\ records' = Append(records, record)
  /\ acked' = acked \cup {record}
  /\ stage' = "idle"
  /\ UNCHANGED <<recovered, record, pending, unsure, damaged, outcome,
                 mishaps>>

\* IoFailure up to the rename: the temporary file stays or is removed
AppendFails ==
  /\ stage \in {"write", "flush", "rename"} /\ Mishap
  /\ stage' = "idle"
  /\ pending' = NoFile
  /\ UNCHANGED <<directory, synced, records, recovered, record, acked,
                 unsure, damaged, outcome>>

\* IoFailure after the rename, from either flush or from push_back: the
\* file stays under its final name and records_ does not know it
SyncFails ==
  /\ stage = "sync" /\ Mishap
  /\ synced' \in {synced, DOMAIN directory}
  /\ unsure' = TRUE
  /\ stage' = "idle"
  /\ UNCHANGED <<directory, records, recovered, record, pending, acked,
                 damaged, outcome>>

\* The process stops and a new recorder is made for the directory.
Crash ==
  /\ Mishap
  /\ \E kept \in SUBSET DOMAIN directory :
       /\ synced \subseteq kept
       /\ directory' = [s \in kept |->
                          IF directory[s].flushed THEN directory[s]
                          ELSE [record |-> Torn, flushed |-> TRUE]]
       /\ synced' = kept
  /\ pending' = NoFile
  /\ records' = <<>>
  /\ recovered' = FALSE
  /\ outcome' = "none"
  /\ stage' = "idle"
  /\ UNCHANGED <<record, acked, unsure, damaged>>

\* A record file is altered, or replaced by a record of another history with
\* the same number.
Damage ==
  /\ Mishap
  /\ \E s \in DOMAIN directory :
       \E altered \in {Torn} \cup {r \in Record : r.sequence = s
                                            /\ Len(r.previous) = s} :
         directory' = [directory EXCEPT ![s].record = altered]
  /\ damaged' = TRUE
  /\ UNCHANGED <<synced, records, recovered, stage, record, pending, acked,
                 unsure, outcome>>

RecorderNext ==
  \/ Recover
  \/ RecoverCannotRead
  \/ \E payload \in Payloads : BeginAppend(payload)
  \/ Write
  \/ FlushTemporary
  \/ Rename
  \/ Sync
  \/ AppendFails
  \/ SyncFails
  \/ Crash
  \/ Damage

RecorderSpec == RecorderInit /\ [][RecorderNext]_recorderVars

-----------------------------------------------------------------------------
(* Properties of the timeline *)

\* Every variable keeps its type: what is in the log and in the directory is
\* a record, or a file whose hashes do not fit.
RecorderTypeOK ==
  /\ DOMAIN directory \subseteq 0..(MaxRecords - 1)
  /\ directory \in [DOMAIN directory -> [record : Record \cup {Torn},
                                         flushed : BOOLEAN]]
  /\ synced \subseteq DOMAIN directory
  /\ records \in Seq(Record)
  /\ acked \subseteq Record
  /\ recovered \in BOOLEAN /\ unsure \in BOOLEAN /\ damaged \in BOOLEAN
  /\ stage \in {"idle", "write", "flush", "rename", "sync"}
  /\ record \in Record \cup {Torn}
  /\ pending \in [record : Record \cup {Torn}, flushed : BOOLEAN]
  /\ outcome \in {"none", "recovered", "rejected", "io"}
  /\ mishaps \in 0..MaxMishaps

\* An append that was answered survives: whenever the directory has been
\* recovered, after any crash and any failed append, the log holds every
\* record that was ever answered for, at its number, as long as nobody alters
\* the files (temporal_contract.cpp:462-491).
AnsweredSurvives ==
  recovered /\ ~damaged =>
    \A r \in acked : /\ r.sequence < Len(records)
                     /\ records[r.sequence + 1] = r

\* recover refuses a directory only when it was damaged from outside or when
\* an append had failed after its rename: a crash in the middle of an append
\* never makes the log unreadable (temporal_contract.cpp:354-407).
CrashIsHarmless == outcome = "rejected" => damaged \/ unsure

\* What a recovered recorder holds is one chain, numbered from 0, each record
\* naming the one before it, whatever happened to the files: damage is
\* refused or, when the last record is replaced by another one with the same
\* predecessor, gives another valid chain, never a mixture
\* (temporal_contract.cpp:200-271).
RecoveredIsChain ==
  \A i \in 1..Len(records) :
    /\ records[i].sequence = i - 1
    /\ records[i].previous = IF i = 1 THEN <<>> ELSE Hash(records[i - 1])

\* What was answered is in the log, the log can be read and it is a log.
RecordsSurvive == AnsweredSurvives /\ CrashIsHarmless /\ RecoveredIsChain

\* Append-only: no step of the recorder gives a record file other contents,
\* not even when an earlier append of the same number failed after its
\* rename and the recorder goes on without having recovered
\* (temporal_contract.cpp:458-465).
OverwritesNothing ==
  damaged' \/ \A s \in DOMAIN directory \cap DOMAIN directory' :
    directory'[s].record = directory[s].record
NeverOverwrites == [][OverwritesNothing]_recorderVars

=============================================================================
