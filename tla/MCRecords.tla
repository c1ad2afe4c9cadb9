---- MODULE MCRecords ----
(***************************************************************************)
(* What remembers, one store in each behaviour: the window of snapshots of *)
(* RollbackEngine, the timeline on disk, the ledger of external effects,   *)
(* and the evidence, traces and support bundles.  The stores that are not  *)
(* the behaviour's part stay as they start.                                *)
(***************************************************************************)
EXTENDS RollbackEngine, TemporalContract, SupportCapture

VARIABLE part  \* the part this behaviour is of

---------------------------------------------------------------------------
\* The engine with the richest world there is, the list of inputs it was
\* simulated with, and an overflow when two large impulses follow each other.
MCInputs == {"small", "large"}
MCInitialWorld == <<>>
MCWorlds == UNION {[1..n -> MCInputs] : n \in 0..MaxFrame}
MCStep(state, input) == Append(state, input)
MCOverflows(state, input) ==
  input = "large" /\ state # <<>> /\ state[Len(state)] = "large"

\* Worlds of up to three bodies in chunks of one, a buffer of two events and a
\* debugger of two frames, two branches, and a provider key that is rotated
\* after the second frame.
EvidenceBody(id, v) == [id |-> id, position |-> 0, velocity |-> v]
ProviderKey(epoch, from, to) ==
  [id |-> "p", epoch |-> epoch, purpose |-> "BundleEncryption", lifecycle |-> "Active",
   notBefore |-> from, notAfter |-> to]
Policy(timeTravel, authorized) ==
  [includeTimeTravel |-> timeTravel, authorized |-> authorized, includeVisual |-> TRUE,
   timestamps |-> FALSE, salt |-> "salt"]
EntryBytes(n) == n

MCBodyLists ==
  {<<EvidenceBody(1, 0), EvidenceBody(2, 0), EvidenceBody(3, 0)>>,
   <<EvidenceBody(1, 0), EvidenceBody(3, 1)>>}
MCBundleKeys == {ProviderKey(1, 0, 3), ProviderKey(2, 2, 9)}
MCPolicies == {[Policy(TRUE, FALSE) EXCEPT !.salt = ""], Policy(TRUE, TRUE)}

---------------------------------------------------------------------------

Init ==
  /\ EngineInit /\ LedgerInit /\ RecorderInit /\ SupportInit
  /\ part \in {"engine", "ledger", "recorder", "support"}

vars == <<part, engineVars, recorderVars, ledgerVars, supportVars>>

\* The captures come to their bounds; the engine, the recorder and the ledger
\* must not get stuck.
SupportEnds == part = "support" /\ UNCHANGED vars

Next ==
  \/ /\ part = "engine" /\ EngineNext
     /\ UNCHANGED <<part, recorderVars, ledgerVars, supportVars>>
  \/ /\ part = "recorder" /\ RecorderNext
     /\ UNCHANGED <<part, engineVars, ledgerVars, supportVars>>
  \/ /\ part = "ledger" /\ LedgerNext
     /\ UNCHANGED <<part, engineVars, recorderVars, supportVars>>
  \/ /\ part = "support" /\ SupportNext
     /\ UNCHANGED <<part, engineVars, recorderVars, ledgerVars>>
  \/ SupportEnds

Spec == Init /\ [][Next]_vars
====
