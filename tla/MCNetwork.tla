---- MODULE MCNetwork ----
(***************************************************************************)
(* What arrives from the network, one stage in each behaviour: the         *)
(* replicas and their link, the gateway that admits datagrams, the         *)
(* handshake and the rules that entitle a session, and the formats that    *)
(* the decoders accept.                                                    *)
(***************************************************************************)
EXTENDS NetworkSecurityGateway, DistributedReference, SessionSecurity, TLC

CONSTANTS
  k1,       \* the long-term key the sessions of the gateway are derived from
  peer      \* the origin that shakes hands

VARIABLES
  part,  \* the part this behaviour is of
  format, message, bytes, damage

formatVars == <<format, message, bytes, damage>>

---------------------------------------------------------------------------
\* Sessions derived from one long-term key
OneKey == [s \in Sessions |-> k1]

Interchangeable == Permutations(Origins) \cup Permutations(Sessions)

\* One origin with two root keys, the second a later epoch of the first, two
\* nonces and two roles of which the first key admits one.
RootKey(e) == [id |-> "k", epoch |-> e]
Rule(id, first, last) ==
  [id |-> id, role |-> "Player", operation |-> "SubmitInput", origin |-> Anyone, key |-> Anyone,
   minEpoch |-> 1, maxEpoch |-> 1, first |-> first, last |-> last, anyEntity |-> FALSE,
   notBefore |-> 0, notAfter |-> 2]
RootKeys == {RootKey(1), RootKey(2)}
KeyValidity ==
  [k \in RootKeys |-> [roles |-> {"Player"}, notBefore |-> 0,
                       notAfter |-> IF k.epoch = 2 THEN 1 ELSE 9]]
Peer == {peer}
TwoRules == {Rule(1, 1, 1), Rule(2, 1, 2)}
BothEntities == {<<1, 2>>}
Tls == {[kind |-> "Tls13", confidential |-> TRUE, authenticated |-> TRUE, bound |-> TRUE]}

\* Bytes of six values, integers of one or two of them.
Command(entity, x, y) == [entity |-> entity, x |-> x, y |-> y]
Digests == INSTANCE WireFormats WITH
  Base <- 6, U16 <- 1, U32 <- 2, U64 <- 2, DigestByte <- 1, MaximumAcceleration <- 17,
  MaximumInputs <- 2, MaximumPayload <- 13, MaximumRecord <- 30, MaximumEntries <- 2,
  MaximumPath <- 2, MaximumBundle <- 26, MaxDamage <- 0,
  CommandLists <- {}, Records <- {}, Bundles <- {}
Checksum(content) == Digests!Digest(content)[1]
Entry(path, content) == [path |-> path, content |-> content, digest |-> Checksum(content)]
Bundle(entries, manifest) ==
  [entries |-> entries, manifest |-> manifest, digest |-> Checksum(manifest)]

Formats == INSTANCE WireFormats WITH
  Base <- 6, U16 <- 1, U32 <- 2, U64 <- 2, DigestByte <- 1, MaximumAcceleration <- 17,
  MaximumInputs <- 2, MaximumPayload <- 13, MaximumRecord <- 30, MaximumEntries <- 2,
  MaximumPath <- 2, MaximumBundle <- 26, MaxDamage <- 2,
  CommandLists <- {<<>>, <<Command(1, 1, -1)>>, <<Command(2, -18, 0)>>,
                   <<Command(1, 0, 17), Command(3, -2, 2)>>, <<Command(0, 1, 1)>>},
  Records <- [sequence : {1, 6}, branch : {1}, first : {2}, last : {3}, previous : {<<0>>},
              timeline : {<<<<1>>, <<2>>>>}, evidence : {<<<<3>>>>}],
  Bundles <- {Bundle(<<>>, <<<<1>>>>),
              Bundle(<<Entry(<<<<1>>>>, <<<<2>>, <<0>>>>), Entry(<<<<2>>>>, <<>>)>>,
                     <<<<1>>, <<1>>>>)}

---------------------------------------------------------------------------

Unused == "idle"
NoFormatVars == format = Unused /\ message = Unused /\ bytes = Unused /\ damage = Unused

Init ==
  /\ ReplicasInit
  /\ GatewayInit
  /\ SessionInit
  /\ \/ part \in {"replicas", "gateway", "sessions"} /\ NoFormatVars
     \/ part = "formats" /\ Formats!Init

BesideReplicas == <<part, gatewayVars, sessionVars, formatVars>>
BesideGateway == <<part, replicaVars, sessionVars, formatVars>>
BesideSessions == <<part, replicaVars, gatewayVars, formatVars>>
BesideFormats == <<part, replicaVars, gatewayVars, sessionVars>>

vars == <<part, replicaVars, gatewayVars, sessionVars, formatVars>>

\* The others come to their bounds; the replicas must not get stuck.
BoundsEnd == part \in {"gateway", "sessions", "formats"} /\ UNCHANGED vars

Next ==
  \/ part = "replicas" /\ ReplicasNext /\ UNCHANGED BesideReplicas
  \/ part = "gateway" /\ GatewayNext /\ UNCHANGED BesideGateway
  \/ part = "sessions" /\ SessionNext /\ UNCHANGED BesideSessions
  \/ part = "formats" /\ Formats!Next /\ UNCHANGED BesideFormats
  \/ BoundsEnd

Spec == Init /\ [][Next]_vars

\* Of the decoders: see WireFormats.
DecodedIsWritten == part = "formats" => Formats!DecodedIsWritten
====
