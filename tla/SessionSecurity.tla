--------------------------- MODULE SessionSecurity ---------------------------
(***************************************************************************)
(* Sessions from their root key to the commands they submit:               *)
(* SessionKeyRing, SessionHandshakeServer, create_client_hello and         *)
(* finalize_client_handshake of src/session_security.cpp, the sessions of  *)
(* the NetworkSecurityGateway they end in, and the authorization policy    *)
(* every batch of commands passes.                                         *)
(*                                                                         *)
(* Hellos and replies travel over a network that loses, delays, repeats    *)
(* and reorders them: whatever was sent stays in hellos and replies and    *)
(* may arrive at any time, any number of times.  A tag is intact only for  *)
(* what was really sent; damaged messages change nothing at the receiver   *)
(* and are left out, and so are the hellos refused before the server looks *)
(* at its replay entries.  A session's keys are a function of the fields   *)
(* of its secrets, so equal secrets stand for equal keys.  Client clocks   *)
(* differ from the server's by no more than HelloSkew.  The table of the   *)
(* gateway has room for every origin and no session idles out: both are    *)
(* the subject of NetworkSecurityGateway.                                  *)
(***************************************************************************)
EXTENDS Integers, Sequences, FiniteSets

---------------------------------------------------------------------------
(***************************************************************************)
(* CommandAuthorizationPolicy of src/production_security.cpp: an ordered,  *)
(* bounded list of rules with different ids, and the decision it gives a   *)
(* request of an authenticated session.  A rule that leaves out the origin *)
(* or the key (zero in the code, Anyone here) admits every one of them.    *)
(***************************************************************************)

CONSTANTS
  MaxRules,                      \* maximum_rules_
  RequireConfidentialTransport,  \* require_confidential_transport_
  Anyone                         \* zero in a rule: any origin, any key

\* rule_valid: the checks of a rule's own fields.
RuleValid(rule) ==
  /\ rule.minEpoch # 0 /\ rule.maxEpoch >= rule.minEpoch
  /\ rule.anyEntity \/ (rule.first # 0 /\ rule.last >= rule.first)
  /\ rule.notAfter > rule.notBefore

\* add_rule; a refused rule leaves the list as it is.
RuleAccepted(rules, rule) ==
  /\ RuleValid(rule)
  /\ Len(rules) < MaxRules
  /\ \A i \in DOMAIN rules : rules[i].id # rule.id

AddRule(rules, rule) ==
  IF RuleAccepted(rules, rule) THEN Append(rules, rule) ELSE rules

\* transport_security_context_valid
TransportValid(transport) ==
  /\ transport.kind # "None"
  /\ transport.confidential /\ transport.authenticated /\ transport.bound

\* The four questions authorize asks of a rule, in this order.
ForSubject(rule, request) ==
  /\ rule.role = request.subject.role
  /\ rule.operation = request.operation
  /\ rule.origin \in {Anyone, request.subject.origin}

ForKey(rule, request) ==
  /\ rule.key \in {Anyone, request.subject.key.id}
  /\ request.subject.key.epoch \in rule.minEpoch..rule.maxEpoch

ForEntityPastEnd(rule, request) ==
  rule.anyEntity \/ request.entity \in rule.first..(rule.last + 1)

ForEntity(rule, request) ==
  rule.anyEntity \/ request.entity \in rule.first..rule.last

Active(rule, request) ==
  rule.notBefore <= request.now /\ request.now < rule.notAfter

\* authorize: the first rule that gives every answer decides; otherwise the
\* reason is the furthest question some rule got to.
Authorize(rules, request) ==
  LET subject == {i \in DOMAIN rules : ForSubject(rules[i], request)}
      keyed == {i \in subject : ForKey(rules[i], request)}
      covering == {i \in keyed : ForEntity(rules[i], request)}
      active == {i \in covering : Active(rules[i], request)}
      Denied(reason) == [reason |-> reason, rule |-> Anyone]
  IN CASE RequireConfidentialTransport
          /\ ~TransportValid(request.transport) -> Denied("InsecureTransport")
       [] active # {} ->
            LET first == CHOOSE i \in active : \A j \in active : i <= j
            IN [reason |-> "None", rule |-> rules[first].id]
       [] covering # {} -> Denied("RuleNotActive")
       [] keyed # {} -> Denied("EntityDenied")
       [] subject # {} -> Denied("KeyDenied")
       [] OTHER -> Denied("RuleNotFound")

\* A loop that looks at the first command of a batch only.
AuthorizeFirstOfBatch(rules, subject, transport, now, entities) ==
  entities # <<>>
  /\ Authorize(rules, [subject |-> subject, operation |-> "SubmitInput",
                       entity |-> entities[1], now |-> now,
                       transport |-> transport]).reason = "None"

\* authorize_input_batch: an empty batch is invalid, any other is accepted
\* when every one of its commands is.
AuthorizeInputBatch(rules, subject, transport, now, entities) ==
  entities # <<>>
  /\ \A i \in DOMAIN entities :
       Authorize(rules, [subject |-> subject, operation |-> "SubmitInput",
                         entity |-> entities[i], now |-> now,
                         transport |-> transport]).reason = "None"

---------------------------------------------------------------------------
CONSTANTS
  Peers, Roles, Nonces, Entities,
  Keys,            \* [id, epoch] of the root keys
  Validity,        \* key -> [roles, notBefore, notAfter], fixed for a key
  MaxKeys,         \* maximum_keys_ of the ring
  HelloSkew,       \* limits.maximum_clock_skew_ms
  SessionLifetime, \* limits.session_lifetime_ms
  MaxReplayEntries,\* limits.maximum_handshake_replay_entries
  RuleBook,        \* rules an operator may add
  Batches,         \* batches of commands, sequences of entities
  Transports,      \* TransportSecurityContexts a host may attest
  MaxSessionTime,  \* bound: the clock
  MaxHellos,       \* bound: hellos that are made
  MaxChanges       \* bound: changes of the ring

\* The constructor of SessionHandshakeServer refuses zeros only.  A lifetime
\* shorter than the span in which a hello is fresh would let its replay entry
\* go before the hello is too old; the defaults are 60 s and 2 s.
ASSUME SessionAssumption ==
  /\ MaxKeys \in Nat \ {0} /\ MaxReplayEntries \in Nat \ {0}
  /\ HelloSkew \in Nat \ {0} /\ SessionLifetime \in Nat \ {0}
  /\ SessionLifetime >= 2 * HelloSkew
  /\ \A k \in Keys : /\ {Validity[k].notBefore, Validity[k].notAfter} \subseteq Nat
                     /\ Validity[k].notAfter > Validity[k].notBefore
                     /\ Validity[k].roles # {}
  /\ \A r \in RuleBook : {r.minEpoch, r.maxEpoch, r.first, r.last, r.notBefore,
                          r.notAfter} \subseteq Nat
  /\ RequireConfidentialTransport \in BOOLEAN

VARIABLES
  serverTime, \* the server's clock
  ring,       \* records_: key -> lifecycle
  replay,     \* replay_entries_
  hellos,     \* ClientHellos sent, with the contexts their clients expect
  replies,    \* server hellos sent; each carries what its secrets follow from
  pending,    \* accepted decisions the host has not installed yet
  clients,    \* [hello, secrets] of every finalized client handshake
  gateway,    \* origins_: tracked origin -> [secrets, revoked]
  rules,      \* rules_
  sessions,   \* session ids given out, and the nonce drawn for each
  changes,
  ended,      \* history: secrets that were in the gateway at a revocation
  executed    \* history: commands that passed gateway and policy

sessionVars == <<serverTime, ring, replay, hellos, replies, pending, clients,
                 gateway, rules, sessions, changes, ended, executed>>

SessionInit ==
  /\ serverTime = 0 /\ ring = [k \in {} |-> "Active"]
  /\ replay = {} /\ hellos = {} /\ replies = {} /\ pending = {}
  /\ clients = {} /\ gateway = [o \in {} |-> TRUE]
  /\ rules = <<>> /\ sessions = 0 /\ changes = 0
  /\ ended = {} /\ executed = {}

-----------------------------------------------------------------------------
(* The ring                                                                *)

Ring(new) ==
  /\ changes < MaxChanges /\ changes' = changes + 1
  /\ ring' = new
  /\ UNCHANGED <<serverTime, replay, hellos, replies, pending, clients, rules,
                 sessions, executed>>

With(records, k, record) ==
  [x \in DOMAIN records \cup {k} |-> IF x = k THEN record ELSE records[x]]

Room(records, k) == k \in DOMAIN records \/ Cardinality(DOMAIN records) < MaxKeys

\* upsert: replaces the record of the key, or adds one while there is room.
\* A revoked key may come back this way.
Upsert(k, lifecycle) ==
  /\ Room(ring, k)
  /\ Ring(With(ring, k, lifecycle))
  /\ UNCHANGED <<gateway, ended>>

\* rotate: the replacement is a later epoch of an active key, and the key is
\* retired once the replacement is in the ring.
Rotate(k, replacement) ==
  /\ k \in DOMAIN ring /\ ring[k] = "Active"
  /\ replacement.id = k.id /\ replacement.epoch > k.epoch
  /\ Room(ring, replacement)
  /\ Ring(With(With(ring, replacement, "Active"), k, "Retired"))
  /\ UNCHANGED <<gateway, ended>>

Retire(k) ==
  /\ k \in DOMAIN ring /\ ring[k] # "Revoked"
  /\ Ring(With(ring, k, "Retired"))
  /\ UNCHANGED <<gateway, ended>>

\* revoke_sessions_for_key
RevokedForKey(k) ==
  [o \in DOMAIN gateway |-> IF gateway[o].secrets.key = k
                            THEN [gateway[o] EXCEPT !.revoked = TRUE]
                            ELSE gateway[o]]

\* revoke_key_and_sessions: the ring may not know the key; its sessions are
\* revoked all the same.
RevokeKeyAndSessions(k) ==
  /\ Ring(IF k \in DOMAIN ring THEN With(ring, k, "Revoked") ELSE ring)
  /\ gateway' = RevokedForKey(k)
  /\ ended' = ended \cup {gateway[o].secrets :
                        o \in {p \in DOMAIN gateway : gateway[p].secrets.key = k}}

-----------------------------------------------------------------------------
(* The handshake                                                           *)

\* A clock within the skew of the server's.
ClientClock == {t \in 0..(MaxSessionTime + HelloSkew) :
                  t - serverTime \in -HelloSkew..HelloSkew}

\* create_client_hello; a client draws a nonce once for a key.
CreateClientHello(o, role, k, nonce, sentAt) ==
  /\ Cardinality(hellos) < MaxHellos
  /\ ~\E h \in hellos : h.origin = o /\ h.key = k /\ h.nonce = nonce
  /\ hellos' = hellos \cup {[origin |-> o, role |-> role, key |-> k,
                             nonce |-> nonce, sentAt |-> sentAt]}
  /\ UNCHANGED <<serverTime, ring, replay, replies, pending, clients, gateway,
                 rules, sessions, changes, ended, executed>>

\* What accept checks before it looks at its replay entries.
Admissible(h) ==
  /\ serverTime - h.sentAt <= HelloSkew /\ h.sentAt - serverTime <= HelloSkew
  /\ h.key \in DOMAIN ring /\ ring[h.key] = "Active"
  /\ Validity[h.key].notBefore <= serverTime /\ serverTime <= Validity[h.key].notAfter
  /\ h.role \in Validity[h.key].roles

UnexpiredEntriesStrictly == {e \in replay : serverTime < e.expires}

\* expire_replay_entries
UnexpiredEntries == {e \in replay : serverTime <= e.expires}

Seen(h, entries) ==
  \E e \in entries : e.key = h.key /\ e.origin = h.origin /\ e.nonce = h.nonce

\* The end of a session: its lifetime, or sooner the end of its key.
Expiry(h) ==
  IF serverTime + SessionLifetime < Validity[h.key].notAfter
  THEN serverTime + SessionLifetime ELSE Validity[h.key].notAfter

\* derive_session_secrets: the fields both sides derive the two keys from.
DeriveSessionSecrets(h, session, expires) ==
  [origin |-> h.origin, session |-> session, role |-> h.role, key |-> h.key,
   issued |-> serverTime, expires |-> expires, clientNonce |-> h.nonce]

\* accept.  The server's nonce and the id of a session are fresh.
Accept(h) ==
  /\ Admissible(h)
  /\ LET live == UnexpiredEntries
         opens == /\ ~Seen(h, live)
                  /\ Cardinality(live) < MaxReplayEntries
                  /\ Expiry(h) > serverTime
         secrets == DeriveSessionSecrets(h, sessions + 1, Expiry(h))
     IN IF opens
        THEN /\ replay' = live \cup {[key |-> h.key, origin |-> h.origin,
                                      nonce |-> h.nonce,
                                      expires |-> Expiry(h)]}
             /\ replies' = replies \cup {secrets}
             /\ pending' = pending \cup {secrets}
             /\ sessions' = sessions + 1
        ELSE /\ replay' = live
             /\ UNCHANGED <<replies, pending, sessions>>
  /\ UNCHANGED <<serverTime, ring, hellos, clients, gateway, rules, changes, ended,
                 executed>>

ExpectedAnyNonce(h, reply) ==
  reply.key = h.key /\ reply.origin = h.origin /\ reply.role = h.role

\* The fields of a reply that finalize compares with what the client expects.
Expected(h, reply) ==
  /\ reply.key = h.key /\ reply.origin = h.origin /\ reply.role = h.role
  /\ reply.clientNonce = h.nonce

\* finalize_client_handshake
Finalize(h, reply, clock) ==
  /\ Expected(h, reply)
  /\ reply.expires > reply.issued /\ clock <= reply.expires
  /\ reply.issued - clock <= HelloSkew
  /\ clients' = clients \cup {[hello |-> h, secrets |-> reply]}
  /\ UNCHANGED <<serverTime, ring, replay, hellos, replies, pending, gateway, rules,
                 sessions, changes, ended, executed>>

-----------------------------------------------------------------------------
(* The gateway and the policy                                              *)

\* install_session, which the host calls some time after accept: a decision
\* is installed once, and replaces the session of its origin.
InstallDecision(secrets) ==
  /\ secrets \in pending
  /\ pending' = pending \ {secrets}
  /\ gateway' = IF secrets.expires > serverTime
                THEN With(gateway, secrets.origin,
                          [secrets |-> secrets, revoked |-> FALSE])
                ELSE gateway
  /\ UNCHANGED <<serverTime, ring, replay, hellos, replies, clients, rules,
                 sessions, changes, ended, executed>>

\* revoke_session
RevokePeer(o) ==
  /\ o \in DOMAIN gateway /\ ~gateway[o].revoked
  /\ gateway' = [gateway EXCEPT ![o].revoked = TRUE]
  /\ ended' = ended \cup {gateway[o].secrets}
  /\ UNCHANGED <<serverTime, ring, replay, hellos, replies, pending, clients, rules,
                 sessions, changes, executed>>

\* What process asks of the session of an origin before it checks the tag of
\* a packet with the session's key.
Usable(o) ==
  /\ o \in DOMAIN gateway /\ ~gateway[o].revoked
  /\ serverTime <= gateway[o].secrets.expires

AddARule(rule) ==
  /\ RuleAccepted(rules, rule)
  /\ rules' = AddRule(rules, rule)
  /\ UNCHANGED <<serverTime, ring, replay, hellos, replies, pending, clients,
                 gateway, sessions, changes, ended, executed>>

Subject(secrets) ==
  [role |-> secrets.role, origin |-> secrets.origin, key |-> secrets.key]

\* A client sends a batch under its keys; the gateway finds the tag intact
\* when they are the keys of the origin's session, and hands the role and the
\* key of that session to the policy.
SubmitInput(client, batch, transport) ==
  LET o == client.secrets.origin IN
  /\ Usable(o)
  /\ gateway[o].secrets = client.secrets
  /\ AuthorizeInputBatch(rules, Subject(gateway[o].secrets), transport, serverTime,
                         batch)
  /\ executed' = executed \cup {[client |-> client, entity |-> batch[i],
                                 at |-> serverTime, transport |-> transport] :
                                  i \in DOMAIN batch}
  /\ UNCHANGED <<serverTime, ring, replay, hellos, replies, pending, clients,
                 gateway, rules, sessions, changes, ended>>

SessionTick ==
  /\ serverTime < MaxSessionTime
  /\ serverTime' = serverTime + 1
  /\ UNCHANGED <<ring, replay, hellos, replies, pending, clients, gateway,
                 rules, sessions, changes, ended, executed>>

SessionNext ==
  \/ \E k \in Keys, l \in {"Active", "Retired", "Revoked"} : Upsert(k, l)
  \/ \E k, r \in Keys : Rotate(k, r)
  \/ \E k \in Keys : Retire(k) \/ RevokeKeyAndSessions(k)
  \/ \E o \in Peers, role \in Roles, k \in Keys, n \in Nonces,
        t \in ClientClock : CreateClientHello(o, role, k, n, t)
  \/ \E h \in hellos : Accept(h)
  \/ \E h \in hellos, reply \in replies, t \in ClientClock :
       Finalize(h, reply, t)
  \/ \E s \in pending : InstallDecision(s)
  \/ \E o \in Peers : RevokePeer(o)
  \/ \E rule \in RuleBook : AddARule(rule)
  \/ \E c \in clients, b \in Batches, t \in Transports : SubmitInput(c, b, t)
  \/ SessionTick

SessionSpec == SessionInit /\ [][SessionNext]_sessionVars

-----------------------------------------------------------------------------
(* Properties                                                              *)

\* However often and however late hellos and replies arrive, a hello opens
\* one session at most, and what a client finalizes for its hello is the
\* session the server opened for that very hello (SessionHandshakeServer::
\* accept with its replay entries, finalize_client_handshake).
HandshakeAgreement ==
  /\ \A a, b \in replies :
       (a.key = b.key /\ a.origin = b.origin /\ a.clientNonce = b.clientNonce)
         => a = b
  /\ \A c \in clients :
       /\ c.secrets.clientNonce = c.hello.nonce
       /\ c.secrets.role = c.hello.role /\ c.secrets.key = c.hello.key

\* A command that reaches the simulation was sent by a client whose root key
\* was valid then and admits its role, in a session no revocation had met
\* when it was in the gateway, over a confidential transport where the policy
\* wants one, and some rule of the policy entitles exactly this session to
\* this entity at this time (revoke_key_and_sessions, accept, process,
\* authorize_input_batch together).
ExecutedIsEntitled ==
  /\ \A o \in Peers : Usable(o) => gateway[o].secrets \notin ended
  /\ \A x \in executed :
       LET s == x.client.secrets IN
       /\ s.role \in Validity[s.key].roles
       /\ x.at \in Validity[s.key].notBefore..Validity[s.key].notAfter
       /\ RequireConfidentialTransport => TransportValid(x.transport)
       /\ \E i \in DOMAIN rules :
            /\ rules[i].role = s.role
            /\ rules[i].operation = "SubmitInput"
            /\ rules[i].origin \in {Anyone, s.origin}
            /\ rules[i].key \in {Anyone, s.key.id}
            /\ s.key.epoch >= rules[i].minEpoch
            /\ s.key.epoch <= rules[i].maxEpoch
            /\ ~rules[i].anyEntity => /\ rules[i].first <= x.entity
                                      /\ x.entity <= rules[i].last
            /\ rules[i].notBefore <= x.at /\ x.at < rules[i].notAfter

===========================================================================
