----------------------- MODULE NetworkSecurityGateway -----------------------
(***************************************************************************)
(* NetworkSecurityGateway of src/network_security.cpp: what the runtime    *)
(* remembers of every origin so as to take each datagram once, not too     *)
(* often, and only while its session lasts.                                *)
(*                                                                         *)
(* A datagram is its origin, session, sequence, time stamp and the key of  *)
(* its tag: the key of its session or the fallback key.  Clients may send  *)
(* any; the network delivers each late, in any order, several times or     *)
(* never, so that any datagram may come at any time.  Those with a damaged *)
(* header or tag are refused before the gateway looks at its state and are *)
(* left out.  The caller supplies the time of every call, which never goes *)
(* back.                                                                   *)
(***************************************************************************)
EXTENDS Integers, FiniteSets

CONSTANTS
  Origins,             \* OriginId, transport addresses
  Sessions,            \* session ids
  KeyIds,              \* (key_id, key_epoch) of a binding
  KeyOf,               \* session -> the long-term key it was derived from
  MaxOrigins,          \* limits.maximum_tracked_origins
  ClockSkew,           \* limits.maximum_clock_skew_ms
  SessionTimeout,      \* limits.session_timeout_ms
  Rate,                \* milli-tokens that come back every millisecond
  PacketCost,          \* milli-tokens of one packet, 1000 in the code
  Burst,               \* limits.rate_limit_burst_packets
  RequireEstablished,  \* limits.require_established_session
  Window,              \* bits of replay_bitmap, 64 in the code
  MaxSequence,         \* bound: sequence numbers
  MaxTime,             \* bound: the clock
  MaxAccepted          \* bound: different datagrams that are accepted

\* The constructor refuses a zero rate, burst and table.  It does not compare
\* the idle timeout with the clock skew and with the time to fill a bucket;
\* the defaults (30 s, 2 s, 2 s) leave room for both.
ASSUME GatewayAssumption ==
  /\ KeyOf \in [Sessions -> KeyIds]
  /\ MaxOrigins \in Nat \ {0} /\ Window \in Nat \ {0}
  /\ Rate \in Nat \ {0} /\ Burst \in Nat \ {0} /\ PacketCost \in Nat \ {0}
  /\ RequireEstablished \in BOOLEAN
  /\ {ClockSkew, SessionTimeout, MaxSequence, MaxTime,
      MaxAccepted} \subseteq Nat
  /\ SessionTimeout >= 2 * ClockSkew
  /\ SessionTimeout * Rate >= Burst * PacketCost

VARIABLES
  origins,    \* origins_: tracked origin -> OriginState
  now,        \* now_ms of the next call
  accepted,   \* history: datagram -> how often process accepted it
  bindings,   \* history: session -> [origin, expiry, ended]
  admitted    \* history: origin -> packets accepted since its bucket began

gatewayVars == <<origins, now, accepted, bindings, admitted>>

Time == 0..MaxTime

Datagram ==
  [origin : Origins, session : Sessions, sequence : 0..MaxSequence,
   sentAt : 0..(MaxTime + ClockSkew), key : {"session", "fallback"}]

BucketSize == Burst * PacketCost

OriginState ==
  [session : Sessions, initialized : BOOLEAN, highest : 0..MaxSequence,
   bitmap : SUBSET (0..Window - 1), lastSeen : Time, tokenTime : Time,
   tokens : 0..BucketSize, established : BOOLEAN, revoked : BOOLEAN,
   expiry : Nat]

\* The OriginState both install_session and process begin with.  bitmap is
\* the set of the bits of replay_bitmap that are one.
NewState(id, established, expiry) ==
  [session |-> id, initialized |-> FALSE, highest |-> 0, bitmap |-> {},
   lastSeen |-> now, tokenTime |-> now, tokens |-> BucketSize,
   established |-> established, revoked |-> FALSE, expiry |-> expiry]

WithEntry(f, key, value) ==
  [k \in DOMAIN f \cup {key} |-> IF k = key THEN value ELSE f[k]]

Tracked(origin) == origin \in DOMAIN origins

\* A mutant: an origin is forgotten after the clock skew.
ExpiredEarly(state) ==
  \/ now - state.lastSeen > ClockSkew
  \/ state.established /\ now > state.expiry

\* state_is_expired
Expired(state) ==
  \/ now - state.lastSeen > SessionTimeout
  \/ state.established /\ now > state.expiry

\* A mutant: an origin without a session can be dropped at any time.
UnexpiredSessions ==
  [o \in {p \in DOMAIN origins : origins[p].established /\ ~Expired(origins[p])}
     |-> origins[o]]

\* expire_idle_origins: what the sweep leaves
Unexpired ==
  [o \in {p \in DOMAIN origins : ~Expired(origins[p])} |-> origins[o]]

\* The buckets that begin again: those of the sessions that the table lost.
AfterSweep(table) ==
  [o \in Origins |->
     IF Tracked(o) /\ o \notin DOMAIN table /\ origins[o].established
     THEN [since |-> now, count |-> 0] ELSE admitted[o]]

-----------------------------------------------------------------------------
GatewayInit ==
  /\ origins = [o \in {} |-> o]
  /\ now = 0
  /\ accepted = [d \in {} |-> 0]
  /\ bindings = [id \in {} |-> 0]
  /\ admitted = [o \in Origins |-> [since |-> 0, count |-> 0]]

Tick ==
  /\ now < MaxTime
  /\ now' = now + 1
  /\ UNCHANGED <<origins, accepted, bindings, admitted>>

\* The table after the sweep that an unknown origin causes
TableFor(origin) == IF Tracked(origin) THEN origins ELSE Unexpired

HasRoom(origin) ==
  \/ Tracked(origin)
  \/ Cardinality(DOMAIN Unexpired) < MaxOrigins

\* A new binding of an origin ends the one it had.
BindingsAfter(origin, id, expiry) ==
  WithEntry([i \in DOMAIN bindings |->
               [bindings[i] EXCEPT !.ended = @ \/ bindings[i].origin = origin]],
            id, [origin |-> origin, expiry |-> expiry, ended |-> FALSE])

\* install_session.  The handshake gives every session an id of its own.
InstallSession(origin, id, expiry) ==
  /\ id \notin DOMAIN bindings
  /\ expiry > now
  /\ HasRoom(origin)
  /\ origins' = WithEntry(TableFor(origin), origin,
                          NewState(id, TRUE, expiry))
  /\ bindings' = BindingsAfter(origin, id, expiry)
  /\ admitted' = [AfterSweep(TableFor(origin)) EXCEPT
                    ![origin] = [since |-> now, count |-> 0]]
  /\ UNCHANGED <<now, accepted>>

\* install_session and process of a new origin when the table is full: only
\* the sweep remains.  expire_idle_origins, which the host may call itself,
\* is the same step.
ExpireIdleOrigins ==
  /\ origins' = Unexpired
  /\ admitted' = AfterSweep(Unexpired)
  /\ UNCHANGED <<now, accepted, bindings>>

Revoke(revoked) ==
  /\ revoked # {}
  /\ origins' = [o \in DOMAIN origins |->
                   IF o \in revoked THEN [origins[o] EXCEPT !.revoked = TRUE]
                   ELSE origins[o]]
  /\ bindings' = [i \in DOMAIN bindings |->
                    [bindings[i] EXCEPT
                       !.ended = @ \/ bindings[i].origin \in revoked]]
  /\ UNCHANGED <<now, accepted, admitted>>

\* revoke_session
RevokeSession(origin, id) ==
  Revoke({o \in DOMAIN origins \cap {origin} :
            origins[o].established /\ origins[o].session = id})

\* revoke_sessions_for_key
RevokeSessionsForKey(keyId) ==
  Revoke({o \in DOMAIN origins :
            /\ origins[o].established /\ ~origins[o].revoked
            /\ KeyOf[origins[o].session] = keyId})

-----------------------------------------------------------------------------
(* process, in the order of its checks *)

\* timestamp_is_too_old and timestamp_is_in_future
Timely(datagram) ==
  /\ now - datagram.sentAt <= ClockSkew
  /\ datagram.sentAt - now <= ClockSkew

\* A mutant: a revoked session still authenticates.
AuthenticEvenRevoked(datagram) ==
  IF Tracked(datagram.origin) /\ origins[datagram.origin].established
  THEN LET state == origins[datagram.origin] IN
       /\ ~Expired(state)
       /\ state.session = datagram.session
       /\ datagram.key = "session"
  ELSE ~RequireEstablished /\ datagram.key = "fallback"

\* The session checks and the tag
Authentic(datagram) ==
  IF Tracked(datagram.origin) /\ origins[datagram.origin].established
  THEN LET state == origins[datagram.origin] IN
       /\ ~state.revoked /\ ~Expired(state)
       /\ state.session = datagram.session
       /\ datagram.key = "session"
  ELSE ~RequireEstablished /\ datagram.key = "fallback"

\* The state an authentic datagram is judged against: a new one for an
\* unknown origin and for one without a session that was idle too long,
\* whose last_seen_ms stays until the datagram is accepted.
EntryFor(table, datagram) ==
  IF datagram.origin \notin DOMAIN table
  THEN NewState(datagram.session, FALSE, 0)
  ELSE LET state == table[datagram.origin] IN
       IF ~state.established /\ Expired(state)
       THEN [NewState(datagram.session, FALSE, 0) EXCEPT
               !.lastSeen = state.lastSeen]
       ELSE state

\* The token bucket's refill; the code saturates where it would overflow.
Refilled(state) ==
  LET tokens == state.tokens + (now - state.tokenTime) * Rate
  IN  [state EXCEPT
         !.tokens = IF tokens > BucketSize THEN BucketSize ELSE tokens,
         !.tokenTime = now]

\* Neither ReplayTooOld nor ReplayDuplicate
Unseen(state, sequence) ==
  \/ ~state.initialized
  \/ sequence > state.highest
  \/ /\ state.highest - sequence < Window
     /\ (state.highest - sequence) \notin state.bitmap

Shifted(bitmap, distance) ==
  {bit + distance : bit \in {b \in bitmap : b + distance < Window}}

\* The replay window after it has taken a sequence
Recorded(state, sequence) ==
  IF ~state.initialized
  THEN [state EXCEPT !.initialized = TRUE, !.highest = sequence,
                     !.bitmap = {0}]
  ELSE IF sequence > state.highest
  THEN [state EXCEPT !.highest = sequence,
                     !.bitmap = Shifted(@, sequence - state.highest) \cup {0}]
  ELSE [state EXCEPT !.bitmap = @ \cup {state.highest - sequence}]

\* A mutant: the packet is not paid for.
SpentNothing(state) == [state EXCEPT !.lastSeen = now]

Spent(state) == [state EXCEPT !.tokens = @ - PacketCost, !.lastSeen = now]

Judged(datagram) == Refilled(EntryFor(TableFor(datagram.origin), datagram))

\* process of a datagram that gets past its tag and is refused as RateLimited,
\* ReplayTooOld or ReplayDuplicate.  One refused as SessionMismatch changes
\* nothing, and neither do those that do not get past their tag.
ProcessRefuses(datagram) ==
  /\ Timely(datagram) /\ Authentic(datagram)
  /\ Tracked(datagram.origin)
  /\ Judged(datagram).session = datagram.session
  /\ \/ Judged(datagram).tokens < PacketCost
     \/ ~Unseen(Judged(datagram), datagram.sequence)
  /\ origins' = WithEntry(origins, datagram.origin, Judged(datagram))
  /\ UNCHANGED <<now, accepted, bindings, admitted>>

\* process of a datagram it accepts
ProcessAccepts(datagram) ==
  LET origin == datagram.origin
      table == TableFor(origin)
      state == Judged(datagram)
      copies == IF datagram \in DOMAIN accepted THEN accepted[datagram] ELSE 0
  IN  /\ Timely(datagram) /\ Authentic(datagram)
      /\ datagram \in DOMAIN accepted \/ Cardinality(DOMAIN accepted) < MaxAccepted
      /\ HasRoom(origin)
      /\ state.session = datagram.session
      /\ state.tokens >= PacketCost
      /\ Unseen(state, datagram.sequence)
      /\ origins' = WithEntry(table, origin,
                             Spent(Recorded(state, datagram.sequence)))
      /\ accepted' = WithEntry(accepted, datagram, copies + 1)
      /\ admitted' = [AfterSweep(table) EXCEPT ![origin].count = @ + 1]
      /\ UNCHANGED <<now, bindings>>

GatewayNext ==
  \/ Tick
  \/ \E origin \in Origins, id \in Sessions, expiry \in Time :
       InstallSession(origin, id, expiry)
  \/ \E origin \in Origins, id \in Sessions : RevokeSession(origin, id)
  \/ \E keyId \in KeyIds : RevokeSessionsForKey(keyId)
  \/ ExpireIdleOrigins
  \/ \E datagram \in Datagram :
       ProcessRefuses(datagram) \/ ProcessAccepts(datagram)

GatewaySpec == GatewayInit /\ [][GatewayNext]_gatewayVars

-----------------------------------------------------------------------------
(* Properties *)

\* Every variable keeps its type: in particular a bucket never holds more
\* than its capacity and a bitmap never more than its bits.
GatewayTypeOK ==
  /\ DOMAIN origins \subseteq Origins
  /\ \A o \in DOMAIN origins : origins[o] \in OriginState
  /\ now \in Time
  /\ DOMAIN accepted \subseteq Datagram
  /\ DOMAIN bindings \subseteq Sessions
  /\ admitted \in [Origins -> [since : Time, count : Nat]]

\* A datagram is accepted once from an origin, although the gateway forgets
\* an idle origin with its replay window: by then the time stamps of all it
\* had accepted are too old (network_security.cpp:369-374, 236-246, 454-472).
\* The exception is the fallback traffic of an origin that had a session in
\* between: install_session drops the window of the fallback key.
AcceptedOnce ==
  \A d \in DOMAIN accepted :
    \/ accepted[d] = 1
    \/ /\ d.key = "fallback"
       /\ \E id \in DOMAIN bindings : bindings[id].origin = d.origin

\* A datagram of a session is accepted only from the origin the session was
\* installed for, before it expires, is revoked or is replaced by another
\* one, even after the table has forgotten the session
\* (network_security.cpp:379-392).
AcceptsWithinSession ==
  \A d \in DOMAIN accepted' :
    d.key = "session" /\ accepted' # accepted
      /\ (d \in DOMAIN accepted => accepted'[d] # accepted[d]) =>
      /\ bindings[d.session].origin = d.origin
      /\ ~bindings[d.session].ended
      /\ now <= bindings[d.session].expiry

\* An origin gets no more packets through than its bucket allows: a burst
\* and the rate for the time since.  That an idle origin is forgotten, or
\* begins again with a full bucket, gives it nothing; only a new session does
\* (network_security.cpp:421-449; USER_GUIDE_PT-BR.md:302).
RateIsBounded ==
  \A o \in Origins :
    admitted[o].count * PacketCost
      <= BucketSize + (now - admitted[o].since) * Rate

\* A full table turns newcomers away: no step takes an origin that is still
\* active out of it, and it never grows past its limit
\* (network_security.cpp:264-268, 402-406, 494-504).
KeepsActiveOrigins ==
  /\ Cardinality(DOMAIN origins') <= MaxOrigins
  /\ \A o \in DOMAIN origins : ~Expired(origins[o]) => o \in DOMAIN origins'

\* What gets in, gets in once and at the rate of its origin.
AdmissionIsBounded == AcceptedOnce /\ RateIsBounded

\* What gets in belongs to a session that lasts, and what has been let in is
\* not forgotten while it is active.
SessionBoundsAcceptance ==
  [][AcceptsWithinSession /\ KeepsActiveOrigins]_gatewayVars

=============================================================================
