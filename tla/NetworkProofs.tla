--------------------------- MODULE NetworkProofs ---------------------------
(***************************************************************************)
(* Theorems about what arrives from the network, for every value of the    *)
(* constants.                                                              *)
(*                                                                         *)
(* First NetworkSecurityGateway: no datagram gets in twice although        *)
(* origins are forgotten, no origin gets in more than its bucket allows    *)
(* although buckets begin again, and what gets in belongs to a session     *)
(* that is in force.                                                       *)
(*                                                                         *)
(* Then DistributedReference: the link delivers in order and never         *)
(* mistakes what is new for a replay, what a replica exports is what its   *)
(* state was computed with, and a reconcile changes the follower to what   *)
(* the authority exported and to nothing else.                             *)
(*                                                                         *)
(* Last SessionSecurity: a hello opens one session however often it        *)
(* arrives, although the server forgets the hellos it has seen, and what   *)
(* is executed is entitled by a key, a session and a rule in force.        *)
(***************************************************************************)
EXTENDS NetworkSecurityGateway, DistributedReference, SessionSecurity,
        FiniteSetTheorems, TLAPS

-----------------------------------------------------------------------------
(* Tokens.  The proofs that use them are linear in these two products.     *)

Earned(from, to) == (to - from) * Rate

Paid(count) == count * PacketCost

LEMMA PaidFacts ==
  /\ BucketSize \in Nat
  /\ Paid(0) = 0
  /\ \A n \in Nat : Paid(n) \in Nat /\ Paid(n + 1) = Paid(n) + PacketCost
<1>1. Burst \in Nat /\ PacketCost \in Nat
  BY GatewayAssumption
<1> QED BY <1>1 DEF BucketSize, Paid

LEMMA EarnedType ==
  ASSUME NEW a \in Nat, NEW b \in Nat
  PROVE  Earned(a, b) \in Int /\ (a <= b => Earned(a, b) \in Nat)
<1>1. Rate \in Nat
  BY GatewayAssumption
<1> QED BY <1>1 DEF Earned

LEMMA EarnedAdds ==
  ASSUME NEW a \in Nat, NEW b \in Nat, NEW c \in Nat
  PROVE  Earned(a, c) = Earned(a, b) + Earned(b, c)
<1>1. Rate \in Nat
  BY GatewayAssumption
<1> QED BY <1>1 DEF Earned

\* An origin that is forgotten has waited for a full bucket.
LEMMA IdleEarnsBucket ==
  ASSUME NEW a \in Nat, NEW b \in Nat, b - a > SessionTimeout
  PROVE  Earned(a, b) >= BucketSize
<1>1. /\ Rate \in Nat /\ Burst \in Nat /\ PacketCost \in Nat
      /\ SessionTimeout \in Nat /\ SessionTimeout * Rate >= Burst * PacketCost
  BY GatewayAssumption
<1>2. PICK k \in Nat : b - a = SessionTimeout + k
  BY <1>1
<1>3. (SessionTimeout + k) * Rate = SessionTimeout * Rate + k * Rate
  BY <1>1
<1>4. k * Rate \in Nat
  BY <1>1
<1> QED BY <1>1, <1>2, <1>3, <1>4 DEF Earned, BucketSize

\* What the proofs need of the other limits.
LEMMA Limits ==
  /\ Window \in Nat \ {0} /\ MaxSequence \in Nat /\ MaxTime \in Nat
  /\ MaxOrigins \in Nat \ {0}
  /\ ClockSkew \in Nat /\ SessionTimeout \in Nat /\ SessionTimeout >= 2 * ClockSkew
BY GatewayAssumption

\* The books of a bucket: it holds what its origin has earned and not spent,
\* and had room for what was spent when the last packet came.
InCredit(since, count, lastSeen, tokenTime, tokens) ==
  /\ since <= lastSeen /\ lastSeen <= tokenTime
  /\ tokens + Paid(count) <= BucketSize + Earned(since, tokenTime)
  /\ Paid(count) <= BucketSize + Earned(since, lastSeen)

\* A refill keeps the books.
LEMMA RefillKeepsCredit ==
  ASSUME NEW since \in Nat, NEW count \in Nat, NEW lastSeen \in Nat,
         NEW tokenTime \in Nat, NEW tokens \in Nat, NEW later \in Nat, NEW kept \in Nat,
         InCredit(since, count, lastSeen, tokenTime, tokens),
         tokenTime <= later, kept <= tokens + Earned(tokenTime, later)
  PROVE  InCredit(since, count, lastSeen, later, kept)
<1>1. Earned(since, later) = Earned(since, tokenTime) + Earned(tokenTime, later)
  BY EarnedAdds
<1>2. Earned(since, tokenTime) \in Int /\ Earned(tokenTime, later) \in Int
      /\ Earned(since, lastSeen) \in Int
  BY EarnedType
<1> QED BY <1>1, <1>2, PaidFacts DEF InCredit

\* Paying for a packet keeps the books.
LEMMA PacketKeepsCredit ==
  ASSUME NEW since \in Nat, NEW count \in Nat, NEW lastSeen \in Nat,
         NEW later \in Nat, NEW tokens \in Nat,
         InCredit(since, count, lastSeen, later, tokens), tokens >= PacketCost
  PROVE  InCredit(since, count + 1, later, later, tokens - PacketCost)
<1>1. Earned(since, later) \in Int /\ PacketCost \in Nat
  BY EarnedType, GatewayAssumption
<1> QED BY <1>1, PaidFacts DEF InCredit

\* A full bucket is in credit for an origin that has just appeared if what it
\* was let in before is earned by now, and for one that was idle too long.
LEMMA NewcomerInCredit ==
  ASSUME NEW since \in Nat, NEW count \in Nat, NEW later \in Nat,
         since <= later, Paid(count) <= Earned(since, later)
  PROVE  InCredit(since, count, later, later, BucketSize)
<1>1. Earned(since, later) \in Int
  BY EarnedType
<1> QED BY <1>1, PaidFacts DEF InCredit

LEMMA IdlePaysBack ==
  ASSUME NEW since \in Nat, NEW count \in Nat, NEW lastSeen \in Nat,
         NEW tokenTime \in Nat, NEW tokens, NEW later \in Nat,
         InCredit(since, count, lastSeen, tokenTime, tokens),
         later - lastSeen > SessionTimeout
  PROVE  /\ Paid(count) <= Earned(since, later)
         /\ InCredit(since, count, lastSeen, later, BucketSize)
<1>1. Earned(since, later) = Earned(since, lastSeen) + Earned(lastSeen, later)
  BY EarnedAdds
<1>2. Earned(since, lastSeen) \in Int /\ Earned(lastSeen, later) \in Int
  BY EarnedType
<1>3. Earned(lastSeen, later) >= BucketSize
  BY IdleEarnsBucket
<1>4. lastSeen <= later
  BY Limits
<1> QED BY <1>1, <1>2, <1>3, <1>4, PaidFacts DEF InCredit

\* What the books say at last: no more got in than was earned.
LEMMA CreditBoundsRate ==
  ASSUME NEW since \in Nat, NEW count \in Nat, NEW lastSeen \in Nat,
         NEW tokenTime \in Nat, NEW tokens, NEW later \in Nat,
         InCredit(since, count, lastSeen, tokenTime, tokens), tokenTime <= later
  PROVE  Paid(count) <= BucketSize + Earned(since, later)
<1>1. Earned(since, later) = Earned(since, lastSeen) + Earned(lastSeen, later)
  BY EarnedAdds
<1>2. lastSeen <= later
  BY DEF InCredit
<1>3. Earned(since, lastSeen) \in Int /\ Earned(lastSeen, later) \in Nat
  BY <1>2, EarnedType
<1> QED BY <1>1, <1>3, PaidFacts DEF InCredit

-----------------------------------------------------------------------------
(* The replay window *)

\* A window forgets nothing it has taken: what it refuses it goes on
\* refusing, and it refuses what it has just taken.
LEMMA RecordedFacts ==
  ASSUME NEW state \in OriginState, NEW sequence \in 0..MaxSequence,
         Unseen(state, sequence)
  PROVE  LET after == Recorded(state, sequence) IN
         /\ after \in OriginState
         /\ ~Unseen(after, sequence)
         /\ \A s \in 0..MaxSequence : ~Unseen(state, s) => ~Unseen(after, s)
         /\ after = [state EXCEPT !.initialized = after.initialized,
                                  !.highest = after.highest,
                                  !.bitmap = after.bitmap]
<1>0. /\ Window \in Nat \ {0} /\ MaxSequence \in Nat
      /\ state.highest \in 0..MaxSequence /\ state.bitmap \subseteq 0..(Window - 1)
      /\ state.initialized \in BOOLEAN
  BY Limits DEF OriginState
<1>1. CASE ~state.initialized
  <2>1. Recorded(state, sequence) =
          [state EXCEPT !.initialized = TRUE, !.highest = sequence, !.bitmap = {0}]
    BY <1>1 DEF Recorded
  <2>2. Recorded(state, sequence) \in OriginState
    <3>1. {0} \in SUBSET (0..(Window - 1))
      BY <1>0
    <3> QED BY <2>1, <3>1 DEF OriginState
  <2> QED BY <1>0, <1>1, <2>1, <2>2 DEF Unseen, OriginState
<1>2. CASE state.initialized /\ sequence > state.highest
  <2> DEFINE distance == sequence - state.highest
             bitmap == Shifted(state.bitmap, distance) \cup {0}
  <2>1. Recorded(state, sequence) =
          [state EXCEPT !.highest = sequence, !.bitmap = bitmap]
    BY <1>2 DEF Recorded
  <2>2. distance \in Nat \ {0}
    BY <1>0, <1>2
  <2>3. bitmap \subseteq 0..(Window - 1)
    BY <1>0, <2>2 DEF Shifted
  <2>4. \A b \in state.bitmap : b + distance < Window => b + distance \in bitmap
    BY DEF Shifted
  <2> HIDE DEF bitmap
  <2>5. Recorded(state, sequence) \in OriginState
    BY <1>0, <2>1, <2>3 DEF OriginState
  <2>6. PICK after : after = Recorded(state, sequence)
    OBVIOUS
  <2>7. after.initialized /\ after.highest = sequence /\ after.bitmap = bitmap
    BY <1>2, <2>1, <2>6 DEF OriginState
  <2>8. 0 \in bitmap
    BY DEF bitmap
  <2>9. ~Unseen(after, sequence)
    BY <1>0, <2>7, <2>8 DEF Unseen
  <2>10. ASSUME NEW s \in 0..MaxSequence, ~Unseen(state, s)
         PROVE  ~Unseen(after, s)
    <3>1. s <= state.highest
      BY <1>0, <1>2, <2>10 DEF Unseen
    <3>2. sequence - s = (state.highest - s) + distance
      BY <1>0
    <3>3. CASE state.highest - s >= Window
      BY <1>0, <2>2, <2>7, <3>1, <3>2, <3>3 DEF Unseen
    <3>4. CASE state.highest - s \in state.bitmap
      BY <1>0, <2>2, <2>4, <2>7, <3>1, <3>2, <3>4 DEF Unseen
    <3> QED BY <1>0, <2>10, <3>1, <3>3, <3>4 DEF Unseen
  <2> QED BY <2>1, <2>5, <2>6, <2>7, <2>9, <2>10 DEF OriginState
<1>3. CASE state.initialized /\ ~(sequence > state.highest)
  <2> DEFINE bitmap == state.bitmap \cup {state.highest - sequence}
  <2>1. Recorded(state, sequence) = [state EXCEPT !.bitmap = bitmap]
    BY <1>3 DEF Recorded
  <2>2. state.highest - sequence \in 0..(Window - 1)
    BY <1>0, <1>3 DEF Unseen
  <2>3. Recorded(state, sequence) \in OriginState
    BY <1>0, <2>1, <2>2 DEF OriginState
  <2> QED BY <1>0, <1>3, <2>1, <2>2, <2>3 DEF Unseen, OriginState
<1> QED BY <1>0, <1>1, <1>2, <1>3

-----------------------------------------------------------------------------
(* The inductive invariant of the gateway *)

BindingsTyped ==
  \A id \in DOMAIN bindings :
    bindings[id] \in [origin : Origins, expiry : Nat, ended : BOOLEAN]

TableIsBounded ==
  IsFiniteSet(DOMAIN origins) /\ Cardinality(DOMAIN origins) <= MaxOrigins

\* The bucket of a tracked origin is in credit.
BucketSound(state, bucket) ==
  /\ InCredit(bucket.since, bucket.count, state.lastSeen, state.tokenTime,
              state.tokens)
  /\ state.tokenTime <= now

\* An origin that is not tracked may begin with a full bucket: it has waited
\* for it.
NothingOwed(bucket) ==
  bucket.since <= now /\ Paid(bucket.count) <= Earned(bucket.since, now)

BucketsAreSound ==
  \A o \in Origins :
    IF o \in DOMAIN origins THEN BucketSound(origins[o], admitted[o])
    ELSE NothingOwed(admitted[o])

\* A tracked session is the binding it was installed with.
BoundTo(table, book) ==
  \A o \in DOMAIN table :
    table[o].established =>
      LET id == table[o].session IN
      /\ id \in DOMAIN book
      /\ book[id].origin = o /\ book[id].expiry = table[o].expiry
      /\ book[id].ended => table[o].revoked

SessionsAreBound == BoundTo(origins, bindings)

\* Why an accepted datagram is not accepted again: its sequence is in the
\* window of its origin, its time stamp is too old, or its session is over
\* for good.
Remembered(d, table) ==
  /\ d.origin \in DOMAIN table
  /\ LET state == table[d.origin] IN
     /\ state.session = d.session
     /\ state.established <=> d.key = "session"
     /\ ~Unseen(state, d.sequence)
     /\ d.sentAt <= state.lastSeen + ClockSkew

Stale(d) == now - d.sentAt > ClockSkew

SessionIsOver(d, table, book) ==
  /\ d.key = "session" /\ d.session \in DOMAIN book
  /\ \A o \in DOMAIN table :
       table[o].established => table[o].session # d.session

Superseded(d, book) ==
  /\ d.key = "fallback"
  /\ \E id \in DOMAIN book : book[id].origin = d.origin

Past(d, table, book) ==
  \/ Remembered(d, table) \/ Stale(d)
  \/ SessionIsOver(d, table, book) \/ Superseded(d, book)

AcceptedIsPast == \A d \in DOMAIN accepted : Past(d, origins, bindings)

GatewayInv ==
  /\ GatewayTypeOK
  /\ BindingsTyped
  /\ TableIsBounded
  /\ BucketsAreSound
  /\ SessionsAreBound
  /\ AcceptedIsPast
  /\ AcceptedOnce

-----------------------------------------------------------------------------
(* What a datagram is judged against *)

LEMMA ExpiredFacts ==
  ASSUME NEW state \in OriginState
  PROVE  /\ Expired(state) /\ ~state.established => now - state.lastSeen > SessionTimeout
         /\ now - state.lastSeen > SessionTimeout => Expired(state)
BY DEF Expired

LEMMA SweepFacts ==
  /\ DOMAIN Unexpired = {o \in DOMAIN origins : ~Expired(origins[o])}
  /\ \A o \in DOMAIN Unexpired : Unexpired[o] = origins[o]
BY DEF Unexpired

LEMMA NewStateType ==
  ASSUME now \in Time, NEW id \in Sessions, NEW established \in BOOLEAN,
         NEW expiry \in Nat
  PROVE  NewState(id, established, expiry) \in OriginState
<1>1. /\ 0 \in 0..MaxSequence /\ {} \in SUBSET (0..(Window - 1))
      /\ BucketSize \in 0..BucketSize /\ FALSE \in BOOLEAN
  BY PaidFacts, Limits
<1> QED BY <1>1 DEF NewState, OriginState

LEMMA StateNumbers ==
  ASSUME NEW state \in OriginState
  PROVE  /\ state.lastSeen \in Nat /\ state.tokenTime \in Nat
         /\ state.tokens \in Nat /\ state.highest \in Nat
BY PaidFacts, Limits DEF OriginState, Time

LEMMA RefilledFacts ==
  ASSUME NEW state \in OriginState, now \in Time, state.tokenTime <= now
  PROVE  LET after == Refilled(state) IN
         /\ after \in OriginState
         /\ after = [state EXCEPT !.tokens = after.tokens, !.tokenTime = now]
         /\ after.tokens <= state.tokens + Earned(state.tokenTime, now)
<1>1. /\ state.tokenTime \in Nat /\ now \in Nat /\ BucketSize \in Nat
      /\ state.tokens \in Nat
  BY PaidFacts, Limits DEF OriginState, Time
<1> DEFINE tokens == state.tokens + Earned(state.tokenTime, now)
<1>2. tokens \in Nat
  BY <1>1, EarnedType
<1>3. Refilled(state) = [state EXCEPT !.tokens = IF tokens > BucketSize THEN BucketSize
                                                ELSE tokens,
                                     !.tokenTime = now]
  BY DEF Refilled, Earned
<1>4. (IF tokens > BucketSize THEN BucketSize ELSE tokens) \in 0..BucketSize
  BY <1>1, <1>2
<1> HIDE DEF tokens
<1>5. PICK kept \in 0..BucketSize :
        kept = (IF tokens > BucketSize THEN BucketSize ELSE tokens)
  BY <1>4
<1>6. Refilled(state) = [state EXCEPT !.tokens = kept, !.tokenTime = now]
  BY <1>3, <1>5
<1>7. kept <= tokens
  BY <1>1, <1>2, <1>5
<1> QED BY <1>6, <1>7 DEF OriginState, tokens

\* What two states of an origin have in common that differ in their bucket.
SameSession(a, b) ==
  /\ a.session = b.session /\ a.established = b.established
  /\ a.revoked = b.revoked /\ a.expiry = b.expiry
  /\ a.initialized = b.initialized /\ a.highest = b.highest
  /\ a.bitmap = b.bitmap /\ a.lastSeen = b.lastSeen

\* An origin is judged by its own state, or by a new one if it has none or
\* was idle for longer than any datagram stays timely; its bucket is sound
\* in either case.
LEMMA JudgedFacts ==
  ASSUME GatewayTypeOK, BucketsAreSound, NEW d \in Datagram
  PROVE  LET o == d.origin
             state == Judged(d)
         IN
         /\ state \in OriginState
         /\ state.tokenTime = now
         /\ BucketSound(state, admitted[o])
         /\ \/ Tracked(o) /\ SameSession(state, origins[o])
            \/ /\ ~state.established /\ state.session = d.session
               /\ Tracked(o) => /\ ~origins[o].established
                                /\ now - origins[o].lastSeen > SessionTimeout
<1> DEFINE o == d.origin
<1>0. /\ now \in Time /\ now \in Nat /\ o \in Origins /\ d.session \in Sessions
      /\ admitted[o].since \in Nat /\ admitted[o].count \in Nat
      /\ BucketSize \in Nat
  BY PaidFacts, Limits DEF GatewayTypeOK, Datagram, Time
<1> HIDE DEF o
<1>a. o = d.origin BY DEF o
<1>1. ASSUME NEW entry \in OriginState, BucketSound(entry, admitted[o])
      PROVE  /\ Refilled(entry) \in OriginState
             /\ BucketSound(Refilled(entry), admitted[o])
             /\ SameSession(Refilled(entry), entry)
             /\ Refilled(entry).tokenTime = now
  <2>1. PICK after : after = Refilled(entry)
    OBVIOUS
  <2>2. entry.tokenTime <= now
    BY <1>1 DEF BucketSound
  <2>3. /\ after \in OriginState
        /\ after = [entry EXCEPT !.tokens = after.tokens, !.tokenTime = now]
        /\ after.tokens <= entry.tokens + Earned(entry.tokenTime, now)
    BY <1>0, <2>1, <2>2, RefilledFacts
  <2>4. SameSession(after, entry) /\ after.tokenTime = now
    BY <2>3 DEF OriginState, SameSession
  <2>5. /\ entry.lastSeen \in Nat /\ entry.tokenTime \in Nat /\ entry.tokens \in Nat
        /\ after.tokens \in Nat
    BY <1>0, <2>3, StateNumbers
  <2>6. InCredit(admitted[o].since, admitted[o].count, entry.lastSeen, now, after.tokens)
    BY <1>0, <1>1, <2>2, <2>3, <2>5, RefillKeepsCredit DEF BucketSound
  <2>7. BucketSound(after, admitted[o])
    BY <1>0, <2>4, <2>6 DEF BucketSound, SameSession
  <2> QED BY <2>1, <2>3, <2>4, <2>7
<1>2. /\ NewState(d.session, FALSE, 0) \in OriginState
      /\ ~NewState(d.session, FALSE, 0).established
      /\ NewState(d.session, FALSE, 0).session = d.session
      /\ NewState(d.session, FALSE, 0).lastSeen = now
      /\ NewState(d.session, FALSE, 0).tokenTime = now
      /\ NewState(d.session, FALSE, 0).tokens = BucketSize
  BY <1>0, NewStateType DEF NewState
<1>3. CASE ~Tracked(o)
  <2>1. Judged(d) = Refilled(NewState(d.session, FALSE, 0))
    BY <1>a, <1>3, SweepFacts DEF Judged, EntryFor, TableFor, Tracked
  <2>2. NothingOwed(admitted[o])
    BY <1>0, <1>3 DEF BucketsAreSound, Tracked
  <2>3. InCredit(admitted[o].since, admitted[o].count, now, now, BucketSize)
    BY <1>0, <2>2, NewcomerInCredit DEF NothingOwed
  <2>4. PICK entry : entry = NewState(d.session, FALSE, 0)
    OBVIOUS
  <2>5. entry.lastSeen = now /\ entry.tokenTime = now /\ entry.tokens = BucketSize
    BY <1>2, <2>4
  <2>6. now <= now
    BY <1>0
  <2>7. BucketSound(entry, admitted[o])
    BY <2>3, <2>5, <2>6 DEF BucketSound
  <2>8. SameSession(Judged(d), entry)
        /\ Judged(d) \in OriginState /\ BucketSound(Judged(d), admitted[o])
        /\ Judged(d).tokenTime = now
    BY <1>1, <1>2, <2>1, <2>4, <2>7
  <2> QED BY <1>2, <1>3, <1>a, <2>4, <2>8 DEF SameSession
<1>4. CASE Tracked(o)
  <2>0. /\ origins[o] \in OriginState /\ BucketSound(origins[o], admitted[o])
        /\ origins[o].lastSeen \in Nat /\ origins[o].tokenTime \in Nat
    BY <1>0, <1>4, StateNumbers DEF GatewayTypeOK, BucketsAreSound, Tracked
  <2>1. CASE origins[o].established \/ ~Expired(origins[o])
    <3>1. Judged(d) = Refilled(origins[o])
      BY <1>a, <1>4, <2>1 DEF Judged, EntryFor, TableFor, Tracked
    <3> QED BY <1>1, <1>4, <1>a, <2>0, <3>1
  <2>2. CASE ~origins[o].established /\ Expired(origins[o])
    <3> DEFINE entry == [NewState(d.session, FALSE, 0) EXCEPT
                           !.lastSeen = origins[o].lastSeen]
    <3>1. Judged(d) = Refilled(entry)
      BY <1>a, <1>4, <2>2 DEF Judged, EntryFor, TableFor, Tracked
    <3>2. /\ entry \in OriginState /\ entry.lastSeen = origins[o].lastSeen
          /\ entry.tokenTime = now /\ entry.tokens = BucketSize
          /\ ~entry.established /\ entry.session = d.session
      BY <1>2, <2>0 DEF OriginState, NewState
    <3> HIDE DEF entry
    <3>3. now - origins[o].lastSeen > SessionTimeout
      BY <1>0, <2>0, <2>2, ExpiredFacts
    <3>4. InCredit(admitted[o].since, admitted[o].count, origins[o].lastSeen, now,
                   BucketSize)
      BY <1>0, <2>0, <3>3, IdlePaysBack DEF BucketSound
    <3>5. BucketSound(entry, admitted[o])
      BY <1>0, <3>2, <3>4 DEF BucketSound
    <3>6. SameSession(Judged(d), entry)
          /\ Judged(d) \in OriginState /\ BucketSound(Judged(d), admitted[o])
          /\ Judged(d).tokenTime = now
      BY <1>1, <3>1, <3>2, <3>5
    <3> QED BY <1>4, <1>a, <2>2, <3>2, <3>3, <3>6 DEF SameSession
  <2> QED BY <2>1, <2>2
<1> QED BY <1>3, <1>4

-----------------------------------------------------------------------------
(* What a sweep leaves *)

\* What is still to be shown of a table that a sweep may have left behind.
SweepIsSound(table) ==
  /\ DOMAIN table \subseteq DOMAIN origins
  /\ \A o \in DOMAIN table : table[o] = origins[o]
  /\ \A o \in DOMAIN origins : o \notin DOMAIN table => Expired(origins[o])
  /\ BoundTo(table, bindings)
  /\ \A d \in DOMAIN accepted : Past(d, table, bindings)
  /\ AfterSweep(table) \in [Origins -> [since : Time, count : Nat]]
  /\ \A o \in Origins :
       IF o \in DOMAIN table THEN AfterSweep(table)[o] = admitted[o]
       ELSE NothingOwed(AfterSweep(table)[o])

\* A sweep forgets nothing that matters: a datagram taken from an origin that
\* is dropped is too old or belongs to a session that is over, and the bucket
\* of the origin is full again.
LEMMA SweepIsHarmless ==
  ASSUME GatewayInv, NEW table, table = origins \/ table = Unexpired
  PROVE  SweepIsSound(table)
<1>1. /\ GatewayTypeOK /\ SessionsAreBound /\ BucketsAreSound /\ AcceptedIsPast
      /\ now \in Time /\ now \in Nat
  BY Limits DEF GatewayInv, GatewayTypeOK, Time
<1>2. /\ DOMAIN table \subseteq DOMAIN origins
      /\ \A o \in DOMAIN table : table[o] = origins[o]
      /\ \A o \in DOMAIN origins : o \notin DOMAIN table => Expired(origins[o])
  BY SweepFacts
<1>3. BoundTo(table, bindings)
  BY <1>1, <1>2 DEF SessionsAreBound, BoundTo
<1>4. ASSUME NEW d \in DOMAIN accepted
      PROVE  Past(d, table, bindings)
  <2>1. Past(d, origins, bindings) /\ d \in Datagram
    BY <1>1 DEF AcceptedIsPast, GatewayTypeOK
  <2>2. CASE Stale(d) \/ Superseded(d, bindings) \/ SessionIsOver(d, origins, bindings)
    BY <1>2, <2>2 DEF Past, SessionIsOver
  <2>3. CASE Remembered(d, origins) /\ d.origin \in DOMAIN table
    BY <1>2, <2>3 DEF Past, Remembered
  <2>4. CASE Remembered(d, origins) /\ d.origin \notin DOMAIN table
    <3>1. PICK state : state = origins[d.origin]
      OBVIOUS
    <3>2. /\ Expired(state) /\ d.origin \in DOMAIN origins /\ state \in OriginState
          /\ state.session = d.session /\ (state.established <=> d.key = "session")
          /\ d.sentAt <= state.lastSeen + ClockSkew
      BY <1>1, <1>2, <2>4, <3>1 DEF Remembered, GatewayTypeOK
    <3>3. CASE state.established
      <4>1. d.session \in DOMAIN bindings /\ bindings[d.session].origin = d.origin
        BY <1>1, <3>1, <3>2, <3>3 DEF SessionsAreBound, BoundTo
      <4>2. SessionIsOver(d, table, bindings)
        BY <1>3, <2>4, <3>2, <3>3, <4>1 DEF BoundTo, SessionIsOver
      <4> QED BY <4>2 DEF Past
    <3>4. CASE ~state.established
      <4>1. now - state.lastSeen > SessionTimeout
        BY <3>2, <3>4, ExpiredFacts
      <4>2. state.lastSeen \in Nat /\ d.sentAt \in Nat
        BY <2>1, <3>2, StateNumbers, Limits DEF Datagram
      <4>3. Stale(d)
        BY <1>1, <3>2, <4>1, <4>2, Limits DEF Stale
      <4> QED BY <4>3 DEF Past
    <3> QED BY <3>3, <3>4
  <2> QED BY <2>1, <2>2, <2>3, <2>4 DEF Past
<1>5. ASSUME NEW o \in Origins
      PROVE  /\ AfterSweep(table)[o] \in [since : Time, count : Nat]
             /\ IF o \in DOMAIN table THEN AfterSweep(table)[o] = admitted[o]
                ELSE NothingOwed(AfterSweep(table)[o])
  <2>1. admitted[o] \in [since : Time, count : Nat]
        /\ admitted[o].since \in Nat /\ admitted[o].count \in Nat
    BY <1>1, Limits DEF GatewayTypeOK, Time
  <2>2. CASE o \in DOMAIN table \/ o \notin DOMAIN origins
    BY <1>1, <1>2, <2>1, <2>2 DEF AfterSweep, Tracked, BucketsAreSound
  <2>3. CASE o \in DOMAIN origins /\ o \notin DOMAIN table /\ origins[o].established
    <3>1. PICK fresh : fresh = [since |-> now, count |-> 0]
      OBVIOUS
    <3>2. AfterSweep(table)[o] = fresh
      BY <2>3, <3>1 DEF AfterSweep, Tracked
    <3>3. Earned(now, now) \in Nat
      BY <1>1, EarnedType
    <3>4. fresh \in [since : Time, count : Nat] /\ NothingOwed(fresh)
      BY <1>1, <3>1, <3>3, PaidFacts DEF NothingOwed
    <3> QED BY <2>3, <3>2, <3>4
  <2>4. CASE o \in DOMAIN origins /\ o \notin DOMAIN table /\ ~origins[o].established
    <3>1. AfterSweep(table)[o] = admitted[o]
      BY <2>4 DEF AfterSweep, Tracked
    <3>2. PICK state : state = origins[o]
      OBVIOUS
    <3>3. /\ state \in OriginState /\ BucketSound(state, admitted[o])
          /\ now - state.lastSeen > SessionTimeout
      BY <1>1, <1>2, <2>4, <3>2, ExpiredFacts DEF GatewayTypeOK, BucketsAreSound
    <3>4. state.lastSeen \in Nat /\ state.tokenTime \in Nat
      BY <3>3, StateNumbers
    <3>5. InCredit(admitted[o].since, admitted[o].count, state.lastSeen,
                   state.tokenTime, state.tokens) /\ state.tokenTime <= now
      BY <3>3 DEF BucketSound
    <3>6. Paid(admitted[o].count) <= Earned(admitted[o].since, now)
      BY <1>1, <2>1, <3>3, <3>4, <3>5, IdlePaysBack
    <3>7. admitted[o].since <= now
      BY <1>1, <2>1, <3>4, <3>5 DEF InCredit
    <3> QED BY <2>1, <2>4, <3>1, <3>6, <3>7 DEF NothingOwed
  <2> QED BY <2>2, <2>3, <2>4
<1>6. AfterSweep(table) \in [Origins -> [since : Time, count : Nat]]
  BY <1>5 DEF AfterSweep
<1> QED BY <1>2, <1>3, <1>4, <1>5, <1>6 DEF SweepIsSound

\* A table with another origin in it, if there is room for one.
LEMMA TableHasRoom ==
  ASSUME GatewayInv, NEW o \in Origins, HasRoom(o), NEW state
  PROVE  LET table == WithEntry(TableFor(o), o, state) IN
         /\ DOMAIN table = DOMAIN TableFor(o) \cup {o}
         /\ \A p \in DOMAIN table : table[p] = IF p = o THEN state ELSE TableFor(o)[p]
         /\ IsFiniteSet(DOMAIN table) /\ Cardinality(DOMAIN table) <= MaxOrigins
<1>1. /\ DOMAIN WithEntry(TableFor(o), o, state) = DOMAIN TableFor(o) \cup {o}
      /\ \A p \in DOMAIN TableFor(o) \cup {o} :
           WithEntry(TableFor(o), o, state)[p] = IF p = o THEN state ELSE TableFor(o)[p]
  BY DEF WithEntry
<1>2. IsFiniteSet(DOMAIN origins) /\ Cardinality(DOMAIN origins) <= MaxOrigins
  BY DEF GatewayInv, TableIsBounded
<1>3. CASE Tracked(o)
  <2>1. DOMAIN TableFor(o) \cup {o} = DOMAIN origins
    BY <1>3 DEF TableFor, Tracked
  <2> QED BY <1>1, <1>2, <2>1
<1>4. CASE ~Tracked(o)
  <2>1. /\ TableFor(o) = Unexpired /\ o \notin DOMAIN Unexpired
        /\ DOMAIN Unexpired \subseteq DOMAIN origins
        /\ Cardinality(DOMAIN Unexpired) < MaxOrigins
    BY <1>4, SweepFacts DEF TableFor, Tracked, HasRoom
  <2>2. IsFiniteSet(DOMAIN Unexpired) /\ Cardinality(DOMAIN Unexpired) \in Nat
    BY <1>2, <2>1, FS_Subset, FS_CardinalityType
  <2>3. /\ IsFiniteSet(DOMAIN Unexpired \cup {o})
        /\ Cardinality(DOMAIN Unexpired \cup {o}) = Cardinality(DOMAIN Unexpired) + 1
    BY <2>1, <2>2, FS_AddElement
  <2>4. Cardinality(DOMAIN Unexpired \cup {o}) <= MaxOrigins
    BY <2>1, <2>2, <2>3, Limits
  <2> QED BY <1>1, <2>1, <2>3, <2>4
<1> QED BY <1>3, <1>4

\* What a sweep that frees no room leaves is bounded as well.
LEMMA SweptTableIsBounded ==
  ASSUME GatewayInv
  PROVE  IsFiniteSet(DOMAIN Unexpired) /\ Cardinality(DOMAIN Unexpired) <= MaxOrigins
<1>1. IsFiniteSet(DOMAIN origins) /\ Cardinality(DOMAIN origins) <= MaxOrigins
  BY DEF GatewayInv, TableIsBounded
<1>2. DOMAIN Unexpired \subseteq DOMAIN origins
  BY SweepFacts
<1>3. /\ IsFiniteSet(DOMAIN Unexpired) /\ Cardinality(DOMAIN Unexpired) \in Nat
      /\ Cardinality(DOMAIN origins) \in Nat
      /\ Cardinality(DOMAIN Unexpired) <= Cardinality(DOMAIN origins)
  BY <1>1, <1>2, FS_Subset, FS_CardinalityType
<1> QED BY <1>1, <1>3, Limits

-----------------------------------------------------------------------------
(* Every step keeps the invariant *)

LEMMA GatewayInitially == GatewayInit => GatewayInv
<1> SUFFICES ASSUME GatewayInit PROVE GatewayInv
  OBVIOUS
<1>1. /\ DOMAIN origins = {} /\ DOMAIN accepted = {} /\ DOMAIN bindings = {}
      /\ now = 0 /\ 0 \in Time
      /\ admitted \in [Origins -> [since : Time, count : Nat]]
      /\ \A o \in Origins : admitted[o].since = 0 /\ admitted[o].count = 0
  BY Limits DEF GatewayInit, Time
<1>2. IsFiniteSet({}) /\ Cardinality({}) = 0
  BY FS_EmptySet
<1>3. Earned(0, 0) \in Nat
  BY EarnedType
<1>4. GatewayTypeOK /\ TableIsBounded
  BY <1>1, <1>2, Limits DEF GatewayTypeOK, TableIsBounded
<1>5. BucketsAreSound
  BY <1>1, <1>3, PaidFacts DEF BucketsAreSound, NothingOwed
<1> QED BY <1>1, <1>4, <1>5
          DEF GatewayInv, BindingsTyped, SessionsAreBound, BoundTo, AcceptedIsPast, AcceptedOnce

LEMMA TickKeeps == GatewayInv /\ Tick => GatewayInv'
<1> SUFFICES ASSUME GatewayInv, Tick PROVE GatewayInv'
  OBVIOUS
<1>1. /\ now \in Nat /\ now' \in Time /\ now' = now + 1
      /\ UNCHANGED <<origins, accepted, bindings, admitted>>
  BY Limits DEF Tick, GatewayInv, GatewayTypeOK, Time
<1>2. GatewayTypeOK' /\ BindingsTyped' /\ TableIsBounded' /\ SessionsAreBound' /\ AcceptedOnce'
  BY <1>1 DEF GatewayInv, GatewayTypeOK, BindingsTyped, TableIsBounded, SessionsAreBound,
              BoundTo, AcceptedOnce
<1>3. AcceptedIsPast'
  <2>1. ASSUME NEW d \in DOMAIN accepted, Stale(d)
        PROVE  Stale(d)'
    <3>1. d.sentAt \in Int
      BY <2>1, Limits DEF GatewayInv, GatewayTypeOK, Datagram
    <3> QED BY <1>1, <2>1, <3>1, Limits DEF Stale
  <2> QED BY <1>1, <2>1 DEF GatewayInv, AcceptedIsPast, Past, Remembered, SessionIsOver,
                            Superseded, Unseen
<1>4. BucketsAreSound'
  <2>1. ASSUME NEW o \in Origins, o \in DOMAIN origins
        PROVE  BucketSound(origins[o], admitted[o])'
    <3>1. BucketSound(origins[o], admitted[o]) /\ origins[o] \in OriginState
      BY <2>1 DEF GatewayInv, BucketsAreSound, GatewayTypeOK
    <3>2. origins[o].tokenTime \in Nat
      BY <3>1, StateNumbers
    <3> QED BY <1>1, <3>1, <3>2 DEF BucketSound
  <2>2. ASSUME NEW o \in Origins, o \notin DOMAIN origins
        PROVE  NothingOwed(admitted[o])'
    <3>1. NothingOwed(admitted[o]) /\ admitted[o] \in [since : Time, count : Nat]
      BY <2>2 DEF GatewayInv, BucketsAreSound, GatewayTypeOK
    <3>2. admitted[o].since \in Nat /\ admitted[o].count \in Nat
      BY <3>1, Limits DEF Time
    <3>6. PICK later \in Nat : later = now + 1 /\ now <= later
      BY <1>1
    <3>7. now \in Nat /\ admitted[o].since \in Nat /\ now <= later
      BY <1>1, <3>6, <3>2
    <3>8. Earned(admitted[o].since, now) \in Int /\ Earned(now, later) \in Nat
      BY <3>7, EarnedType
    <3>3. Earned(admitted[o].since, later)
            = Earned(admitted[o].since, now) + Earned(now, later)
      BY <3>7, EarnedAdds
    <3>4. Paid(admitted[o].count) \in Nat
      BY <3>2, PaidFacts
    <3>5. admitted[o].since <= later
          /\ Paid(admitted[o].count) <= Earned(admitted[o].since, later)
      BY <1>1, <3>6, <3>8, <3>1, <3>2, <3>3, <3>4 DEF NothingOwed
    <3> QED BY <1>1, <3>6, <3>5 DEF NothingOwed
  <2> QED BY <1>1, <2>1, <2>2 DEF BucketsAreSound
<1> QED BY <1>2, <1>3, <1>4 DEF GatewayInv

LEMMA ExpireKeeps == GatewayInv /\ ExpireIdleOrigins => GatewayInv'
<1> SUFFICES ASSUME GatewayInv, ExpireIdleOrigins PROVE GatewayInv'
  OBVIOUS
<1>1. /\ origins' = Unexpired /\ admitted' = AfterSweep(Unexpired)
      /\ UNCHANGED <<now, accepted, bindings>>
  BY DEF ExpireIdleOrigins
<1>2. SweepIsSound(Unexpired)
  BY SweepIsHarmless
<1>3. GatewayTypeOK' /\ TableIsBounded' /\ SessionsAreBound'
  BY <1>1, <1>2, SweptTableIsBounded
     DEF GatewayInv, GatewayTypeOK, SweepIsSound, TableIsBounded, SessionsAreBound
<1>4. BindingsTyped' /\ AcceptedOnce'
  BY <1>1 DEF GatewayInv, BindingsTyped, AcceptedOnce
<1>5. AcceptedIsPast'
  BY <1>1, <1>2 DEF SweepIsSound, AcceptedIsPast, Past, Stale
<1>6. BucketsAreSound'
  <2>1. ASSUME NEW o \in Origins
        PROVE  IF o \in DOMAIN Unexpired THEN BucketSound(Unexpired[o], AfterSweep(Unexpired)[o])
               ELSE NothingOwed(AfterSweep(Unexpired)[o])
    BY <1>2 DEF SweepIsSound, GatewayInv, BucketsAreSound
  <2> QED BY <1>1, <2>1 DEF BucketsAreSound, BucketSound, NothingOwed
<1> QED BY <1>3, <1>4, <1>5, <1>6 DEF GatewayInv

LEMMA RevokeKeeps == \A revoked : GatewayInv /\ Revoke(revoked) => GatewayInv'
<1> SUFFICES ASSUME NEW revoked, GatewayInv, Revoke(revoked) PROVE GatewayInv'
  OBVIOUS
<1>1. /\ DOMAIN origins' = DOMAIN origins
      /\ \A o \in DOMAIN origins :
           origins'[o] = IF o \in revoked THEN [origins[o] EXCEPT !.revoked = TRUE]
                         ELSE origins[o]
      /\ DOMAIN bindings' = DOMAIN bindings
      /\ \A i \in DOMAIN bindings :
           bindings'[i] = [bindings[i] EXCEPT
                             !.ended = @ \/ bindings[i].origin \in revoked]
      /\ UNCHANGED <<now, accepted, admitted>>
  BY DEF Revoke
<1>2. /\ \A o \in DOMAIN origins : origins[o] \in OriginState
      /\ \A i \in DOMAIN bindings :
           bindings[i] \in [origin : Origins, expiry : Nat, ended : BOOLEAN]
  BY DEF GatewayInv, GatewayTypeOK, BindingsTyped
<1>3. ASSUME NEW o \in DOMAIN origins
      PROVE  /\ origins'[o] \in OriginState
             /\ origins'[o] = [origins[o] EXCEPT !.revoked = origins'[o].revoked]
             /\ origins'[o].revoked = (origins[o].revoked \/ o \in revoked)
  <2>1. CASE o \in revoked
    BY <1>1, <1>2, <2>1 DEF OriginState
  <2>2. CASE o \notin revoked
    BY <1>1, <1>2, <2>2 DEF OriginState
  <2> QED BY <2>1, <2>2
<1>4. ASSUME NEW i \in DOMAIN bindings
      PROVE  /\ bindings'[i] \in [origin : Origins, expiry : Nat, ended : BOOLEAN]
             /\ bindings'[i].origin = bindings[i].origin
             /\ bindings'[i].expiry = bindings[i].expiry
             /\ bindings'[i].ended = (bindings[i].ended \/ bindings[i].origin \in revoked)
  BY <1>1, <1>2
<1>5. ASSUME NEW o \in DOMAIN origins
      PROVE  /\ origins'[o].session = origins[o].session
             /\ origins'[o].established = origins[o].established
             /\ origins'[o].expiry = origins[o].expiry
             /\ origins'[o].lastSeen = origins[o].lastSeen
             /\ origins'[o].tokenTime = origins[o].tokenTime
             /\ origins'[o].tokens = origins[o].tokens
             /\ origins'[o].initialized = origins[o].initialized
             /\ origins'[o].highest = origins[o].highest
             /\ origins'[o].bitmap = origins[o].bitmap
  BY <1>2, <1>3 DEF OriginState
<1>6. GatewayTypeOK' /\ BindingsTyped' /\ TableIsBounded'
  BY <1>1, <1>3, <1>4 DEF GatewayInv, GatewayTypeOK, BindingsTyped, TableIsBounded
<1>7. SessionsAreBound'
  BY <1>1, <1>3, <1>4, <1>5 DEF GatewayInv, SessionsAreBound, BoundTo
<1>8. BucketsAreSound'
  BY <1>1, <1>5 DEF GatewayInv, BucketsAreSound, BucketSound, NothingOwed
<1>9. AcceptedOnce'
  BY <1>1, <1>4 DEF GatewayInv, AcceptedOnce
<1>10. ASSUME NEW d \in DOMAIN accepted
       PROVE  Past(d, origins', bindings')
  <2>1. Past(d, origins, bindings)
    BY DEF GatewayInv, AcceptedIsPast
  <2>2. CASE Remembered(d, origins)
    BY <1>1, <1>5, <2>2 DEF Past, Remembered, Unseen
  <2>3. CASE SessionIsOver(d, origins, bindings)
    BY <1>1, <1>5, <2>3 DEF Past, SessionIsOver
  <2>4. CASE Superseded(d, bindings)
    BY <1>1, <1>4, <2>4 DEF Past, Superseded
  <2> QED BY <2>1, <2>2, <2>3, <2>4 DEF Past
<1> QED BY <1>1, <1>6, <1>7, <1>8, <1>9, <1>10 DEF GatewayInv, AcceptedIsPast, Past, Stale

LEMMA InstallKeeps ==
  \A origin \in Origins, id \in Sessions, expiry \in Time :
    GatewayInv /\ InstallSession(origin, id, expiry) => GatewayInv'
<1> SUFFICES ASSUME NEW origin \in Origins, NEW id \in Sessions, NEW expiry \in Time,
                    GatewayInv, InstallSession(origin, id, expiry)
             PROVE  GatewayInv'
  OBVIOUS
<1> DEFINE table == TableFor(origin)
<1>1. /\ id \notin DOMAIN bindings /\ HasRoom(origin)
      /\ origins' = WithEntry(TableFor(origin), origin, NewState(id, TRUE, expiry))
      /\ bindings' = BindingsAfter(origin, id, expiry)
      /\ admitted' = [AfterSweep(TableFor(origin)) EXCEPT
                        ![origin] = [since |-> now, count |-> 0]]
      /\ now' = now /\ accepted' = accepted
  BY DEF InstallSession
<1>2. /\ now \in Time /\ now \in Nat /\ expiry \in Nat /\ DOMAIN origins \subseteq Origins
      /\ \A o \in DOMAIN origins : origins[o] \in OriginState
      /\ \A i \in DOMAIN bindings :
           bindings[i] \in [origin : Origins, expiry : Nat, ended : BOOLEAN]
  BY Limits DEF GatewayInv, GatewayTypeOK, BindingsTyped, Time
<1>3. SweepIsSound(table)
  BY SweepIsHarmless DEF TableFor
<1> HIDE DEF table
<1>4. PICK state : state = NewState(id, TRUE, expiry)
  OBVIOUS
<1>5. /\ state \in OriginState /\ state.session = id /\ state.established = TRUE
      /\ state.expiry = expiry /\ state.lastSeen = now /\ state.tokenTime = now
      /\ state.tokens = BucketSize
  BY <1>2, <1>4, NewStateType DEF NewState
<1>6. /\ DOMAIN origins' = DOMAIN table \cup {origin}
      /\ \A o \in DOMAIN origins' : origins'[o] = IF o = origin THEN state ELSE table[o]
      /\ TableIsBounded'
  <2>1. origins' = WithEntry(TableFor(origin), origin, state)
    BY <1>1, <1>4
  <2>2. /\ DOMAIN origins' = DOMAIN TableFor(origin) \cup {origin}
        /\ \A o \in DOMAIN origins' :
             origins'[o] = IF o = origin THEN state ELSE TableFor(origin)[o]
    BY <2>1 DEF WithEntry
  <2>3. IsFiniteSet(DOMAIN origins') /\ Cardinality(DOMAIN origins') <= MaxOrigins
    <3>1. HasRoom(origin)
      BY <1>1
    <3> QED BY <2>1, <3>1, TableHasRoom
  <2> QED BY <2>2, <2>3 DEF TableIsBounded, table
<1>7. /\ DOMAIN bindings' = DOMAIN bindings \cup {id}
      /\ bindings'[id] = [origin |-> origin, expiry |-> expiry, ended |-> FALSE]
      /\ \A i \in DOMAIN bindings :
           /\ bindings'[i].origin = bindings[i].origin
           /\ bindings'[i].expiry = bindings[i].expiry
           /\ bindings'[i].ended = (bindings[i].ended \/ bindings[i].origin = origin)
           /\ bindings'[i] \in [origin : Origins, expiry : Nat, ended : BOOLEAN]
  <2> DEFINE old == [i \in DOMAIN bindings |->
                       [bindings[i] EXCEPT !.ended = @ \/ bindings[i].origin = origin]]
  <2>1. bindings' = WithEntry(old, id, [origin |-> origin, expiry |-> expiry, ended |-> FALSE])
    BY <1>1 DEF BindingsAfter
  <2>2. \A i \in DOMAIN bindings : i # id
    BY <1>1
  <2>3. /\ DOMAIN bindings' = DOMAIN bindings \cup {id}
        /\ bindings'[id] = [origin |-> origin, expiry |-> expiry, ended |-> FALSE]
        /\ \A i \in DOMAIN bindings :
             bindings'[i] = [bindings[i] EXCEPT !.ended = @ \/ bindings[i].origin = origin]
    BY <2>1, <2>2 DEF WithEntry
  <2> QED BY <1>2, <2>3
<1>8. \A o \in Origins :
        admitted'[o] = IF o = origin THEN [since |-> now, count |-> 0]
                       ELSE AfterSweep(table)[o]
  BY <1>1, <1>3 DEF SweepIsSound, table
<1>9. GatewayTypeOK' /\ BindingsTyped'
  <2>1. admitted' \in [Origins -> [since : Time, count : Nat]]
    BY <1>1, <1>2, <1>3 DEF SweepIsSound, table
  <2>2. DOMAIN bindings' \subseteq Sessions
    BY <1>7 DEF GatewayInv, GatewayTypeOK
  <2>3. DOMAIN origins' \subseteq Origins
        /\ \A o \in DOMAIN origins' : origins'[o] \in OriginState
    BY <1>2, <1>3, <1>5, <1>6 DEF SweepIsSound
  <2>4. BindingsTyped'
    <3>1. bindings'[id] \in [origin : Origins, expiry : Nat, ended : BOOLEAN]
      BY <1>2, <1>7
    <3> QED BY <1>7, <3>1 DEF BindingsTyped
  <2> QED BY <1>1, <2>1, <2>2, <2>3, <2>4 DEF GatewayInv, GatewayTypeOK
<1>10. SessionsAreBound'
  <2>1. ASSUME NEW o \in DOMAIN table, o # origin, table[o].established
        PROVE  LET i == table[o].session IN
               /\ i \in DOMAIN bindings'
               /\ bindings'[i].origin = o /\ bindings'[i].expiry = table[o].expiry
               /\ bindings'[i].ended => table[o].revoked
    BY <1>3, <1>7, <2>1 DEF SweepIsSound, BoundTo
  <2> QED BY <1>5, <1>6, <1>7, <2>1 DEF SessionsAreBound, BoundTo
<1>11. BucketsAreSound'
  <2>1. Earned(now, now) \in Nat
    BY <1>2, EarnedType
  <2>2. now <= now /\ 0 \in Nat /\ Paid(0) <= Earned(now, now)
    BY <1>2, <2>1, PaidFacts
  <2>3. InCredit(now, 0, now, now, BucketSize)
    BY <1>2, <2>2, NewcomerInCredit
  <2>4. BucketSound(state, [since |-> now, count |-> 0])
    BY <1>5, <2>2, <2>3 DEF BucketSound
  <2>5. ASSUME NEW o \in Origins, o # origin
        PROVE  IF o \in DOMAIN table THEN BucketSound(table[o], AfterSweep(table)[o])
               ELSE NothingOwed(AfterSweep(table)[o])
    BY <1>3 DEF SweepIsSound, GatewayInv, BucketsAreSound
  <2> QED BY <1>1, <1>6, <1>8, <2>4, <2>5 DEF BucketsAreSound, BucketSound, NothingOwed
<1>12. AcceptedOnce'
  BY <1>1, <1>7 DEF GatewayInv, AcceptedOnce
<1>13. ASSUME NEW d \in DOMAIN accepted
       PROVE  Past(d, origins', bindings')
  <2>1. Past(d, table, bindings)
    BY <1>3 DEF SweepIsSound
  <2>2. CASE Remembered(d, table) /\ d.origin # origin
    BY <1>6, <2>2 DEF Past, Remembered
  <2>3. CASE Remembered(d, table) /\ d.origin = origin /\ d.key = "session"
    <3>1. /\ d.session \in DOMAIN bindings /\ bindings[d.session].origin = origin
      BY <1>3, <2>3 DEF SweepIsSound, BoundTo, Remembered
    <3>2. \A o \in DOMAIN table :
            o # origin /\ table[o].established => table[o].session # d.session
      BY <1>3, <3>1 DEF SweepIsSound, BoundTo
    <3>3. state.session # d.session
      BY <1>1, <1>5, <3>1
    <3>4. SessionIsOver(d, origins', bindings')
      BY <1>6, <1>7, <2>3, <3>1, <3>2, <3>3 DEF SessionIsOver
    <3> QED BY <3>4 DEF Past
  <2>4. CASE Remembered(d, table) /\ d.origin = origin /\ d.key # "session"
    <3>1. d.key = "fallback"
      BY <2>4 DEF GatewayInv, GatewayTypeOK, Datagram
    <3> QED BY <1>7, <2>4, <3>1 DEF Past, Superseded
  <2>5. CASE SessionIsOver(d, table, bindings)
    <3>1. state.session # d.session
      BY <1>1, <1>5, <2>5 DEF SessionIsOver
    <3>2. SessionIsOver(d, origins', bindings')
      BY <1>6, <1>7, <2>5, <3>1 DEF SessionIsOver
    <3> QED BY <3>2 DEF Past
  <2>6. CASE Superseded(d, bindings)
    BY <1>7, <2>6 DEF Past, Superseded
  <2> QED BY <2>1, <2>2, <2>3, <2>4, <2>5, <2>6 DEF Past
<1> QED BY <1>1, <1>6, <1>9, <1>10, <1>11, <1>12, <1>13
          DEF GatewayInv, AcceptedIsPast, Past, Stale

-----------------------------------------------------------------------------
(* The datagrams *)

\* What an authentic, timely datagram is: of the session its origin has, or
\* of the fallback key of an origin without one.
LEMMA AuthenticFacts ==
  ASSUME GatewayInv, NEW d \in Datagram, Timely(d), Authentic(d),
         Judged(d).session = d.session
  PROVE  /\ Judged(d).established <=> d.key = "session"
         /\ d.key = "session" =>
              /\ Tracked(d.origin) /\ origins[d.origin].established
              /\ origins[d.origin].session = d.session
              /\ ~origins[d.origin].revoked /\ ~Expired(origins[d.origin])
         /\ ~Stale(d) /\ d.sentAt <= now + ClockSkew
<1>1. /\ GatewayTypeOK /\ BucketsAreSound /\ now \in Nat /\ d.sentAt \in Nat
      /\ d.key \in {"session", "fallback"}
  BY Limits DEF GatewayInv, GatewayTypeOK, Time, Datagram
<1>2. ~Stale(d) /\ d.sentAt <= now + ClockSkew
  BY <1>1, Limits DEF Stale, Timely
<1>3. PICK state : state = Judged(d)
  OBVIOUS
<1>4. \/ Tracked(d.origin) /\ SameSession(state, origins[d.origin])
      \/ /\ ~state.established
         /\ Tracked(d.origin) => ~origins[d.origin].established
  BY <1>1, <1>3, JudgedFacts
<1>5. CASE Tracked(d.origin) /\ origins[d.origin].established
  BY <1>2, <1>3, <1>4, <1>5 DEF Authentic, SameSession
<1>6. CASE ~(Tracked(d.origin) /\ origins[d.origin].established)
  <2>1. d.key = "fallback"
    BY <1>6 DEF Authentic
  <2>2. ~state.established
    BY <1>4, <1>6 DEF SameSession
  <2> QED BY <1>2, <1>3, <2>1, <2>2
<1> QED BY <1>5, <1>6

\* Whatever takes the place of the state it was judged against keeps the past
\* of the other datagrams, if its window forgets nothing.
LEMMA JudgedKeepsPast ==
  ASSUME GatewayInv, NEW d \in Datagram, NEW e \in DOMAIN accepted,
         NEW table, SweepIsSound(table), Tracked(d.origin) => table = origins,
         ~Tracked(d.origin) => d.origin \notin DOMAIN table,
         NEW after, DOMAIN after = DOMAIN table \cup {d.origin},
         \A o \in DOMAIN table : o # d.origin => after[o] = table[o],
         after[d.origin].session = Judged(d).session,
         after[d.origin].established = Judged(d).established,
         Judged(d).lastSeen <= after[d.origin].lastSeen,
         after[d.origin].lastSeen \in Nat,
         \A s \in 0..MaxSequence : ~Unseen(Judged(d), s) => ~Unseen(after[d.origin], s)
  PROVE  Past(e, after, bindings)
<1> DEFINE o == d.origin
<1>1. /\ GatewayTypeOK /\ BucketsAreSound /\ now \in Nat /\ e \in Datagram
      /\ e.sentAt \in Nat /\ e.sequence \in 0..MaxSequence
      /\ e.key \in {"session", "fallback"}
  BY Limits DEF GatewayInv, GatewayTypeOK, Time, Datagram
<1>2. PICK state : state = Judged(d)
  OBVIOUS
<1>3. /\ state \in OriginState
      /\ \/ Tracked(o) /\ SameSession(state, origins[o])
         \/ /\ ~state.established /\ state.session = d.session
            /\ Tracked(o) => /\ ~origins[o].established
                             /\ now - origins[o].lastSeen > SessionTimeout
  BY <1>1, <1>2, JudgedFacts
<1> HIDE DEF o
<1>o. o = d.origin BY DEF o
<1>4. Past(e, table, bindings)
  BY DEF SweepIsSound
<1>5. CASE Remembered(e, table) /\ e.origin # o
  BY <1>o, <1>5 DEF Past, Remembered
<1>6. CASE Remembered(e, table) /\ e.origin = o
  <2>1. Tracked(o) /\ table = origins
    BY <1>o, <1>6 DEF Remembered
  <2>2. PICK old : old = origins[o]
    OBVIOUS
  <2>3. /\ old \in OriginState /\ old.session = e.session
        /\ (old.established <=> e.key = "session") /\ ~Unseen(old, e.sequence)
        /\ e.sentAt <= old.lastSeen + ClockSkew
    BY <1>1, <1>6, <2>1, <2>2 DEF Remembered, GatewayTypeOK, Tracked
  <2>4. old.lastSeen \in Nat /\ state.lastSeen \in Nat
    BY <1>3, <2>3, StateNumbers
  <2>5. CASE SameSession(state, old)
    <3>1. ~Unseen(state, e.sequence)
      BY <2>3, <2>5 DEF SameSession, Unseen
    <3>2. ~Unseen(after[o], e.sequence)
      BY <1>1, <1>2, <1>o, <3>1
    <3>3. e.sentAt <= after[o].lastSeen + ClockSkew
      BY <1>1, <1>2, <1>o, <2>3, <2>4, <2>5, Limits DEF SameSession
    <3>4. Remembered(e, after)
      BY <1>2, <1>6, <1>o, <2>3, <2>5, <3>2, <3>3 DEF Remembered, SameSession
    <3> QED BY <3>4 DEF Past
  <2>6. CASE now - old.lastSeen > SessionTimeout
    BY <1>1, <2>3, <2>4, <2>6, Limits DEF Past, Stale
  <2> QED BY <1>3, <2>2, <2>5, <2>6, <2>1
<1>7. CASE SessionIsOver(e, table, bindings)
  <2>1. after[o].established => after[o].session # e.session
    <3>1. SUFFICES ASSUME after[o].established PROVE after[o].session # e.session
      OBVIOUS
    <3>2. after[o].session = state.session /\ state.established
      BY <1>2, <1>o, <3>1
    <3>3. Tracked(o) /\ SameSession(state, origins[o])
      BY <1>3, <3>2
    <3>4. table = origins /\ o \in DOMAIN table
      BY <1>o, <3>3 DEF Tracked
    <3> QED BY <1>7, <3>2, <3>3, <3>4 DEF SessionIsOver, SameSession
  <2>2. SessionIsOver(e, after, bindings)
    BY <1>7, <1>o, <2>1 DEF SessionIsOver
  <2> QED BY <2>2 DEF Past
<1> QED BY <1>4, <1>5, <1>6, <1>7 DEF Past

LEMMA RefusalKeeps ==
  \A d \in Datagram : GatewayInv /\ ProcessRefuses(d) => GatewayInv'
<1> SUFFICES ASSUME NEW d \in Datagram, GatewayInv, ProcessRefuses(d) PROVE GatewayInv'
  OBVIOUS
<1> DEFINE o == d.origin
<1>1. /\ Tracked(o) /\ origins' = WithEntry(origins, o, Judged(d))
      /\ now' = now /\ accepted' = accepted /\ bindings' = bindings /\ admitted' = admitted
  BY DEF ProcessRefuses
<1>2. GatewayTypeOK /\ BucketsAreSound /\ o \in Origins
  BY DEF GatewayInv, Datagram
<1>3. PICK state : state = Judged(d)
  OBVIOUS
<1>4. /\ state \in OriginState /\ BucketSound(state, admitted[o])
      /\ \/ SameSession(state, origins[o])
         \/ ~state.established /\ state.session = d.session
  BY <1>1, <1>2, <1>3, JudgedFacts
<1>5. /\ DOMAIN origins' = DOMAIN origins
      /\ \A p \in DOMAIN origins : origins'[p] = IF p = o THEN state ELSE origins[p]
  BY <1>1, <1>3 DEF WithEntry, Tracked
<1>6. GatewayTypeOK' /\ BindingsTyped' /\ TableIsBounded' /\ AcceptedOnce'
  BY <1>1, <1>4, <1>5 DEF GatewayInv, GatewayTypeOK, BindingsTyped, TableIsBounded, AcceptedOnce
<1>7. SessionsAreBound'
  <2>1. state.established =>
          LET id == state.session IN
          /\ id \in DOMAIN bindings
          /\ bindings[id].origin = o /\ bindings[id].expiry = state.expiry
          /\ bindings[id].ended => state.revoked
    BY <1>1, <1>4 DEF GatewayInv, SessionsAreBound, BoundTo, SameSession, Tracked
  <2> QED BY <1>1, <1>5, <2>1 DEF GatewayInv, SessionsAreBound, BoundTo
<1>8. BucketsAreSound'
  BY <1>1, <1>2, <1>4, <1>5 DEF BucketsAreSound, BucketSound, NothingOwed, Tracked
<1>9. ASSUME NEW e \in DOMAIN accepted
      PROVE  Past(e, origins', bindings)
  <2>1. SweepIsSound(origins) /\ DOMAIN origins = DOMAIN origins \cup {o}
    BY <1>1, SweepIsHarmless DEF Tracked
  <2>2. origins'[o] = state /\ state.lastSeen \in Nat /\ state.lastSeen <= state.lastSeen
    BY <1>1, <1>4, <1>5, StateNumbers DEF Tracked
  <2>3. \A p \in DOMAIN origins : p # o => origins'[p] = origins[p]
    BY <1>5
  <2> QED BY <1>1, <1>3, <1>5, <2>1, <2>2, <2>3, JudgedKeepsPast
<1> QED BY <1>1, <1>6, <1>7, <1>8, <1>9 DEF GatewayInv, AcceptedIsPast, Past, Stale

\* An accepted datagram had not been accepted before, unless it is one of the
\* fallback key that a session has superseded.
LEMMA AcceptedIsNew ==
  ASSUME GatewayInv, NEW d \in DOMAIN accepted, ProcessAccepts(d)
  PROVE  Superseded(d, bindings)
<1>1. /\ Timely(d) /\ Authentic(d) /\ Judged(d).session = d.session
      /\ Unseen(Judged(d), d.sequence)
  BY DEF ProcessAccepts
<1>2. /\ GatewayTypeOK /\ BucketsAreSound /\ d \in Datagram /\ now \in Nat /\ d.sentAt \in Nat
      /\ Past(d, origins, bindings)
  BY Limits DEF GatewayInv, GatewayTypeOK, Time, Datagram, AcceptedIsPast
<1>3. /\ ~Stale(d)
      /\ d.key = "session" => /\ Tracked(d.origin) /\ origins[d.origin].established
                              /\ origins[d.origin].session = d.session
  BY <1>1, <1>2, AuthenticFacts
<1>4. ~SessionIsOver(d, origins, bindings)
  BY <1>3 DEF SessionIsOver, Tracked
<1>5. ASSUME Remembered(d, origins)
      PROVE  FALSE
  <2>1. PICK state, old : state = Judged(d) /\ old = origins[d.origin]
    OBVIOUS
  <2>2. /\ Tracked(d.origin) /\ old \in OriginState /\ ~Unseen(old, d.sequence)
        /\ d.sentAt <= old.lastSeen + ClockSkew
    BY <1>2, <1>5, <2>1 DEF Remembered, Tracked, GatewayTypeOK
  <2>3. SameSession(state, old) \/ now - old.lastSeen > SessionTimeout
    BY <1>2, <2>1, <2>2, JudgedFacts
  <2>4. ~SameSession(state, old)
    BY <1>1, <2>1, <2>2 DEF SameSession, Unseen
  <2>5. old.lastSeen \in Nat
    BY <2>2, StateNumbers
  <2> QED BY <1>2, <1>3, <2>2, <2>3, <2>4, <2>5, Limits DEF Stale
<1> QED BY <1>2, <1>3, <1>4, <1>5 DEF Past

LEMMA AcceptanceKeeps ==
  \A d \in Datagram : GatewayInv /\ ProcessAccepts(d) => GatewayInv'
<1> SUFFICES ASSUME NEW d \in Datagram, GatewayInv, ProcessAccepts(d) PROVE GatewayInv'
  OBVIOUS
<1> DEFINE o == d.origin
           table == TableFor(o)
           copies == IF d \in DOMAIN accepted THEN accepted[d] ELSE 0
<1>1. /\ Timely(d) /\ Authentic(d) /\ HasRoom(o)
      /\ Judged(d).session = d.session /\ Judged(d).tokens >= PacketCost
      /\ Unseen(Judged(d), d.sequence)
      /\ origins' = WithEntry(table, o, Spent(Recorded(Judged(d), d.sequence)))
      /\ accepted' = WithEntry(accepted, d, copies + 1)
      /\ admitted' = [AfterSweep(table) EXCEPT ![o].count = @ + 1]
      /\ now' = now /\ bindings' = bindings
  BY DEF ProcessAccepts
<1>2. /\ GatewayTypeOK /\ BucketsAreSound /\ o \in Origins /\ now \in Nat /\ now \in Time
      /\ d.sequence \in 0..MaxSequence /\ PacketCost \in Nat
  BY Limits, GatewayAssumption DEF GatewayInv, GatewayTypeOK, Datagram, Time
<1>3. SweepIsSound(table)
  BY SweepIsHarmless DEF TableFor
<1>4. PICK state : state = Judged(d)
  OBVIOUS
<1>5. /\ state \in OriginState /\ state.tokenTime = now
      /\ BucketSound(state, admitted[o])
      /\ \/ Tracked(o) /\ SameSession(state, origins[o])
         \/ ~state.established
  BY <1>2, <1>4, JudgedFacts
<1>6. PICK seen : seen = Recorded(state, d.sequence)
  OBVIOUS
<1>7. /\ seen \in OriginState /\ ~Unseen(seen, d.sequence)
      /\ \A s \in 0..MaxSequence : ~Unseen(state, s) => ~Unseen(seen, s)
      /\ seen = [state EXCEPT !.initialized = seen.initialized, !.highest = seen.highest,
                              !.bitmap = seen.bitmap]
  BY <1>1, <1>2, <1>4, <1>5, <1>6, RecordedFacts
<1>8. PICK after : after = Spent(seen)
  OBVIOUS
<1>9. /\ after \in OriginState /\ after.lastSeen = now /\ after.tokenTime = now
      /\ after.tokens = state.tokens - PacketCost
      /\ after.session = state.session /\ after.established = state.established
      /\ after.expiry = state.expiry /\ after.revoked = state.revoked
      /\ \A s \in 0..MaxSequence : ~Unseen(seen, s) => ~Unseen(after, s)
  <2>1. /\ seen.tokens = state.tokens /\ seen.session = state.session
        /\ seen.established = state.established /\ seen.expiry = state.expiry
        /\ seen.revoked = state.revoked /\ seen.tokenTime = now
    BY <1>5, <1>7 DEF OriginState
  <2>2. after = [seen EXCEPT !.tokens = seen.tokens - PacketCost, !.lastSeen = now]
    BY <1>8 DEF Spent
  <2>3. seen.tokens - PacketCost \in 0..BucketSize
    <3>1. seen.tokens \in 0..BucketSize /\ seen.tokens >= PacketCost
      BY <1>1, <1>4, <1>7, <2>1 DEF OriginState
    <3> QED BY <1>2, <3>1, PaidFacts
  <2>4. after \in OriginState
    BY <1>2, <1>7, <2>2, <2>3 DEF OriginState
  <2>5. /\ after.lastSeen = now /\ after.tokenTime = now
        /\ after.tokens = state.tokens - PacketCost
        /\ after.session = state.session /\ after.established = state.established
        /\ after.expiry = state.expiry /\ after.revoked = state.revoked
        /\ after.initialized = seen.initialized /\ after.highest = seen.highest
        /\ after.bitmap = seen.bitmap
    BY <1>7, <2>1, <2>2 DEF OriginState
  <2> QED BY <2>4, <2>5 DEF Unseen
<1>10. /\ DOMAIN origins' = DOMAIN table \cup {o}
       /\ \A p \in DOMAIN origins' : origins'[p] = IF p = o THEN after ELSE table[p]
       /\ TableIsBounded'
  <2>1. origins' = WithEntry(TableFor(o), o, after)
    BY <1>1, <1>4, <1>6, <1>8
  <2>2. /\ DOMAIN origins' = DOMAIN TableFor(o) \cup {o}
        /\ \A p \in DOMAIN origins' : origins'[p] = IF p = o THEN after ELSE TableFor(o)[p]
    BY <2>1 DEF WithEntry
  <2>3. IsFiniteSet(DOMAIN origins') /\ Cardinality(DOMAIN origins') <= MaxOrigins
    <3>1. HasRoom(o)
      BY <1>1
    <3> QED BY <1>2, <2>1, <3>1, TableHasRoom
  <2> QED BY <2>2, <2>3 DEF TableIsBounded
<1>11. /\ DOMAIN accepted' = DOMAIN accepted \cup {d}
       /\ accepted'[d] = copies + 1
       /\ \A e \in DOMAIN accepted : e # d => accepted'[e] = accepted[e]
  BY <1>1 DEF WithEntry
<1>12. AfterSweep(table)[o] = admitted[o]
  BY <1>2 DEF AfterSweep, TableFor, Tracked
<1>13. /\ admitted' \in [Origins -> [since : Time, count : Nat]]
       /\ admitted'[o].since = admitted[o].since
       /\ admitted'[o].count = admitted[o].count + 1
       /\ \A p \in Origins : p # o => admitted'[p] = AfterSweep(table)[p]
  <2>1. /\ AfterSweep(table) \in [Origins -> [since : Time, count : Nat]]
        /\ admitted[o] \in [since : Time, count : Nat]
    BY <1>2, <1>3 DEF SweepIsSound, GatewayTypeOK
  <2>2. admitted' = [AfterSweep(table) EXCEPT
                       ![o] = [AfterSweep(table)[o] EXCEPT !.count = @ + 1]]
    BY <1>1
  <2>3. [admitted[o] EXCEPT !.count = @ + 1] \in [since : Time, count : Nat]
    BY <2>1
  <2> QED BY <1>2, <1>12, <2>1, <2>2, <2>3
<1> HIDE DEF table, copies
<1>14. GatewayTypeOK' /\ BindingsTyped'
  <2>1. DOMAIN origins' \subseteq Origins
        /\ \A p \in DOMAIN origins' : origins'[p] \in OriginState
    BY <1>2, <1>3, <1>9, <1>10 DEF SweepIsSound, GatewayTypeOK
  <2> QED BY <1>1, <1>2, <1>11, <1>13, <2>1 DEF GatewayInv, GatewayTypeOK, BindingsTyped
<1>15. SessionsAreBound'
  <2>1. state.established =>
          LET id == state.session IN
          /\ id \in DOMAIN bindings
          /\ bindings[id].origin = o /\ bindings[id].expiry = state.expiry
          /\ bindings[id].ended => state.revoked
    BY <1>5 DEF GatewayInv, SessionsAreBound, BoundTo, SameSession, Tracked
  <2> QED BY <1>1, <1>3, <1>9, <1>10, <2>1 DEF SweepIsSound, SessionsAreBound, BoundTo
<1>16. BucketsAreSound'
  <2>1. /\ admitted[o].since \in Nat /\ admitted[o].count \in Nat
        /\ state.lastSeen \in Nat /\ state.tokens \in Nat /\ now <= now
    BY <1>2, <1>5, StateNumbers, Limits DEF GatewayTypeOK, Time
  <2>2. InCredit(admitted[o].since, admitted[o].count, state.lastSeen, now, state.tokens)
    BY <1>5 DEF BucketSound
  <2>3. state.tokens >= PacketCost
    BY <1>1, <1>4
  <2>4. InCredit(admitted[o].since, admitted[o].count + 1, now, now, state.tokens - PacketCost)
    BY <1>2, <2>1, <2>2, <2>3, PacketKeepsCredit
  <2>5. BucketSound(after, admitted'[o])
    BY <1>9, <1>13, <2>1, <2>4 DEF BucketSound
  <2>6. ASSUME NEW p \in Origins, p # o
        PROVE  IF p \in DOMAIN table THEN BucketSound(table[p], AfterSweep(table)[p])
               ELSE NothingOwed(AfterSweep(table)[p])
    BY <1>3 DEF SweepIsSound, GatewayInv, BucketsAreSound
  <2> QED BY <1>1, <1>10, <1>13, <2>5, <2>6 DEF BucketsAreSound, BucketSound, NothingOwed
<1>17. AcceptedOnce'
  <2>1. CASE d \in DOMAIN accepted
    <3>1. Superseded(d, bindings)
      BY <2>1, AcceptedIsNew
    <3> QED BY <1>1, <1>11, <3>1 DEF GatewayInv, AcceptedOnce, Superseded
  <2>2. CASE d \notin DOMAIN accepted
    <3>1. accepted'[d] = 1
      BY <1>11, <2>2 DEF copies
    <3> QED BY <1>1, <1>11, <3>1 DEF GatewayInv, AcceptedOnce
  <2> QED BY <2>1, <2>2
<1>18. Remembered(d, origins')
  <2>1. /\ state.session = d.session
        /\ state.established <=> d.key = "session"
        /\ d.sentAt <= now + ClockSkew
    BY <1>1, <1>4, AuthenticFacts
  <2>2. ~Unseen(after, d.sequence)
    BY <1>2, <1>7, <1>9
  <2> QED BY <1>9, <1>10, <2>1, <2>2 DEF Remembered
<1>19. ASSUME NEW e \in DOMAIN accepted
       PROVE  Past(e, origins', bindings)
  <2>1. /\ Tracked(o) => table = origins
        /\ ~Tracked(o) => o \notin DOMAIN table
    BY SweepFacts DEF table, TableFor, Tracked
  <2>2. /\ origins'[o] = after /\ after.lastSeen \in Nat /\ state.lastSeen <= after.lastSeen
    <3>1. state.lastSeen <= now /\ state.lastSeen \in Nat
      BY <1>2, <1>5, StateNumbers DEF BucketSound, InCredit
    <3> QED BY <1>2, <1>9, <1>10, <3>1
  <2>3. \A p \in DOMAIN table : p # o => origins'[p] = table[p]
    BY <1>10
  <2>4. \A s \in 0..MaxSequence : ~Unseen(state, s) => ~Unseen(after, s)
    BY <1>7, <1>9
  <2> QED BY <1>3, <1>4, <1>9, <1>10, <2>1, <2>2, <2>3, <2>4, JudgedKeepsPast
<1> QED BY <1>1, <1>10, <1>11, <1>14, <1>15, <1>16, <1>17, <1>18, <1>19
          DEF GatewayInv, AcceptedIsPast, Past, Stale

-----------------------------------------------------------------------------
(* The theorems of the gateway *)

LEMMA GatewayStep == GatewayInv /\ [GatewayNext]_gatewayVars => GatewayInv'
<1> SUFFICES ASSUME GatewayInv, [GatewayNext]_gatewayVars PROVE GatewayInv'
  OBVIOUS
<1>1. CASE UNCHANGED gatewayVars
  BY <1>1
     DEF gatewayVars, GatewayInv, GatewayTypeOK, BindingsTyped, TableIsBounded, BucketsAreSound,
         BucketSound, NothingOwed, SessionsAreBound, BoundTo, AcceptedIsPast, Past,
         Remembered, Stale, SessionIsOver, Superseded, AcceptedOnce, Unseen
<1>2. CASE Tick
  BY <1>2, TickKeeps
<1>3. CASE \E origin \in Origins, id \in Sessions, expiry \in Time :
             InstallSession(origin, id, expiry)
  BY <1>3, InstallKeeps
<1>4. CASE \E origin \in Origins, id \in Sessions : RevokeSession(origin, id)
  BY <1>4, RevokeKeeps DEF RevokeSession
<1>5. CASE \E keyId \in KeyIds : RevokeSessionsForKey(keyId)
  BY <1>5, RevokeKeeps DEF RevokeSessionsForKey
<1>6. CASE ExpireIdleOrigins
  BY <1>6, ExpireKeeps
<1>7. CASE \E datagram \in Datagram : ProcessRefuses(datagram) \/ ProcessAccepts(datagram)
  BY <1>7, RefusalKeeps, AcceptanceKeeps
<1> QED BY <1>1, <1>2, <1>3, <1>4, <1>5, <1>6, <1>7 DEF GatewayNext

\* The books, the bindings and the memory of the gateway hold in every state:
\* the invariant the two theorems below follow from.
THEOREM GatewayInvariant == GatewaySpec => []GatewayInv
<1> QED BY GatewayInitially, GatewayStep, PTL DEF GatewaySpec

\* Of a datagram at most one copy is accepted, and of an origin at most what
\* its bucket allows, whatever is forgotten in between
\* (network_security.cpp:236-246, 369-374, 421-472).
THEOREM AdmissionIsBoundedAlways == GatewaySpec => []AdmissionIsBounded
<1>1. ASSUME GatewayInv
      PROVE  RateIsBounded
  <2> SUFFICES ASSUME NEW o \in Origins
               PROVE  Paid(admitted[o].count) <= BucketSize + Earned(admitted[o].since, now)
    BY DEF RateIsBounded, Paid, Earned
  <2>1. /\ now \in Nat /\ admitted[o].since \in Nat /\ admitted[o].count \in Nat
    BY <1>1, Limits DEF GatewayInv, GatewayTypeOK, Time
  <2>2. CASE o \in DOMAIN origins
    <3>1. PICK state : state = origins[o]
      OBVIOUS
    <3>2. state \in OriginState /\ BucketSound(state, admitted[o])
      BY <1>1, <2>2, <3>1 DEF GatewayInv, GatewayTypeOK, BucketsAreSound
    <3>3. state.lastSeen \in Nat /\ state.tokenTime \in Nat
      BY <3>2, StateNumbers
    <3> QED BY <2>1, <3>2, <3>3, CreditBoundsRate DEF BucketSound
  <2>3. CASE o \notin DOMAIN origins
    <3>1. Earned(admitted[o].since, now) \in Int
      BY <2>1, EarnedType
    <3> QED BY <1>1, <2>1, <2>3, <3>1, PaidFacts DEF GatewayInv, BucketsAreSound, NothingOwed
  <2> QED BY <2>2, <2>3
<1>2. GatewayInv => AdmissionIsBounded
  BY <1>1 DEF GatewayInv, AdmissionIsBounded
<1> QED BY <1>2, GatewayInvariant, PTL

\* A datagram of a session is accepted within its session alone, and no origin
\* that is still active leaves the table, which stays within its limit
\* (network_security.cpp:264-268, 379-392, 402-406, 494-504).
THEOREM SessionBoundsAcceptanceAlways == GatewaySpec => SessionBoundsAcceptance
<1>1. ASSUME GatewayInv, GatewayInv', [GatewayNext]_gatewayVars
      PROVE  AcceptsWithinSession
  <2> SUFFICES ASSUME NEW d \in DOMAIN accepted', d.key = "session", accepted' # accepted,
                      d \in DOMAIN accepted => accepted'[d] # accepted[d]
               PROVE  /\ bindings[d.session].origin = d.origin
                      /\ ~bindings[d.session].ended
                      /\ now <= bindings[d.session].expiry
    BY DEF AcceptsWithinSession
  <2>1. PICK e \in Datagram : ProcessAccepts(e)
    BY <1>1 DEF GatewayNext, Tick, InstallSession, RevokeSession, RevokeSessionsForKey, Revoke,
                ExpireIdleOrigins, ProcessRefuses, gatewayVars
  <2>2. d = e
    BY <2>1 DEF ProcessAccepts, WithEntry
  <2>3. /\ Tracked(d.origin) /\ origins[d.origin].established
        /\ origins[d.origin].session = d.session
        /\ ~origins[d.origin].revoked /\ ~Expired(origins[d.origin])
    BY <1>1, <2>1, <2>2, AuthenticFacts DEF ProcessAccepts
  <2>4. /\ bindings[d.session].origin = d.origin /\ ~bindings[d.session].ended
        /\ bindings[d.session].expiry = origins[d.origin].expiry
    BY <1>1, <2>3 DEF GatewayInv, SessionsAreBound, BoundTo, Tracked
  <2>5. now \in Nat /\ origins[d.origin].expiry \in Nat
    BY <1>1, <2>3, Limits DEF GatewayInv, GatewayTypeOK, Tracked, OriginState, Time
  <2> QED BY <2>3, <2>4, <2>5 DEF Expired
<1>2. ASSUME GatewayInv, GatewayInv', [GatewayNext]_gatewayVars
      PROVE  KeepsActiveOrigins
  <2>1. Cardinality(DOMAIN origins') <= MaxOrigins
    BY <1>2 DEF GatewayInv, TableIsBounded
  <2>2. ASSUME NEW o \in DOMAIN origins, ~Expired(origins[o])
        PROVE  o \in DOMAIN origins'
    <3>1. /\ o \in DOMAIN Unexpired
          /\ \A p \in Origins : o \in DOMAIN TableFor(p)
      BY <2>2, SweepFacts DEF TableFor
    <3>2. \A p, table, state :
            o \in DOMAIN table => o \in DOMAIN WithEntry(table, p, state)
      BY DEF WithEntry
    <3>3. CASE UNCHANGED gatewayVars \/ Tick
      BY <3>3 DEF gatewayVars, Tick
    <3>4. CASE ExpireIdleOrigins
      BY <3>1, <3>4 DEF ExpireIdleOrigins
    <3>5. CASE \E origin \in Origins, id \in Sessions, expiry \in Time :
                 InstallSession(origin, id, expiry)
      BY <3>1, <3>2, <3>5 DEF InstallSession
    <3>6. CASE \E revoked : Revoke(revoked)
      BY <3>6 DEF Revoke
    <3>7. CASE \E d \in Datagram : ProcessRefuses(d) \/ ProcessAccepts(d)
      BY <3>1, <3>2, <3>7 DEF ProcessRefuses, ProcessAccepts, Datagram
    <3> QED BY <1>2, <3>3, <3>4, <3>5, <3>6, <3>7
            DEF GatewayNext, RevokeSession, RevokeSessionsForKey
  <2> QED BY <2>1, <2>2 DEF KeepsActiveOrigins
<1> QED BY <1>1, <1>2, GatewayInvariant, PTL DEF GatewaySpec, SessionBoundsAcceptance


-----------------------------------------------------------------------------
(* The link of the replicas *)

Body == [frame : Int, input : Inputs \cup {"other"}]

NumberedDatagram == [id : Nat, epoch : Nat, sequence : Nat, body : Body]

Endpoint ==
  [connected : BOOLEAN, epoch : Nat, next : Nat \ {0}, pending : Seq(NumberedDatagram)]

ReplayWindow == [epoch : Nat, highest : Nat]

\* Earlier in the order of the replay window
Earlier(epoch, sequence, epoch2, sequence2) ==
  epoch < epoch2 \/ (epoch = epoch2 /\ sequence < sequence2)

Queued(endpoint) == {endpoint.pending[i] : i \in 1..Len(endpoint.pending)}

\* The numbers of the datagrams under way and the places the window orders
\* them by agree, all come before what the sender sends next, and what the
\* receiver still takes comes after all that it took.
LinkSound(endpoint, window, datagrams, count, taken) ==
  /\ Earlier(window.epoch, window.highest, endpoint.epoch, endpoint.next)
  /\ \A d \in datagrams :
       /\ Earlier(d.epoch, d.sequence, endpoint.epoch, endpoint.next)
       /\ d.id <= count
       /\ Accepts(window, d) => \A i \in DOMAIN taken : taken[i] < d.id
  /\ \A d, e \in datagrams :
       Earlier(d.epoch, d.sequence, e.epoch, e.sequence) => d.id < e.id
  /\ \A i \in DOMAIN taken : taken[i] <= count
  /\ \A i, j \in DOMAIN taken : i < j => taken[i] < taken[j]

\* Enqueueing gives the datagram the newest number and the next place.
LEMMA EnqueueKeepsLink ==
  ASSUME NEW s \in Endpoint, NEW w \in ReplayWindow, NEW D \in SUBSET NumberedDatagram,
         NEW count \in Nat, NEW taken \in Seq(Nat), LinkSound(s, w, D, count, taken),
         NEW s2 \in Endpoint, s2.epoch = s.epoch, s2.next = s.next + 1,
         NEW d \in NumberedDatagram, d.id = count + 1, d.epoch = s.epoch, d.sequence = s.next
  PROVE  LinkSound(s2, w, D \cup {d}, count + 1, taken)
<1>1. /\ s.epoch \in Nat /\ s.next \in Nat /\ s2.next \in Nat
      /\ w.epoch \in Nat /\ w.highest \in Nat
      /\ \A e \in D \cup {d} : e.id \in Nat /\ e.epoch \in Nat /\ e.sequence \in Nat
      /\ \A i \in DOMAIN taken : taken[i] \in Nat
  BY DEF Endpoint, ReplayWindow, NumberedDatagram
<1>2. Earlier(w.epoch, w.highest, s2.epoch, s2.next)
  BY <1>1 DEF LinkSound, Earlier
<1>3. \A i \in DOMAIN taken : taken[i] <= count + 1 /\ taken[i] < d.id
  BY <1>1 DEF LinkSound
<1>4. ASSUME NEW e \in D \cup {d}
      PROVE  /\ Earlier(e.epoch, e.sequence, s2.epoch, s2.next)
             /\ e.id <= count + 1
             /\ Accepts(w, e) => \A i \in DOMAIN taken : taken[i] < e.id
  <2>1. CASE e \in D
    BY <1>1, <2>1 DEF LinkSound, Earlier
  <2>2. CASE e = d
    BY <1>1, <1>3, <2>2 DEF Earlier
  <2> QED BY <2>1, <2>2
<1>5. ASSUME NEW e \in D \cup {d}, NEW f \in D \cup {d},
             Earlier(e.epoch, e.sequence, f.epoch, f.sequence)
      PROVE  e.id < f.id
  <2>1. CASE e \in D /\ f \in D
    BY <1>5, <2>1 DEF LinkSound
  <2>2. CASE e \in D /\ f = d
    BY <1>1, <2>2 DEF LinkSound
  <2>3. CASE e = d /\ f \in D
    BY <1>1, <1>5, <2>3 DEF LinkSound, Earlier
  <2>4. CASE e = d /\ f = d
    BY <1>1, <1>5, <2>4 DEF Earlier
  <2> QED BY <2>1, <2>2, <2>3, <2>4
<1> QED BY <1>2, <1>3, <1>4, <1>5 DEF LinkSound

\* Receiving a datagram that is under way, accepted or not
LEMMA ReceiveKeepsLink ==
  ASSUME NEW s \in Endpoint, NEW w \in ReplayWindow, NEW D \in SUBSET NumberedDatagram,
         NEW count \in Nat, NEW taken \in Seq(Nat), LinkSound(s, w, D, count, taken),
         NEW d \in D
  PROVE  LET after == IF Accepts(w, d) THEN Append(taken, d.id) ELSE taken IN
         /\ LinkSound(s, WindowAfter(w, d), D, count, after)
         /\ WindowAfter(w, d) \in ReplayWindow /\ after \in Seq(Nat)
<1>1. /\ s.epoch \in Nat /\ s.next \in Nat /\ w.epoch \in Nat /\ w.highest \in Nat
      /\ \A e \in D : e.id \in Nat /\ e.epoch \in Nat /\ e.sequence \in Nat
      /\ \A i \in DOMAIN taken : taken[i] \in Nat
  BY DEF Endpoint, ReplayWindow, NumberedDatagram
<1>2. CASE ~Accepts(w, d)
  BY <1>2 DEF WindowAfter
<1>3. CASE Accepts(w, d)
  <2>1. PICK after : after = Append(taken, d.id)
    OBVIOUS
  <2>2. /\ after \in Seq(Nat) /\ DOMAIN after = 1..(Len(taken) + 1)
        /\ DOMAIN taken = 1..Len(taken) /\ Len(taken) \in Nat
        /\ \A i \in DOMAIN taken : after[i] = taken[i]
        /\ after[Len(taken) + 1] = d.id
    BY <1>1, <2>1
  <2>3. PICK v : v = WindowAfter(w, d)
    OBVIOUS
  <2>4. v = [epoch |-> d.epoch, highest |-> d.sequence] /\ v \in ReplayWindow
    BY <1>1, <1>3, <2>3 DEF WindowAfter, ReplayWindow
  <2>5. /\ \A i \in DOMAIN taken : taken[i] < d.id
        /\ d.id <= count
    BY <1>3 DEF LinkSound
  <2>6. \A i \in DOMAIN after : after[i] <= count
    <3>1. ASSUME NEW i \in DOMAIN after
          PROVE  i \in DOMAIN taken \/ i = Len(taken) + 1
      BY <2>2
    <3> QED BY <2>2, <2>5, <3>1 DEF LinkSound
  <2>7. ASSUME NEW i \in DOMAIN after, NEW j \in DOMAIN after, i < j
        PROVE  after[i] < after[j]
    <3>1. i \in DOMAIN taken /\ (j \in DOMAIN taken \/ j = Len(taken) + 1)
      BY <2>2, <2>7
    <3> QED BY <2>2, <2>5, <2>7, <3>1 DEF LinkSound
  <2>8. ASSUME NEW e \in D, Accepts(v, e), NEW i \in DOMAIN after
        PROVE  after[i] < e.id
    <3>1. Earlier(d.epoch, d.sequence, e.epoch, e.sequence)
      BY <1>1, <2>4, <2>8 DEF Accepts, Earlier
    <3>2. d.id < e.id
      BY <3>1 DEF LinkSound
    <3>3. i \in DOMAIN taken \/ i = Len(taken) + 1
      BY <2>2
    <3> QED BY <1>1, <2>2, <2>5, <3>2, <3>3
  <2>9. Earlier(v.epoch, v.highest, s.epoch, s.next)
    BY <2>4 DEF LinkSound
  <2>10. LinkSound(s, v, D, count, after)
    BY <2>6, <2>7, <2>8, <2>9 DEF LinkSound
  <2> QED BY <1>3, <2>1, <2>2, <2>3, <2>4, <2>10
<1> QED BY <1>2, <1>3

\* Reconnecting opens an epoch before which everything is.
LEMMA ReconnectKeepsLink ==
  ASSUME NEW s \in Endpoint, NEW w \in ReplayWindow, NEW D \in SUBSET NumberedDatagram,
         NEW count \in Nat, NEW taken \in Seq(Nat), LinkSound(s, w, D, count, taken),
         NEW s2 \in Endpoint, s2.epoch = s.epoch + 1, NEW D2 \in SUBSET D
  PROVE  LinkSound(s2, w, D2, count, taken)
<1>1. /\ s.epoch \in Nat /\ s2.epoch \in Nat /\ w.epoch \in Nat
      /\ \A e \in D : e.epoch \in Nat
  BY DEF Endpoint, ReplayWindow, NumberedDatagram
<1>2. Earlier(w.epoch, w.highest, s2.epoch, s2.next)
  BY <1>1 DEF LinkSound, Earlier
<1>3. \A e \in D2 : Earlier(e.epoch, e.sequence, s2.epoch, s2.next)
  BY <1>1 DEF LinkSound, Earlier
<1> QED BY <1>2, <1>3 DEF LinkSound

\* Losing datagrams, and an endpoint that keeps its place
LEMMA FewerKeepLink ==
  ASSUME NEW s, NEW w, NEW D, NEW count, NEW taken, LinkSound(s, w, D, count, taken),
         NEW s2, s2.epoch = s.epoch, s2.next = s.next, NEW D2 \in SUBSET D
  PROVE  LinkSound(s2, w, D2, count, taken)
BY DEF LinkSound

\* Flushing puts on the wire what was pending.
LEMMA FlushFacts ==
  ASSUME NEW s \in Endpoint, NEW n \in 0..Len(s.pending)
  PROVE  /\ Flushed(s, n) \in Endpoint
         /\ Flushed(s, n).epoch = s.epoch /\ Flushed(s, n).next = s.next
         /\ Queued(Flushed(s, n)) \subseteq Queued(s)
         /\ {s.pending[i] : i \in 1..n} \subseteq Queued(s)
         /\ Queued(s) \subseteq NumberedDatagram
<1> DEFINE rest == SubSeq(s.pending, n + 1, Len(s.pending))
<1>1. s.pending \in Seq(NumberedDatagram) /\ Len(s.pending) \in Nat /\ n \in Nat
      /\ n <= Len(s.pending)
  BY DEF Endpoint
<1>2. /\ rest \in Seq(NumberedDatagram)
      /\ \A i \in 1..Len(rest) : i + n \in 1..Len(s.pending) /\ rest[i] = s.pending[i + n]
  BY <1>1
<1>3. Flushed(s, n) = [s EXCEPT !.pending = rest]
  BY DEF Flushed
<1> HIDE DEF rest
<1>4. /\ Flushed(s, n) \in Endpoint /\ Flushed(s, n).pending = rest
      /\ Flushed(s, n).epoch = s.epoch /\ Flushed(s, n).next = s.next
  BY <1>2, <1>3 DEF Endpoint
<1>5. Queued(Flushed(s, n)) \subseteq Queued(s)
  BY <1>2, <1>4 DEF Queued
<1>6. /\ {s.pending[i] : i \in 1..n} \subseteq Queued(s)
      /\ Queued(s) \subseteq NumberedDatagram
  <2>1. 1..n \subseteq 1..Len(s.pending)
    BY <1>1
  <2>2. \A i \in 1..Len(s.pending) : s.pending[i] \in NumberedDatagram
    BY <1>1
  <2> QED BY <2>1, <2>2 DEF Queued
<1> QED BY <1>4, <1>5, <1>6

\* Enqueueing adds one datagram to those pending.
LEMMA EnqueuedFacts ==
  ASSUME sender \in Endpoint, sent \in Nat, NEW body \in Body
  PROVE  LET s == Enqueued(body)
             d == [id |-> sent + 1, epoch |-> sender.epoch, sequence |-> sender.next,
                   body |-> body]
         IN
         /\ s \in Endpoint /\ s.epoch = sender.epoch /\ s.next = sender.next + 1
         /\ d \in NumberedDatagram
         /\ Queued(s) = Queued(sender) \cup {d}
         /\ Len(s.pending) = Len(sender.pending) + 1
<1> DEFINE d == [id |-> sent + 1, epoch |-> sender.epoch, sequence |-> sender.next,
                 body |-> body]
<1>1. /\ sender \in Endpoint /\ sender.pending \in Seq(NumberedDatagram)
      /\ Len(sender.pending) \in Nat
      /\ d \in NumberedDatagram
  BY DEF Endpoint, NumberedDatagram
<1>2. PICK p : p = Append(sender.pending, d)
  OBVIOUS
<1>3. /\ p \in Seq(NumberedDatagram) /\ Len(p) = Len(sender.pending) + 1
      /\ \A i \in 1..Len(sender.pending) : p[i] = sender.pending[i]
      /\ p[Len(sender.pending) + 1] = d
  BY <1>1, <1>2
<1>4. Enqueued(body) = [sender EXCEPT !.next = @ + 1, !.pending = p]
  BY <1>2 DEF Enqueued
<1> HIDE DEF d
<1>8. sender.next + 1 \in Nat \ {0}
  BY DEF Endpoint
<1>5. /\ Enqueued(body) \in Endpoint /\ Enqueued(body).epoch = sender.epoch
      /\ Enqueued(body).next = sender.next + 1 /\ Enqueued(body).pending = p
  BY <1>1, <1>3, <1>4, <1>8 DEF Endpoint
<1>6. 1..Len(p) = 1..Len(sender.pending) \cup {Len(sender.pending) + 1}
  BY <1>1, <1>3
<1>7. Queued(Enqueued(body)) = Queued(sender) \cup {d}
  BY <1>3, <1>5, <1>6 DEF Queued
<1> QED BY <1>1, <1>3, <1>5, <1>7 DEF d

\* The state of the link, before, after and between the steps of a reconcile;
\* a correction that is under way is one that was exported.
LinkOK(s, w, datagrams, count, taken, record) ==
  /\ s \in Endpoint /\ s.epoch <= MaxEpoch
  /\ w \in ReplayWindow
  /\ datagrams \subseteq NumberedDatagram
  /\ count \in Nat
  /\ taken \in Seq(Nat)
  /\ s.epoch < MaxEpoch => LinkSound(s, w, datagrams \cup Queued(s), count, taken)
  /\ \A d \in datagrams \cup Queued(s) :
       d.body.frame # -1 => <<d.body.frame, d.body.input>> \in record

LEMMA QueuedType ==
  ASSUME NEW s \in Endpoint
  PROVE  Queued(s) \subseteq NumberedDatagram
BY DEF Endpoint, Queued

LEMMA EnqueueOK ==
  ASSUME LinkOK(sender, receiver, wire, sent, delivered, exported),
         NEW body \in Body, NEW record, exported \subseteq record,
         body.frame # -1 => <<body.frame, body.input>> \in record
  PROVE  LinkOK(Enqueued(body), receiver, wire, sent + 1, delivered, record)
<1>1. sender \in Endpoint /\ sent \in Nat /\ receiver \in ReplayWindow /\ delivered \in Seq(Nat)
  BY DEF LinkOK
<1>2. PICK s, d : /\ s = Enqueued(body)
                  /\ d = [id |-> sent + 1, epoch |-> sender.epoch, sequence |-> sender.next,
                          body |-> body]
  OBVIOUS
<1>3. /\ s \in Endpoint /\ s.epoch = sender.epoch /\ s.next = sender.next + 1
      /\ d \in NumberedDatagram /\ Queued(s) = Queued(sender) \cup {d}
  BY <1>1, <1>2, EnqueuedFacts
<1>4. wire \cup Queued(s) = (wire \cup Queued(sender)) \cup {d}
  BY <1>3
<1>5. wire \cup Queued(sender) \in SUBSET NumberedDatagram
  BY <1>1, QueuedType DEF LinkOK
<1>6. d.id = sent + 1 /\ d.epoch = sender.epoch /\ d.sequence = sender.next /\ d.body = body
  BY <1>2
<1>7. ASSUME s.epoch < MaxEpoch
      PROVE  LinkSound(s, receiver, wire \cup Queued(s), sent + 1, delivered)
  <2>1. LinkSound(sender, receiver, wire \cup Queued(sender), sent, delivered)
    BY <1>3, <1>7 DEF LinkOK
  <2>2. LinkSound(s, receiver, (wire \cup Queued(sender)) \cup {d}, sent + 1, delivered)
    BY <1>1, <1>3, <1>5, <1>6, <2>1, EnqueueKeepsLink
  <2> QED BY <1>4, <2>2
<1>8. ASSUME NEW e \in wire \cup Queued(s), e.body.frame # -1
      PROVE  <<e.body.frame, e.body.input>> \in record
  BY <1>4, <1>6, <1>8 DEF LinkOK
<1> QED BY <1>1, <1>2, <1>3, <1>7, <1>8 DEF LinkOK

LEMMA FlushOK ==
  ASSUME NEW s, NEW w, NEW D, NEW count, NEW taken, NEW record,
         LinkOK(s, w, D, count, taken, record), NEW n \in 0..Len(s.pending)
  PROVE  LinkOK(Flushed(s, n), w, D \cup {s.pending[i] : i \in 1..n}, count, taken, record)
<1>1. s \in Endpoint
  BY DEF LinkOK
<1>2. PICK s2, E : s2 = Flushed(s, n) /\ E = {s.pending[i] : i \in 1..n}
  OBVIOUS
<1>3. /\ s2 \in Endpoint /\ s2.epoch = s.epoch /\ s2.next = s.next
      /\ Queued(s2) \subseteq Queued(s) /\ E \subseteq Queued(s)
      /\ Queued(s) \subseteq NumberedDatagram
  BY <1>1, <1>2, FlushFacts
<1>4. (D \cup E) \cup Queued(s2) \in SUBSET (D \cup Queued(s))
  BY <1>3
<1>5. s2.epoch < MaxEpoch => LinkSound(s2, w, (D \cup E) \cup Queued(s2), count, taken)
  BY <1>3, <1>4, FewerKeepLink DEF LinkOK
<1> QED BY <1>2, <1>3, <1>4, <1>5 DEF LinkOK

LEMMA ReceiveOK ==
  ASSUME NEW s, NEW w, NEW D, NEW count, NEW taken, NEW record,
         LinkOK(s, w, D, count, taken, record), NEW d \in D, NEW D2 \in TakenFrom(D, d)
  PROVE  LinkOK(s, WindowAfter(w, d), D2, count,
                IF Accepts(w, d) THEN Append(taken, d.id) ELSE taken, record)
<1>1. /\ s \in Endpoint /\ w \in ReplayWindow /\ count \in Nat /\ taken \in Seq(Nat)
      /\ D \cup Queued(s) \in SUBSET NumberedDatagram /\ d \in D \cup Queued(s)
  BY QueuedType DEF LinkOK
<1>2. PICK v, after : /\ v = WindowAfter(w, d)
                      /\ after = IF Accepts(w, d) THEN Append(taken, d.id) ELSE taken
  OBVIOUS
<1>3. D2 \cup Queued(s) \in SUBSET (D \cup Queued(s)) /\ D2 \subseteq NumberedDatagram
  BY <1>1 DEF TakenFrom
<1>4. ASSUME s.epoch < MaxEpoch
      PROVE  LinkSound(s, v, D2 \cup Queued(s), count, after)
  <2>1. LinkSound(s, w, D \cup Queued(s), count, taken)
    BY <1>4 DEF LinkOK
  <2>2. LinkSound(s, v, D \cup Queued(s), count, after)
    BY <1>1, <1>2, <2>1, ReceiveKeepsLink
  <2> QED BY <1>3, <2>2, FewerKeepLink
<1>5. v \in ReplayWindow
  BY <1>1, <1>2 DEF WindowAfter, ReplayWindow, NumberedDatagram
<1>6. after \in Seq(Nat)
  <2>1. d.id \in Nat
    BY <1>1 DEF NumberedDatagram
  <2> QED BY <1>1, <1>2, <2>1
<1> QED BY <1>1, <1>2, <1>3, <1>4, <1>5, <1>6 DEF LinkOK

-----------------------------------------------------------------------------
(* The replicas *)

Replica(r) ==
  /\ r = [state |-> r.state, inputs |-> r.inputs, reached |-> r.reached,
          history |-> r.history]
  /\ r.state \in Seq(Inputs) /\ r.inputs \in Seq(Inputs)
  /\ Len(r.inputs) = Frame(r)
  /\ r.reached \in 0..Frame(r)

\* The adapter keeps the inputs of the frames the engine keeps snapshots of,
\* and perhaps that of an advance that threw.
HistoryIsWindow(r) ==
  /\ \A f \in 0..(Frame(r) - 1) : f > Frame(r) - Capacity => f \in DOMAIN r.history
  /\ \A f \in DOMAIN r.history :
       f \in 0..Frame(r) /\ f > Frame(r) - Capacity /\ r.history[f] \in Inputs

\* but for frames whose correction was cut short.
HistoryIsTimeline(r, broken) ==
  \A f \in DOMAIN r.history :
    f < Frame(r) /\ f \notin broken => r.history[f] = r.inputs[f + 1]

CanRepeat(r, broken) ==
  r.reached < Frame(r) => \E f \in broken : f \in Correctable(r)

ReplicaSound(r, broken) ==
  Replica(r) /\ HistoryIsWindow(r) /\ HistoryIsTimeline(r, broken) /\ CanRepeat(r, broken)

LEMMA ReplicaNumbers ==
  ASSUME NEW r, Replica(r)
  PROVE  Capacity \in Nat \ {0} /\ Frame(r) \in Nat /\ r.reached \in Nat
         /\ r.reached <= Frame(r) /\ Len(r.inputs) = Frame(r)
BY CoordinatorAssumption DEF Replica, Frame

LEMMA AdvanceKeepsReplica ==
  ASSUME NEW r, NEW broken, ReplicaSound(r, broken), CanAdvance(r), NEW input \in Inputs
  PROVE  LET after == Advanced(r, input) IN
         ReplicaSound(after, broken) /\ Frame(after) = Frame(r) + 1
<1> DEFINE frame == Frame(r)
           history == WithInput(r.history, frame, input)
<1>1. /\ Capacity \in Nat \ {0} /\ frame \in Nat /\ r.reached = frame
      /\ r.state \in Seq(Inputs) /\ r.inputs \in Seq(Inputs)
      /\ Len(r.state) = frame /\ Len(r.inputs) = frame
  BY ReplicaNumbers DEF ReplicaSound, Replica, CanAdvance, Frame
<1>2. PICK after : after = Advanced(r, input)
  OBVIOUS
<1>3. /\ after.state = Append(r.state, input) /\ after.inputs = Append(r.inputs, input)
      /\ after.reached = frame + 1
      /\ after.history = [f \in Retained(history) |-> history[f]]
      /\ after = [state |-> after.state, inputs |-> after.inputs,
                  reached |-> after.reached, history |-> after.history]
  BY <1>2 DEF Advanced
<1>4. Frame(after) = frame + 1
  BY <1>1, <1>3 DEF Frame
<1>5. Replica(after)
  <2>1. after.state \in Seq(Inputs) /\ after.inputs \in Seq(Inputs)
        /\ Len(after.inputs) = frame + 1
    BY <1>1, <1>3
  <2> QED BY <1>1, <1>3, <1>4, <2>1 DEF Replica
<1>6. /\ DOMAIN history = DOMAIN r.history \cup {frame}
      /\ \A f \in DOMAIN history :
           /\ f \in Nat /\ f <= frame
           /\ f # frame => f \in DOMAIN r.history /\ history[f] = r.history[f]
      /\ history[frame] = input
  BY <1>1 DEF WithInput, ReplicaSound, HistoryIsWindow
<1> HIDE DEF history
<1>7. \A f \in DOMAIN history :
        f \in Retained(history) <=> f > frame + 1 - Capacity
  <2>1. ASSUME NEW f \in DOMAIN history
        PROVE  (\A g \in DOMAIN history : g - f < Capacity - 1) <=> frame - f < Capacity - 1
    BY <1>1, <1>6
  <2> QED BY <1>1, <1>6, <2>1 DEF Retained
<1>8. DOMAIN after.history = {f \in DOMAIN history : f > frame + 1 - Capacity}
  BY <1>3, <1>7 DEF Retained
<1>9. \A f \in DOMAIN after.history : after.history[f] = history[f]
  BY <1>3
<1>10. HistoryIsWindow(after)
  <2>1. ASSUME NEW f \in 0..(Frame(after) - 1), f > Frame(after) - Capacity
        PROVE  f \in DOMAIN after.history
    <3>1. f \in DOMAIN history
      <4>1. CASE f = frame
        BY <1>6, <4>1
      <4>2. CASE f < frame
        <5>1. f \in 0..(frame - 1) /\ f > frame - Capacity
          BY <1>1, <1>4, <2>1, <4>2
        <5> QED BY <1>6, <5>1 DEF ReplicaSound, HistoryIsWindow
      <4>3. f = frame \/ f < frame
        BY <1>1, <1>4, <2>1
      <4> QED BY <4>1, <4>2, <4>3
    <3>2. f > frame + 1 - Capacity
      BY <1>1, <1>4, <2>1
    <3> QED BY <1>8, <3>1, <3>2
  <2>2. ASSUME NEW f \in DOMAIN after.history
        PROVE  /\ f \in 0..Frame(after) /\ f > Frame(after) - Capacity
               /\ after.history[f] \in Inputs
    <3>1. f \in DOMAIN history /\ f > frame + 1 - Capacity
      BY <1>8
    <3>2. history[f] \in Inputs
      BY <1>6, <3>1 DEF ReplicaSound, HistoryIsWindow
    <3> QED BY <1>1, <1>4, <1>6, <1>9, <3>1, <3>2
  <2> QED BY <2>1, <2>2 DEF HistoryIsWindow
<1>11. HistoryIsTimeline(after, broken)
  <2> SUFFICES ASSUME NEW f \in DOMAIN after.history, f < Frame(after), f \notin broken
               PROVE  after.history[f] = after.inputs[f + 1]
    BY DEF HistoryIsTimeline
  <2>1. f \in DOMAIN history /\ f \in Nat /\ after.history[f] = history[f]
    BY <1>6, <1>8, <1>9
  <2>2. CASE f = frame
    BY <1>1, <1>3, <1>6, <2>1, <2>2
  <2>3. CASE f < frame
    <3>1. f \in DOMAIN r.history /\ history[f] = r.history[f]
      BY <1>1, <1>6, <2>1, <2>3
    <3>2. r.history[f] = r.inputs[f + 1]
      BY <2>3, <3>1 DEF ReplicaSound, HistoryIsTimeline
    <3>3. after.inputs[f + 1] = r.inputs[f + 1]
      BY <1>1, <1>3, <2>1, <2>3
    <3> QED BY <2>1, <3>1, <3>2, <3>3
  <2> QED BY <1>1, <1>4, <2>1, <2>2, <2>3
<1>12. CanRepeat(after, broken)
  BY <1>1, <1>3, <1>4 DEF CanRepeat
<1> QED BY <1>2, <1>4, <1>5, <1>10, <1>11, <1>12 DEF ReplicaSound

\* An advance that throws leaves an input on record that it may use later.
LEMMA ThrowKeepsReplica ==
  ASSUME NEW r, NEW broken, ReplicaSound(r, broken), NEW input \in Inputs
  PROVE  LET after == AdvanceThrown(r, input) IN
         /\ ReplicaSound(after, broken)
         /\ Frame(after) = Frame(r) /\ after.inputs = r.inputs
<1>1. Capacity \in Nat \ {0} /\ Frame(r) \in Nat
  BY ReplicaNumbers DEF ReplicaSound
<1>2. PICK after : after = AdvanceThrown(r, input)
  OBVIOUS
<1>3. after = [state |-> r.state, inputs |-> r.inputs, reached |-> r.reached,
               history |-> WithInput(r.history, Frame(r), input)]
  BY <1>2 DEF AdvanceThrown, ReplicaSound, Replica
<1>4. Frame(after) = Frame(r)
  BY <1>3 DEF Frame
<1>5. Replica(after)
  BY <1>3, <1>4 DEF ReplicaSound, Replica
<1>6. /\ DOMAIN after.history = DOMAIN r.history \cup {Frame(r)}
      /\ \A f \in DOMAIN r.history : f # Frame(r) => after.history[f] = r.history[f]
      /\ after.history[Frame(r)] = input
  BY <1>3 DEF WithInput
<1>7. HistoryIsWindow(after)
  BY <1>1, <1>4, <1>6 DEF ReplicaSound, HistoryIsWindow
<1>8. HistoryIsTimeline(after, broken)
  BY <1>1, <1>3, <1>4, <1>6 DEF ReplicaSound, HistoryIsTimeline
<1>9. CanRepeat(after, broken)
  BY <1>3, <1>4 DEF ReplicaSound, CanRepeat, Correctable
<1> QED BY <1>2, <1>3, <1>4, <1>5, <1>7, <1>8, <1>9 DEF ReplicaSound

LEMMA ChangedInputs ==
  ASSUME NEW r, Replica(r), NEW frame \in 0..(Frame(r) - 1), NEW input \in Inputs
  PROVE  LET inputs == CorrectedInputs(r, frame, input) IN
         /\ inputs \in Seq(Inputs) /\ Len(inputs) = Len(r.inputs)
         /\ inputs[frame + 1] = input
         /\ \A f \in 0..(Frame(r) - 1) : f # frame => inputs[f + 1] = r.inputs[f + 1]
<1>1. /\ r.inputs \in Seq(Inputs) /\ Len(r.inputs) = Frame(r) /\ Frame(r) \in Nat
  BY ReplicaNumbers DEF Replica
<1>2. frame + 1 \in 1..Len(r.inputs)
  BY <1>1
<1> QED BY <1>1, <1>2 DEF CorrectedInputs

\* A correction puts the same input on both records.
LEMMA CorrectionKeepsReplica ==
  ASSUME NEW r, NEW broken, ReplicaSound(r, broken), NEW frame \in Correctable(r),
         NEW input \in Inputs
  PROVE  LET after == Corrected(r, frame, input) IN
         /\ ReplicaSound(after, broken \ {frame})
         /\ Frame(after) = Frame(r)
         /\ after.inputs = CorrectedInputs(r, frame, input)
<1>1. /\ Capacity \in Nat \ {0} /\ Frame(r) \in Nat
      /\ frame \in 0..(Frame(r) - 1) /\ frame > Frame(r) - Capacity
      /\ Replica(r)
  BY ReplicaNumbers DEF ReplicaSound, Correctable
<1>2. PICK inputs : inputs = CorrectedInputs(r, frame, input)
  OBVIOUS
<1>3. /\ inputs \in Seq(Inputs) /\ Len(inputs) = Frame(r)
      /\ inputs[frame + 1] = input
      /\ \A f \in 0..(Frame(r) - 1) : f # frame => inputs[f + 1] = r.inputs[f + 1]
  <2>1. Len(r.inputs) = Frame(r)
    BY <1>1 DEF Replica
  <2>2. LET changed == CorrectedInputs(r, frame, input) IN
        /\ changed \in Seq(Inputs) /\ Len(changed) = Len(r.inputs)
        /\ changed[frame + 1] = input
        /\ \A f \in 0..(Frame(r) - 1) : f # frame => changed[f + 1] = r.inputs[f + 1]
    BY <1>1, ChangedInputs
  <2> QED BY <1>2, <2>1, <2>2
<1>4. PICK after : after = Corrected(r, frame, input)
  OBVIOUS
<1>5. after = [state |-> inputs, inputs |-> inputs, reached |-> Frame(r),
               history |-> WithInput(r.history, frame, input)]
  BY <1>2, <1>4 DEF Corrected
<1>6. Frame(after) = Frame(r)
  BY <1>3, <1>5 DEF Frame
<1>7. Replica(after)
  BY <1>1, <1>3, <1>5, <1>6 DEF Replica
<1>8. /\ DOMAIN after.history = DOMAIN r.history \cup {frame}
      /\ \A f \in DOMAIN r.history : f # frame => after.history[f] = r.history[f]
      /\ after.history[frame] = input
  BY <1>5 DEF WithInput
<1>9. HistoryIsWindow(after)
  BY <1>1, <1>6, <1>8 DEF ReplicaSound, HistoryIsWindow
<1>10. HistoryIsTimeline(after, broken \ {frame})
  <2> SUFFICES ASSUME NEW f \in DOMAIN after.history, f < Frame(r),
                      f \notin broken \ {frame}
               PROVE  after.history[f] = inputs[f + 1]
    BY <1>5, <1>6 DEF HistoryIsTimeline
  <2>1. f \in 0..(Frame(r) - 1)
    BY <1>1, <1>6, <1>9 DEF HistoryIsWindow
  <2> QED BY <1>3, <1>8, <2>1 DEF ReplicaSound, HistoryIsTimeline
<1>11. CanRepeat(after, broken \ {frame})
  BY <1>1, <1>5, <1>6 DEF CanRepeat
<1> QED BY <1>2, <1>4, <1>5, <1>6, <1>7, <1>9, <1>10, <1>11 DEF ReplicaSound

\* One that is cut short leaves a frame whose correction can be made again.
LEMMA CutShortKeepsReplica ==
  ASSUME NEW r, NEW broken, ReplicaSound(r, broken), NEW frame \in Correctable(r),
         NEW input \in Inputs,
         NEW reached \in Nat, frame <= reached, reached < Frame(r)
  PROVE  LET after == CutShort(r, frame, input, reached) IN
         /\ ReplicaSound(after, broken \cup {frame})
         /\ Frame(after) = Frame(r)
         /\ after.inputs = CorrectedInputs(r, frame, input)
<1>1. /\ Capacity \in Nat \ {0} /\ Frame(r) \in Nat
      /\ frame \in 0..(Frame(r) - 1) /\ frame > Frame(r) - Capacity
      /\ Replica(r)
  BY ReplicaNumbers DEF ReplicaSound, Correctable
<1>2. PICK inputs : inputs = CorrectedInputs(r, frame, input)
  OBVIOUS
<1>3. /\ inputs \in Seq(Inputs) /\ Len(inputs) = Frame(r)
      /\ inputs[frame + 1] = input
      /\ \A f \in 0..(Frame(r) - 1) : f # frame => inputs[f + 1] = r.inputs[f + 1]
  <2>1. Len(r.inputs) = Frame(r)
    BY <1>1 DEF Replica
  <2>2. LET changed == CorrectedInputs(r, frame, input) IN
        /\ changed \in Seq(Inputs) /\ Len(changed) = Len(r.inputs)
        /\ changed[frame + 1] = input
        /\ \A f \in 0..(Frame(r) - 1) : f # frame => changed[f + 1] = r.inputs[f + 1]
    BY <1>1, ChangedInputs
  <2> QED BY <1>2, <2>1, <2>2
<1>4. PICK after : after = CutShort(r, frame, input, reached)
  OBVIOUS
<1>5. after = [state |-> r.state, inputs |-> inputs, reached |-> reached,
               history |-> r.history]
  BY <1>1, <1>2, <1>4 DEF CutShort, Replica
<1>6. Frame(after) = Frame(r)
  BY <1>5 DEF Frame
<1>7. reached \in 0..Frame(r) /\ frame <= reached
  BY <1>1
<1>8. Replica(after)
  BY <1>1, <1>3, <1>5, <1>6, <1>7 DEF Replica
<1>9. HistoryIsWindow(after)
  BY <1>5, <1>6 DEF ReplicaSound, HistoryIsWindow
<1>10. HistoryIsTimeline(after, broken \cup {frame})
  <2> SUFFICES ASSUME NEW f \in DOMAIN r.history, f < Frame(r),
                      f \notin broken \cup {frame}
               PROVE  r.history[f] = inputs[f + 1]
    BY <1>5, <1>6 DEF HistoryIsTimeline
  <2>1. f \in 0..(Frame(r) - 1)
    BY <1>1 DEF ReplicaSound, HistoryIsWindow
  <2> QED BY <1>3, <2>1 DEF ReplicaSound, HistoryIsTimeline
<1>11. CanRepeat(after, broken \cup {frame})
  <2>1. frame \in Correctable(after)
    BY <1>1, <1>5, <1>6, <1>7 DEF Correctable
  <2> QED BY <2>1 DEF CanRepeat
<1> QED BY <1>2, <1>4, <1>5, <1>6, <1>8, <1>9, <1>10, <1>11 DEF ReplicaSound

-----------------------------------------------------------------------------
(* The inductive invariant of the replicas *)

LinkInv == LinkOK(sender, receiver, wire, sent, delivered, exported)

ReplicasInv ==
  /\ LinkInv
  /\ exported \subseteq Int \X Inputs
  /\ ReplicaSound(authority, {})
  /\ ReplicaSound(follower, cut)

LEMMA ReplicasInitially == ReplicasInit => ReplicasInv
<1> SUFFICES ASSUME ReplicasInit PROVE ReplicasInv
  OBVIOUS
<1>1. LinkInv
  <2>1. /\ sender = [connected |-> TRUE, epoch |-> 2, next |-> 1, pending |-> <<>>]
        /\ receiver = [epoch |-> 0, highest |-> 0]
        /\ wire = {} /\ sent = 0 /\ delivered = <<>>
    BY DEF ReplicasInit, LinkInit
  <2>2. sender \in Endpoint /\ receiver \in ReplayWindow /\ delivered \in Seq(Nat)
        /\ sender.epoch <= MaxEpoch
    BY <2>1, LinkAssumption DEF Endpoint, ReplayWindow
  <2>3. Queued(sender) = {}
    BY <2>1 DEF Queued
  <2>4. Earlier(receiver.epoch, receiver.highest, sender.epoch, sender.next)
    BY <2>1 DEF Earlier
  <2>5. DOMAIN delivered = {}
    BY <2>1
  <2>6. LinkSound(sender, receiver, wire \cup Queued(sender), sent, delivered)
    BY <2>1, <2>3, <2>4, <2>5 DEF LinkSound
  <2> QED BY <2>1, <2>2, <2>3, <2>6 DEF LinkInv, LinkOK
<1>2. ASSUME NEW broken
      PROVE  ReplicaSound(NewReplica, broken)
  <2>1. PICK r : r = NewReplica
    OBVIOUS
  <2>2. /\ r.state = <<>> /\ r.inputs = <<>> /\ r.reached = 0 /\ DOMAIN r.history = {}
        /\ r = [state |-> r.state, inputs |-> r.inputs, reached |-> r.reached,
                history |-> r.history]
    BY <2>1 DEF NewReplica
  <2>3. Frame(r) = 0 /\ r.state \in Seq(Inputs)
    BY <2>2 DEF Frame
  <2> QED BY <2>1, <2>2, <2>3
          DEF ReplicaSound, Replica, HistoryIsWindow, HistoryIsTimeline, CanRepeat
<1> QED BY <1>1, <1>2 DEF ReplicasInit, ReplicasInv

LEMMA LinkStepKeeps ==
  ReplicasInv /\ LinkStep /\ UNCHANGED <<authority, follower, exported, cut>> => ReplicasInv'
<1> SUFFICES ASSUME ReplicasInv, LinkStep, UNCHANGED <<authority, follower, exported, cut>>
             PROVE  LinkInv'
  BY DEF ReplicasInv
<1>1. /\ LinkOK(sender, receiver, wire, sent, delivered, exported)
      /\ sender \in Endpoint /\ receiver \in ReplayWindow /\ sent \in Nat /\ delivered \in Seq(Nat)
  BY DEF ReplicasInv, LinkInv, LinkOK
<1>2. CASE EnqueueOther
  <2>0. -1 \in Int /\ "other" \in Inputs \cup {"other"}
    OBVIOUS
  <2>1. PICK body : body = [frame |-> -1, input |-> "other"]
    OBVIOUS
  <2>3. body \in Body /\ body.frame = -1
    BY <2>0, <2>1 DEF Body
  <2>2. LinkOK(Enqueued(body), receiver, wire, sent + 1, delivered, exported)
    BY <1>1, <2>3, EnqueueOK
  <2> QED BY <1>2, <2>1, <2>2 DEF EnqueueOther, LinkInv
<1>3. CASE Flush
  <2>1. PICK n \in 0..Len(sender.pending) :
          sender' = Flushed(sender, n) /\ wire' = OnWire(sender, n)
    BY <1>3 DEF Flush
  <2>2. LinkOK(Flushed(sender, n), receiver, wire \cup {sender.pending[i] : i \in 1..n},
               sent, delivered, exported)
    BY <1>1, FlushOK
  <2> QED BY <1>3, <2>1, <2>2 DEF Flush, OnWire, LinkInv
<1>4. CASE Receive
  <2>1. PICK d \in wire :
          /\ wire' \in TakenFrom(wire, d)
          /\ receiver' = WindowAfter(receiver, d)
          /\ delivered' = IF Accepts(receiver, d) THEN Append(delivered, d.id) ELSE delivered
    BY <1>4 DEF Receive
  <2>2. LinkOK(sender, WindowAfter(receiver, d), wire', sent,
               IF Accepts(receiver, d) THEN Append(delivered, d.id) ELSE delivered, exported)
    BY <1>1, <2>1, ReceiveOK
  <2> QED BY <1>4, <2>1, <2>2 DEF Receive, LinkInv
<1>5. CASE Reconnect \/ Disconnect \/ ReconnectFails
  <2>1. PICK D : D = wire \cup Queued(sender)
    OBVIOUS
  <2>2. D \in SUBSET NumberedDatagram /\ wire \subseteq D /\ Queued(sender) \subseteq D
    BY <1>1, <2>1, QueuedType DEF LinkOK
  <2>3. /\ sender' \in Endpoint /\ sender'.epoch <= MaxEpoch
        /\ Queued(sender') \subseteq Queued(sender)
        /\ \/ sender'.epoch = sender.epoch /\ sender'.next = sender.next
           \/ sender'.epoch = sender.epoch + 1
           \/ sender'.epoch = MaxEpoch
    <3>1. sender.epoch \in Nat /\ MaxEpoch \in Nat /\ sender.epoch <= MaxEpoch
      BY <1>1, LinkAssumption DEF LinkOK, Endpoint
    <3>2. CASE Reconnect
      <4>1. PICK epoch : epoch = IF sender.epoch = MaxEpoch THEN MaxEpoch ELSE sender.epoch + 1
        OBVIOUS
      <4>2. sender' = [connected |-> TRUE, epoch |-> epoch, next |-> 1, pending |-> <<>>]
        BY <3>2, <4>1 DEF Reconnect
      <4>3. epoch \in Nat /\ epoch <= MaxEpoch /\ (epoch = MaxEpoch \/ epoch = sender.epoch + 1)
        BY <3>1, <4>1
      <4>4. sender' \in Endpoint /\ sender'.epoch = epoch
        BY <4>2, <4>3 DEF Endpoint
      <4>5. Queued(sender') = {}
        BY <4>2 DEF Queued
      <4> QED BY <4>3, <4>4, <4>5
    <3>3. CASE Disconnect
      <4>1. /\ sender' \in Endpoint /\ sender'.pending = <<>>
            /\ sender'.epoch = sender.epoch /\ sender'.next = sender.next
        <5>1. <<>> \in Seq(NumberedDatagram)
          OBVIOUS
        <5>2. PICK none : none = <<>>
          OBVIOUS
        <5>3. sender' = [sender EXCEPT !.connected = FALSE, !.pending = none]
          BY <3>3, <5>2 DEF Disconnect
        <5> QED BY <1>1, <5>1, <5>2, <5>3 DEF Endpoint
      <4>2. Queued(sender') = {}
        BY <4>1 DEF Queued
      <4> QED BY <3>1, <4>1, <4>2
    <3>4. CASE ReconnectFails
      BY <1>1, <3>1, <3>4 DEF ReconnectFails, Endpoint, Queued
    <3> QED BY <1>5, <3>2, <3>3, <3>4
  <2>4. /\ UNCHANGED <<receiver, wire, sent, delivered>>
        /\ wire \cup Queued(sender') \in SUBSET D
    BY <1>5, <2>2, <2>3 DEF Reconnect, Disconnect, ReconnectFails
  <2>5. ASSUME sender'.epoch < MaxEpoch
        PROVE  LinkSound(sender', receiver, wire \cup Queued(sender'), sent, delivered)
    <3>1. sender'.epoch \in Nat /\ sender.epoch \in Nat /\ MaxEpoch \in Nat
      BY <1>1, <2>3, LinkAssumption DEF Endpoint
    <3>2. LinkSound(sender, receiver, D, sent, delivered)
      BY <1>1, <2>1, <2>3, <2>5, <3>1 DEF LinkOK
    <3>3. CASE sender'.epoch = sender.epoch /\ sender'.next = sender.next
      BY <2>4, <3>2, <3>3, FewerKeepLink
    <3>4. CASE sender'.epoch = sender.epoch + 1
      BY <1>1, <2>2, <2>3, <2>4, <3>2, <3>4, ReconnectKeepsLink
    <3> QED BY <2>3, <2>5, <3>1, <3>3, <3>4
  <2>6. \A d \in wire \cup Queued(sender') :
          d.body.frame # -1 => <<d.body.frame, d.body.input>> \in exported
    BY <1>1, <2>3 DEF LinkOK
  <2>7. LinkOK(sender', receiver, wire, sent, delivered, exported)
    BY <1>1, <2>3, <2>5, <2>6 DEF LinkOK
  <2> QED BY <2>4, <2>7 DEF LinkInv
<1> QED BY <1>2, <1>3, <1>4, <1>5 DEF LinkStep

\* What reconcile does up to and with enqueue
LEMMA ExportFacts ==
  ASSUME ReplicasInv, NEW frame \in 0..MaxFrame, Exports(frame)
  PROVE  LET queued == Enqueued(Correction(frame)) IN
         /\ exported' \subseteq Int \X Inputs
         /\ exported \subseteq exported'
         /\ LinkOK(queued, receiver, wire, sent', delivered, exported')
         /\ Len(queued.pending) \in Nat
         /\ {queued.pending[i] : i \in 1..Len(queued.pending)} = Queued(queued)
<1> DEFINE body == Correction(frame)
<1>1. /\ frame \in DOMAIN authority.history /\ sent' = sent + 1
      /\ exported' = exported \cup {<<frame, authority.history[frame]>>}
  BY DEF Exports
<1>2. frame \in Int /\ frame # -1
  BY CoordinatorAssumption
<1>3. authority.history[frame] \in Inputs
  BY <1>1 DEF ReplicasInv, ReplicaSound, HistoryIsWindow
<1>4. /\ body \in Body /\ body.frame = frame /\ body.input = authority.history[frame]
  BY <1>2, <1>3 DEF Correction, Body
<1>5. /\ exported' \subseteq Int \X Inputs /\ exported \subseteq exported'
      /\ <<body.frame, body.input>> \in exported'
  BY <1>1, <1>2, <1>3, <1>4 DEF ReplicasInv
<1> HIDE DEF body
<1>6. LinkOK(Enqueued(body), receiver, wire, sent + 1, delivered, exported')
  BY <1>4, <1>5, EnqueueOK DEF ReplicasInv, LinkInv
<1>7. Len(Enqueued(body).pending) \in Nat
  BY <1>6 DEF LinkOK, Endpoint
<1> QED BY <1>1, <1>5, <1>6, <1>7 DEF body, Queued

LEMMA UnansweredKeeps ==
  \A frame \in 0..MaxFrame :
    ReplicasInv /\ (ReconcileCannotFlush(frame) \/ ReconcileReceivesNothing(frame))
      => ReplicasInv'
<1> SUFFICES ASSUME NEW frame \in 0..MaxFrame, ReplicasInv,
                    ReconcileCannotFlush(frame) \/ ReconcileReceivesNothing(frame)
             PROVE  ReplicasInv'
  OBVIOUS
<1>1. PICK queued : queued = Enqueued(Correction(frame))
  OBVIOUS
<1>2. /\ Exports(frame)
      /\ UNCHANGED <<receiver, delivered, authority, follower, cut>>
      /\ \E n \in 0..Len(queued.pending) :
           sender' = Flushed(queued, n) /\ wire' = OnWire(queued, n)
  <2>1. Len(queued.pending) \in Nat
    BY <1>1, ExportFacts DEF ReconcileCannotFlush, ReconcileReceivesNothing
  <2> QED BY <1>1, <2>1 DEF ReconcileCannotFlush, ReconcileReceivesNothing
<1>3. PICK n \in 0..Len(queued.pending) :
        sender' = Flushed(queued, n) /\ wire' = OnWire(queued, n)
  BY <1>2
<1>4. /\ LinkOK(queued, receiver, wire, sent', delivered, exported')
      /\ exported' \subseteq Int \X Inputs
  BY <1>1, <1>2, ExportFacts
<1>5. LinkOK(Flushed(queued, n), receiver, wire \cup {queued.pending[i] : i \in 1..n},
             sent', delivered, exported')
  BY <1>4, FlushOK
<1> QED BY <1>2, <1>3, <1>4, <1>5 DEF ReplicasInv, LinkInv, OnWire

\* What reconcile does to the follower with the answer it takes
LEMMA ApplyFacts ==
  ASSUME NEW frame \in 0..MaxFrame, NEW input, ReplicaSound(follower, cut), Apply(frame, input),
         input \in Inputs
  PROVE  /\ ReplicaSound(follower', cut')
         /\ Frame(follower') = Frame(follower)
         /\ \A f \in 0..(Frame(follower) - 1) :
              follower'.inputs[f + 1] # follower.inputs[f + 1] =>
                f = frame /\ follower'.inputs[f + 1] = input
<1>1. CASE UNCHANGED <<follower, cut>>
  BY <1>1
<1>2. CASE frame \in Correctable(follower) /\ follower' = Corrected(follower, frame, input)
           /\ cut' = cut \ {frame}
  <2>1. /\ ReplicaSound(follower', cut') /\ Frame(follower') = Frame(follower)
        /\ follower'.inputs = CorrectedInputs(follower, frame, input)
    BY <1>2, CorrectionKeepsReplica
  <2>2. Replica(follower) /\ frame \in 0..(Frame(follower) - 1)
    BY <1>2 DEF ReplicaSound, Correctable
  <2>3. LET changed == CorrectedInputs(follower, frame, input) IN
        /\ changed[frame + 1] = input
        /\ \A f \in 0..(Frame(follower) - 1) :
             f # frame => changed[f + 1] = follower.inputs[f + 1]
    BY <2>2, ChangedInputs
  <2> QED BY <2>1, <2>3
<1>3. CASE /\ frame \in Correctable(follower)
           /\ \E reached \in frame..(Frame(follower) - 1) :
                /\ follower' = CutShort(follower, frame, input, reached)
                /\ cut' = cut \cup {frame}
  <2>1. Replica(follower) /\ frame \in 0..(Frame(follower) - 1) /\ Frame(follower) \in Nat
    BY <1>3, ReplicaNumbers DEF ReplicaSound, Correctable
  <2>2. PICK reached \in Nat : /\ frame <= reached /\ reached < Frame(follower)
                               /\ follower' = CutShort(follower, frame, input, reached)
                               /\ cut' = cut \cup {frame}
    BY <1>3, <2>1
  <2>3. /\ ReplicaSound(follower', cut') /\ Frame(follower') = Frame(follower)
        /\ follower'.inputs = CorrectedInputs(follower, frame, input)
    BY <1>3, <2>2, CutShortKeepsReplica
  <2> QED BY <2>1, <2>3, ChangedInputs
<1> QED BY <1>1, <1>2, <1>3 DEF Apply

\* An answer is a correction the authority has exported for the frame.
LEMMA ReceivesFacts ==
  ASSUME ReplicasInv, NEW frame \in 0..MaxFrame, ReconcileReceives(frame)
  PROVE  /\ LinkInv'
         /\ exported' \subseteq Int \X Inputs
         /\ authority' = authority
         /\ \/ UNCHANGED <<follower, cut>>
            \/ \E input \in Inputs : <<frame, input>> \in exported' /\ Apply(frame, input)
<1>1. PICK queued : queued = Enqueued(Correction(frame))
  OBVIOUS
<1>2. PICK all : all = Len(queued.pending)
  OBVIOUS
<1>3. /\ Exports(frame) /\ sender' = Flushed(queued, all) /\ authority' = authority
  BY <1>1, <1>2 DEF ReconcileReceives
<1>4. PICK d \in OnWire(queued, all) :
        /\ wire' \in TakenFrom(OnWire(queued, all), d)
        /\ receiver' = WindowAfter(receiver, d)
        /\ delivered' = IF Accepts(receiver, d) THEN Append(delivered, d.id) ELSE delivered
        /\ IF Answers(d, frame) THEN Apply(frame, d.body.input) ELSE UNCHANGED <<follower, cut>>
  BY <1>1, <1>2 DEF ReconcileReceives
<1>5. /\ LinkOK(queued, receiver, wire, sent', delivered, exported')
      /\ exported' \subseteq Int \X Inputs /\ all \in Nat
  BY <1>1, <1>2, <1>3, ExportFacts
<1>6. all \in 0..Len(queued.pending)
  BY <1>2, <1>5
<1>7. LinkOK(sender', receiver, OnWire(queued, all), sent', delivered, exported')
  BY <1>3, <1>5, <1>6, FlushOK DEF OnWire
<1>8. LinkOK(sender', receiver', wire', sent', delivered', exported')
  BY <1>4, <1>7, ReceiveOK
<1>9. ASSUME Answers(d, frame)
      PROVE  d.body.input \in Inputs /\ <<frame, d.body.input>> \in exported'
  <2>1. d.body.frame = frame /\ frame # -1
    BY <1>9, CoordinatorAssumption DEF Answers
  <2>2. <<d.body.frame, d.body.input>> \in exported'
    BY <1>4, <1>7, <2>1 DEF LinkOK
  <2> QED BY <1>5, <2>1, <2>2
<1> QED BY <1>3, <1>4, <1>5, <1>8, <1>9 DEF LinkInv

LEMMA ReplicasStep == ReplicasInv /\ [ReplicasNext]_replicaVars => ReplicasInv'
<1> SUFFICES ASSUME ReplicasInv, [ReplicasNext]_replicaVars PROVE ReplicasInv'
  OBVIOUS
<1>1. CASE UNCHANGED replicaVars
  BY <1>1 DEF replicaVars, linkVars, ReplicasInv, LinkInv
<1>2. CASE \E input \in Inputs : AdvanceAuthority(input)
  BY <1>2, AdvanceKeepsReplica DEF AdvanceAuthority, linkVars, ReplicasInv, LinkInv
<1>3. CASE \E input \in Inputs : AdvanceFollower(input)
  BY <1>3, AdvanceKeepsReplica DEF AdvanceFollower, linkVars, ReplicasInv, LinkInv
<1>4. CASE \E input \in Inputs : AdvanceFollowerThrows(input)
  BY <1>4, ThrowKeepsReplica DEF AdvanceFollowerThrows, linkVars, ReplicasInv, LinkInv
<1>5. CASE \E frame \in 0..MaxFrame :
             ReconcileCannotFlush(frame) \/ ReconcileReceivesNothing(frame)
  BY <1>5, UnansweredKeeps
<1>6. CASE \E frame \in 0..MaxFrame : ReconcileReceives(frame)
  <2>1. PICK frame \in 0..MaxFrame : ReconcileReceives(frame)
    BY <1>6
  <2>2. ReplicaSound(follower', cut')
    BY <2>1, ReceivesFacts, ApplyFacts DEF ReplicasInv
  <2> QED BY <2>1, <2>2, ReceivesFacts DEF ReplicasInv
<1>7. CASE LinkStep /\ UNCHANGED <<authority, follower, exported, cut>>
  BY <1>7, LinkStepKeeps
<1> QED BY <1>1, <1>2, <1>3, <1>4, <1>5, <1>6, <1>7 DEF ReplicasNext

\* So do the order of the datagrams under way and the histories of the two
\* replicas.
THEOREM ReplicasInvariant == ReplicasSpec => []ReplicasInv
<1> QED BY ReplicasInitially, ReplicasStep, PTL DEF ReplicasSpec

-----------------------------------------------------------------------------
(* The theorems of the replicas *)

\* The receiver stays behind the sender and takes what is sent in order, and
\* each replica can export the inputs its state was computed with for as long
\* as it can correct them (distributed_reference.cpp:266-281, 406-422;
\* dcore_replica_adapter.cpp:109-117, 152-153).
THEOREM ReplicasAgreeAlways == ReplicasSpec => []ReplicasAgree
<1>1. ASSUME ReplicasInv
      PROVE  WindowBehindSender /\ DeliveredInOrder
  <2>1. SUFFICES ASSUME sender.epoch < MaxEpoch
                 PROVE  /\ Earlier(receiver.epoch, receiver.highest, sender.epoch, sender.next)
                        /\ \A i, j \in DOMAIN delivered : i < j => delivered[i] < delivered[j]
    BY DEF WindowBehindSender, DeliveredInOrder, Earlier
  <2>2. LinkSound(sender, receiver, wire \cup Queued(sender), sent, delivered)
    BY <1>1, <2>1 DEF ReplicasInv, LinkInv, LinkOK
  <2> QED BY <2>2 DEF LinkSound
<1>2. ASSUME NEW r, NEW broken, ReplicaSound(r, broken)
      PROVE  /\ Correctable(r) \subseteq DOMAIN r.history
             /\ \A f \in DOMAIN r.history :
                  f < Frame(r) /\ f \notin broken => r.history[f] = r.inputs[f + 1]
  BY <1>2 DEF ReplicaSound, HistoryIsWindow, HistoryIsTimeline, Correctable
<1>3. ReplicasInv => CorrectableIsExportable /\ ExportIsTimeline
  BY <1>2 DEF ReplicasInv, CorrectableIsExportable, ExportIsTimeline
<1>4. ReplicasInv => CutShortCanBeRepeated
  BY DEF ReplicasInv, ReplicaSound, CanRepeat, CutShortCanBeRepeated
<1>5. ReplicasInv => ReplicasAgree
  BY <1>1, <1>3, <1>4 DEF ReplicasAgree
<1> QED BY <1>5, ReplicasInvariant, PTL

\* A reconcile changes the follower in its own frame alone, to an input the
\* authority exported for that frame (distributed_reference.cpp:507-517).
THEOREM CorrectsWhatWasAskedAlways == ReplicasSpec => CorrectsWhatWasAsked
<1>1. ASSUME ReplicasInv, [ReplicasNext]_replicaVars
      PROVE  CorrectsAsAsked
  <2>1. SUFFICES ASSUME Frame(follower') = Frame(follower),
                        NEW f \in 0..(Frame(follower) - 1),
                        follower'.inputs[f + 1] # follower.inputs[f + 1]
                 PROVE  <<f, follower'.inputs[f + 1]>> \in exported'
    BY DEF CorrectsAsAsked
  <2>2. ASSUME NEW input \in Inputs, AdvanceFollower(input)
        PROVE  FALSE
    <3>1. Frame(follower') = Frame(follower) + 1
      BY <1>1, <2>2, AdvanceKeepsReplica DEF AdvanceFollower, ReplicasInv
    <3>2. Frame(follower) \in Nat
      BY <1>1, ReplicaNumbers DEF ReplicasInv, ReplicaSound
    <3> QED BY <2>1, <3>1, <3>2
  <2>3. ASSUME NEW input \in Inputs, AdvanceFollowerThrows(input)
        PROVE  FALSE
    BY <1>1, <2>1, <2>3, ThrowKeepsReplica DEF AdvanceFollowerThrows, ReplicasInv
  <2>4. PICK frame \in 0..MaxFrame : ReconcileReceives(frame)
    BY <1>1, <2>1, <2>2, <2>3
       DEF ReplicasNext, AdvanceAuthority, ReconcileCannotFlush, ReconcileReceivesNothing,
           replicaVars
  <2>5. PICK input \in Inputs : <<frame, input>> \in exported' /\ Apply(frame, input)
    BY <1>1, <2>1, <2>4, ReceivesFacts
  <2>6. f = frame /\ follower'.inputs[f + 1] = input
    BY <1>1, <2>1, <2>5, ApplyFacts DEF ReplicasInv
  <2> QED BY <2>5, <2>6
<1> QED BY <1>1, ReplicasInvariant, PTL DEF ReplicasSpec, CorrectsWhatWasAsked

-----------------------------------------------------------------------------
(* SessionSecurity.  The inductive invariant.                              *)

\* What a hello is matched by: a client draws a nonce once for a key.
SameHello(a, b) == a.key = b.key /\ a.origin = b.origin /\ a.nonce = b.nonce

HellosTyped ==
  /\ serverTime \in Nat /\ sessions \in Nat
  /\ \A h \in hellos : h.sentAt \in Nat /\ h.key \in Keys /\ h.origin \in Peers
  /\ \A a, b \in hellos : SameHello(a, b) => a = b

\* A reply was made for a hello that was fresh then, under a key that was
\* valid then and admits its role, and ends no later than the key.
ReplyIsGrounded(r) ==
  /\ r.issued \in Nat /\ r.expires \in Nat /\ r.session \in Nat
  /\ r.session <= sessions /\ r.issued <= serverTime
  /\ r.key \in Keys /\ r.origin \in Peers
  /\ r.role \in Validity[r.key].roles
  /\ Validity[r.key].notBefore <= r.issued /\ r.expires <= Validity[r.key].notAfter
  /\ r.expires = Validity[r.key].notAfter \/ r.expires = r.issued + SessionLifetime
  /\ \E h \in hellos :
       /\ h.key = r.key /\ h.origin = r.origin /\ h.nonce = r.clientNonce
       /\ h.sentAt <= r.issued + HelloSkew

RepliesGrounded == \A r \in replies : ReplyIsGrounded(r)

\* While a session may still be in force its hello is among the entries.
RepliesRemembered ==
  \A r \in replies : serverTime <= r.expires =>
    \E e \in replay : /\ e.key = r.key /\ e.origin = r.origin
                      /\ e.nonce = r.clientNonce /\ e.expires = r.expires

RepliesUnique ==
  \A a, b \in replies :
    (a.key = b.key /\ a.origin = b.origin /\ a.clientNonce = b.clientNonce) => a = b

ClientsExpect == \A c \in clients : c.secrets \in replies /\ Expected(c.hello, c.secrets)

\* Every session is with the host, in the gateway or ended, and one that
\* ended is not in force again.
SessionsInPlace ==
  /\ pending \subseteq replies /\ ended \subseteq replies
  /\ pending \cap ended = {}
  /\ \A o \in DOMAIN gateway :
       /\ gateway[o] = [secrets |-> gateway[o].secrets, revoked |-> gateway[o].revoked]
       /\ gateway[o].secrets \in replies /\ gateway[o].secrets.origin = o
       /\ gateway[o].revoked \in BOOLEAN
       /\ gateway[o].secrets \notin pending
       /\ ~gateway[o].revoked => gateway[o].secrets \notin ended

RulesTyped == rules \in Seq(RuleBook)

\* Some rule entitles a session to an entity at a time.
Entitles(rule, s, entity, at) ==
  /\ rule.role = s.role
  /\ rule.operation = "SubmitInput"
  /\ rule.origin \in {Anyone, s.origin}
  /\ rule.key \in {Anyone, s.key.id}
  /\ s.key.epoch >= rule.minEpoch /\ s.key.epoch <= rule.maxEpoch
  /\ ~rule.anyEntity => rule.first <= entity /\ entity <= rule.last
  /\ rule.notBefore <= at /\ at < rule.notAfter

ExecutedRightly ==
  \A x \in executed :
    LET s == x.client.secrets IN
    /\ s.role \in Validity[s.key].roles
    /\ x.at \in Validity[s.key].notBefore..Validity[s.key].notAfter
    /\ RequireConfidentialTransport => TransportValid(x.transport)
    /\ \E i \in DOMAIN rules : Entitles(rules[i], s, x.entity, x.at)

SessionInv ==
  /\ HellosTyped /\ RepliesGrounded /\ RepliesRemembered /\ RepliesUnique
  /\ ClientsExpect /\ SessionsInPlace /\ RulesTyped /\ ExecutedRightly

-----------------------------------------------------------------------------
(* Its steps.                                                              *)

LEMMA SessionLimits ==
  /\ HelloSkew \in Nat /\ SessionLifetime \in Nat
  /\ SessionLifetime >= 2 * HelloSkew
  /\ \A k \in Keys : Validity[k].notBefore \in Nat /\ Validity[k].notAfter \in Nat
  /\ \A r \in RuleBook :
       /\ r.minEpoch \in Nat /\ r.maxEpoch \in Nat /\ r.first \in Nat
       /\ r.last \in Nat /\ r.notBefore \in Nat /\ r.notAfter \in Nat
  /\ RequireConfidentialTransport \in BOOLEAN
BY SessionAssumption

\* A hello that is admitted while a reply to the same hello exists finds the
\* entry of that reply (accept, expire_replay_entries): by the time the entry
\* goes the hello is too old, or its key has ended.
LEMMA AnsweredIsSeen ==
  ASSUME HellosTyped, RepliesGrounded, RepliesRemembered,
         NEW h \in hellos, Admissible(h), NEW r \in replies,
         r.key = h.key, r.origin = h.origin, r.clientNonce = h.nonce
  PROVE  Seen(h, UnexpiredEntries)
<1>1. PICK g \in hellos : /\ g.key = r.key /\ g.origin = r.origin
                          /\ g.nonce = r.clientNonce
                          /\ g.sentAt <= r.issued + HelloSkew
  BY DEF RepliesGrounded, ReplyIsGrounded
<1>2. g = h
  BY <1>1 DEF HellosTyped, SameHello
<1>3. serverTime <= r.expires
  <2>1. /\ serverTime \in Nat /\ h.sentAt \in Nat /\ r.issued \in Nat /\ r.expires \in Nat
        /\ r.key \in Keys
    BY DEF HellosTyped, RepliesGrounded, ReplyIsGrounded
  <2>2. CASE r.expires = Validity[r.key].notAfter
    BY <2>2 DEF Admissible
  <2>3. CASE r.expires = r.issued + SessionLifetime
    <3>1. serverTime - h.sentAt <= HelloSkew
      BY DEF Admissible
    <3>2. h.sentAt <= r.issued + HelloSkew
      BY <1>1, <1>2
    <3> QED BY <2>1, <2>3, <3>1, <3>2, SessionLimits
  <2> QED BY <2>2, <2>3 DEF RepliesGrounded, ReplyIsGrounded
<1>4. PICK e \in replay : /\ e.key = r.key /\ e.origin = r.origin
                          /\ e.nonce = r.clientNonce /\ e.expires = r.expires
  BY <1>3 DEF RepliesRemembered
<1> QED BY <1>3, <1>4 DEF Seen, UnexpiredEntries

\* A batch that the policy accepts is entitled, command by command, by rules
\* that are in it (authorize, authorize_input_batch).
LEMMA AuthorizedIsEntitled ==
  ASSUME RulesTyped, NEW s, NEW transport, NEW time \in Nat, NEW batch,
         AuthorizeInputBatch(rules, Subject(s), transport, time, batch),
         NEW i \in DOMAIN batch
  PROVE  /\ RequireConfidentialTransport => TransportValid(transport)
         /\ \E j \in DOMAIN rules : Entitles(rules[j], s, batch[i], time)
<1> DEFINE request == [subject |-> Subject(s), operation |-> "SubmitInput",
                       entity |-> batch[i], now |-> time, transport |-> transport]
           subject == {j \in DOMAIN rules : ForSubject(rules[j], request)}
           keyed == {j \in subject : ForKey(rules[j], request)}
           covering == {j \in keyed : ForEntity(rules[j], request)}
           active == {j \in covering : Active(rules[j], request)}
<1>1. Authorize(rules, request).reason = "None"
  BY DEF AuthorizeInputBatch
<1>2. /\ ~(RequireConfidentialTransport /\ ~TransportValid(request.transport))
      /\ active # {}
  <2>1. CASE RequireConfidentialTransport /\ ~TransportValid(request.transport)
    BY <1>1, <2>1 DEF Authorize
  <2>2. CASE /\ ~(RequireConfidentialTransport /\ ~TransportValid(request.transport))
             /\ active = {}
    BY <1>1, <2>2 DEF Authorize
  <2> QED BY <2>1, <2>2
<1>3. PICK j \in active : TRUE
  BY <1>2
<1>4. j \in DOMAIN rules /\ rules[j] \in RuleBook
  BY <1>3 DEF RulesTyped
<1>5. Entitles(rules[j], s, batch[i], time)
  BY <1>3, <1>4, SessionLimits
     DEF Entitles, ForSubject, ForKey, ForEntity, Active, Subject
<1> QED BY <1>2, <1>4, <1>5

\* Only time and the sets of hellos and replies are read by what is said of
\* a reply; they only grow.
LEMMA RepliesStayGrounded ==
  ASSUME HellosTyped, RepliesGrounded, serverTime' \in Nat, sessions' \in Nat,
         serverTime <= serverTime', sessions <= sessions', hellos \subseteq hellos',
         NEW r \in replies
  PROVE  ReplyIsGrounded(r)'
<1>1. PICK h \in hellos : /\ h.key = r.key /\ h.origin = r.origin
                          /\ h.nonce = r.clientNonce
                          /\ h.sentAt <= r.issued + HelloSkew
  BY DEF RepliesGrounded, ReplyIsGrounded
<1>2. h \in hellos'
  BY <1>1
<1>3. /\ r.session \in Nat /\ r.issued \in Nat /\ serverTime \in Nat /\ sessions \in Nat
      /\ r.session <= sessions /\ r.issued <= serverTime
  BY DEF HellosTyped, RepliesGrounded, ReplyIsGrounded
<1>4. r.session <= sessions' /\ r.issued <= serverTime'
  BY <1>3
<1>5. \E g \in hellos' :
        /\ g.key = r.key /\ g.origin = r.origin /\ g.nonce = r.clientNonce
        /\ g.sentAt <= r.issued + HelloSkew
  BY <1>1, <1>2
<1> QED BY <1>4, <1>5 DEF RepliesGrounded, ReplyIsGrounded

\* Nobody has said anything yet.
LEMMA SessionInitially == SessionInit => SessionInv
BY DEF SessionInit, SessionInv, HellosTyped, RepliesGrounded, RepliesRemembered,
       RepliesUnique, ClientsExpect, SessionsInPlace, RulesTyped, ExecutedRightly

\* A change of the ring leaves every session where it is.
LEMMA RingKeeps ==
  ASSUME SessionInv, NEW new, Ring(new), UNCHANGED <<gateway, ended>>
  PROVE  SessionInv'
BY DEF SessionInv, Ring, HellosTyped, RepliesGrounded, ReplyIsGrounded,
       RepliesRemembered, RepliesUnique, ClientsExpect, SessionsInPlace, RulesTyped,
       ExecutedRightly, Expected

\* What revoking makes of a session in the gateway.
LEMMA RevokedSession ==
  ASSUME SessionsInPlace, NEW o \in DOMAIN gateway
  PROVE  [gateway[o] EXCEPT !.revoked = TRUE]
           = [secrets |-> gateway[o].secrets, revoked |-> TRUE]
<1>1. PICK s, v : gateway[o] = [secrets |-> s, revoked |-> v]
  BY DEF SessionsInPlace
<1>2. \A yes : [[secrets |-> s, revoked |-> v] EXCEPT !.revoked = yes]
                = [secrets |-> s, revoked |-> yes]
  OBVIOUS
<1>3. gateway[o].secrets = s
  BY <1>1
<1> QED BY <1>1, <1>2, <1>3, Zenon

\* Sessions of other keys are not among those that end.
LEMMA RevokeKeyKeeps ==
  ASSUME SessionInv, NEW k \in Keys, RevokeKeyAndSessions(k)
  PROVE  SessionInv'
<1>1. UNCHANGED <<serverTime, replay, hellos, replies, pending, clients, rules,
                  sessions, executed>>
  BY DEF RevokeKeyAndSessions, Ring
<1>2. SessionsInPlace'
  <2>1. gateway' = RevokedForKey(k)
    BY DEF RevokeKeyAndSessions
  <2>2. DOMAIN gateway' = DOMAIN gateway
    BY <2>1 DEF RevokedForKey
  <2>3. ended' = ended \cup {gateway[o].secrets :
                        o \in {p \in DOMAIN gateway : gateway[p].secrets.key = k}}
    BY DEF RevokeKeyAndSessions
  <2>4. ended' \subseteq replies' /\ pending' \cap ended' = {}
    BY <1>1, <2>3 DEF SessionInv, SessionsInPlace
  <2>5. ASSUME NEW o \in DOMAIN gateway'
        PROVE  /\ gateway'[o] = [secrets |-> gateway'[o].secrets,
                                 revoked |-> gateway'[o].revoked]
               /\ gateway'[o].secrets \in replies' /\ gateway'[o].secrets.origin = o
               /\ gateway'[o].revoked \in BOOLEAN
               /\ gateway'[o].secrets \notin pending'
               /\ ~gateway'[o].revoked => gateway'[o].secrets \notin ended'
    <3>1. o \in DOMAIN gateway
      BY <2>2
    <3>2. /\ gateway[o] = [secrets |-> gateway[o].secrets, revoked |-> gateway[o].revoked]
          /\ gateway[o].secrets \in replies /\ gateway[o].secrets.origin = o
          /\ gateway[o].revoked \in BOOLEAN
          /\ gateway[o].secrets \notin pending
          /\ ~gateway[o].revoked => gateway[o].secrets \notin ended
      BY <3>1 DEF SessionInv, SessionsInPlace
    <3>3. CASE gateway[o].secrets.key = k
      <4>1. gateway'[o] = [gateway[o] EXCEPT !.revoked = TRUE]
        BY <2>1, <3>1, <3>3 DEF RevokedForKey
      <4>2. gateway'[o] = [secrets |-> gateway[o].secrets, revoked |-> TRUE]
        BY <3>1, <4>1, RevokedSession DEF SessionInv
      <4> QED BY <1>1, <3>2, <4>2
    <3>4. CASE gateway[o].secrets.key # k
      <4>1. gateway'[o] = gateway[o]
        BY <2>1, <3>1, <3>4 DEF RevokedForKey
      <4>2. ~gateway[o].revoked => gateway[o].secrets \notin ended'
        BY <2>3, <3>2, <3>4
      <4> QED BY <1>1, <3>2, <4>1, <4>2
    <3> QED BY <3>3, <3>4
  <2>6. pending' \subseteq replies'
    BY <1>1 DEF SessionInv, SessionsInPlace
  <2> QED BY <2>4, <2>5, <2>6 DEF SessionsInPlace
<1> QED BY <1>1, <1>2
        DEF SessionInv, HellosTyped, RepliesGrounded, ReplyIsGrounded,
            RepliesRemembered, RepliesUnique, ClientsExpect, RulesTyped,
            ExecutedRightly, Expected

\* A new hello is like none before.
LEMMA HelloKeeps ==
  ASSUME SessionInv, NEW o \in Peers, NEW role \in Roles, NEW k \in Keys,
         NEW n \in Nonces, NEW t \in ClientClock, CreateClientHello(o, role, k, n, t)
  PROVE  SessionInv'
<1>1. UNCHANGED <<serverTime, ring, replay, replies, pending, clients, gateway,
                  rules, sessions, changes, ended, executed>>
  BY DEF CreateClientHello
<1> DEFINE hello == [origin |-> o, role |-> role, key |-> k, nonce |-> n, sentAt |-> t]
<1>2. hellos' = hellos \cup {hello} /\ \A h \in hellos : ~SameHello(h, hello)
  BY DEF CreateClientHello, SameHello
<1>3. HellosTyped'
  <2>1. t \in Nat
    BY DEF ClientClock
  <2> QED BY <1>1, <1>2, <2>1 DEF SessionInv, HellosTyped, SameHello
<1>4. RepliesGrounded'
  <2>1. HellosTyped /\ RepliesGrounded /\ serverTime' \in Nat /\ sessions' \in Nat
    BY <1>1 DEF SessionInv, HellosTyped
  <2>2. serverTime <= serverTime' /\ sessions <= sessions' /\ hellos \subseteq hellos'
    BY <1>1, <1>2, <2>1
  <2> QED BY <1>1, <2>1, <2>2, RepliesStayGrounded DEF RepliesGrounded
<1> QED BY <1>1, <1>3, <1>4
        DEF SessionInv, RepliesRemembered, RepliesUnique, ClientsExpect,
            SessionsInPlace, RulesTyped, ExecutedRightly, Expected

\* A session that opens is remembered, and no other was opened by its hello.
LEMMA AcceptKeeps ==
  ASSUME SessionInv, NEW h \in hellos, Accept(h)
  PROVE  SessionInv'
<1>0. PICK secrets : secrets = DeriveSessionSecrets(h, sessions + 1, Expiry(h))
  OBVIOUS
<1> DEFINE entry == [key |-> h.key, origin |-> h.origin, nonce |-> h.nonce,
                     expires |-> Expiry(h)]
<1>1. /\ UNCHANGED <<serverTime, ring, hellos, clients, gateway, rules, changes, ended,
                     executed>>
      /\ Admissible(h)
  BY DEF Accept
<1>2. /\ serverTime \in Nat /\ sessions \in Nat /\ h.sentAt \in Nat
      /\ h.key \in Keys /\ h.origin \in Peers
  BY DEF SessionInv, HellosTyped
<1>3. CASE ~(~Seen(h, UnexpiredEntries)
             /\ Cardinality(UnexpiredEntries) < MaxReplayEntries
             /\ Expiry(h) > serverTime)
  <2>1. replay' = UnexpiredEntries /\ UNCHANGED <<replies, pending, sessions>>
    BY <1>3 DEF Accept
  <2>2. RepliesRemembered'
    BY <1>1, <2>1 DEF SessionInv, RepliesRemembered, UnexpiredEntries
  <2> QED BY <1>1, <2>1, <2>2
          DEF SessionInv, HellosTyped, RepliesGrounded, ReplyIsGrounded,
              RepliesUnique, ClientsExpect, SessionsInPlace, RulesTyped,
              ExecutedRightly, Expected
<1>4. CASE /\ ~Seen(h, UnexpiredEntries)
           /\ Cardinality(UnexpiredEntries) < MaxReplayEntries
           /\ Expiry(h) > serverTime
  <2>1. /\ replay' = UnexpiredEntries \cup {entry}
        /\ replies' = replies \cup {secrets}
        /\ pending' = pending \cup {secrets}
        /\ sessions' = sessions + 1
    BY <1>0, <1>4 DEF Accept
  <2>2. /\ secrets.origin = h.origin /\ secrets.session = sessions + 1
        /\ secrets.role = h.role /\ secrets.key = h.key
        /\ secrets.issued = serverTime /\ secrets.expires = Expiry(h)
        /\ secrets.clientNonce = h.nonce
    BY <1>0 DEF DeriveSessionSecrets
  <2>3. /\ Expiry(h) \in Nat /\ Expiry(h) <= Validity[h.key].notAfter
        /\ Expiry(h) = Validity[h.key].notAfter \/ Expiry(h) = serverTime + SessionLifetime
    BY <1>2, SessionLimits DEF Expiry
  <2>4. secrets \notin replies
    BY <1>2, <2>2 DEF SessionInv, RepliesGrounded, ReplyIsGrounded
  <2>5. HellosTyped'
    BY <1>1, <1>2, <2>1 DEF SessionInv, HellosTyped
  <2>6. RepliesGrounded'
    <3>1. HellosTyped /\ RepliesGrounded /\ serverTime' \in Nat /\ sessions' \in Nat
      BY <1>1, <1>2, <2>1 DEF SessionInv
    <3>2. serverTime <= serverTime' /\ sessions <= sessions' /\ hellos \subseteq hellos'
      BY <1>1, <1>2, <2>1
    <3>3. ReplyIsGrounded(secrets)'
      <4>1. /\ h.role \in Validity[h.key].roles
            /\ Validity[h.key].notBefore <= serverTime
            /\ h.sentAt <= serverTime + HelloSkew
        BY <1>1, <1>2, SessionLimits DEF Admissible
      <4>2. \E g \in hellos' :
              /\ g.key = h.key /\ g.origin = h.origin /\ g.nonce = h.nonce
              /\ g.sentAt <= serverTime + HelloSkew
        BY <1>1, <4>1
      <4>3. sessions + 1 \in Nat /\ sessions + 1 <= sessions'
        BY <1>2, <2>1
      <4> QED BY <1>1, <1>2, <2>2, <2>3, <4>1, <4>2, <4>3 DEF ReplyIsGrounded
    <3>4. \A r \in replies : ReplyIsGrounded(r)'
      BY <3>1, <3>2, RepliesStayGrounded
    <3> QED BY <2>1, <3>3, <3>4 DEF RepliesGrounded
  <2>7. RepliesRemembered'
    <3> SUFFICES ASSUME NEW r \in replies', serverTime <= r.expires
                 PROVE  \E e \in replay' :
                          /\ e.key = r.key /\ e.origin = r.origin
                          /\ e.nonce = r.clientNonce /\ e.expires = r.expires
      BY <1>1 DEF RepliesRemembered
    <3>1. CASE r \in replies
      BY <2>1, <3>1 DEF SessionInv, RepliesRemembered, UnexpiredEntries
    <3>2. CASE r = secrets
      <4>1. entry \in replay'
        BY <2>1
      <4> QED BY <2>2, <3>2, <4>1
    <3> QED BY <2>1, <3>1, <3>2
  <2>8. RepliesUnique'
    <3>1. \A r \in replies : ~(/\ r.key = h.key /\ r.origin = h.origin
                               /\ r.clientNonce = h.nonce)
      BY <1>1, <1>4, AnsweredIsSeen DEF SessionInv
    <3> QED BY <2>1, <2>2, <3>1 DEF SessionInv, RepliesUnique
  <2>9. ClientsExpect'
    BY <1>1, <2>1 DEF SessionInv, ClientsExpect, Expected
  <2>10. SessionsInPlace'
    BY <1>1, <2>1, <2>4 DEF SessionInv, SessionsInPlace
  <2> QED BY <1>1, <2>5, <2>6, <2>7, <2>8, <2>9, <2>10
          DEF SessionInv, RulesTyped, ExecutedRightly
<1> QED BY <1>3, <1>4

\* From here on the steps that touch neither hellos nor replies.
LEMMA FinalizeKeeps ==
  ASSUME SessionInv, NEW h \in hellos, NEW reply \in replies, NEW t \in ClientClock,
         Finalize(h, reply, t)
  PROVE  SessionInv'
<1>1. /\ Expected(h, reply)
      /\ clients' = clients \cup {[hello |-> h, secrets |-> reply]}
      /\ UNCHANGED <<serverTime, ring, replay, hellos, replies, pending, gateway, rules,
                     sessions, changes, ended, executed>>
  BY DEF Finalize
<1>2. ClientsExpect'
  BY <1>1 DEF SessionInv, ClientsExpect, Expected
<1> QED BY <1>1, <1>2
        DEF SessionInv, HellosTyped, RepliesGrounded, ReplyIsGrounded,
            RepliesRemembered, RepliesUnique, SessionsInPlace, RulesTyped,
            ExecutedRightly

\* What is installed has not been in the gateway before.
LEMMA InstallDecisionKeeps ==
  ASSUME SessionInv, NEW s \in pending, InstallDecision(s)
  PROVE  SessionInv'
<1>1. UNCHANGED <<serverTime, ring, replay, hellos, replies, clients, rules,
                  sessions, changes, ended, executed>>
  BY DEF InstallDecision
<1>2. SessionsInPlace'
  <2>1. pending' = pending \ {s}
    BY DEF InstallDecision
  <2>2. s \in replies /\ s \notin ended
    BY DEF SessionInv, SessionsInPlace
  <2>3. CASE s.expires > serverTime
    <3> DEFINE installed == [secrets |-> s, revoked |-> FALSE]
    <3>1. gateway' = [x \in DOMAIN gateway \cup {s.origin} |->
                        IF x = s.origin THEN installed ELSE gateway[x]]
      BY <2>3 DEF InstallDecision, With
    <3> HIDE DEF installed
    <3>2. /\ DOMAIN gateway' = DOMAIN gateway \cup {s.origin}
          /\ gateway'[s.origin] = installed
          /\ \A o \in DOMAIN gateway \ {s.origin} : gateway'[o] = gateway[o]
      BY <3>1
    <3>3. /\ installed = [secrets |-> s, revoked |-> FALSE]
          /\ installed.secrets = s /\ installed.revoked = FALSE
      BY DEF installed
    <3> QED BY <1>1, <2>1, <2>2, <3>2, <3>3 DEF SessionInv, SessionsInPlace
  <2>4. CASE ~(s.expires > serverTime)
    <3>1. gateway' = gateway
      BY <2>4 DEF InstallDecision
    <3> QED BY <1>1, <2>1, <3>1 DEF SessionInv, SessionsInPlace
  <2> QED BY <2>3, <2>4
<1> QED BY <1>1, <1>2
        DEF SessionInv, HellosTyped, RepliesGrounded, ReplyIsGrounded,
            RepliesRemembered, RepliesUnique, ClientsExpect, RulesTyped,
            ExecutedRightly, Expected

\* Sessions of other origins are others.
LEMMA RevokePeerKeeps ==
  ASSUME SessionInv, NEW o \in Peers, RevokePeer(o)
  PROVE  SessionInv'
<1>1. UNCHANGED <<serverTime, ring, replay, hellos, replies, pending, clients, rules,
                  sessions, changes, executed>>
  BY DEF RevokePeer
<1>2. SessionsInPlace'
  <2>1. /\ o \in DOMAIN gateway
        /\ gateway' = [gateway EXCEPT ![o].revoked = TRUE]
        /\ ended' = ended \cup {gateway[o].secrets}
    BY DEF RevokePeer
  <2>2. /\ gateway'[o] = [gateway[o] EXCEPT !.revoked = TRUE]
        /\ DOMAIN gateway' = DOMAIN gateway
        /\ \A p \in DOMAIN gateway \ {o} : gateway'[p] = gateway[p]
    BY <2>1
  <2>3. gateway'[o] = [secrets |-> gateway[o].secrets, revoked |-> TRUE]
    BY <2>1, <2>2, RevokedSession DEF SessionInv
  <2>4. \A p \in DOMAIN gateway \ {o} : gateway[p].secrets # gateway[o].secrets
    BY <2>1 DEF SessionInv, SessionsInPlace
  <2>5. /\ pending' \subseteq replies' /\ ended' \subseteq replies'
        /\ pending' \cap ended' = {}
    BY <1>1, <2>1 DEF SessionInv, SessionsInPlace
  <2>6. ASSUME NEW p \in DOMAIN gateway'
        PROVE  /\ gateway'[p] = [secrets |-> gateway'[p].secrets,
                                 revoked |-> gateway'[p].revoked]
               /\ gateway'[p].secrets \in replies' /\ gateway'[p].secrets.origin = p
               /\ gateway'[p].revoked \in BOOLEAN
               /\ gateway'[p].secrets \notin pending'
               /\ ~gateway'[p].revoked => gateway'[p].secrets \notin ended'
    <3>1. /\ gateway[p] = [secrets |-> gateway[p].secrets, revoked |-> gateway[p].revoked]
          /\ gateway[p].secrets \in replies /\ gateway[p].secrets.origin = p
          /\ gateway[p].revoked \in BOOLEAN
          /\ gateway[p].secrets \notin pending
          /\ ~gateway[p].revoked => gateway[p].secrets \notin ended
      BY <2>2 DEF SessionInv, SessionsInPlace
    <3>2. CASE p = o
      <4>1. gateway'[p] = [secrets |-> gateway[p].secrets, revoked |-> TRUE]
        BY <2>3, <3>2
      <4>2. gateway'[p].secrets = gateway[p].secrets /\ gateway'[p].revoked = TRUE
        BY <4>1
      <4> QED BY <1>1, <3>1, <4>1, <4>2
    <3>3. CASE p # o
      <4>1. gateway'[p] = gateway[p] /\ gateway[p].secrets # gateway[o].secrets
        BY <2>2, <2>4, <3>3
      <4> QED BY <1>1, <2>1, <3>1, <4>1
    <3> QED BY <3>2, <3>3
  <2> QED BY <2>5, <2>6 DEF SessionsInPlace
<1> QED BY <1>1, <1>2
        DEF SessionInv, HellosTyped, RepliesGrounded, ReplyIsGrounded,
            RepliesRemembered, RepliesUnique, ClientsExpect, RulesTyped,
            ExecutedRightly, Expected

\* Rules are added at the end, and stay: what was entitled is still.
LEMMA RuleKeeps ==
  ASSUME SessionInv, NEW rule \in RuleBook, AddARule(rule)
  PROVE  SessionInv'
<1>1. /\ rules' = Append(rules, rule)
      /\ UNCHANGED <<serverTime, ring, replay, hellos, replies, pending, clients,
                     gateway, sessions, changes, ended, executed>>
  BY DEF AddARule, AddRule
<1>2. RulesTyped' /\ \A i \in DOMAIN rules : i \in DOMAIN rules' /\ rules'[i] = rules[i]
  BY <1>1 DEF SessionInv, RulesTyped
<1>3. ExecutedRightly'
  BY <1>1, <1>2 DEF SessionInv, ExecutedRightly
<1> QED BY <1>1, <1>2, <1>3
        DEF SessionInv, HellosTyped, RepliesGrounded, ReplyIsGrounded,
            RepliesRemembered, RepliesUnique, ClientsExpect, SessionsInPlace, Expected

\* A usable session is inside the validity of its key, and the policy finds
\* the rule.
LEMMA SubmitKeeps ==
  ASSUME SessionInv, NEW client \in clients, NEW batch \in Batches,
         NEW transport \in Transports, SubmitInput(client, batch, transport)
  PROVE  SessionInv'
<1>1. PICK s : s = client.secrets
  OBVIOUS
<1>2. /\ Usable(s.origin) /\ gateway[s.origin].secrets = s
      /\ AuthorizeInputBatch(rules, Subject(s), transport, serverTime, batch)
      /\ executed' = executed \cup {[client |-> client, entity |-> batch[i],
                                     at |-> serverTime, transport |-> transport] :
                                      i \in DOMAIN batch}
      /\ UNCHANGED <<serverTime, ring, replay, hellos, replies, pending, clients,
                     gateway, rules, sessions, changes, ended>>
  BY <1>1 DEF SubmitInput
<1>3. s \in replies
  BY <1>1 DEF SessionInv, ClientsExpect
<1>4. /\ s.role \in Validity[s.key].roles /\ s.key \in Keys
      /\ s.issued \in Nat /\ s.issued <= serverTime /\ s.expires \in Nat
      /\ Validity[s.key].notBefore <= s.issued /\ s.expires <= Validity[s.key].notAfter
  BY <1>3 DEF SessionInv, RepliesGrounded, ReplyIsGrounded
<1>5. serverTime \in Validity[s.key].notBefore..Validity[s.key].notAfter
  <2>1. serverTime \in Nat /\ serverTime <= s.expires
    BY <1>2 DEF SessionInv, HellosTyped, Usable
  <2> QED BY <1>4, <2>1, SessionLimits
<1>6. ExecutedRightly'
  <2> SUFFICES ASSUME NEW x \in executed'
               PROVE  /\ x.client.secrets.role \in Validity[x.client.secrets.key].roles
                      /\ x.at \in Validity[x.client.secrets.key].notBefore
                                   ..Validity[x.client.secrets.key].notAfter
                      /\ RequireConfidentialTransport => TransportValid(x.transport)
                      /\ \E i \in DOMAIN rules :
                           Entitles(rules[i], x.client.secrets, x.entity, x.at)
    BY <1>2 DEF ExecutedRightly
  <2>1. CASE x \in executed
    BY <2>1 DEF SessionInv, ExecutedRightly
  <2>2. CASE x \notin executed
    <3>1. PICK i \in DOMAIN batch :
            x = [client |-> client, entity |-> batch[i], at |-> serverTime,
                 transport |-> transport]
      BY <1>2, <2>2
    <3>2. /\ x.client.secrets = s /\ x.entity = batch[i] /\ x.at = serverTime
          /\ x.transport = transport
      BY <1>1, <3>1
    <3>3. RulesTyped /\ serverTime \in Nat
      BY DEF SessionInv, HellosTyped
    <3>4. /\ RequireConfidentialTransport => TransportValid(transport)
          /\ \E j \in DOMAIN rules : Entitles(rules[j], s, batch[i], serverTime)
      BY <1>2, <3>3, AuthorizedIsEntitled
    <3> QED BY <1>4, <1>5, <3>2, <3>4
  <2> QED BY <2>1, <2>2
<1> QED BY <1>2, <1>6
        DEF SessionInv, HellosTyped, RepliesGrounded, ReplyIsGrounded,
            RepliesRemembered, RepliesUnique, ClientsExpect, SessionsInPlace, Expected,
            RulesTyped

\* Time takes nothing away but sessions in force.
LEMMA SessionTickKeeps == SessionInv /\ SessionTick => SessionInv'
<1> SUFFICES ASSUME SessionInv, SessionTick PROVE SessionInv'
  OBVIOUS
<1>1. /\ serverTime \in Nat /\ serverTime' = serverTime + 1
      /\ UNCHANGED <<ring, replay, hellos, replies, pending, clients, gateway,
                     rules, sessions, changes, ended, executed>>
  BY DEF SessionTick, SessionInv, HellosTyped
<1>2. HellosTyped'
  BY <1>1 DEF SessionInv, HellosTyped
<1>3. RepliesGrounded'
  <2>1. HellosTyped /\ RepliesGrounded /\ serverTime' \in Nat /\ sessions' \in Nat
    BY <1>1 DEF SessionInv, HellosTyped
  <2>2. serverTime <= serverTime' /\ sessions <= sessions' /\ hellos \subseteq hellos'
    BY <1>1, <2>1 DEF HellosTyped
  <2> QED BY <1>1, <2>1, <2>2, RepliesStayGrounded DEF RepliesGrounded
<1>4. RepliesRemembered'
  <2>1. \A r \in replies : r.expires \in Nat
    BY DEF SessionInv, RepliesGrounded, ReplyIsGrounded
  <2> QED BY <1>1, <2>1 DEF SessionInv, RepliesRemembered
<1> QED BY <1>1, <1>2, <1>3, <1>4
        DEF SessionInv, RepliesUnique, ClientsExpect, SessionsInPlace, RulesTyped,
            ExecutedRightly, Expected

\* Every step of SessionSecurity.
LEMMA SessionStep == SessionInv /\ [SessionNext]_sessionVars => SessionInv'
<1> SUFFICES ASSUME SessionInv, [SessionNext]_sessionVars PROVE SessionInv'
  OBVIOUS
<1>1. ASSUME NEW k \in Keys, NEW l \in {"Active", "Retired", "Revoked"}, Upsert(k, l)
      PROVE  SessionInv'
  BY <1>1, RingKeeps DEF Upsert
<1>2. ASSUME NEW k \in Keys, NEW r \in Keys, Rotate(k, r) PROVE SessionInv'
  BY <1>2, RingKeeps DEF Rotate
<1>3. ASSUME NEW k \in Keys, Retire(k) PROVE SessionInv'
  BY <1>3, RingKeeps DEF Retire
<1>4. CASE UNCHANGED sessionVars
  BY <1>4 DEF sessionVars, SessionInv, HellosTyped, RepliesGrounded, ReplyIsGrounded,
              RepliesRemembered, RepliesUnique, ClientsExpect, SessionsInPlace,
              RulesTyped, ExecutedRightly, Expected
<1> QED BY <1>1, <1>2, <1>3, <1>4, RevokeKeyKeeps, HelloKeeps, AcceptKeeps,
           FinalizeKeeps, InstallDecisionKeeps, RevokePeerKeeps, RuleKeeps, SubmitKeeps,
           SessionTickKeeps
        DEF SessionNext

\* The invariant holds in every state.
THEOREM SessionInvariant == SessionSpec => []SessionInv
<1> QED BY SessionInitially, SessionStep, PTL DEF SessionSpec

\* However often and however late hellos and replies arrive, and although
\* the server forgets the hellos of sessions that have ended, a hello opens
\* one session at most, and a client finalizes the session that its hello
\* opened (SessionHandshakeServer::accept, finalize_client_handshake).
THEOREM HandshakeAgreementAlways == SessionSpec => []HandshakeAgreement
<1>1. SessionInv => HandshakeAgreement
  BY DEF SessionInv, RepliesUnique, ClientsExpect, Expected, HandshakeAgreement
<1> QED BY <1>1, SessionInvariant, PTL

\* A session that was in the gateway at a revocation is never usable again,
\* and every command that is executed came in a session of a key that was
\* valid then and admits its role, and is entitled by a rule of the policy
\* (revoke_key_and_sessions, process, authorize_input_batch).
THEOREM ExecutedIsEntitledAlways == SessionSpec => []ExecutedIsEntitled
<1>1. SessionInv => ExecutedIsEntitled
  <2> SUFFICES ASSUME SessionInv PROVE ExecutedIsEntitled
    OBVIOUS
  <2>1. \A o \in Peers : Usable(o) => gateway[o].secrets \notin ended
    BY DEF SessionInv, SessionsInPlace, Usable
  <2>2. \A i \in DOMAIN rules : rules[i].first \in Nat
    BY SessionLimits DEF SessionInv, RulesTyped
  <2> QED BY <2>1 DEF SessionInv, ExecutedRightly, Entitles, ExecutedIsEntitled
<1> QED BY <1>1, SessionInvariant, PTL

=============================================================================
