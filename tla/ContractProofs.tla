--------------------------- MODULE ContractProofs ---------------------------
(***************************************************************************)
(* Theorems about what the core answers for to the outside: the evidence   *)
(* and the bundles a host hands out, for every capacity, limit and list of *)
(* bodies; the timeline on disk and the ledger of external effects, for    *)
(* every set of keys and payloads and every bound; and the recovery        *)
(* contract, for every policy, every saturation bound and every set of     *)
(* checkpoint frames.                                                      *)
(***************************************************************************)
EXTENDS TemporalContract, RecoveryContract, RecoveryLemmas, SupportCapture,
        FiniteSetTheorems, SequenceTheorems, WellFoundedInduction

-----------------------------------------------------------------------------
(* Induction over numbers, for a set and not for an operator *)

LEMMA LeastNumber ==
  ASSUME NEW T, T \subseteq Nat, T # {}
  PROVE  \E x \in T : \A y \in T : x <= y
<1>1. PICK x \in T : \A y \in T : ~ (<<y, x>> \in OpToRel(<, Nat))
  BY NatLessThanWellFounded, WFMin, Zenon
<1>2. ASSUME NEW y \in T PROVE x <= y
  <2>1. ~ (y < x)
    BY <1>1, Zenon DEF OpToRel
  <2> QED BY <2>1
<1> QED BY <1>2

LEMMA Induction ==
  ASSUME NEW S, 0 \in S, \A n \in Nat : n \in S => n + 1 \in S
  PROVE  \A n \in Nat : n \in S
<1> SUFFICES ASSUME Nat \ S # {} PROVE FALSE OBVIOUS
<1>1. PICK x \in Nat \ S : \A y \in Nat \ S : x <= y BY LeastNumber
<1>2. x - 1 \in Nat /\ x - 1 < x BY <1>1
<1>3. x - 1 \in S BY <1>1, <1>2
<1>4. x - 1 + 1 \in S BY <1>3, <1>2
<1> QED BY <1>4, <1>1

LEMMA BoundedInduction ==
  ASSUME NEW m \in Nat, NEW S, 0 \in S, \A n \in 0..(m - 1) : n \in S => n + 1 \in S
  PROVE  \A n \in 0..m : n \in S
<1> DEFINE R == {n \in Nat : n <= m => n \in S}
<1>1. 0 \in R OBVIOUS
<1>2. \A n \in Nat : n \in R => n + 1 \in R OBVIOUS
<1> HIDE DEF R
<1>3. \A n \in Nat : n \in R BY <1>1, <1>2, Induction
<1> QED BY <1>3 DEF R

-----------------------------------------------------------------------------
(* What is recursive over a sequence, and sequences of anything *)

\* The sizes of a bundle's entries add up to a number.
LEMMA TotalSizeType ==
  ASSUME NEW entries, Len(entries) \in Nat,
         \A i \in 1..Len(entries) : Size(entries[i].content) \in Nat
  PROVE  TotalSize(entries) \in Nat
<1> DEFINE Adds(f, m) ==
             f = [n \in 0..m |-> IF n = 0 THEN 0 ELSE f[n - 1] + Size(entries[n].content)]
           S == {m \in Nat : \E f : Adds(f, m) /\ \A n \in 0..m : f[n] \in Nat}
<1>1. 0 \in S
  <2> DEFINE f == [n \in 0..0 |-> 0]
  <2>1. Adds(f, 0) /\ \A n \in 0..0 : f[n] \in Nat OBVIOUS
  <2> QED BY <2>1
<1>2. ASSUME NEW m \in 0..(Len(entries) - 1), m \in S PROVE m + 1 \in S
  <2>1. PICK f : Adds(f, m) /\ \A n \in 0..m : f[n] \in Nat BY <1>2
  <2> DEFINE g == [n \in 0..(m + 1) |->
                     IF n <= m THEN f[n] ELSE f[m] + Size(entries[m + 1].content)]
  <2>2. f[m] \in Nat /\ Size(entries[m + 1].content) \in Nat BY <2>1
  <2>3. \A n \in 0..(m + 1) : g[n] \in Nat BY <2>1, <2>2
  <2>4. ASSUME NEW n \in 0..(m + 1)
        PROVE  g[n] = IF n = 0 THEN 0 ELSE g[n - 1] + Size(entries[n].content)
    <3>1. CASE n = 0 BY <3>1, <2>1
    <3>2. CASE n # 0 /\ n <= m
      <4>1. g[n] = f[n] /\ g[n - 1] = f[n - 1] BY <3>2
      <4>2. f[n] = f[n - 1] + Size(entries[n].content) BY <3>2, <2>1
      <4> QED BY <4>1, <4>2, <3>2
    <3>3. CASE n = m + 1
      <4>1. g[n] = f[m] + Size(entries[m + 1].content) /\ g[n - 1] = f[m] BY <3>3
      <4> QED BY <4>1, <3>3
    <3> QED BY <3>1, <3>2, <3>3
  <2>5. Adds(g, m + 1) BY <2>4
  <2> HIDE DEF g, Adds
  <2>6. m + 1 \in Nat OBVIOUS
  <2> QED BY <2>3, <2>5, <2>6
<1> HIDE DEF S
<1>3. Len(entries) \in S
  <2>1. \A n \in 0..Len(entries) : n \in S BY <1>1, <1>2, BoundedInduction
  <2> QED BY <2>1
<1>4. PICK f : Adds(f, Len(entries)) /\ \A n \in 0..Len(entries) : f[n] \in Nat
  BY <1>3 DEF S
<1> DEFINE total == CHOOSE t : Adds(t, Len(entries))
<1>5. Adds(total, Len(entries)) BY <1>4
<1>6. TotalSize(entries) = total[Len(entries)] BY DEF TotalSize
<1> HIDE DEF total
<1> DEFINE T == {n \in Nat : n <= Len(entries) => total[n] \in Nat}
<1>7. 0 \in T BY <1>5
<1>8. \A n \in 0..(Len(entries) - 1) : n \in T => n + 1 \in T
  <2> TAKE n \in 0..(Len(entries) - 1)
  <2> HAVE n \in T
  <2>1. total[n + 1] = total[n] + Size(entries[n + 1].content) BY <1>5
  <2> QED BY <2>1
<1> HIDE DEF T
<1>9. Len(entries) \in T
  <2>1. \A n \in 0..Len(entries) : n \in T BY <1>7, <1>8, BoundedInduction
  <2> QED BY <2>1
<1> QED BY <1>6, <1>9 DEF T

\* Sequences whatever they hold.
IsSeq(s) == s \in Seq(ToSet(s))

LEMMA FunctionIsSeq ==
  ASSUME NEW s, NEW n \in Nat, DOMAIN s = 1..n, s = [i \in 1..n |-> s[i]]
  PROVE  IsSeq(s) /\ Len(s) = n
BY DEF IsSeq, ToSet

EntryPaths == Required \cup {"time-travel.json", "visual-correlation.json"}

\* The required entries are always there, and no path twice.
LEMMA PathFacts ==
  ASSUME NEW context, NEW policy
  PROVE  LET paths == Paths(context, policy) IN
         /\ paths \in Seq(EntryPaths)
         /\ Len(paths) \in 5..7
         /\ \A i, j \in DOMAIN paths : paths[i] = paths[j] => i = j
         /\ Required \subseteq {paths[i] : i \in DOMAIN paths}
<1> DEFINE four == <<"deferred-validation-gates.json", "evidence-chain.json",
                     "metadata.json", "redaction-report.json">>
           x == IF IncludesFrames(context, policy) THEN <<"time-travel.json">> ELSE <<>>
           y == IF IncludesVisual(context, policy) THEN <<"visual-correlation.json">>
                                                   ELSE <<>>
           p1 == four \o x
           z == <<"traces.json">>
           p2 == p1 \o z
           p3 == p2 \o y
<1>1. /\ x \in Seq(EntryPaths)
      /\ Len(x) = 0 \/ (Len(x) = 1 /\ x[1] = "time-travel.json")
  <2>1. x = <<>> \/ x = <<"time-travel.json">> OBVIOUS
  <2>2. "time-travel.json" \in EntryPaths BY DEF EntryPaths
  <2>3. /\ <<>> \in Seq(EntryPaths) /\ Len(<<>>) = 0
        /\ <<"time-travel.json">> \in Seq(EntryPaths) /\ Len(<<"time-travel.json">>) = 1
        /\ <<"time-travel.json">>[1] = "time-travel.json"
    BY <2>2
  <2> HIDE DEF x
  <2> QED BY <2>1, <2>3, Zenon
<1>2. /\ y \in Seq(EntryPaths)
      /\ Len(y) = 0 \/ (Len(y) = 1 /\ y[1] = "visual-correlation.json")
  <2>1. y = <<>> \/ y = <<"visual-correlation.json">> OBVIOUS
  <2>2. "visual-correlation.json" \in EntryPaths BY DEF EntryPaths
  <2>3. /\ <<>> \in Seq(EntryPaths) /\ Len(<<>>) = 0
        /\ <<"visual-correlation.json">> \in Seq(EntryPaths) /\ Len(<<"visual-correlation.json">>) = 1
        /\ <<"visual-correlation.json">>[1] = "visual-correlation.json"
    BY <2>2
  <2> HIDE DEF y
  <2> QED BY <2>1, <2>3, Zenon
<1>3. /\ four \in Seq(EntryPaths) /\ Len(four) = 4
      /\ four[1] = "deferred-validation-gates.json" /\ four[2] = "evidence-chain.json"
      /\ four[3] = "metadata.json" /\ four[4] = "redaction-report.json"
  BY DEF EntryPaths, Required
<1>4. z \in Seq(EntryPaths) /\ Len(z) = 1 /\ z[1] = "traces.json"
  BY DEF EntryPaths, Required
<1>5. Paths(context, policy) = p3
  BY DEF Paths
<1> HIDE DEF x, y, z, four
<1>6. /\ p1 \in Seq(EntryPaths) /\ Len(p1) = 4 + Len(x)
      /\ p1[1] = four[1] /\ p1[2] = four[2] /\ p1[3] = four[3] /\ p1[4] = four[4]
      /\ Len(x) = 1 => p1[5] = x[1]
  <2>1. /\ p1 \in Seq(EntryPaths) /\ Len(p1) = Len(four) + Len(x)
        /\ \A i \in 1..(Len(four) + Len(x)) :
             p1[i] = IF i <= Len(four) THEN four[i] ELSE x[i - Len(four)]
    <3>1. four \in Seq(EntryPaths) /\ x \in Seq(EntryPaths)
      BY <1>1, <1>3
    <3> QED BY <3>1, ConcatProperties
  <2> HIDE DEF p1
  <2> QED BY <2>1, <1>1, <1>3
<1> HIDE DEF p1
<1>7. /\ p2 \in Seq(EntryPaths) /\ Len(p2) = 5 + Len(x)
      /\ p2[1] = p1[1] /\ p2[2] = p1[2] /\ p2[3] = p1[3] /\ p2[4] = p1[4]
      /\ Len(x) = 0 => p2[5] = "traces.json"
      /\ Len(x) = 1 => p2[5] = p1[5] /\ p2[6] = "traces.json"
  <2>1. /\ p2 \in Seq(EntryPaths) /\ Len(p2) = Len(p1) + Len(z)
        /\ \A i \in 1..(Len(p1) + Len(z)) :
             p2[i] = IF i <= Len(p1) THEN p1[i] ELSE z[i - Len(p1)]
    <3>1. p1 \in Seq(EntryPaths) /\ z \in Seq(EntryPaths)
      BY <1>4, <1>6
    <3> HIDE DEF z
    <3> QED BY <3>1, ConcatProperties
  <2> HIDE DEF p2
  <2>2. CASE Len(x) = 0
    <3>1. p2[5] = z[5 - 4]
      BY <2>1, <2>2, <1>4, <1>6
    <3> QED BY <2>1, <2>2, <3>1, <1>4, <1>6
  <2>3. CASE Len(x) = 1
    <3>1. p2[6] = z[6 - 5]
      BY <2>1, <2>3, <1>4, <1>6
    <3> QED BY <2>1, <2>3, <3>1, <1>4, <1>6
  <2> QED BY <2>2, <2>3, <1>1
<1> HIDE DEF p2
<1>8. /\ p3 \in Seq(EntryPaths) /\ Len(p3) = 5 + Len(x) + Len(y)
      /\ p3[1] = p2[1] /\ p3[2] = p2[2] /\ p3[3] = p2[3] /\ p3[4] = p2[4]
      /\ p3[5] = p2[5]
      /\ Len(x) = 1 => p3[6] = p2[6]
      /\ Len(y) = 1 => p3[6 + Len(x)] = y[1]
  <2>1. /\ p3 \in Seq(EntryPaths) /\ Len(p3) = Len(p2) + Len(y)
        /\ \A i \in 1..(Len(p2) + Len(y)) :
             p3[i] = IF i <= Len(p2) THEN p2[i] ELSE y[i - Len(p2)]
    <3>1. p2 \in Seq(EntryPaths) /\ y \in Seq(EntryPaths)
      BY <1>2, <1>7
    <3> QED BY <3>1, ConcatProperties
  <2> HIDE DEF p3
  <2>2. Len(x) \in 0..1 /\ Len(y) \in 0..1
    BY <1>1, <1>2
  <2>3. Len(p3) = 5 + Len(x) + Len(y)
    BY <2>1, <1>7
  <2>4. \A i \in 1..(5 + Len(x)) : p3[i] = p2[i]
    BY <2>1, <2>2, <1>7
  <2>5. Len(y) = 1 => p3[6 + Len(x)] = y[1]
    <3> SUFFICES ASSUME Len(y) = 1 PROVE p3[6 + Len(x)] = y[1]
      OBVIOUS
    <3>1. 6 + Len(x) \in 1..(Len(p2) + Len(y)) /\ ~(6 + Len(x) <= Len(p2))
          /\ 6 + Len(x) - Len(p2) = 1
      BY <2>2, <1>7
    <3>2. p3[6 + Len(x)] = y[6 + Len(x) - Len(p2)]
      BY <3>1, <2>1
    <3> QED BY <3>1, <3>2
  <2> QED BY <2>1, <2>2, <2>3, <2>4, <2>5
<1> HIDE DEF p3
<1>9. DOMAIN p3 = 1..Len(p3)
  BY <1>8
<1>10. CASE Len(x) = 0 /\ Len(y) = 0
  BY <1>3, <1>5, <1>6, <1>7, <1>8, <1>9, <1>10 DEF Required
<1>11. CASE Len(x) = 1 /\ Len(y) = 0
  BY <1>1, <1>3, <1>5, <1>6, <1>7, <1>8, <1>9, <1>11 DEF Required
<1>12. CASE Len(x) = 0 /\ Len(y) = 1
  BY <1>2, <1>3, <1>5, <1>6, <1>7, <1>8, <1>9, <1>12 DEF Required
<1>13. CASE Len(x) = 1 /\ Len(y) = 1
  BY <1>1, <1>2, <1>3, <1>5, <1>6, <1>7, <1>8, <1>9, <1>13 DEF Required
<1> QED BY <1>1, <1>2, <1>10, <1>11, <1>12, <1>13

\* The states of the buffer, one for each event that was recorded.
LEMMA RecordEventsInTurn ==
  ASSUME NEW buffer, NEW events, Len(events) \in Nat
  PROVE  \E after : /\ after[0] = buffer
                    /\ \A n \in 1..Len(events) :
                         after[n] = RecordEvent(after[n - 1], events[n])
                    /\ RecordEvents(buffer, events) = after[Len(events)]
<1> DEFINE Records(f, m) ==
             f = [n \in 0..m |-> IF n = 0 THEN buffer ELSE RecordEvent(f[n - 1], events[n])]
           S == {m \in Nat : \E f : Records(f, m)}
<1>1. 0 \in S
  <2> DEFINE f == [n \in 0..0 |-> buffer]
  <2>1. Records(f, 0) OBVIOUS
  <2> QED BY <2>1
<1>2. ASSUME NEW m \in 0..(Len(events) - 1), m \in S PROVE m + 1 \in S
  <2>1. PICK f : Records(f, m) BY <1>2
  <2> DEFINE g == [n \in 0..(m + 1) |->
                     IF n <= m THEN f[n] ELSE RecordEvent(f[m], events[m + 1])]
  <2>2. ASSUME NEW n \in 0..(m + 1)
        PROVE  g[n] = IF n = 0 THEN buffer ELSE RecordEvent(g[n - 1], events[n])
    <3>1. CASE n = 0 BY <3>1, <2>1
    <3>2. CASE n # 0 /\ n <= m
      <4>1. g[n] = f[n] /\ g[n - 1] = f[n - 1] BY <3>2
      <4>2. f[n] = RecordEvent(f[n - 1], events[n]) BY <3>2, <2>1
      <4> QED BY <4>1, <4>2, <3>2
    <3>3. CASE n = m + 1
      <4>1. g[n] = RecordEvent(f[m], events[m + 1]) /\ g[n - 1] = f[m] BY <3>3
      <4> QED BY <4>1, <3>3
    <3> QED BY <3>1, <3>2, <3>3
  <2>3. Records(g, m + 1) BY <2>2
  <2> HIDE DEF g, Records
  <2>4. m + 1 \in Nat OBVIOUS
  <2> QED BY <2>3, <2>4
<1> HIDE DEF S
<1>3. \A n \in 0..Len(events) : n \in S BY <1>1, <1>2, BoundedInduction
<1>4. PICK f : Records(f, Len(events)) BY <1>3 DEF S
<1> DEFINE after == CHOOSE g : Records(g, Len(events))
<1>5. Records(after, Len(events)) BY <1>4
<1>6. RecordEvents(buffer, events) = after[Len(events)] BY DEF RecordEvents
<1> HIDE DEF after
<1>7. after[0] = buffer BY <1>5
<1>8. \A n \in 1..Len(events) : after[n] = RecordEvent(after[n - 1], events[n])
  BY <1>5
<1> QED BY <1>6, <1>7, <1>8

-----------------------------------------------------------------------------
(* Counting in a ring *)

LEMMA RestIsSmall ==
  ASSUME NEW C \in Nat \ {0}, NEW n \in Nat
  PROVE  n % C \in 0..(C - 1)
OBVIOUS

LEMMA QuotientAndRest ==
  ASSUME NEW C \in Nat \ {0}, NEW n \in Nat
  PROVE  n \div C \in Nat /\ n = C * (n \div C) + (n % C)
OBVIOUS

LEMMA MultiplesApart ==
  ASSUME NEW C \in Nat \ {0}, NEW p \in Int, NEW q \in Int, p < q
  PROVE  C * p + C <= C * q
<1>1. PICK k \in Nat : q = p + 1 + k OBVIOUS
<1>2. C * k \in Nat OBVIOUS
<1>3. C * q = C * p + C + C * k BY <1>1
<1> QED BY <1>2, <1>3

LEMMA QuotientAndRestUnique ==
  ASSUME NEW C \in Nat \ {0}, NEW p \in Int, NEW q \in Int,
         NEW r \in 0..(C - 1), NEW s \in 0..(C - 1), C * p + r = C * q + s
  PROVE  p = q /\ r = s
<1>1. C * p \in Int /\ C * q \in Int OBVIOUS
<1>2. ~(p < q) /\ ~(q < p) BY MultiplesApart, <1>1
<1> QED BY <1>2

LEMMA RingPlaces ==
  ASSUME NEW C \in Nat \ {0}, NEW a \in Nat, NEW b \in Nat, a < b, b - a < C
  PROVE  a % C # b % C
<1>1. a \div C \in Nat /\ a = C * (a \div C) + (a % C) BY QuotientAndRest
<1>2. b \div C \in Nat /\ b = C * (b \div C) + (b % C) BY QuotientAndRest
<1>3. ASSUME a % C = b % C PROVE FALSE
  <2> DEFINE p == a \div C
             q == b \div C
             x == C * p
             y == C * q
  <2>1. p \in Int /\ q \in Int /\ x \in Int /\ y \in Int BY <1>1, <1>2
  <2>2. a % C \in Int BY RestIsSmall
  <2>3. y - x = b - a BY <1>1, <1>2, <1>3, <2>1, <2>2
  <2>4. p < q => x + C <= y BY MultiplesApart, <2>1
  <2>5. q <= p => y <= x
    <3>1. CASE q = p BY <3>1, <2>1
    <3>2. CASE q < p
      <4>1. y + C <= x BY MultiplesApart, <2>1, <3>2
      <4> QED BY <4>1, <2>1
    <3> QED BY <3>1, <3>2, <2>1
  <2> HIDE DEF x, y, p, q
  <2> QED BY <2>1, <2>3, <2>4, <2>5
<1> QED BY <1>3

LEMMA NextInRing ==
  ASSUME NEW C \in Nat \ {0}, NEW n \in Nat
  PROVE  (n + 1) % C = IF n % C = C - 1 THEN 0 ELSE (n % C) + 1
<1> DEFINE q == n \div C
           r == n % C
           q1 == (n + 1) \div C
           r1 == (n + 1) % C
<1>1. q \in Nat /\ r \in 0..(C - 1) /\ n = C * q + r BY RestIsSmall, QuotientAndRest
<1>2. q1 \in Nat /\ r1 \in 0..(C - 1) /\ n + 1 = C * q1 + r1
  <2>1. n + 1 \in Nat OBVIOUS
  <2> QED BY <2>1, RestIsSmall, QuotientAndRest
<1> HIDE DEF q, r, q1, r1
<1>3. CASE r = C - 1
  <2>1. C * (q + 1) = C * q + C BY <1>1
  <2>2. C * q \in Int /\ C * q1 \in Int BY <1>1, <1>2
  <2>3. C * (q + 1) + 0 = C * q1 + r1 BY <1>1, <1>2, <1>3, <2>1, <2>2
  <2>4. 0 \in 0..(C - 1) /\ q + 1 \in Int /\ q1 \in Int BY <1>1, <1>2
  <2>5. 0 = r1 BY <2>3, <2>4, <1>2, QuotientAndRestUnique
  <2> QED BY <2>5, <1>3 DEF r1, r
<1>4. CASE r # C - 1
  <2>2. C * q \in Int /\ C * q1 \in Int BY <1>1, <1>2
  <2>3. C * q + (r + 1) = C * q1 + r1 BY <1>1, <1>2, <2>2
  <2>4. r + 1 \in 0..(C - 1) /\ q \in Int /\ q1 \in Int BY <1>1, <1>2, <1>4
  <2>5. r + 1 = r1 BY <2>3, <2>4, <1>2, QuotientAndRestUnique
  <2> QED BY <2>5, <1>4 DEF r1, r
<1> QED BY <1>3, <1>4

LEMMA RingTurns ==
  ASSUME NEW C \in Nat \ {0}, NEW n \in Nat, NEW k \in Nat
  PROVE  (n + C * k) % C = n % C
<1> DEFINE q == n \div C
           r == n % C
           q1 == (n + C * k) \div C
           r1 == (n + C * k) % C
<1>1. q \in Nat /\ r \in 0..(C - 1) /\ n = C * q + r BY RestIsSmall, QuotientAndRest
<1>2. n + C * k \in Nat OBVIOUS
<1>3. q1 \in Nat /\ r1 \in 0..(C - 1) /\ n + C * k = C * q1 + r1
  BY <1>2, RestIsSmall, QuotientAndRest
<1> HIDE DEF q, r, q1, r1
<1>4. C * (q + k) = C * q + C * k BY <1>1
<1>5. C * q \in Int /\ C * q1 \in Int /\ C * k \in Int BY <1>1, <1>3
<1>6. C * (q + k) + r = C * q1 + r1 BY <1>1, <1>3, <1>4, <1>5
<1>7. q + k \in Int /\ q1 \in Int BY <1>1, <1>3
<1>8. r = r1 BY <1>6, <1>7, <1>1, <1>3, QuotientAndRestUnique
<1> QED BY <1>8 DEF r, r1

LEMMA RingInPlace ==
  ASSUME NEW C \in Nat \ {0}, NEW n \in 0..(C - 1)
  PROVE  n % C = n
<1> DEFINE q1 == n \div C
           r1 == n % C
<1>1. q1 \in Nat /\ r1 \in 0..(C - 1) /\ n = C * q1 + r1
  <2>1. n \in Nat OBVIOUS
  <2> QED BY <2>1, RestIsSmall, QuotientAndRest
<1> HIDE DEF q1, r1
<1>2. C * 0 + n = C * q1 + r1 BY <1>1
<1>3. n = r1 BY <1>1, <1>2, QuotientAndRestUnique
<1> QED BY <1>3 DEF r1

LEMMA SeqFacts ==
  ASSUME NEW s, IsSeq(s)
  PROVE  Len(s) \in Nat /\ DOMAIN s = 1..Len(s) /\ s = [i \in 1..Len(s) |-> s[i]]
BY DEF IsSeq

LEMMA ShortIsSeq ==
  /\ IsSeq(<<>>) /\ Len(<<>>) = 0
  /\ \A a : IsSeq(<<a>>) /\ Len(<<a>>) = 1 /\ <<a>>[1] = a
  /\ \A a, b : /\ IsSeq(<<a, b>>) /\ Len(<<a, b>>) = 2
               /\ <<a, b>>[1] = a /\ <<a, b>>[2] = b
<1>1. IsSeq(<<>>) /\ Len(<<>>) = 0
  BY DEF IsSeq, ToSet
<1>2. ASSUME NEW a PROVE IsSeq(<<a>>) /\ Len(<<a>>) = 1 /\ <<a>>[1] = a
  BY DEF IsSeq, ToSet
<1>3. ASSUME NEW a, NEW b
      PROVE  /\ IsSeq(<<a, b>>) /\ Len(<<a, b>>) = 2
             /\ <<a, b>>[1] = a /\ <<a, b>>[2] = b
  BY DEF IsSeq, ToSet
<1> QED BY <1>1, <1>2, <1>3

LEMMA OwnElements ==
  ASSUME NEW S, NEW s \in Seq(S)
  PROVE  IsSeq(s)
BY DEF IsSeq, ToSet

LEMMA ConcatIsSeq ==
  ASSUME NEW s, NEW t, IsSeq(s), IsSeq(t)
  PROVE  /\ IsSeq(s \o t) /\ Len(s \o t) = Len(s) + Len(t)
         /\ \A i \in 1..(Len(s) + Len(t)) :
              (s \o t)[i] = IF i <= Len(s) THEN s[i] ELSE t[i - Len(s)]
<1> DEFINE S == ToSet(s) \cup ToSet(t)
<1>1. s \in Seq(S) /\ t \in Seq(S)
  BY DEF IsSeq
<1>2. ASSUME NEW T, s \in Seq(T), t \in Seq(T)
      PROVE  /\ s \o t \in Seq(T) /\ Len(s \o t) = Len(s) + Len(t)
             /\ \A i \in 1..(Len(s) + Len(t)) :
                  (s \o t)[i] = IF i <= Len(s) THEN s[i] ELSE t[i - Len(s)]
  BY <1>2, ConcatProperties
<1> HIDE DEF S
<1>3. /\ s \o t \in Seq(S) /\ Len(s \o t) = Len(s) + Len(t)
      /\ \A i \in 1..(Len(s) + Len(t)) :
           (s \o t)[i] = IF i <= Len(s) THEN s[i] ELSE t[i - Len(s)]
  BY <1>1, <1>2
<1>4. IsSeq(s \o t)
  BY <1>3, OwnElements
<1> QED BY <1>3, <1>4

-----------------------------------------------------------------------------
(* The buffer of events *)

\* A buffer that the first n events of a history went into.
Recorded(buffer, history, n) ==
  /\ buffer.size = Least(n, TraceCapacity)
  /\ buffer.next = n % TraceCapacity
  /\ buffer.sequence = n
  /\ DOMAIN buffer.events = 0..(TraceCapacity - 1)
  /\ \A k \in Nat : n - buffer.size <= k /\ k < n =>
       buffer.events[k % TraceCapacity] = history[k + 1]

LEMMA RecordEventKeeps ==
  ASSUME NEW buffer, NEW history, NEW n \in Nat, NEW event,
         Recorded(buffer, history, n),
         history[n + 1] = Numbered(event, n)
  PROVE  Recorded(RecordEvent(buffer, event), history, n + 1)
<1> DEFINE C == TraceCapacity
           after == RecordEvent(buffer, event)
           stamped == Numbered(event, n)
<1>1. C \in Nat \ {0}
  BY DiagnosticsAssumption
<1>2. n % C \in 0..(C - 1) /\ (n + 1) % C = IF n % C = C - 1 THEN 0 ELSE (n % C) + 1
  BY <1>1, RestIsSmall, NextInRing
<1>3. ((n % C) + 1) % C = (n + 1) % C
  <2>1. CASE n % C = C - 1
    <3>1. (C + 0) % C = 0
      <4>1. (0 + C * 1) % C = 0 % C
        BY <1>1, RingTurns
      <4>2. 0 % C = 0
        BY <1>1, RingInPlace
      <4> QED BY <4>1, <4>2, <1>1
    <3>2. (n % C) + 1 = C + 0
      BY <2>1, <1>1
    <3> QED BY <3>1, <3>2, <2>1, <1>2
  <2>2. CASE n % C # C - 1
    <3>1. (n % C) + 1 \in 0..(C - 1)
      BY <2>2, <1>1, <1>2
    <3> QED BY <3>1, <2>2, <1>1, <1>2, RingInPlace
  <2> QED BY <2>1, <2>2
<1>4. /\ after.events = [buffer.events EXCEPT ![n % C] = stamped]
      /\ after.next = ((n % C) + 1) % C
      /\ after.size = IF Least(n, C) = C THEN Least(n, C) ELSE Least(n, C) + 1
      /\ after.sequence = n + 1
  BY DEF RecordEvent, Recorded
<1> HIDE DEF stamped
<1>5. after.size = Least(n + 1, C)
  BY <1>1, <1>4 DEF Least
<1>6. DOMAIN after.events = 0..(C - 1)
  BY <1>4 DEF Recorded
<1>7. \A k \in Nat : (n + 1) - after.size <= k /\ k < n + 1 =>
        after.events[k % C] = history[k + 1]
  <2> SUFFICES ASSUME NEW k \in Nat, (n + 1) - after.size <= k, k < n + 1
               PROVE  after.events[k % C] = history[k + 1]
    OBVIOUS
  <2>1. CASE k = n
    BY <2>1, <1>2, <1>4 DEF Recorded, stamped
  <2>2. CASE k < n
    <3>1. n - k < C
      BY <1>1, <1>5 DEF Least
    <3>2. k % C # n % C
      BY <3>1, <2>2, <1>1, RingPlaces
    <3>3. k % C \in 0..(C - 1)
      BY <1>1, RestIsSmall
    <3>4. after.events[k % C] = buffer.events[k % C]
      BY <3>2, <3>3, <1>4 DEF Recorded
    <3>5. n - buffer.size <= k
      BY <1>1, <1>5 DEF Recorded, Least
    <3>6. buffer.events[k % C] = history[k + 1]
      BY <3>5, <2>2 DEF Recorded
    <3> QED BY <3>4, <3>6
  <2> QED BY <2>1, <2>2
<1>8. after.next = (n + 1) % C
  BY <1>3, <1>4
<1> HIDE DEF after
<1>9. Recorded(after, history, n + 1)
  <2>1. \A k \in Nat : (n + 1) - after.size <= k /\ k < n + 1 =>
          after.events[k % TraceCapacity] = history[k + 1]
    BY <1>7
  <2>2. after.size = Least(n + 1, TraceCapacity) /\ after.next = (n + 1) % TraceCapacity
    BY <1>5, <1>8
  <2>3. DOMAIN after.events = 0..(TraceCapacity - 1) /\ after.sequence = n + 1
    BY <1>4, <1>6
  <2> QED BY <2>1, <2>2, <2>3 DEF Recorded
<1> QED BY <1>9 DEF after

\* What the buffer of events is.
EventsPart == IsSeq(log) /\ Recorded(traces, log, Len(log))

LEMMA InitEvents == SupportInit => EventsPart
<1> SUFFICES ASSUME SupportInit PROVE EventsPart
  OBVIOUS
<1>1. log = <<>> /\ traces = EmptyTraces
  BY DEF SupportInit
<1>2. IsSeq(log) /\ Len(log) = 0
  BY <1>1, ShortIsSeq
<1>3. 0 % TraceCapacity = 0 /\ Least(0, TraceCapacity) = 0
  BY DiagnosticsAssumption, RingInPlace DEF Least
<1>4. Recorded(traces, log, 0)
  BY <1>1, <1>3 DEF Recorded, EmptyTraces
<1> QED BY <1>2, <1>4 DEF EventsPart

LEMMA TraceKeeps ==
  ASSUME EventsPart, NEW events, IsSeq(events), Trace(events)
  PROVE  EventsPart'
<1> DEFINE m == Len(log)
           stamped == [i \in DOMAIN events |->
                         Numbered(events[i], Len(log) + i - 1)]
<1>1. IsSeq(log) /\ Recorded(traces, log, m)
  BY DEF EventsPart
<1>2. m \in Nat /\ DOMAIN log = 1..m
  BY <1>1, SeqFacts
<1>3. Len(events) \in Nat /\ DOMAIN events = 1..Len(events)
  BY SeqFacts
<1>4. IsSeq(stamped) /\ Len(stamped) = Len(events)
  <2>1. DOMAIN stamped = 1..Len(events)
    BY <1>3
  <2>2. stamped = [i \in 1..Len(events) |-> stamped[i]]
    BY <1>3
  <2> HIDE DEF stamped
  <2> QED BY <1>3, <2>1, <2>2, FunctionIsSeq
<1>5. \A i \in 1..Len(events) : stamped[i] = Numbered(events[i], (m + i) - 1)
  BY <1>2, <1>3
<1>6. log' = log \o stamped
  BY DEF Trace
<1> HIDE DEF stamped
<1>7. /\ IsSeq(log') /\ Len(log') = m + Len(events)
      /\ \A i \in 1..(m + Len(events)) :
           log'[i] = IF i <= m THEN log[i] ELSE stamped[i - m]
  BY <1>1, <1>4, <1>6, ConcatIsSeq
<1>8. PICK after : /\ after[0] = traces
                   /\ \A n \in 1..Len(events) :
                        after[n] = RecordEvent(after[n - 1], events[n])
                   /\ RecordEvents(traces, events) = after[Len(events)]
  BY <1>3, RecordEventsInTurn
<1> DEFINE S == {n \in Nat : Recorded(after[n], log', m + n)}
<1>9. 0 \in S
  <2>1. Recorded(after[0], log, m)
    BY <1>1, <1>8
  <2>2. \A k \in Nat : k < m => log'[k + 1] = log[k + 1]
    BY <1>2, <1>3, <1>7
  <2>3. Recorded(after[0], log', m)
    BY <2>1, <2>2 DEF Recorded
  <2> QED BY <2>3, <1>2
<1>10. ASSUME NEW n \in 0..(Len(events) - 1), n \in S PROVE n + 1 \in S
  <2>1. Recorded(after[n], log', m + n)
    BY <1>10
  <2>2. n + 1 \in 1..Len(events) /\ m + n \in Nat /\ m + (n + 1) = (m + n) + 1
        /\ (m + (n + 1)) - 1 = m + n /\ (n + 1) - 1 = n /\ ((m + n) + 1) - m = n + 1
        /\ (m + n) + 1 \in 1..(m + Len(events)) /\ ~((m + n) + 1 <= m)
    BY <1>2, <1>3
  <2>3. after[n + 1] = RecordEvent(after[n], events[n + 1])
    BY <1>8, <2>2
  <2>4. log'[(m + n) + 1] = stamped[n + 1]
    BY <1>7, <2>2
  <2>5. log'[(m + n) + 1] = Numbered(events[n + 1], m + n)
    BY <1>5, <2>2, <2>4
  <2>6. Recorded(RecordEvent(after[n], events[n + 1]), log', (m + n) + 1)
    BY <2>1, <2>2, <2>5, RecordEventKeeps
  <2> QED BY <2>2, <2>3, <2>6
<1> HIDE DEF S
<1>11. \A n \in 0..Len(events) : n \in S
  BY <1>3, <1>9, <1>10, BoundedInduction
<1>12. Recorded(after[Len(events)], log', m + Len(events))
  BY <1>3, <1>11 DEF S
<1>13. traces' = after[Len(events)]
  BY <1>8 DEF Trace
<1> QED BY <1>7, <1>12, <1>13 DEF EventsPart

LEMMA SnapshotIs ==
  ASSUME NEW buffer, NEW start,
         start = IF buffer.size = TraceCapacity THEN buffer.next ELSE 0
  PROVE  /\ Snapshot(buffer) = [p \in 1..buffer.size |-> Snapshot(buffer)[p]]
         /\ \A p \in 1..buffer.size :
              Snapshot(buffer)[p] = buffer.events[(start + p - 1) % TraceCapacity]
BY DEF Snapshot

\* What the buffer shows is the newest of what was recorded.
LEMMA NewestKept == EventsPart => NewestEventsKept
<1> SUFFICES ASSUME EventsPart PROVE NewestEventsKept
  OBVIOUS
<1> DEFINE m == Len(log)
           C == TraceCapacity
           newest == Least(m, C)
           start == IF traces.size = C THEN traces.next ELSE 0
           last == SubSeq(log, m - newest + 1, m)
<1>1. IsSeq(log) /\ Recorded(traces, log, m) /\ m \in Nat /\ DOMAIN log = 1..m
  BY SeqFacts DEF EventsPart
<1>2. C \in Nat \ {0}
  BY DiagnosticsAssumption
<1>3. newest \in 0..m /\ newest <= C /\ (newest = C \/ newest = m)
  BY <1>1, <1>2 DEF Least
<1>4. traces.size = newest /\ traces.next = m % C
  BY <1>1 DEF Recorded
<1> HIDE DEF newest, m
<1>5. last = [p \in 1..newest |-> log[(m - newest) + p]]
  <2> DEFINE from == (m - newest) + 1
  <2>1. from \in Int /\ m \in Int /\ (from <= m => m - from + 1 = newest)
        /\ (m < from => newest = 0) /\ from..m \subseteq 1..m
        /\ \A p \in 1..newest : from + p - 1 = (m - newest) + p
    BY <1>1, <1>3
  <2> HIDE DEF from
  <2>2. \A i \in from..m : log[i] \in ToSet(log)
    BY <1>1, <2>1 DEF ToSet
  <2>3. /\ SubSeq(log, from, m) \in Seq(ToSet(log))
        /\ Len(SubSeq(log, from, m)) = IF from <= m THEN m - from + 1 ELSE 0
        /\ \A i \in 1..(m - from + 1) : SubSeq(log, from, m)[i] = log[from + i - 1]
    BY <2>1, <2>2, SubSeqProperties
  <2>4. last = SubSeq(log, from, m)
    BY DEF from
  <2> HIDE DEF last
  <2>5. last \in Seq(ToSet(log)) /\ Len(last) = newest
    BY <2>1, <2>3, <2>4
  <2>6. \A p \in 1..newest : last[p] = log[(m - newest) + p]
    BY <2>1, <2>3, <2>4, <1>3
  <2> QED BY <2>5, <2>6
<1>6. ASSUME NEW p \in 1..newest
      PROVE  traces.events[(start + p - 1) % C] = log[(m - newest) + p]
  <2> DEFINE k == ((m - newest) + p) - 1
  <2>1. k \in Nat /\ m - traces.size <= k /\ k < m /\ k + 1 = (m - newest) + p
    BY <1>1, <1>3, <1>4
  <2>2. traces.events[k % C] = log[(m - newest) + p]
    BY <1>1, <2>1 DEF Recorded
  <2>3. CASE newest # C
    <3>1. newest = m /\ start = 0 /\ k = start + p - 1
      BY <2>3, <1>1, <1>3, <1>4
    <3> QED BY <3>1, <2>2
  <2>4. CASE newest = C
    <3> DEFINE q == m \div C
               r == m % C
    <3>1. q \in Nat /\ r \in 0..(C - 1) /\ m = C * q + r
      BY <1>1, <1>2, RestIsSmall, QuotientAndRest
    <3>2. start = r
      BY <2>4, <1>4
    <3> HIDE DEF q, r
    <3>3. q # 0
      <4>1. C * 0 = 0
        BY <1>2
      <4> QED BY <4>1, <3>1, <2>4, <1>2, <1>3
    <3>4. q - 1 \in Nat /\ C * q = C * (q - 1) + C /\ C * (q - 1) \in Int
      BY <3>1, <3>3, <1>2
    <3>5. (start + p - 1) \in Nat /\ k = (start + p - 1) + C * (q - 1)
      BY <3>1, <3>2, <3>4, <2>4, <1>2
    <3>6. k % C = (start + p - 1) % C
      BY <3>4, <3>5, <1>2, RingTurns
    <3> QED BY <3>6, <2>2
  <2> QED BY <2>3, <2>4
<1>7. /\ Snapshot(traces) = [p \in 1..newest |-> Snapshot(traces)[p]]
      /\ \A p \in 1..newest :
           Snapshot(traces)[p] = traces.events[(start + p - 1) % C]
  <2>1. start = IF traces.size = TraceCapacity THEN traces.next ELSE 0
    OBVIOUS
  <2> HIDE DEF start
  <2> QED BY <2>1, <1>4, SnapshotIs
<1> HIDE DEF start, last
<1>8. Snapshot(traces) = last
  <2>1. \A p \in 1..newest : Snapshot(traces)[p] = log[(m - newest) + p]
    <3> SUFFICES ASSUME NEW p \in 1..newest
                 PROVE  Snapshot(traces)[p] = log[(m - newest) + p]
      OBVIOUS
    <3>1. Snapshot(traces)[p] = traces.events[(start + p - 1) % C]
      BY <1>7
    <3>2. traces.events[(start + p - 1) % C] = log[(m - newest) + p]
      BY <1>6
    <3> QED BY <3>1, <3>2
  <2>2. last = [p \in 1..newest |-> last[p]]
        /\ \A p \in 1..newest : last[p] = log[(m - newest) + p]
    BY <1>5
  <2> QED BY <2>1, <2>2, <1>7
<1> QED BY <1>8 DEF NewestEventsKept, newest, m, last

-----------------------------------------------------------------------------
(* The ring of frames *)

LEMMA RingAgain ==
  ASSUME NEW C \in Nat \ {0}, NEW n \in Nat, NEW k \in Nat
  PROVE  ((n % C) + k) % C = (n + k) % C
<1> DEFINE q == n \div C
           r == n % C
<1>1. q \in Nat /\ r \in 0..(C - 1) /\ n = C * q + r
  BY RestIsSmall, QuotientAndRest
<1> HIDE DEF q, r
<1>2. r + k \in Nat /\ C * q \in Int /\ n + k = (r + k) + C * q
  BY <1>1
<1>3. ((r + k) + C * q) % C = (r + k) % C
  BY <1>1, <1>2, RingTurns
<1> QED BY <1>2, <1>3 DEF r

\* The frames of a ring, oldest first, are those of a history.
Holds(ring, history) ==
  /\ IsSeq(history)
  /\ ring.size = Len(history) /\ ring.size <= FrameCapacity
  /\ ring.oldest \in 0..(FrameCapacity - 1)
  /\ DOMAIN ring.records = 0..(FrameCapacity - 1)
  /\ ring = [records |-> ring.records, oldest |-> ring.oldest, size |-> ring.size]
  /\ \A p \in 0..(ring.size - 1) :
       ring.records[(ring.oldest + p) % FrameCapacity].world = history[p + 1]

\* Frames come in increasing order.
Increasing(history) ==
  /\ \A p \in 1..Len(history) : history[p].frame \in Nat
  /\ \A p, q \in 1..Len(history) : p < q => history[p].frame < history[q].frame

FramesPart ==
  /\ world.frame \in Nat
  /\ Holds(debugger, kept) /\ Increasing(kept)

LEMMA FrameOf ==
  ASSUME NEW ring, NEW history, Holds(ring, history)
  PROVE  /\ Len(history) \in Nat
         /\ IsSeq(FramesOf(ring)) /\ Len(FramesOf(ring)) = Len(history)
         /\ \A p \in 1..Len(history) : FramesOf(ring)[p].world = history[p]
<1>1. Len(history) \in Nat /\ ring.size = Len(history)
  BY SeqFacts DEF Holds
<1>2. /\ DOMAIN FramesOf(ring) = 1..Len(history)
      /\ FramesOf(ring) = [p \in 1..Len(history) |-> FramesOf(ring)[p]]
      /\ \A p \in 1..Len(history) :
           FramesOf(ring)[p] = ring.records[(ring.oldest + (p - 1)) % FrameCapacity]
  BY <1>1 DEF FramesOf, LogicalIndex
<1>3. IsSeq(FramesOf(ring)) /\ Len(FramesOf(ring)) = Len(history)
  BY <1>1, <1>2, FunctionIsSeq
<1>4. ASSUME NEW p \in 1..Len(history) PROVE FramesOf(ring)[p].world = history[p]
  <2>1. p - 1 \in 0..(ring.size - 1) /\ (p - 1) + 1 = p
    BY <1>1
  <2> QED BY <1>2, <2>1 DEF Holds
<1> QED BY <1>1, <1>3, <1>4

LEMMA NewestFrames == FramesPart => NewestFramesKept
<1> SUFFICES ASSUME FramesPart PROVE NewestFramesKept
  OBVIOUS
<1>1. Holds(debugger, kept)
  BY DEF FramesPart
<1>2. kept = [p \in 1..Len(kept) |-> kept[p]] /\ debugger.size = Len(kept)
  BY <1>1, SeqFacts DEF Holds
<1>3. \A p \in 1..Len(kept) : FramesOf(debugger)[p].world = kept[p]
  BY <1>1, FrameOf
<1> QED BY <1>2, <1>3 DEF NewestFramesKept

\* record_frame adds a frame, and drops the oldest of a full ring.
LEMMA RecordFrameHolds ==
  ASSUME NEW ring, NEW history, Holds(ring, history), NEW next, NEW inputs, NEW events,
         NEW longer, longer = Append(history, next)
  PROVE  Holds(RecordFrame(ring, next, inputs, events),
               IF Len(longer) > FrameCapacity THEN Tail(longer) ELSE longer)
<1> DEFINE C == FrameCapacity
           n == Len(history)
           o == ring.oldest
           entry == [world |-> next, inputs |-> inputs, events |-> events]
           after == RecordFrame(ring, next, inputs, events)
<1>1. C \in Nat \ {0}
  BY DiagnosticsAssumption
<1>2. /\ n \in Nat /\ DOMAIN history = 1..n /\ ring.size = n /\ n <= C
      /\ o \in 0..(C - 1) /\ o \in Nat /\ DOMAIN ring.records = 0..(C - 1)
      /\ ring = [records |-> ring.records, oldest |-> o, size |-> ring.size]
      /\ \A p \in 0..(n - 1) : ring.records[(o + p) % C].world = history[p + 1]
  BY <1>1, SeqFacts DEF Holds
<1>3. /\ IsSeq(longer) /\ Len(longer) = n + 1 /\ longer[n + 1] = next
      /\ \A p \in 1..n : longer[p] = history[p]
  <2> DEFINE S == ToSet(history) \cup {next}
  <2>1. history \in Seq(S) /\ next \in S
    BY DEF Holds, IsSeq
  <2> HIDE DEF S
  <2>2. longer \in Seq(S) /\ Len(longer) = n + 1 /\ longer[n + 1] = next
        /\ \A p \in 1..n : longer[p] = history[p]
    BY <2>1
  <2> QED BY <2>2, OwnElements
<1>4. \A p \in Nat : (o + p) % C \in 0..(C - 1)
  BY <1>1, <1>2, RestIsSmall
<1>5. \A p, q \in 0..n : p < q /\ q < C => (o + p) % C # (o + q) % C
  <2> SUFFICES ASSUME NEW p \in 0..n, NEW q \in 0..n, p < q, q < C
               PROVE  (o + p) % C # (o + q) % C
    OBVIOUS
  <2>1. o + p \in Nat /\ o + q \in Nat /\ o + p < o + q /\ (o + q) - (o + p) < C
    BY <1>1, <1>2
  <2> QED BY <1>1, <2>1, RingPlaces
<1>6. CASE n < C
  <2> DEFINE slot == (o + n) % C
  <2>1. /\ after.records = [ring.records EXCEPT ![slot] = entry]
        /\ after.oldest = o /\ after.size = n + 1
        /\ after = [records |-> after.records, oldest |-> after.oldest,
                    size |-> after.size]
    BY <1>2, <1>6 DEF RecordFrame, LogicalIndex
  <2>2. slot \in 0..(C - 1)
    BY <1>2, <1>4
  <2> HIDE DEF after, slot, entry
  <2>3. ASSUME NEW p \in 0..((n + 1) - 1)
        PROVE  after.records[(o + p) % C].world = longer[p + 1]
    <3>1. CASE p = n
      <4>1. after.records[slot] = entry
        BY <1>2, <2>1, <2>2
      <4>2. after.records[slot].world = next
        BY <4>1 DEF entry
      <4>3. (o + p) % C = slot
        BY <3>1 DEF slot
      <4>4. longer[p + 1] = next
        BY <3>1, <1>3
      <4> QED BY <4>2, <4>3, <4>4
    <3>2. CASE p < n
      <4>1. (o + p) % C # slot
        BY <1>5, <1>6, <3>2, <1>2 DEF slot
      <4>2. after.records[(o + p) % C] = ring.records[(o + p) % C]
        BY <4>1, <2>1, <1>2, <1>4
      <4>3. p \in 0..(n - 1) /\ p + 1 \in 1..n
        BY <3>2, <1>2
      <4>4. ring.records[(o + p) % C].world = history[p + 1] /\ longer[p + 1] = history[p + 1]
        BY <4>3, <1>2, <1>3
      <4> QED BY <4>2, <4>4
    <3> QED BY <3>1, <3>2, <1>2
  <2>4. DOMAIN after.records = 0..(C - 1) /\ after.size <= C
    BY <2>1, <1>2, <1>6, <1>1
  <2>5. Holds(after, longer)
    BY <2>1, <2>3, <2>4, <1>2, <1>3 DEF Holds
  <2>6. ~(Len(longer) > C)
    BY <1>1, <1>2, <1>3, <1>6
  <2> QED BY <2>5, <2>6 DEF after
<1>7. CASE n = C
  <2> DEFINE rest == Tail(longer)
             o1 == (o + 1) % C
  <2>1. /\ after.records = [ring.records EXCEPT ![o] = entry]
        /\ after.oldest = o1 /\ after.size = n
        /\ after = [records |-> after.records, oldest |-> after.oldest,
                    size |-> after.size]
    <3>1. ~(ring.size < FrameCapacity)
      BY <1>1, <1>2, <1>7
    <3> QED BY <3>1, <1>2 DEF RecordFrame
  <2>2. /\ IsSeq(rest) /\ Len(rest) = n
        /\ \A p \in 1..n : rest[p] = longer[p + 1]
    <3>1. longer \in Seq(ToSet(longer)) /\ longer # <<>>
      BY <1>2, <1>3 DEF IsSeq
    <3>2. rest \in Seq(ToSet(longer)) /\ Len(rest) = n
          /\ \A p \in 1..n : rest[p] = longer[p + 1]
      BY <3>1, <1>2, <1>3
    <3> QED BY <3>2, OwnElements
  <2>3. o1 \in 0..(C - 1)
    BY <1>1, <1>2, RestIsSmall
  <2>4. \A p \in Nat : (o1 + p) % C = ((o + 1) + p) % C
    <3>1. o + 1 \in Nat
      BY <1>2
    <3> QED BY <1>1, <3>1, RingAgain
  <2>5. o % C = o /\ (o + C * 1) % C = o % C
    BY <1>1, <1>2, RingInPlace, RingTurns
  <2> HIDE DEF after, entry, rest, o1
  <2>6. ASSUME NEW p \in 0..(n - 1)
        PROVE  after.records[(o1 + p) % C].world = rest[p + 1]
    <3>1. p \in Nat /\ (o1 + p) % C = (o + (p + 1)) % C /\ p + 1 \in 1..n
          /\ rest[p + 1] = longer[(p + 1) + 1]
      <4>1. p \in Nat /\ p + 1 \in 1..n
        BY <1>2
      <4>2. (o + 1) + p = o + (p + 1)
        BY <1>2, <4>1
      <4> QED BY <4>1, <4>2, <2>2, <2>4
    <3>2. CASE p = n - 1
      <4>1. o + (p + 1) = o + C * 1 /\ (p + 1) + 1 = n + 1
        BY <3>2, <1>1, <1>2, <1>7
      <4>2. (o1 + p) % C = o
        BY <4>1, <3>1, <2>5
      <4>3. after.records[o] = entry
        BY <2>1, <1>2
      <4>4. after.records[o].world = next
        BY <4>3 DEF entry
      <4> QED BY <4>1, <4>2, <4>4, <3>1, <1>3
    <3>3. CASE p < n - 1
      <4>1. 0 \in 0..n /\ p + 1 \in 0..n /\ 0 < p + 1 /\ p + 1 < C /\ o + 0 = o
        BY <3>3, <1>1, <1>2, <1>7
      <4>2. (o + (p + 1)) % C # o
        BY <4>1, <1>5, <2>5
      <4>3. (o + (p + 1)) % C \in 0..(C - 1)
        <5>1. p + 1 \in Nat
          OBVIOUS
        <5> QED BY <5>1, <1>4
      <4>4. after.records[(o + (p + 1)) % C] = ring.records[(o + (p + 1)) % C]
        BY <4>2, <4>3, <2>1, <1>2
      <4>5. p + 1 \in 0..(n - 1) /\ (p + 1) + 1 \in 1..n
        BY <3>3, <1>2
      <4>6. ring.records[(o + (p + 1)) % C].world = history[(p + 1) + 1]
        BY <4>5, <1>2
      <4> QED BY <4>4, <4>5, <4>6, <3>1, <1>3
    <3> QED BY <3>2, <3>3, <1>2
  <2>7. DOMAIN after.records = 0..(C - 1) /\ after.size <= C
    BY <2>1, <1>2, <1>7, <1>1
  <2>8. Holds(after, rest)
    BY <2>1, <2>2, <2>3, <2>6, <2>7 DEF Holds
  <2>9. Len(longer) > C
    BY <1>1, <1>2, <1>3, <1>7
  <2> QED BY <2>8, <2>9 DEF after, rest
<1> QED BY <1>1, <1>2, <1>6, <1>7

\* truncate_after leaves the frames up to one that is held.
LEMMA TruncateHolds ==
  ASSUME NEW ring, NEW history, Holds(ring, history), Increasing(history),
         NEW p \in 1..Len(history)
  PROVE  /\ Holds(TruncateAfter(ring, history[p].frame), SubSeq(history, 1, p))
         /\ Increasing(SubSeq(history, 1, p))
<1> DEFINE C == FrameCapacity
           n == Len(history)
           o == ring.oldest
           frame == history[p].frame
           older == {q \in 1..ring.size : FramesOf(ring)[q].world.frame <= frame}
           after == TruncateAfter(ring, frame)
           short == SubSeq(history, 1, p)
<1>1. C \in Nat \ {0}
  BY DiagnosticsAssumption
<1>2. /\ n \in Nat /\ DOMAIN history = 1..n /\ ring.size = n /\ n <= C
      /\ o \in 0..(C - 1) /\ o \in Nat /\ DOMAIN ring.records = 0..(C - 1)
      /\ \A q \in 0..(n - 1) : ring.records[(o + q) % C].world = history[q + 1]
  BY <1>1, SeqFacts DEF Holds
<1>3. older = 1..p
  <2>1. ASSUME NEW q \in 1..n PROVE FramesOf(ring)[q].world.frame <= frame <=> q <= p
    <3>1. FramesOf(ring)[q].world.frame = history[q].frame
      BY FrameOf
    <3>2. history[q].frame \in Nat /\ frame \in Nat
      BY DEF Increasing
    <3>3. q < p => history[q].frame < frame
      BY DEF Increasing
    <3>4. p < q => frame < history[q].frame
      BY DEF Increasing
    <3> QED BY <3>1, <3>2, <3>3, <3>4, <1>2
  <2> QED BY <2>1, <1>2
<1>4. Cardinality(older) = p
  <2>1. p \in Int /\ 1 \in Int /\ ~(1 > p) /\ p - 1 + 1 = p
    BY <1>2
  <2>2. Cardinality(1..p) = p
    BY <2>1, FS_Interval
  <2> QED BY <2>2, <1>3
<1> HIDE DEF older
<1>5. /\ after.records = [i \in DOMAIN ring.records |->
                           IF \E q \in p..(n - 1) : i = (o + q) % C
                           THEN NoFrame ELSE ring.records[i]]
      /\ after.oldest = o /\ after.size = p
      /\ after = [records |-> after.records, oldest |-> after.oldest,
                  size |-> after.size]
  <2>1. after = [records |-> [i \in DOMAIN ring.records |->
                                IF \E q \in p..(n - 1) : i = (o + q) % C
                                THEN NoFrame ELSE ring.records[i]],
                 oldest |-> o, size |-> p]
    <3>1. p # 0
      BY <1>2
    <3>2. Cardinality({q \in 1..ring.size : FramesOf(ring)[q].world.frame <= frame}) = p
      BY <1>4 DEF older
    <3> QED BY <3>1, <3>2, <1>2 DEF TruncateAfter, LogicalIndex
  <2> HIDE DEF after
  <2> QED BY <2>1
<1>6. /\ IsSeq(short) /\ Len(short) = p
      /\ \A q \in 1..p : short[q] = history[q]
  <2>1. 1 \in Int /\ p \in Int /\ 1 <= p /\ p - 1 + 1 = p
        /\ \A i \in 1..p : history[i] \in ToSet(history) /\ 1 + i - 1 = i
    BY <1>2 DEF ToSet
  <2>2. /\ short \in Seq(ToSet(history)) /\ Len(short) = p
        /\ \A i \in 1..p : short[i] = history[1 + i - 1]
    BY <2>1, SubSeqProperties
  <2> HIDE DEF short
  <2> QED BY <2>1, <2>2, OwnElements
<1> HIDE DEF short, after
<1>7. ASSUME NEW q \in 0..(p - 1)
      PROVE  after.records[(o + q) % C].world = short[q + 1]
  <2>1. q \in 0..(n - 1) /\ q + 1 \in 1..p /\ o + q \in Nat
    BY <1>2
  <2>2. (o + q) % C \in 0..(C - 1)
    BY <1>1, <2>1, RestIsSmall
  <2>3. ASSUME NEW r \in p..(n - 1) PROVE (o + q) % C # (o + r) % C
    <3>1. /\ n \in Nat /\ o \in Nat /\ p \in Nat /\ q \in Nat /\ r \in Nat
          /\ q < p /\ p <= r /\ r < n /\ n <= C
      BY <1>2, <2>1
    <3>2. o + r \in Nat /\ o + q < o + r /\ (o + r) - (o + q) < C
      BY <3>1, <1>1
    <3> QED BY <1>1, <2>1, <3>2, RingPlaces
  <2>4. after.records[(o + q) % C] = ring.records[(o + q) % C]
    BY <1>2, <1>5, <2>2, <2>3
  <2>5. ring.records[(o + q) % C].world = history[q + 1] /\ short[q + 1] = history[q + 1]
    BY <1>2, <1>6, <2>1
  <2> QED BY <2>4, <2>5
<1>8. DOMAIN after.records = 0..(C - 1) /\ after.size <= C
  BY <1>1, <1>2, <1>5
<1>9. Holds(after, short)
  BY <1>2, <1>5, <1>6, <1>7, <1>8 DEF Holds
<1>10. Increasing(short)
  <2>1. \A q \in 1..p : q \in 1..n
    BY <1>2
  <2> QED BY <1>6, <2>1 DEF Increasing
<1> QED BY <1>9, <1>10 DEF after, short

LEMMA RecordFrameIncreases ==
  ASSUME NEW ring, NEW history, Holds(ring, history), Increasing(history),
         NEW next, next.frame \in Nat, FrameAccepted(ring, next),
         NEW longer, longer = Append(history, next)
  PROVE  Increasing(IF Len(longer) > FrameCapacity THEN Tail(longer) ELSE longer)
<1> DEFINE n == Len(history)
<1>1. n \in Nat /\ ring.size = n /\ IsSeq(history)
  BY SeqFacts DEF Holds
<1>2. /\ longer \in Seq(ToSet(history) \cup {next})
      /\ Len(longer) = n + 1 /\ longer[n + 1] = next
      /\ \A p \in 1..n : longer[p] = history[p]
  <2> DEFINE S == ToSet(history) \cup {next}
  <2>1. history \in Seq(S) /\ next \in S
    BY <1>1 DEF IsSeq
  <2> HIDE DEF S
  <2>2. longer \in Seq(S) /\ Len(longer) = n + 1 /\ longer[n + 1] = next
        /\ \A p \in 1..n : longer[p] = history[p]
    BY <2>1
  <2> QED BY <2>2 DEF S
<1>3. n > 0 => history[n].frame < next.frame
  <2> SUFFICES ASSUME n > 0 PROVE history[n].frame < next.frame
    OBVIOUS
  <2>1. n \in 1..n
    BY <1>1
  <2>2. Last(FramesOf(ring)) = FramesOf(ring)[n]
    BY FrameOf DEF Last
  <2>3. FramesOf(ring)[n].world = history[n]
    BY <2>1, FrameOf
  <2> QED BY <2>2, <2>3, <1>1 DEF FrameAccepted
<1>4. Increasing(longer)
  <2>1. ASSUME NEW p \in 1..(n + 1) PROVE longer[p].frame \in Nat
    <3>1. CASE p = n + 1 BY <3>1, <1>2
    <3>2. CASE p \in 1..n BY <3>2, <1>2 DEF Increasing
    <3> QED BY <3>1, <3>2, <1>1
  <2>2. ASSUME NEW p \in 1..n PROVE history[p].frame < next.frame
    <3>1. CASE p = n BY <3>1, <1>1, <1>3
    <3>2. CASE p < n
      <4>1. n \in 1..n /\ p \in 1..n
        BY <3>2, <1>1
      <4>2. history[p].frame < history[n].frame
        BY <4>1, <3>2 DEF Increasing
      <4>3. history[p].frame \in Nat /\ history[n].frame \in Nat
        BY <4>1 DEF Increasing
      <4> QED BY <4>1, <4>2, <4>3, <1>1, <1>3
    <3> QED BY <3>1, <3>2, <1>1
  <2>3. ASSUME NEW p \in 1..(n + 1), NEW q \in 1..(n + 1), p < q
        PROVE  longer[p].frame < longer[q].frame
    <3>1. p \in 1..n
      BY <2>3, <1>1
    <3>2. CASE q = n + 1 BY <3>1, <3>2, <2>2, <1>2
    <3>3. CASE q \in 1..n
      <4>1. history[p].frame < history[q].frame
        BY <3>1, <3>3, <2>3 DEF Increasing
      <4> QED BY <4>1, <3>1, <3>3, <1>2
    <3> QED BY <3>2, <3>3, <1>1
  <2> QED BY <2>1, <2>3, <1>2 DEF Increasing
<1>5. Increasing(Tail(longer))
  <2>1. longer # <<>>
    BY <1>1, <1>2
  <2>2. Len(Tail(longer)) = n /\ \A p \in 1..n : Tail(longer)[p] = longer[p + 1]
    BY <1>1, <1>2, <2>1, HeadTailProperties
  <2>3. ASSUME NEW p \in 1..n PROVE p + 1 \in 1..(n + 1)
    BY <1>1
  <2>4. \A p \in 1..n : Tail(longer)[p].frame \in Nat
    BY <2>2, <2>3, <1>2, <1>4 DEF Increasing
  <2>5. ASSUME NEW p \in 1..n, NEW q \in 1..n, p < q
        PROVE  Tail(longer)[p].frame < Tail(longer)[q].frame
    <3>1. p + 1 \in 1..(n + 1) /\ q + 1 \in 1..(n + 1) /\ p + 1 < q + 1
      BY <1>1, <2>5
    <3>2. longer[p + 1].frame < longer[q + 1].frame
      BY <3>1, <1>2, <1>4 DEF Increasing
    <3> QED BY <3>2, <2>2
  <2> QED BY <2>2, <2>4, <2>5 DEF Increasing
<1> QED BY <1>4, <1>5

-----------------------------------------------------------------------------
(* Building a bundle *)

LEMMA ContentHasLength ==
  ASSUME NEW context, NEW policy, NEW path,
         IsSeq(context.traces), IsSeq(context.evidence), IsSeq(context.frames),
         IsSeq(context.visual), IsSeq(context.gates)
  PROVE  Size(Content(path, context, policy)) \in Nat
<1>1. Len(ExportedTraces(context.traces, policy)) \in Nat
  <2> DEFINE n == Len(context.traces)
             offset == IF n > MaxTraceEvents THEN n - MaxTraceEvents ELSE 0
             exported == ExportedTraces(context.traces, policy)
  <2>1. n \in Nat
    BY SeqFacts
  <2>2. n - offset \in Nat
    <3>1. MaxTraceEvents \in Nat
      BY SupportAssumption
    <3> QED BY <2>1, <3>1
  <2>3. /\ DOMAIN exported = 1..(n - offset)
        /\ exported = [i \in 1..(n - offset) |-> exported[i]]
    BY DEF ExportedTraces
  <2> HIDE DEF exported, offset
  <2> QED BY <2>2, <2>3, FunctionIsSeq DEF exported
<1>2. Len(ExportChain(context.evidence)) \in Nat
  <2> DEFINE exported == ExportChain(context.evidence)
  <2>1. Len(context.evidence) \in Nat /\ DOMAIN context.evidence = 1..Len(context.evidence)
    BY SeqFacts
  <2>2. /\ DOMAIN exported = 1..Len(context.evidence)
        /\ exported = [i \in 1..Len(context.evidence) |-> exported[i]]
    BY <2>1 DEF ExportChain
  <2> HIDE DEF exported
  <2> QED BY <2>1, <2>2, FunctionIsSeq DEF exported
<1>3. /\ Len(context.gates) \in Nat /\ Len(context.frames) \in Nat
      /\ Len(context.visual) \in Nat
  BY SeqFacts
<1>4. Len(Redaction(policy)) \in Nat /\ Len(<<path>>) \in Nat
  BY ShortIsSeq DEF Redaction
<1>5. Len(Content(path, context, policy)) \in Nat
  BY <1>1, <1>2, <1>3, <1>4, Zenon DEF Content
<1> QED BY <1>5 DEF Size

\* A bundle that build_support_bundle returns is one that
\* verify_support_bundle accepts.
LEMMA BuiltIsVerified ==
  ASSUME NEW context, NEW policy,
         IsSeq(context.traces), IsSeq(context.evidence), IsSeq(context.frames),
         IsSeq(context.visual), IsSeq(context.gates),
         BuildAccepted(context, policy)
  PROVE  BundleVerified(Build(context, policy))
<1> DEFINE paths == Paths(context, policy)
           built == Build(context, policy)
           entries == built.entries
           manifest == built.manifest
           n == Len(paths)
<1>1. /\ n \in 5..7 /\ n \in 0..7 /\ n \in Nat /\ DOMAIN paths = 1..n
      /\ \A i, j \in 1..n : paths[i] = paths[j] => i = j
      /\ Required \subseteq {paths[i] : i \in 1..n}
  BY PathFacts
<1>2. /\ entries = [i \in 1..n |->
                      [path |-> paths[i], content |-> Content(paths[i], context, policy),
                       sha256 |-> HashText(Content(paths[i], context, policy))]]
      /\ manifest = ManifestOf(entries)
      /\ built.digest = HashText(manifest)
  BY <1>1 DEF Build
<1> HIDE DEF built
<1>3. /\ DOMAIN entries = 1..n
      /\ \A i \in 1..n : /\ entries[i].path = paths[i]
                         /\ entries[i].content = Content(paths[i], context, policy)
                         /\ entries[i].sha256 = HashText(entries[i].content)
                         /\ Size(entries[i].content) \in Nat
  BY <1>2, ContentHasLength
<1>4. Len(entries) = n
  <2>1. entries = [i \in 1..n |-> entries[i]]
    BY <1>2
  <2> QED BY <1>1, <1>3, <2>1, FunctionIsSeq
<1>5. /\ DOMAIN manifest = 1..n
      /\ \A i \in 1..n : /\ manifest[i].path = paths[i]
                         /\ manifest[i].size = Size(entries[i].content)
                         /\ manifest[i].sha256 = entries[i].sha256
  BY <1>2, <1>3 DEF ManifestOf
<1>6. Len(manifest) = n
  <2>1. manifest = [i \in 1..n |-> manifest[i]]
    BY <1>2, <1>3 DEF ManifestOf
  <2> QED BY <1>1, <1>5, <2>1, FunctionIsSeq
<1>7. TotalSize(entries) \in Nat
  BY <1>1, <1>3, <1>4, TotalSizeType
<1>8. ManifestBytes(n) \in Nat /\ MaxTotalBytes \in Nat /\ MaxEntryBytes \in Nat
  BY <1>1, SupportAssumption
<1>9. /\ \A i \in 1..n : Size(entries[i].content) <= MaxEntryBytes
      /\ ManifestBytes(n) <= MaxEntryBytes
      /\ ~ExceedsLimit(TotalSize(entries), ManifestBytes(n), MaxTotalBytes)
  BY <1>3, <1>4 DEF BuildAccepted, built
<1>10. ManifestBytes(n) <= MaxTotalBytes
       /\ ManifestBytes(n) + TotalSize(entries) <= MaxTotalBytes
  BY <1>7, <1>8, <1>9 DEF ExceedsLimit
<1>11. Required \subseteq {entries[i].path : i \in DOMAIN entries}
  BY <1>1, <1>3
<1>12. \A i \in DOMAIN manifest :
         \E j \in DOMAIN entries : /\ entries[j].path = manifest[i].path
                                   /\ Size(entries[j].content) = manifest[i].size
                                   /\ entries[j].sha256 = manifest[i].sha256
  BY <1>3, <1>5
<1>13. /\ \A i, j \in DOMAIN entries : entries[i].path = entries[j].path => i = j
       /\ \A i, j \in DOMAIN manifest : manifest[i].path = manifest[j].path => i = j
  BY <1>1, <1>3, <1>5
<1>14. \A i \in DOMAIN entries : /\ Size(entries[i].content) <= MaxEntryBytes
                                 /\ HashText(entries[i].content) = entries[i].sha256
  BY <1>3, <1>9
<1>15. BundleVerified(built)
  BY <1>2, <1>4, <1>6, <1>9, <1>10, <1>11, <1>12, <1>13, <1>14 DEF BundleVerified
<1> QED BY <1>15 DEF built

-----------------------------------------------------------------------------
(* What is opened *)

SealedPart ==
  \A p \in sealed : \E key \in BundleKeys : p = Protect(p.ciphertext, key, p.nonce)

BundlePart == bundle # NoBundle => BundleVerified(bundle)

LEMMA ProtectFacts ==
  ASSUME NEW artifact, NEW key, NEW nonce, NEW p, p = Protect(artifact, key, nonce)
  PROVE  /\ p.key = key.id /\ p.epoch = key.epoch /\ p.nonce = nonce
         /\ p.plaintextDigest = HashText(artifact)
         /\ p.manifestDigest = artifact.digest /\ p.ciphertext = artifact
         /\ p.tag = <<p.key, <<p.key, p.epoch, p.nonce, p.plaintextDigest,
                               p.manifestDigest>>, p.nonce, p.ciphertext>>
         /\ p = [key |-> p.key, epoch |-> p.epoch, nonce |-> p.nonce,
                 plaintextDigest |-> p.plaintextDigest,
                 manifestDigest |-> p.manifestDigest,
                 ciphertext |-> p.ciphertext, tag |-> p.tag]
BY DEF Protect, BundleAad

\* A tag binds all of what it is made over.
LEMMA OpenedWasSealed ==
  ASSUME SealedPart, BundlePart
  PROVE  OpenedIsProtected
<1>1. ASSUME NEW p \in sealed
      PROVE  /\ \E key \in BundleKeys : key.id = p.key /\ key.epoch = p.epoch
             /\ p.tag = <<p.key, <<p.key, p.epoch, p.nonce, p.plaintextDigest,
                                   p.manifestDigest>>, p.nonce, p.ciphertext>>
             /\ p = [key |-> p.key, epoch |-> p.epoch, nonce |-> p.nonce,
                     plaintextDigest |-> p.plaintextDigest,
                     manifestDigest |-> p.manifestDigest,
                     ciphertext |-> p.ciphertext, tag |-> p.tag]
  <2>1. PICK key \in BundleKeys : p = Protect(p.ciphertext, key, p.nonce)
    BY DEF SealedPart
  <2> QED BY <2>1, ProtectFacts
<1>2. ASSUME NEW p \in sealed, NEW q \in sealed, NEW key \in BundleKeys,
             NEW x \in {p,
                        [p EXCEPT !.epoch = key.epoch],
                        [p EXCEPT !.ciphertext = q.ciphertext],
                        [p EXCEPT !.manifestDigest = q.manifestDigest],
                        [p EXCEPT !.nonce = q.nonce, !.tag = q.tag]},
             OpenAccepted(x, key, world.frame)
      PROVE  x \in sealed
  <2>1. /\ x.key = key.id /\ x.epoch = key.epoch
        /\ x.tag = <<key.id, <<x.key, x.epoch, x.nonce, x.plaintextDigest,
                               x.manifestDigest>>, x.nonce, x.ciphertext>>
    BY <1>2 DEF OpenAccepted, BundleAad
  <2>2. /\ p = [key |-> p.key, epoch |-> p.epoch, nonce |-> p.nonce,
                plaintextDigest |-> p.plaintextDigest,
                manifestDigest |-> p.manifestDigest,
                ciphertext |-> p.ciphertext, tag |-> p.tag]
        /\ p.tag = <<p.key, <<p.key, p.epoch, p.nonce, p.plaintextDigest,
                               p.manifestDigest>>, p.nonce, p.ciphertext>>
    BY <1>1
  <2>3. /\ q = [key |-> q.key, epoch |-> q.epoch, nonce |-> q.nonce,
                plaintextDigest |-> q.plaintextDigest,
                manifestDigest |-> q.manifestDigest,
                ciphertext |-> q.ciphertext, tag |-> q.tag]
        /\ q.tag = <<q.key, <<q.key, q.epoch, q.nonce, q.plaintextDigest,
                               q.manifestDigest>>, q.nonce, q.ciphertext>>
    BY <1>1
  <2>4. CASE x = p
    BY <2>4
  <2>5. CASE x = [p EXCEPT !.epoch = key.epoch]
    <3>1. x.tag = p.tag /\ x.epoch = key.epoch
      BY <2>5, <2>2, <2>3
    <3>2. key.epoch = p.epoch
      BY <3>1, <2>1, <2>2, <2>3
    <3>3. x = p
      BY <2>5, <3>2, <2>2, <2>3
    <3> QED BY <3>3
  <2>6. CASE x = [p EXCEPT !.ciphertext = q.ciphertext]
    <3>1. x.tag = p.tag /\ x.ciphertext = q.ciphertext
      BY <2>6, <2>2, <2>3
    <3>2. q.ciphertext = p.ciphertext
      BY <3>1, <2>1, <2>2, <2>3
    <3>3. x = p
      BY <2>6, <3>2, <2>2, <2>3
    <3> QED BY <3>3
  <2>7. CASE x = [p EXCEPT !.manifestDigest = q.manifestDigest]
    <3>1. x.tag = p.tag /\ x.manifestDigest = q.manifestDigest
      BY <2>7, <2>2, <2>3
    <3>2. q.manifestDigest = p.manifestDigest
      BY <3>1, <2>1, <2>2, <2>3
    <3>3. x = p
      BY <2>7, <3>2, <2>2, <2>3
    <3> QED BY <3>3
  <2>8. CASE x = [p EXCEPT !.nonce = q.nonce, !.tag = q.tag]
    <3>1. /\ x.tag = q.tag /\ x.nonce = q.nonce /\ x.key = p.key /\ x.epoch = p.epoch
          /\ x.plaintextDigest = p.plaintextDigest
          /\ x.manifestDigest = p.manifestDigest /\ x.ciphertext = p.ciphertext
      BY <2>8, <2>2, <2>3
    <3>2. /\ q.key = p.key /\ q.epoch = p.epoch /\ q.ciphertext = p.ciphertext
          /\ q.plaintextDigest = p.plaintextDigest
          /\ q.manifestDigest = p.manifestDigest
      BY <3>1, <2>1, <2>2, <2>3
    <3>3. x = [key |-> p.key, epoch |-> p.epoch, nonce |-> q.nonce,
               plaintextDigest |-> p.plaintextDigest,
               manifestDigest |-> p.manifestDigest,
               ciphertext |-> p.ciphertext, tag |-> q.tag]
      BY <2>8, <2>2, <2>3
    <3>4. x = q
      BY <3>2, <3>3, <2>2, <2>3
    <3> QED BY <3>4
  <2> QED BY <2>4, <2>5, <2>6, <2>7, <2>8
<1> QED BY <1>1, <1>2 DEF OpenedIsProtected, BundlePart

-----------------------------------------------------------------------------
(* Chains of evidence *)

\* What append makes of a world: the record of a chain with this place.
Appended(chain, i) ==
  LET entry == chain.records[i]
      envelope == entry.envelope
  IN /\ entry = [envelope |-> envelope, hash |-> entry.hash,
                 signature |-> entry.signature]
     /\ envelope = [sequence |-> i - 1, frame |-> envelope.frame,
                    world |-> envelope.world, root |-> envelope.root,
                    previous |-> IF i = 1 THEN ZeroDigest ELSE chain.records[i - 1].hash,
                    branch |-> chain.branch, parent |-> chain.parent,
                    parentFrame |-> chain.parentFrame,
                    correlation |-> envelope.correlation]
     /\ envelope.frame \in Nat
     /\ entry.hash = EnvelopeHash(envelope)
     /\ entry.signature # NoSignature => entry.signature.over = entry.hash

ChainsPart ==
  /\ DOMAIN chains # {} /\ DOMAIN chains \subseteq Branches
  /\ \A b \in DOMAIN chains :
       /\ chains[b] = [branch |-> b, parent |-> chains[b].parent,
                       parentFrame |-> chains[b].parentFrame,
                       records |-> chains[b].records]
       /\ IsSeq(chains[b].records)
       /\ \A i \in 1..Len(chains[b].records) : Appended(chains[b], i)

\* The first records of a chain.
FirstOf(part, b) ==
  /\ Len(part) <= Len(chains[b].records)
  /\ \A i \in 1..Len(part) : part[i] = chains[b].records[i]

AnchorsPart ==
  \A x \in anchors :
    /\ IsSeq(x.records) /\ x.records # <<>> /\ x.anchor = MakeAnchor(x.records)
    /\ \E b \in DOMAIN chains : FirstOf(x.records, b)

\* append adds one record that follows from the chain.
LEMMA OneRecordLonger ==
  ASSUME ChainsPart, world.frame \in Nat, NEW b \in DOMAIN chains,
         NEW correlation, NEW key \in {"none", "key"},
         NEW longer, longer = Append(chains[b].records,
                                     NewRecord(chains[b], world, correlation, key))
  PROVE  /\ IsSeq(longer) /\ Len(longer) = Len(chains[b].records) + 1
         /\ \A i \in 1..Len(chains[b].records) : longer[i] = chains[b].records[i]
         /\ \A i \in 1..Len(longer) : Appended([chains[b] EXCEPT !.records = longer], i)
<1> DEFINE chain == chains[b]
           n == Len(chain.records)
           entry == NewRecord(chain, world, correlation, key)
           after == [chain EXCEPT !.records = longer]
<1>1. /\ n \in Nat /\ IsSeq(chain.records)
      /\ \A i \in 1..n : Appended(chain, i)
      /\ chain = [branch |-> b, parent |-> chain.parent,
                  parentFrame |-> chain.parentFrame, records |-> chain.records]
  BY SeqFacts DEF ChainsPart
<1> HIDE DEF entry
<1>2. /\ IsSeq(longer) /\ Len(longer) = n + 1 /\ longer[n + 1] = entry
      /\ \A i \in 1..n : longer[i] = chain.records[i]
  <2> DEFINE S == ToSet(chain.records) \cup {entry}
  <2>1. chain.records \in Seq(S) /\ entry \in S
    BY <1>1 DEF IsSeq
  <2> HIDE DEF S
  <2>2. longer \in Seq(S) /\ Len(longer) = n + 1 /\ longer[n + 1] = entry
        /\ \A i \in 1..n : longer[i] = chain.records[i]
    BY <2>1 DEF entry
  <2> QED BY <2>2, OwnElements
<1>3. /\ after.records = longer /\ after.branch = b
      /\ after.parent = chain.parent /\ after.parentFrame = chain.parentFrame
      /\ chain.branch = b
  BY <1>1
<1> HIDE DEF after
<1>4. ASSUME NEW i \in 1..n PROVE Appended(after, i)
  <2>1. Appended(chain, i)
    BY <1>1
  <2>2. after.records[i] = chain.records[i]
    BY <1>2, <1>3
  <2>3. i # 1 => after.records[i - 1] = chain.records[i - 1]
    BY <1>1, <1>2, <1>3
  <2> QED BY <2>1, <2>2, <2>3, <1>3 DEF Appended
<1>5. Appended(after, n + 1)
  <2> DEFINE envelope == entry.envelope
  <2>1. /\ entry = [envelope |-> envelope, hash |-> entry.hash,
                    signature |-> entry.signature]
        /\ envelope = [sequence |-> n, frame |-> world.frame,
                       world |-> envelope.world, root |-> envelope.root,
                       previous |-> IF chain.records = <<>> THEN ZeroDigest
                                    ELSE chain.records[n].hash,
                       branch |-> chain.branch, parent |-> chain.parent,
                       parentFrame |-> chain.parentFrame,
                       correlation |-> envelope.correlation]
        /\ entry.hash = EnvelopeHash(envelope)
        /\ entry.signature # NoSignature => entry.signature.over = entry.hash
    BY DEF entry, NewRecord
  <2>2. (chain.records = <<>>) <=> n = 0
    BY <1>1 DEF IsSeq
  <2>3. n # 0 => after.records[n] = chain.records[n]
    BY <1>1, <1>2, <1>3
  <2>4. after.records[n + 1] = entry /\ (n + 1) - 1 = n /\ (n + 1 = 1 <=> n = 0)
    BY <1>1, <1>2, <1>3
  <2> HIDE DEF envelope
  <2>5. (IF n + 1 = 1 THEN ZeroDigest ELSE after.records[(n + 1) - 1].hash)
          = IF chain.records = <<>> THEN ZeroDigest ELSE chain.records[n].hash
    BY <2>2, <2>3, <2>4
  <2>6. envelope.frame = world.frame
    BY <2>1
  <2> QED BY <2>1, <2>4, <2>5, <2>6, <1>3 DEF Appended, envelope
<1>6. \A i \in 1..Len(longer) : Appended(after, i)
  <2>1. \A i \in 1..(n + 1) : i \in 1..n \/ i = n + 1
    BY <1>1
  <2> QED BY <2>1, <1>2, <1>4, <1>5
<1> QED BY <1>2, <1>6 DEF after

\* An anchor is still of the beginning of a chain when chains only grow.
LEMMA GrowKeepsAnchors ==
  ASSUME AnchorsPart, anchors' = anchors,
         DOMAIN chains \subseteq DOMAIN chains',
         \A b \in DOMAIN chains :
           /\ Len(chains[b].records) \in Nat /\ Len(chains'[b].records) \in Nat
           /\ Len(chains[b].records) <= Len(chains'[b].records)
           /\ \A i \in 1..Len(chains[b].records) :
                chains'[b].records[i] = chains[b].records[i]
  PROVE  AnchorsPart'
<1> SUFFICES ASSUME NEW x \in anchors
             PROVE  /\ IsSeq(x.records) /\ x.records # <<>>
                    /\ x.anchor = MakeAnchor(x.records)
                    /\ \E b \in DOMAIN chains' : FirstOf(x.records, b)'
  BY DEF AnchorsPart
<1>1. /\ IsSeq(x.records) /\ x.records # <<>> /\ x.anchor = MakeAnchor(x.records)
      /\ \E b \in DOMAIN chains : FirstOf(x.records, b)
  BY DEF AnchorsPart
<1>2. PICK b \in DOMAIN chains : FirstOf(x.records, b)
  BY <1>1
<1>3. Len(x.records) \in Nat
  BY <1>1, SeqFacts
<1>4. FirstOf(x.records, b)'
  BY <1>2, <1>3 DEF FirstOf
<1> QED BY <1>1, <1>2, <1>4

LEMMA AppendKeepsChains ==
  ASSUME ChainsPart, AnchorsPart, world.frame \in Nat,
         NEW b \in DOMAIN chains, NEW correlation, NEW key \in {"none", "key"},
         chains' = [chains EXCEPT ![b].records =
                      Append(@, NewRecord(chains[b], world, correlation, key))],
         anchors' = anchors
  PROVE  ChainsPart' /\ AnchorsPart'
<1> DEFINE longer == Append(chains[b].records, NewRecord(chains[b], world, correlation, key))
           after == [chains[b] EXCEPT !.records = longer]
<1>1. /\ IsSeq(longer) /\ Len(longer) = Len(chains[b].records) + 1
      /\ \A i \in 1..Len(chains[b].records) : longer[i] = chains[b].records[i]
      /\ \A i \in 1..Len(longer) : Appended(after, i)
  BY OneRecordLonger
<1>2. /\ DOMAIN chains' = DOMAIN chains /\ chains'[b] = after
      /\ \A c \in DOMAIN chains : c # b => chains'[c] = chains[c]
  OBVIOUS
<1>3. chains[b] = [branch |-> b, parent |-> chains[b].parent,
                   parentFrame |-> chains[b].parentFrame, records |-> chains[b].records]
  BY DEF ChainsPart
<1>4. /\ after = [branch |-> b, parent |-> after.parent,
                  parentFrame |-> after.parentFrame, records |-> after.records]
      /\ after.records = longer
  <2> HIDE DEF longer
  <2> QED BY <1>3
<1> HIDE DEF after, longer
<1>5. ASSUME NEW c \in DOMAIN chains
      PROVE  /\ chains'[c] = [branch |-> c, parent |-> chains'[c].parent,
                              parentFrame |-> chains'[c].parentFrame,
                              records |-> chains'[c].records]
             /\ IsSeq(chains'[c].records)
             /\ \A i \in 1..Len(chains'[c].records) : Appended(chains'[c], i)
  <2>1. CASE c = b
    BY <2>1, <1>1, <1>2, <1>4
  <2>2. CASE c # b
    BY <2>2, <1>2 DEF ChainsPart
  <2> QED BY <2>1, <2>2
<1>6. ChainsPart'
  BY <1>2, <1>5 DEF ChainsPart
<1>7. ASSUME NEW c \in DOMAIN chains
      PROVE  /\ Len(chains[c].records) \in Nat /\ Len(chains'[c].records) \in Nat
             /\ Len(chains[c].records) <= Len(chains'[c].records)
             /\ \A i \in 1..Len(chains[c].records) :
                  chains'[c].records[i] = chains[c].records[i]
  <2>1. Len(chains[c].records) \in Nat
    BY SeqFacts DEF ChainsPart
  <2>2. CASE c = b
    <3>1. chains'[c].records = longer /\ chains[c] = chains[b]
      BY <2>2, <1>2, <1>4
    <3>2. Len(longer) \in Nat /\ Len(chains[c].records) <= Len(longer)
      BY <2>1, <3>1, <1>1
    <3> QED BY <2>1, <3>1, <3>2, <1>1
  <2>3. CASE c # b
    BY <2>1, <2>3, <1>2
  <2> QED BY <2>2, <2>3
<1>8. AnchorsPart'
  BY <1>2, <1>7, GrowKeepsAnchors
<1> QED BY <1>6, <1>8

LEMMA ForkKeepsChains ==
  ASSUME ChainsPart, AnchorsPart, NEW b \in DOMAIN chains,
         NEW i \in DOMAIN chains[b].records, NEW branch \in Branches, Fork(b, i, branch)
  PROVE  ChainsPart' /\ AnchorsPart'
<1>1. /\ branch \notin DOMAIN chains /\ anchors' = anchors
      /\ DOMAIN chains' = DOMAIN chains \cup {branch}
      /\ \A c \in DOMAIN chains : chains'[c] = chains[c]
      /\ chains'[branch] = [branch |-> branch, parent |-> chains'[branch].parent,
                            parentFrame |-> chains'[branch].parentFrame,
                            records |-> chains'[branch].records]
      /\ chains'[branch].records = <<>>
  BY DEF Fork, ForkFrom
<1>2. ASSUME NEW c \in DOMAIN chains'
      PROVE  /\ chains'[c] = [branch |-> c, parent |-> chains'[c].parent,
                              parentFrame |-> chains'[c].parentFrame,
                              records |-> chains'[c].records]
             /\ IsSeq(chains'[c].records)
             /\ \A k \in 1..Len(chains'[c].records) : Appended(chains'[c], k)
  <2>1. CASE c \in DOMAIN chains
    BY <2>1, <1>1 DEF ChainsPart
  <2>2. CASE c = branch
    <3>1. \A k \in 1..0 : FALSE
      OBVIOUS
    <3> QED BY <3>1, <2>2, <1>1, ShortIsSeq
  <2> QED BY <2>1, <2>2, <1>1
<1>3. ChainsPart'
  BY <1>1, <1>2 DEF ChainsPart
<1>4. \A c \in DOMAIN chains : Len(chains[c].records) \in Nat
  BY SeqFacts DEF ChainsPart
<1>5. AnchorsPart'
  BY <1>1, <1>4, GrowKeepsAnchors
<1> QED BY <1>3, <1>5

LEMMA AnchorKeepsAnchors ==
  ASSUME ChainsPart, NEW b \in DOMAIN chains, Anchor(b)
  PROVE  AnchorsPart'
<1>1. /\ chains' = chains /\ chains[b].records # <<>>
      /\ anchors' = {[anchor |-> MakeAnchor(chains[b].records),
                      records |-> chains[b].records]}
  BY DEF Anchor
<1>2. IsSeq(chains[b].records)
  BY DEF ChainsPart
<1>3. Len(chains[b].records) \in Nat
  BY <1>2, SeqFacts
<1>4. FirstOf(chains[b].records, b)'
  BY <1>1, <1>3 DEF FirstOf
<1> QED BY <1>1, <1>2, <1>4 DEF AnchorsPart

-----------------------------------------------------------------------------
(* What is accepted *)

SupportInv ==
  /\ EventsPart /\ FramesPart /\ BundlePart /\ SealedPart /\ ChainsPart /\ AnchorsPart

\* A record that was altered is not accepted when a signature is required.
LEMMA AlteredIsRejected ==
  ASSUME ChainsPart, NEW a, NEW i, a[i] \in Altered,
         RecordFailure(a, i, TRUE, TRUE) = "None"
  PROVE  \E b \in DOMAIN chains :
           \E k \in 1..Len(chains[b].records) : a[i] = chains[b].records[k]
<1> DEFINE later(r) == [r EXCEPT !.envelope.frame = @ + 1]
           x == a[i]
<1>1. /\ x.hash = EnvelopeHash(x.envelope) /\ x.signature # NoSignature
      /\ x.signature.over = x.hash
  BY DEF RecordFailure, SignatureAccepted
<1>2. ASSUME NEW r \in AllRecords
      PROVE  /\ r = [envelope |-> r.envelope, hash |-> r.hash, signature |-> r.signature]
             /\ r.envelope = [sequence |-> r.envelope.sequence,
                              frame |-> r.envelope.frame,
                              world |-> r.envelope.world, root |-> r.envelope.root,
                              previous |-> r.envelope.previous,
                              branch |-> r.envelope.branch,
                              parent |-> r.envelope.parent,
                              parentFrame |-> r.envelope.parentFrame,
                              correlation |-> r.envelope.correlation]
             /\ r.envelope.frame \in Nat
             /\ r.hash = EnvelopeHash(r.envelope)
             /\ r.signature # NoSignature => r.signature.over = r.hash
  <2>1. PICK b \in DOMAIN chains : r \in ToSet(chains[b].records)
    BY DEF AllRecords
  <2>2. PICK k \in 1..Len(chains[b].records) : r = chains[b].records[k]
    BY <2>1, SeqFacts DEF ChainsPart, ToSet
  <2>3. Appended(chains[b], k)
    BY DEF ChainsPart
  <2> HIDE DEF x
  <2> QED BY <2>2, <2>3 DEF Appended
<1>3. ASSUME NEW r \in AllRecords PROVE EnvelopeHash(later(r).envelope) # r.hash
  <2> DEFINE e == r.envelope
  <2>4. r = [envelope |-> e, hash |-> r.hash, signature |-> r.signature]
    BY <1>2
  <2>5. e = [sequence |-> e.sequence, frame |-> e.frame, world |-> e.world,
             root |-> e.root, previous |-> e.previous, branch |-> e.branch,
             parent |-> e.parent, parentFrame |-> e.parentFrame,
             correlation |-> e.correlation]
    BY <1>2
  <2>6. e.frame \in Nat
    BY <1>2
  <2>7. later(r).envelope = [e EXCEPT !.frame = e.frame + 1]
    BY <2>4
  <2>8. [e EXCEPT !.frame = e.frame + 1].frame = e.frame + 1
    <3> HIDE DEF e
    <3> QED BY <2>5
  <2>1. later(r).envelope.frame = r.envelope.frame + 1
    BY <2>7, <2>8
  <2>2. r.envelope.frame + 1 # r.envelope.frame
    BY <2>6
  <2>3. EnvelopeHash(later(r).envelope) # EnvelopeHash(r.envelope)
    BY <2>1, <2>2 DEF EnvelopeHash, Sha256
  <2> QED BY <2>3, <1>2
<1>4. ASSUME NEW r \in AllRecords PROVE x # later(r)
  <2>1. later(r).hash = r.hash
    BY <1>2
  <2> QED BY <2>1, <1>1, <1>3
<1>5. ASSUME NEW r \in AllRecords
      PROVE  x # [later(r) EXCEPT !.hash = EnvelopeHash(later(r).envelope)]
  <2> DEFINE forged == [later(r) EXCEPT !.hash = EnvelopeHash(later(r).envelope)]
  <2>1. /\ forged.hash = EnvelopeHash(later(r).envelope)
        /\ forged.signature = r.signature
    BY <1>2
  <2> HIDE DEF forged
  <2>4. ASSUME x = forged PROVE FALSE
    <3>1. r.signature # NoSignature
      BY <2>1, <2>4, <1>1
    <3>2. r.signature.over = r.hash
      BY <3>1, <1>2
    <3>3. x.signature.over = EnvelopeHash(later(r).envelope)
      BY <2>1, <2>4, <1>1
    <3>4. x.signature = r.signature
      BY <2>1, <2>4
    <3> QED BY <3>2, <3>3, <3>4, <1>3
  <2> QED BY <2>4 DEF forged
<1>6. x \in AllRecords
  BY <1>4, <1>5 DEF Altered
<1>7. PICK b \in DOMAIN chains : x \in ToSet(chains[b].records)
  BY <1>6 DEF AllRecords
<1>8. PICK k \in 1..Len(chains[b].records) : x = chains[b].records[k]
  BY <1>7, SeqFacts DEF ChainsPart, ToSet
<1> QED BY <1>8

\* However long it is.
LEMMA SignedIsRecorded ==
  ASSUME ChainsPart, AnchorsPart, NEW a \in Seq(Altered), ChainValid(a, TRUE, TRUE)
  PROVE  /\ \E b \in DOMAIN chains : IsPrefix(a, chains[b].records)
         /\ \A x \in anchors : ChainMatchesAnchor(a, x.anchor) <=> a = x.records
<1>1. Len(a) \in Nat /\ DOMAIN a = 1..Len(a) /\ a = [i \in 1..Len(a) |-> a[i]]
  OBVIOUS
<1>2. ASSUME NEW i \in 1..Len(a)
      PROVE  /\ RecordFailure(a, i, TRUE, TRUE) = "None"
             /\ LinkValid(a, i)
             /\ \E b \in DOMAIN chains :
                  \E k \in 1..Len(chains[b].records) : a[i] = chains[b].records[k]
  <2>1. RecordFailure(a, i, TRUE, TRUE) = "None"
    BY <1>1 DEF ChainValid
  <2>2. LinkValid(a, i)
    BY <2>1 DEF RecordFailure
  <2>3. a[i] \in Altered
    BY <1>1
  <2> QED BY <2>1, <2>2, <2>3, AlteredIsRejected
<1>3. ASSUME NEW b \in DOMAIN chains, NEW k \in 1..Len(chains[b].records)
      PROVE  /\ chains[b].records[k].envelope.sequence = k - 1
             /\ chains[b].records[k].envelope.branch = b
  <2>1. Appended(chains[b], k) /\ chains[b].branch = b
    BY DEF ChainsPart
  <2> QED BY <2>1 DEF Appended
<1>4. ASSUME a # <<>>
      PROVE  \E b \in DOMAIN chains : FirstOf(a, b) /\ a[1].envelope.branch = b
  <2>1. 1 \in 1..Len(a)
    BY <1>1, <1>4
  <2>2. PICK b \in DOMAIN chains :
          \E k \in 1..Len(chains[b].records) : a[1] = chains[b].records[k]
    BY <1>2, <2>1
  <2>3. a[1].envelope.branch = b
    BY <1>3, <2>2
  <2>4. Len(chains[b].records) \in Nat
    BY SeqFacts DEF ChainsPart
  <2>5. ASSUME NEW i \in 1..Len(a)
        PROVE  i \in 1..Len(chains[b].records) /\ a[i] = chains[b].records[i]
    <3>1. a[i].envelope.sequence = i - 1 /\ a[i].envelope.branch = b
      <4>1. LinkValid(a, i)
        BY <1>2
      <4>2. CASE i = 1
        BY <4>1, <4>2, <2>3 DEF LinkValid
      <4>3. CASE i # 1
        BY <4>1, <4>3, <2>3 DEF LinkValid
      <4> QED BY <4>2, <4>3
    <3>6. PICK c \in DOMAIN chains :
            \E k \in 1..Len(chains[c].records) : a[i] = chains[c].records[k]
      BY <1>2
    <3>2. PICK k \in 1..Len(chains[c].records) : a[i] = chains[c].records[k]
      BY <3>6
    <3>3. c = b /\ k - 1 = i - 1
      BY <3>1, <3>2, <1>3
    <3>4. Len(chains[c].records) \in Nat
      BY SeqFacts DEF ChainsPart
    <3>5. k = i
      BY <3>3, <3>4, <1>1
    <3> QED BY <3>2, <3>3, <3>5
  <2>6. Len(a) <= Len(chains[b].records)
    <3>1. Len(a) \in 1..Len(a)
      BY <1>1, <2>1
    <3> QED BY <3>1, <2>4, <2>5
  <2>7. FirstOf(a, b)
    BY <2>5, <2>6 DEF FirstOf
  <2> QED BY <2>3, <2>7
<1>5. \E b \in DOMAIN chains : IsPrefix(a, chains[b].records)
  <2>1. CASE a = <<>>
    <3>1. PICK b \in DOMAIN chains : TRUE
      BY DEF ChainsPart
    <3>2. Len(chains[b].records) \in Nat
      BY SeqFacts DEF ChainsPart
    <3>3. SubSeq(a, 1, 0) = <<>> /\ SubSeq(chains[b].records, 1, 0) = <<>>
      BY SubSeqEmpty
    <3>4. Len(a) = 0
      BY <2>1
    <3> QED BY <3>2, <3>3, <3>4 DEF IsPrefix
  <2>2. CASE a # <<>>
    <3>1. PICK b \in DOMAIN chains : FirstOf(a, b)
      BY <2>2, <1>4
    <3> DEFINE r == chains[b].records
               n == Len(a)
               S == ToSet(a) \cup ToSet(r)
    <3>2. Len(r) \in Nat /\ DOMAIN r = 1..Len(r)
      BY SeqFacts DEF ChainsPart
    <3>3. /\ n <= Len(r) /\ n \in Nat
          /\ \A i \in 1..n : a[i] = r[i] /\ a[i] \in S /\ r[i] \in S
      BY <3>1, <1>1 DEF FirstOf, ToSet
    <3> HIDE DEF r, S, n
    <3>4. 1 \in Int /\ n \in Int /\ (1 <= n => n - 1 + 1 = n) /\ (~(1 <= n) => n = 0)
          /\ \A i \in 1..n : 1 + i - 1 = i /\ i \in 1..(n - 1 + 1)
      BY <3>3
    <3>5. /\ SubSeq(a, 1, n) \in Seq(S) /\ Len(SubSeq(a, 1, n)) = n
          /\ \A i \in 1..n : SubSeq(a, 1, n)[i] = a[i]
      BY <3>3, <3>4, SubSeqProperties
    <3>6. /\ SubSeq(r, 1, n) \in Seq(S) /\ Len(SubSeq(r, 1, n)) = n
          /\ \A i \in 1..n : SubSeq(r, 1, n)[i] = r[i]
      BY <3>3, <3>4, SubSeqProperties
    <3>7. SubSeq(a, 1, n) = SubSeq(r, 1, n)
      BY <3>3, <3>5, <3>6
    <3> QED BY <3>3, <3>7 DEF IsPrefix, r, n
  <2> QED BY <2>1, <2>2
<1>6. ASSUME NEW x \in anchors PROVE ChainMatchesAnchor(a, x.anchor) <=> a = x.records
  <2>1. /\ IsSeq(x.records) /\ x.records # <<>> /\ x.anchor = MakeAnchor(x.records)
        /\ \E b \in DOMAIN chains : FirstOf(x.records, b)
    BY DEF AnchorsPart
  <2>2. CASE a = x.records
    BY <2>1, <2>2 DEF ChainMatchesAnchor
  <2>3. ASSUME ChainMatchesAnchor(a, x.anchor) PROVE a = x.records
    <3>1. /\ a # <<>> /\ Len(a) = Len(x.records)
          /\ a[1].envelope.branch = x.records[1].envelope.branch
      BY <2>1, <2>3 DEF ChainMatchesAnchor, MakeAnchor
    <3>2. PICK b \in DOMAIN chains : FirstOf(a, b) /\ a[1].envelope.branch = b
      BY <3>1, <1>4
    <3>3. PICK c \in DOMAIN chains : FirstOf(x.records, c)
      BY <2>1
    <3>4. /\ x.records = [i \in 1..Len(x.records) |-> x.records[i]]
          /\ 1 \in 1..Len(x.records) /\ 1 \in 1..Len(chains[c].records)
      <4>1. Len(x.records) # 0
        BY <3>1, <1>1
      <4>2. Len(chains[c].records) \in Nat /\ Len(x.records) \in Nat
            /\ Len(x.records) <= Len(chains[c].records)
        BY <2>1, <3>3, SeqFacts DEF ChainsPart, FirstOf
      <4>3. 1 \in 1..Len(x.records) /\ 1 \in 1..Len(chains[c].records)
        BY <4>1, <4>2
      <4>4. x.records = [i \in 1..Len(x.records) |-> x.records[i]]
        BY <2>1, SeqFacts
      <4> QED BY <4>3, <4>4
    <3>5. x.records[1].envelope.branch = c
      BY <1>3, <3>3, <3>4 DEF FirstOf
    <3>6. b = c
      BY <3>1, <3>2, <3>5
    <3>7. \A i \in 1..Len(a) : a[i] = x.records[i]
      BY <3>1, <3>2, <3>3, <3>6 DEF FirstOf
    <3> QED BY <3>1, <3>4, <3>7, <1>1
  <2> QED BY <2>2, <2>3
<1> QED BY <1>5, <1>6

LEMMA DivergenceEventsAreSeq ==
  ASSUME NEW report, NEW correlation, NEW frame
  PROVE  IsSeq(DivergenceEvents(report, correlation, frame))
<1> DEFINE event(code, detail) == [code |-> code, frame |-> frame,
                                   correlation |-> correlation, detail |-> detail]
           found == IF report.divergent
                    THEN <<event("StateDivergence",
                                 IF report.chunk = -1 THEN 0 ELSE report.chunk)>>
                    ELSE <<>>
           placed == IF report.divergent /\ report.chunk # -1
                     THEN <<event("DivergenceLocalized", report.chunk)>> ELSE <<>>
           sample == <<BudgetSample("DivergenceLocalization", correlation, frame)>>
<1>1. IsSeq(found) /\ IsSeq(placed) /\ IsSeq(sample)
  BY ShortIsSeq
<1>2. DivergenceEvents(report, correlation, frame) = (found \o placed) \o sample
  BY DEF DivergenceEvents
<1> HIDE DEF found, placed, sample
<1>3. IsSeq(found \o placed)
  BY <1>1, ConcatIsSeq
<1> QED BY <1>1, <1>2, <1>3, ConcatIsSeq

LEMMA ContextIsSeq ==
  ASSUME EventsPart, FramesPart, ChainsPart, NEW b \in DOMAIN chains
  PROVE  /\ IsSeq(Context(b).traces) /\ IsSeq(Context(b).evidence)
         /\ IsSeq(Context(b).frames) /\ IsSeq(Context(b).visual)
         /\ IsSeq(Context(b).gates)
<1>1. IsSeq(Snapshot(traces))
  <2> DEFINE start == IF traces.size = TraceCapacity THEN traces.next ELSE 0
             n == traces.size
             shown == Snapshot(traces)
  <2>1. n \in Nat
    BY SeqFacts, DiagnosticsAssumption DEF EventsPart, Recorded, Least
  <2>2. DOMAIN shown = 1..n /\ shown = [p \in 1..n |-> shown[p]]
    BY DEF Snapshot
  <2> HIDE DEF shown, n
  <2> QED BY <2>1, <2>2, FunctionIsSeq DEF shown
<1>2. IsSeq(ExportFrames(debugger))
  <2> DEFINE n == debugger.size
             exported == [p \in 1..n |->
                            LET r == FramesOf(debugger)[p]
                            IN [world |-> r.world, inputs |-> r.inputs,
                                events |-> [e \in DOMAIN r.events |->
                                              [correlation |-> r.events[e].correlation,
                                               sequence |-> r.events[e].sequence,
                                               code |-> r.events[e].code]]]]
             head == <<"neoeng.dcore.time-travel.v1">>
  <2>1. n \in Nat
    BY SeqFacts DEF FramesPart, Holds
  <2>2. DOMAIN exported = 1..n /\ exported = [p \in 1..n |-> exported[p]]
    OBVIOUS
  <2>3. ExportFrames(debugger) = head \o exported
    BY DEF ExportFrames
  <2>4. IsSeq(head)
    BY ShortIsSeq
  <2> HIDE DEF exported, n, head
  <2>5. IsSeq(exported)
    BY <2>1, <2>2, FunctionIsSeq
  <2> QED BY <2>3, <2>4, <2>5, ConcatIsSeq
<1>3. IsSeq(chains[b].records)
  BY DEF ChainsPart
<1>4. IsSeq(<<>>) /\ IsSeq(<<[complete |-> TRUE]>>)
  BY ShortIsSeq
<1> QED BY <1>1, <1>2, <1>3, <1>4 DEF Context

LEMMA BuildEventsAreSeq ==
  ASSUME NEW b, NEW sample
  PROVE  IsSeq(BuildEvents(Context(b), 4) \o <<sample>>)
<1> DEFINE event(code, detail) == [code |-> code, frame |-> 0,
                                   correlation |-> 4, detail |-> detail]
           gates == Context(b).gates
           deferred == [i \in DOMAIN gates |-> event("ValidationGateDeferred", i - 1)]
           created == <<event("SupportBundleCreated", 0)>>
<1>1. DOMAIN gates = 1..1
  BY DEF Context
<1>2. IsSeq(created) /\ IsSeq(<<sample>>)
  BY ShortIsSeq
<1>3. BuildEvents(Context(b), 4) = deferred \o created
  BY DEF BuildEvents
<1>4. DOMAIN deferred = 1..1 /\ deferred = [i \in 1..1 |-> deferred[i]]
  BY <1>1
<1> HIDE DEF deferred, created
<1>5. IsSeq(deferred)
  BY <1>4, FunctionIsSeq
<1>6. IsSeq(deferred \o created)
  BY <1>2, <1>5, ConcatIsSeq
<1> QED BY <1>2, <1>3, <1>6, ConcatIsSeq

LEMMA InitSupport == SupportInit => SupportInv
<1> SUFFICES ASSUME SupportInit PROVE SupportInv
  OBVIOUS
<1> DEFINE first == CHOOSE m \in Branches : \A n \in Branches : m <= n
<1>1. /\ world = [frame |-> 0, bodies |-> <<>>] /\ debugger = EmptyDebugger
      /\ chains = [b \in {first} |-> NewChain(b)]
      /\ anchors = {} /\ bundle = NoBundle /\ sealed = {} /\ kept = <<>>
  BY DEF SupportInit
<1>2. EventsPart
  BY InitEvents
<1>3. FramesPart
  <2>1. IsSeq(kept) /\ Len(kept) = 0
    BY <1>1, ShortIsSeq
  <2>2. FrameCapacity \in Nat \ {0}
    BY DiagnosticsAssumption
  <2>3. /\ debugger.size = 0 /\ debugger.oldest = 0
        /\ DOMAIN debugger.records = 0..(FrameCapacity - 1)
        /\ debugger = [records |-> debugger.records, oldest |-> debugger.oldest,
                       size |-> debugger.size]
    BY <1>1 DEF EmptyDebugger
  <2>4. Holds(debugger, kept)
    BY <2>1, <2>2, <2>3 DEF Holds
  <2>5. Increasing(kept)
    BY <2>1 DEF Increasing
  <2>6. world.frame \in Nat
    BY <1>1
  <2> QED BY <2>4, <2>5, <2>6 DEF FramesPart
<1>4. first \in Branches
  <2>1. PICK x \in Branches : \A y \in Branches : x <= y
    BY SupportAssumption, LeastNumber
  <2> QED BY <2>1
<1> HIDE DEF first
<1>5. ChainsPart
  <2>1. /\ DOMAIN chains = {first} /\ chains[first].records = <<>>
        /\ chains[first] = [branch |-> first, parent |-> chains[first].parent,
                            parentFrame |-> chains[first].parentFrame,
                            records |-> chains[first].records]
    BY <1>1 DEF NewChain
  <2>2. IsSeq(chains[first].records) /\ Len(chains[first].records) = 0
    BY <2>1, ShortIsSeq
  <2>3. \A i \in 1..0 : FALSE
    OBVIOUS
  <2> QED BY <2>1, <2>2, <2>3, <1>4 DEF ChainsPart
<1> QED BY <1>1, <1>2, <1>3, <1>5
        DEF SupportInv, BundlePart, SealedPart, AnchorsPart

\* What a call leaves alone stays as it is.
LEMMA SameParts ==
  /\ EventsPart /\ UNCHANGED <<traces, log>> => EventsPart'
  /\ FramesPart /\ UNCHANGED <<world, debugger, kept>> => FramesPart'
  /\ BundlePart /\ UNCHANGED bundle => BundlePart'
  /\ SealedPart /\ UNCHANGED sealed => SealedPart'
  /\ ChainsPart /\ UNCHANGED chains => ChainsPart'
  /\ AnchorsPart /\ UNCHANGED <<chains, anchors>> => AnchorsPart'
BY DEF EventsPart, FramesPart, BundlePart, SealedPart, ChainsPart, AnchorsPart, FirstOf

LEMMA StepWorldKeeps ==
  ASSUME SupportInv, NEW bodies \in BodyLists, StepWorld(bodies)
  PROVE  SupportInv'
<1> DEFINE next == [frame |-> world.frame + 1, bodies |-> bodies]
           event == [code |-> "FrameAdvanced", frame |-> next.frame,
                     correlation |-> 1, detail |-> 0]
           shown == ByFrame(traces', next.frame)
           longer == Append(kept, next)
<1>1. /\ world' = next /\ Trace(<<event>>)
      /\ FrameAccepted(debugger, next)
      /\ debugger' = RecordFrame(debugger, next, <<>>, shown)
      /\ kept' = IF Len(longer) > FrameCapacity THEN Tail(longer) ELSE longer
      /\ UNCHANGED <<chains, anchors, bundle, sealed>>
  BY DEF StepWorld
<1>2. EventsPart'
  <2>1. IsSeq(<<event>>)
    BY ShortIsSeq
  <2> HIDE DEF event
  <2> QED BY <1>1, <2>1, TraceKeeps DEF SupportInv
<1>3. next.frame \in Nat /\ Holds(debugger, kept) /\ Increasing(kept)
  BY DEF SupportInv, FramesPart
<1> HIDE DEF next, event, shown
<1>4. Holds(debugger, kept)'
  BY <1>1, <1>3, RecordFrameHolds
<1>5. Increasing(kept)'
  BY <1>1, <1>3, RecordFrameIncreases
<1>6. FramesPart'
  BY <1>1, <1>3, <1>4, <1>5 DEF FramesPart
<1> QED BY <1>1, <1>2, <1>6, SameParts DEF SupportInv

LEMMA RollbackKeeps ==
  ASSUME SupportInv, NEW p \in 1..debugger.size, Rollback(p)
  PROVE  SupportInv'
<1> DEFINE target == FramesOf(debugger)[p].world
<1>1. /\ world' = target /\ debugger' = TruncateAfter(debugger, target.frame)
      /\ kept' = SubSeq(kept, 1, p)
      /\ UNCHANGED <<traces, chains, anchors, bundle, sealed, log>>
  BY DEF Rollback
<1>2. Holds(debugger, kept) /\ Increasing(kept) /\ p \in 1..Len(kept)
  BY DEF SupportInv, FramesPart, Holds
<1>3. target = kept[p]
  BY <1>2, FrameOf
<1>4. target.frame \in Nat
  BY <1>2, <1>3 DEF Increasing
<1> HIDE DEF target
<1>5. Holds(debugger, kept)' /\ Increasing(kept)'
  BY <1>1, <1>2, <1>3, TruncateHolds
<1>6. FramesPart'
  BY <1>1, <1>4, <1>5 DEF FramesPart
<1> QED BY <1>1, <1>6, SameParts DEF SupportInv

LEMMA AppendEvidenceKeeps ==
  ASSUME SupportInv, NEW b \in DOMAIN chains, NEW signer \in {"none", "key", "fails"},
         AppendEvidence(b, signer)
  PROVE  SupportInv'
<1> DEFINE sample == BudgetSample("EvidenceCheckpoint", 2, world.frame)
           created == [code |-> "EvidenceCreated", frame |-> world.frame,
                       correlation |-> 2, detail |-> 0]
<1>1. UNCHANGED <<world, debugger, anchors, bundle, sealed, kept>>
  BY DEF AppendEvidence
<1>2. world.frame \in Nat
  BY DEF SupportInv, FramesPart
<1>3. IsSeq(<<sample>>) /\ IsSeq(<<created, sample>>)
  BY ShortIsSeq
<1>4. CASE signer = "fails"
  <2>1. Trace(<<sample>>) /\ chains' = chains
    BY <1>4 DEF AppendEvidence
  <2> HIDE DEF sample
  <2>2. EventsPart'
    BY <1>3, <2>1, TraceKeeps DEF SupportInv
  <2> QED BY <1>1, <2>1, <2>2, SameParts DEF SupportInv
<1>5. CASE signer # "fails"
  <2>1. /\ Trace(<<created, sample>>)
        /\ chains' = [chains EXCEPT ![b].records =
                        Append(@, NewRecord(chains[b], world, 2, signer))]
    BY <1>5 DEF AppendEvidence
  <2> HIDE DEF sample, created
  <2>2. EventsPart'
    BY <1>3, <2>1, TraceKeeps DEF SupportInv
  <2>3. signer \in {"none", "key"}
    BY <1>5
  <2>4. ChainsPart' /\ AnchorsPart'
    BY <1>1, <1>2, <2>1, <2>3, AppendKeepsChains DEF SupportInv
  <2> QED BY <1>1, <2>2, <2>4, SameParts DEF SupportInv
<1> QED BY <1>4, <1>5

LEMMA TracedOnly ==
  ASSUME SupportInv, NEW events, IsSeq(events), Trace(events),
         UNCHANGED <<world, debugger, chains, anchors, bundle, sealed, kept>>
  PROVE  SupportInv'
<1>1. EventsPart'
  BY TraceKeeps DEF SupportInv
<1> QED BY <1>1, SameParts DEF SupportInv

LEMMA VerifyKeeps ==
  ASSUME SupportInv, NEW b \in DOMAIN chains,
         \/ \E required, verifier \in BOOLEAN :
              \E i \in DOMAIN chains[b].records : VerifyState(b, i, required, verifier)
         \/ \E x \in anchors, required, verifier \in BOOLEAN :
              VerifyChain(b, x.anchor, required, verifier)
         \/ \E p \in 1..debugger.size : DiagnoseFrame(p)
  PROVE  SupportInv'
<1>1. ASSUME NEW required, NEW verifier, NEW i, VerifyState(b, i, required, verifier)
      PROVE  SupportInv'
  <2> DEFINE entry == chains[b].records[i]
             failure == StateFailure(world, entry, required, verifier)
             events == IF failure = "None" THEN <<>>
                       ELSE <<FailureEvent(failure, entry.envelope)>>
  <2>1. /\ Trace(events)
        /\ UNCHANGED <<world, debugger, chains, anchors, bundle, sealed, kept>>
    BY <1>1 DEF VerifyState
  <2>2. IsSeq(events)
    BY ShortIsSeq
  <2> HIDE DEF events
  <2> QED BY <2>1, <2>2, TracedOnly
<1>2. ASSUME NEW x, NEW required, NEW verifier, VerifyChain(b, x.anchor, required, verifier)
      PROVE  SupportInv'
  <2> DEFINE events == ChainEvents(chains[b].records, required, verifier, x.anchor)
  <2>1. /\ Trace(events)
        /\ UNCHANGED <<world, debugger, chains, anchors, bundle, sealed, kept>>
    BY <1>2 DEF VerifyChain
  <2>2. events = <<>> \/ \E e : events = <<e>>
    BY DEF ChainEvents
  <2>3. IsSeq(events)
    BY <2>2, ShortIsSeq
  <2> HIDE DEF events
  <2> QED BY <2>1, <2>3, TracedOnly
<1>3. ASSUME NEW p, DiagnoseFrame(p) PROVE SupportInv'
  <2> DEFINE events == DivergenceEvents(
                         Diagnose(FramesOf(debugger)[p].world, world, ChunkSize),
                         3, world.frame)
  <2>1. /\ Trace(events)
        /\ UNCHANGED <<world, debugger, chains, anchors, bundle, sealed, kept>>
    BY <1>3 DEF DiagnoseFrame
  <2>2. IsSeq(events)
    BY DivergenceEventsAreSeq
  <2> HIDE DEF events
  <2> QED BY <2>1, <2>2, TracedOnly
<1> QED BY <1>1, <1>2, <1>3

LEMMA BuildBundleKeeps ==
  ASSUME SupportInv, NEW b \in DOMAIN chains, NEW policy \in Policies,
         BuildBundle(b, policy)
  PROVE  SupportInv'
<1> DEFINE context == Context(b)
           sample == BudgetSample("SupportBundleExport", 4, 0)
<1>1. UNCHANGED <<world, debugger, chains, anchors, sealed, kept>>
  BY DEF BuildBundle
<1>2. CASE BuildAccepted(context, policy)
  <2>1. /\ bundle' = Build(context, policy)
        /\ Trace(BuildEvents(context, 4) \o <<sample>>)
    BY <1>2 DEF BuildBundle
  <2>2. IsSeq(BuildEvents(context, 4) \o <<sample>>)
    BY BuildEventsAreSeq
  <2>3. EventsPart'
    BY <2>1, <2>2, TraceKeeps DEF SupportInv
  <2>4. BundleVerified(Build(context, policy))
    <3>1. /\ IsSeq(context.traces) /\ IsSeq(context.evidence) /\ IsSeq(context.frames)
          /\ IsSeq(context.visual) /\ IsSeq(context.gates)
      BY ContextIsSeq DEF SupportInv
    <3> HIDE DEF context
    <3> QED BY <3>1, <1>2, BuiltIsVerified
  <2>5. BundlePart'
    BY <2>1, <2>4 DEF BundlePart
  <2> QED BY <1>1, <2>3, <2>5, SameParts DEF SupportInv
<1>3. CASE ~BuildAccepted(context, policy)
  <2>1. Trace(<<sample>>) /\ bundle' = bundle
    BY <1>3 DEF BuildBundle
  <2>2. IsSeq(<<sample>>)
    BY ShortIsSeq
  <2> QED BY <1>1, <2>1, <2>2, TracedOnly
<1> QED BY <1>2, <1>3

LEMMA ProtectKeeps ==
  ASSUME SupportInv, NEW key \in BundleKeys, ProtectBundle(key)
  PROVE  SupportInv'
<1>1. UNCHANGED <<world, debugger, traces, chains, anchors, bundle, log, kept>>
  BY DEF ProtectBundle
<1>2. SealedPart'
  <2>1. CASE sealed' = sealed
    BY <2>1, SameParts DEF SupportInv
  <2>2. CASE sealed' = sealed \cup {Protect(bundle, key, Cardinality(sealed) + 1)}
    <3> DEFINE p == Protect(bundle, key, Cardinality(sealed) + 1)
    <3>1. p = Protect(p.ciphertext, key, p.nonce)
      <4>1. p.ciphertext = bundle /\ p.nonce = Cardinality(sealed) + 1
        BY ProtectFacts
      <4> QED BY <4>1
    <3> HIDE DEF p
    <3>2. sealed' = sealed \cup {p}
      BY <2>2 DEF p
    <3> QED BY <3>1, <3>2 DEF SupportInv, SealedPart
  <2> QED BY <2>1, <2>2 DEF ProtectBundle
<1> QED BY <1>1, <1>2, SameParts DEF SupportInv

LEMMA NextKeepsSupport ==
  ASSUME SupportInv, [SupportNext]_supportVars
  PROVE  SupportInv'
<1>1. ASSUME NEW bodies \in BodyLists, StepWorld(bodies) PROVE SupportInv'
  BY <1>1, StepWorldKeeps
<1>2. ASSUME NEW p \in 1..debugger.size, Rollback(p) PROVE SupportInv'
  BY <1>2, RollbackKeeps
<1>3. ASSUME NEW b \in DOMAIN chains, NEW signer \in {"none", "key", "fails"},
             AppendEvidence(b, signer)
      PROVE  SupportInv'
  BY <1>3, AppendEvidenceKeeps
<1>4. ASSUME NEW b \in DOMAIN chains,
             \/ \E required, verifier \in BOOLEAN :
                  \E i \in DOMAIN chains[b].records : VerifyState(b, i, required, verifier)
             \/ \E x \in anchors, required, verifier \in BOOLEAN :
                  VerifyChain(b, x.anchor, required, verifier)
      PROVE  SupportInv'
  BY <1>4, VerifyKeeps
<1>5. ASSUME NEW b \in DOMAIN chains, NEW branch \in Branches,
             NEW i \in DOMAIN chains[b].records, Fork(b, i, branch)
      PROVE  SupportInv'
  <2>1. ChainsPart' /\ AnchorsPart'
    BY <1>5, ForkKeepsChains DEF SupportInv
  <2>2. UNCHANGED <<world, debugger, traces, bundle, sealed, log, kept>>
    BY <1>5 DEF Fork
  <2> QED BY <2>1, <2>2, SameParts DEF SupportInv
<1>6. ASSUME NEW b \in DOMAIN chains, Anchor(b) PROVE SupportInv'
  <2>1. AnchorsPart'
    BY <1>6, AnchorKeepsAnchors DEF SupportInv
  <2>2. UNCHANGED <<world, debugger, traces, chains, bundle, sealed, log, kept>>
    BY <1>6 DEF Anchor
  <2> QED BY <2>1, <2>2, SameParts DEF SupportInv
<1>7. ASSUME NEW p \in 1..debugger.size, DiagnoseFrame(p) PROVE SupportInv'
  <2>1. PICK b \in DOMAIN chains : TRUE
    BY DEF SupportInv, ChainsPart
  <2> QED BY <2>1, <1>7, VerifyKeeps
<1>8. ASSUME NEW b \in DOMAIN chains, NEW policy \in Policies, BuildBundle(b, policy)
      PROVE  SupportInv'
  BY <1>8, BuildBundleKeeps
<1>9. ASSUME NEW key \in BundleKeys, ProtectBundle(key) PROVE SupportInv'
  BY <1>9, ProtectKeeps
<1>10. CASE UNCHANGED supportVars
  BY <1>10, SameParts DEF SupportInv, supportVars
<1> QED BY <1>1, <1>2, <1>3, <1>4, <1>5, <1>6, <1>7, <1>8, <1>9, <1>10 DEF SupportNext

-----------------------------------------------------------------------------
(* What a host's records promise *)

\* The rings hold what their histories say, every chain is what its appends
\* made of it, every anchor is of the beginning of a chain, and what is sealed
\* was sealed with a key of the host (TraceBuffer, TimeTravelDebugger,
\* EvidenceChain and protect_support_bundle, however their calls interleave).
THEOREM SupportIsInvariant == SupportSpec => []SupportInv
<1>1. SupportInit => SupportInv
  BY InitSupport
<1>2. SupportInv /\ [SupportNext]_supportVars => SupportInv'
  BY NextKeepsSupport
<1> QED BY <1>1, <1>2, PTL DEF SupportSpec

\* A bundle that is built verifies, and what open_protected_support_bundle
\* accepts was protected as it is, whatever is exchanged between bundles.
THEOREM WhatIsOpenedWasProtected == SupportSpec => []OpenedIsProtected
<1>1. SupportInv => OpenedIsProtected
  BY OpenedWasSealed DEF SupportInv
<1> QED BY <1>1, SupportIsInvariant, PTL

\* Signed records that verify_evidence_chain accepts are the beginning of one
\* chain, and with an anchor all that was anchored, however they are damaged,
\* dropped, repeated or mixed.
THEOREM AcceptedChainsWereRecorded == SupportSpec => []SignedChainsAreRecorded
<1>1. SupportInv => SignedChainsAreRecorded
  <2> SUFFICES ASSUME SupportInv, NEW a \in SeqOf(Altered, 2), ChainValid(a, TRUE, TRUE)
               PROVE  /\ \E b \in DOMAIN chains : IsPrefix(a, chains[b].records)
                      /\ \A x \in anchors : ChainMatchesAnchor(a, x.anchor) <=> a = x.records
    BY DEF SignedChainsAreRecorded
  <2>1. a \in Seq(Altered)
    <3>1. PICK m \in 0..2 : a \in [1..m -> Altered]
      BY DEF SeqOf
    <3> QED BY <3>1
  <2> QED BY <2>1, SignedIsRecorded DEF SupportInv
<1> QED BY <1>1, SupportIsInvariant, PTL

-----------------------------------------------------------------------------
(* Powers of two and the height of a tree *)

PowersTo(f, m) == f = [k \in 0..m |-> IF k = 0 THEN 1 ELSE 2 * f[k - 1]]

LEMMA PowersThere ==
  ASSUME NEW m \in Nat
  PROVE  \E f : PowersTo(f, m)
<1> DEFINE S == {n \in Nat : \E f : PowersTo(f, n)}
<1>1. 0 \in S
  <2> DEFINE f == [k \in 0..0 |-> 1]
  <2>1. PowersTo(f, 0) BY DEF PowersTo
  <2> QED BY <2>1
<1>2. ASSUME NEW n \in Nat, n \in S PROVE n + 1 \in S
  <2>1. PICK f : PowersTo(f, n) BY <1>2
  <2> DEFINE g == [k \in 0..(n + 1) |-> IF k <= n THEN f[k] ELSE 2 * f[n]]
  <2>2. ASSUME NEW k \in 0..(n + 1)
        PROVE  g[k] = IF k = 0 THEN 1 ELSE 2 * g[k - 1]
    <3>1. CASE k = 0 BY <3>1, <2>1 DEF PowersTo
    <3>2. CASE k # 0 /\ k <= n
      <4>1. g[k] = f[k] /\ g[k - 1] = f[k - 1] BY <3>2
      <4>2. f[k] = 2 * f[k - 1] BY <3>2, <2>1 DEF PowersTo
      <4> QED BY <4>1, <4>2, <3>2
    <3>3. CASE k = n + 1
      <4>1. g[k] = 2 * f[n] /\ g[k - 1] = f[n] BY <3>3
      <4> QED BY <4>1, <3>3
    <3> QED BY <3>1, <3>2, <3>3
  <2>3. PowersTo(g, n + 1) BY <2>2 DEF PowersTo
  <2> HIDE DEF g
  <2>4. n + 1 \in Nat OBVIOUS
  <2> QED BY <2>3, <2>4
<1> HIDE DEF S
<1>3. \A n \in Nat : n \in S BY <1>1, <1>2, Induction
<1> QED BY <1>3 DEF S

LEMMA PowersAgree ==
  ASSUME NEW m \in Nat, NEW n \in Nat, NEW f, NEW g,
         PowersTo(f, m), PowersTo(g, n), m <= n
  PROVE  \A k \in 0..m : f[k] = g[k]
<1> DEFINE S == {k \in Nat : k <= m => f[k] = g[k]}
<1>1. 0 \in S BY DEF PowersTo
<1>2. ASSUME NEW k \in 0..(m - 1), k \in S PROVE k + 1 \in S
  <2>1. f[k + 1] = 2 * f[k] BY DEF PowersTo
  <2>2. g[k + 1] = 2 * g[k] BY DEF PowersTo
  <2> QED BY <2>1, <2>2, <1>2
<1> HIDE DEF S
<1>3. \A k \in 0..m : k \in S BY <1>1, <1>2, BoundedInduction
<1> QED BY <1>3 DEF S

LEMMA PowerIs ==
  ASSUME NEW n \in Nat
  PROVE  \E f : PowersTo(f, n) /\ PowerOfTwo(n) = f[n]
<1> DEFINE f == CHOOSE g : PowersTo(g, n)
<1>1. PowersTo(f, n) BY PowersThere
<1>2. PowerOfTwo(n) = f[n] BY DEF PowerOfTwo, PowersTo
<1> QED BY <1>1, <1>2

LEMMA PowerOfNext ==
  ASSUME NEW n \in Nat
  PROVE  PowerOfTwo(n + 1) = 2 * PowerOfTwo(n)
<1>1. PICK f : PowersTo(f, n) /\ PowerOfTwo(n) = f[n] BY PowerIs
<1>2. n + 1 \in Nat /\ n <= n + 1 /\ n \in 0..n /\ n + 1 \in 0..(n + 1) /\ (n + 1) - 1 = n
  OBVIOUS
<1>3. PICK g : PowersTo(g, n + 1) /\ PowerOfTwo(n + 1) = g[n + 1] BY <1>2, PowerIs
<1>4. f[n] = g[n] BY <1>1, <1>2, <1>3, PowersAgree
<1>5. g[n + 1] = 2 * g[n] BY <1>2, <1>3 DEF PowersTo
<1> QED BY <1>1, <1>3, <1>4, <1>5

LEMMA PowerFacts ==
  /\ PowerOfTwo(0) = 1
  /\ \A n \in Nat : /\ PowerOfTwo(n) \in Nat \ {0} /\ PowerOfTwo(n) > n
                    /\ PowerOfTwo(n + 1) = 2 * PowerOfTwo(n)
<1> DEFINE S == {n \in Nat : PowerOfTwo(n) \in Nat \ {0} /\ PowerOfTwo(n) > n}
<1>1. PowerOfTwo(0) = 1
  <2>1. PICK f : PowersTo(f, 0) /\ PowerOfTwo(0) = f[0] BY PowerIs
  <2> QED BY <2>1 DEF PowersTo
<1>2. 0 \in S BY <1>1
<1>3. ASSUME NEW n \in Nat, n \in S PROVE n + 1 \in S
  <2>1. PowerOfTwo(n + 1) = 2 * PowerOfTwo(n) BY PowerOfNext
  <2>2. PowerOfTwo(n) \in Nat \ {0} /\ PowerOfTwo(n) > n BY <1>3
  <2> QED BY <2>1, <2>2
<1> HIDE DEF S
<1>4. \A n \in Nat : n \in S BY <1>2, <1>3, Induction
<1> QED BY <1>1, <1>4, PowerOfNext DEF S

LEMMA HeightFacts ==
  ASSUME NEW n \in Nat
  PROVE  Height(n) \in Nat /\ PowerOfTwo(Height(n)) >= n
<1> DEFINE T == {h \in Nat : PowerOfTwo(h) >= n}
<1>1. n \in T
  <2>1. PowerOfTwo(n) \in Nat /\ PowerOfTwo(n) > n BY PowerFacts
  <2> QED BY <2>1
<1>2. PICK h \in T : \A g \in T : h <= g BY <1>1, LeastNumber
<1>3. h \in 0..n /\ PowerOfTwo(h) >= n BY <1>1, <1>2
<1>4. ASSUME NEW g \in 0..(h - 1) PROVE PowerOfTwo(g) < n
  <2>1. g \in Nat /\ g < h BY <1>3
  <2>2. ~(PowerOfTwo(g) >= n) BY <2>1, <1>2
  <2>3. PowerOfTwo(g) \in Nat BY <2>1, PowerFacts
  <2> QED BY <2>2, <2>3
<1> HIDE DEF T
<1>5. \E x \in 0..n : /\ PowerOfTwo(x) >= n
                      /\ \A g \in 0..(x - 1) : PowerOfTwo(g) < n
  BY <1>3, <1>4
<1>6. Height(n) \in 0..n /\ PowerOfTwo(Height(n)) >= n BY <1>5 DEF Height
<1> QED BY <1>6

\* Half of a place, and half of that.
LEMMA HalfAgain ==
  ASSUME NEW c \in Nat, NEW P \in Nat \ {0}
  PROVE  c \div (2 * P) = (c \div P) \div 2
<1> DEFINE q == c \div P
           r == c % P
           q1 == q \div 2
           r1 == q % 2
           Q == c \div (2 * P)
           R == c % (2 * P)
<1>1. q \in Nat /\ r \in 0..(P - 1) /\ c = P * q + r
  BY RestIsSmall, QuotientAndRest
<1>2. 2 \in Nat \ {0} /\ 2 * P \in Nat \ {0}
  OBVIOUS
<1>3. q1 \in Nat /\ r1 \in 0..1 /\ q = 2 * q1 + r1
  BY <1>1, <1>2, RestIsSmall, QuotientAndRest
<1>4. Q \in Nat /\ R \in 0..(2 * P - 1) /\ c = (2 * P) * Q + R
  BY <1>2, RestIsSmall, QuotientAndRest
<1> HIDE DEF q, r, q1, r1, Q, R
<1> DEFINE s == (IF r1 = 1 THEN P ELSE 0) + r
<1>5. s \in 0..(2 * P - 1)
  BY <1>1, <1>3
<1>6. P * q = (2 * P) * q1 + (IF r1 = 1 THEN P ELSE 0)
  <2>1. CASE r1 = 0
    <3>1. q = 2 * q1 BY <2>1, <1>3
    <3>2. P * (2 * q1) = (2 * P) * q1 BY <1>3
    <3> QED BY <3>1, <3>2, <2>1, <1>3
  <2>2. CASE r1 = 1
    <3>1. q = 2 * q1 + 1 BY <2>2, <1>3
    <3>2. P * (2 * q1 + 1) = (2 * P) * q1 + P BY <1>3
    <3> QED BY <3>1, <3>2, <2>2
  <2> QED BY <2>1, <2>2, <1>3
<1>7. (2 * P) * q1 \in Int /\ (2 * P) * Q \in Int
  BY <1>3, <1>4
<1>8. (2 * P) * q1 + s = (2 * P) * Q + R
  BY <1>1, <1>3, <1>4, <1>6, <1>7
<1> HIDE DEF s
<1>9. q1 = Q
  BY <1>2, <1>3, <1>4, <1>5, <1>8, QuotientAndRestUnique
<1> QED BY <1>9 DEF q, q1, Q

LEMMA NumberInHalf ==
  ASSUME NEW c \in Nat
  PROVE  /\ c \div 1 = c
         /\ c \div 2 \in Nat
         /\ c % 2 \in 0..1
         /\ c = 2 * (c \div 2) + (c % 2)
<1>1. 1 \in Nat \ {0} /\ 2 \in Nat \ {0} OBVIOUS
<1>2. c \div 1 \in Nat /\ c % 1 \in 0..0 /\ c = 1 * (c \div 1) + (c % 1)
  BY <1>1, RestIsSmall, QuotientAndRest
<1> QED BY <1>1, <1>2, RestIsSmall, QuotientAndRest

-----------------------------------------------------------------------------
(* The tree of a world *)

\* A level of the tree, made of the one below.
LevelOf(w, size, l, below) ==
  LET chunks == CheckedChunkCount(Len(w.bodies), size)
  IN [i \in 0..(PowerOfTwo(Height(chunks) - l) - 1) |->
        IF l = 0
        THEN IF i < chunks THEN HashLeaf(i, i * size, ChunkBodies(w, size, i))
                           ELSE HashEmptyLeaf(i)
        ELSE HashNode(l - 1, below[2 * i], below[2 * i + 1])]

LevelsTo(f, w, size, m) == f = [l \in 0..m |-> LevelOf(w, size, l, f[l - 1])]

LEMMA NodeBinds ==
  ASSUME NEW l, NEW a, NEW b, NEW x, NEW y, HashNode(l, a, b) = HashNode(l, x, y)
  PROVE  a = x /\ b = y
BY DEF HashNode, Sha256

LEMMA LeavesAlike ==
  ASSUME NEW w, NEW size, NEW x, NEW y
  PROVE  LevelOf(w, size, 0, x) = LevelOf(w, size, 0, y)
BY DEF LevelOf

LEMMA LevelsThere ==
  ASSUME NEW w, NEW size, NEW m \in Nat
  PROVE  \E f : LevelsTo(f, w, size, m)
<1> DEFINE S == {n \in Nat : \E f : LevelsTo(f, w, size, n)}
<1>1. 0 \in S
  <2> DEFINE f == [l \in 0..0 |-> LevelOf(w, size, 0, 0)]
  <2>1. \A l \in 0..0 : LevelOf(w, size, l, f[l - 1]) = LevelOf(w, size, 0, 0)
    BY LeavesAlike
  <2>2. LevelsTo(f, w, size, 0) BY <2>1 DEF LevelsTo
  <2> QED BY <2>2
<1>2. ASSUME NEW n \in Nat, n \in S PROVE n + 1 \in S
  <2>1. PICK f : LevelsTo(f, w, size, n) BY <1>2
  <2> DEFINE g == [l \in 0..(n + 1) |->
                     IF l <= n THEN f[l] ELSE LevelOf(w, size, n + 1, f[n])]
  <2>2. ASSUME NEW l \in 0..(n + 1) PROVE g[l] = LevelOf(w, size, l, g[l - 1])
    <3>1. CASE l = 0
      <4>1. g[l] = f[l] BY <3>1
      <4>2. f[l] = LevelOf(w, size, 0, f[l - 1]) BY <3>1, <2>1 DEF LevelsTo
      <4> HIDE DEF g
      <4>3. f[l] = LevelOf(w, size, 0, g[l - 1]) BY <4>2, LeavesAlike
      <4> QED BY <4>1, <4>3, <3>1
    <3>2. CASE l # 0 /\ l <= n
      <4>1. g[l] = f[l] /\ g[l - 1] = f[l - 1] BY <3>2
      <4>2. f[l] = LevelOf(w, size, l, f[l - 1]) BY <3>2, <2>1 DEF LevelsTo
      <4> HIDE DEF g
      <4> QED BY <4>1, <4>2
    <3>3. CASE l = n + 1
      <4>1. g[l] = LevelOf(w, size, n + 1, f[n]) /\ g[l - 1] = f[n] BY <3>3
      <4> HIDE DEF g
      <4> QED BY <4>1, <3>3
    <3> QED BY <3>1, <3>2, <3>3
  <2>3. g = [l \in 0..(n + 1) |-> g[l]] OBVIOUS
  <2> HIDE DEF g
  <2>4. g = [l \in 0..(n + 1) |-> LevelOf(w, size, l, g[l - 1])] BY <2>2, <2>3
  <2>5. LevelsTo(g, w, size, n + 1) BY <2>4 DEF LevelsTo
  <2>6. n + 1 \in Nat OBVIOUS
  <2> QED BY <2>5, <2>6
<1> HIDE DEF S
<1>3. \A n \in Nat : n \in S BY <1>1, <1>2, Induction
<1> QED BY <1>3 DEF S

\* What the levels of a tree over n chunks are.
TreeOver(levels, w, size, n) ==
  /\ DOMAIN levels[0] = 0..(PowerOfTwo(Height(n)) - 1)
  /\ \A i \in 0..(PowerOfTwo(Height(n)) - 1) :
       levels[0][i] = IF i < n THEN HashLeaf(i, i * size, ChunkBodies(w, size, i))
                               ELSE HashEmptyLeaf(i)
  /\ \A l \in 0..(Height(n) - 1) :
       \A i \in 0..(PowerOfTwo((Height(n) - l) - 1) - 1) :
         levels[l + 1][i] = HashNode(l, levels[l][2 * i], levels[l][2 * i + 1])

LEMMA TreeFacts ==
  ASSUME NEW w, NEW size, NEW n \in Nat, n = CheckedChunkCount(Len(w.bodies), size)
  PROVE  TreeOver(BuildLevels(w, size), w, size, n)
<1> DEFINE h == Height(n)
           levels == BuildLevels(w, size)
<1>1. h \in Nat BY HeightFacts
<1>2. levels = CHOOSE f : LevelsTo(f, w, size, h)
  BY DEF BuildLevels, LevelsTo, LevelOf
<1>3. LevelsTo(levels, w, size, h)
  <2>1. \E f : LevelsTo(f, w, size, h) BY <1>1, LevelsThere
  <2> QED BY <1>2, <2>1
<1> HIDE DEF levels, h
<1>4. \A l \in 0..h : levels[l] = LevelOf(w, size, l, levels[l - 1])
  BY <1>3 DEF LevelsTo
<1>5. \A l \in 0..h : DOMAIN levels[l] = 0..(PowerOfTwo(h - l) - 1)
  BY <1>4 DEF LevelOf, h
<1>6. \A i \in 0..(PowerOfTwo(h) - 1) :
        levels[0][i] = IF i < n THEN HashLeaf(i, i * size, ChunkBodies(w, size, i))
                                ELSE HashEmptyLeaf(i)
  <2>1. 0 \in 0..h /\ h - 0 = h BY <1>1
  <2>2. levels[0] = LevelOf(w, size, 0, levels[0 - 1]) BY <1>4, <2>1
  <2>3. DOMAIN levels[0] = 0..(PowerOfTwo(h) - 1) BY <1>5, <2>1
  <2> QED BY <2>2, <2>3, <2>1 DEF LevelOf, h
<1>7. ASSUME NEW l \in 0..(h - 1), NEW i \in 0..(PowerOfTwo((h - l) - 1) - 1)
      PROVE  levels[l + 1][i] = HashNode(l, levels[l][2 * i], levels[l][2 * i + 1])
  <2>1. l + 1 \in 0..h /\ (l + 1) - 1 = l /\ l + 1 # 0 /\ h - (l + 1) = (h - l) - 1
    BY <1>1
  <2>2. levels[l + 1] = LevelOf(w, size, l + 1, levels[l]) BY <1>4, <2>1
  <2>3. i \in 0..(PowerOfTwo(h - (l + 1)) - 1) BY <2>1
  <2> QED BY <2>1, <2>2, <2>3 DEF LevelOf, h
<1>8. DOMAIN levels[0] = 0..(PowerOfTwo(h) - 1)
  <2>1. 0 \in 0..h /\ h - 0 = h BY <1>1
  <2> QED BY <1>5, <2>1
<1> QED BY <1>6, <1>7, <1>8 DEF TreeOver, levels, h

\* Two trees with the same node at their tops have the same leaves.
LEMMA TopTellsLeaves ==
  ASSUME NEW v, NEW w, NEW size, NEW n \in Nat,
         n = CheckedChunkCount(Len(v.bodies), size),
         n = CheckedChunkCount(Len(w.bodies), size),
         BuildLevels(v, size)[Height(n)][0] = BuildLevels(w, size)[Height(n)][0]
  PROVE  \A i \in 0..(n - 1) : ChunkBodies(v, size, i) = ChunkBodies(w, size, i)
<1> DEFINE h == Height(n)
           L == BuildLevels(v, size)
           M == BuildLevels(w, size)
           S == {d \in Nat : d <= h => \A i \in 0..(PowerOfTwo(d) - 1) :
                                          L[h - d][i] = M[h - d][i]}
<1>1. h \in Nat /\ PowerOfTwo(h) >= n
  BY HeightFacts
<1>0. TreeOver(L, v, size, n) /\ TreeOver(M, w, size, n)
  BY TreeFacts
<1>4. L[h][0] = M[h][0]
  OBVIOUS
<1> HIDE DEF L, M
<1>2. \A i \in 0..(PowerOfTwo(h) - 1) :
        /\ L[0][i] = IF i < n THEN HashLeaf(i, i * size, ChunkBodies(v, size, i))
                              ELSE HashEmptyLeaf(i)
        /\ M[0][i] = IF i < n THEN HashLeaf(i, i * size, ChunkBodies(w, size, i))
                              ELSE HashEmptyLeaf(i)
  BY <1>0 DEF TreeOver
<1>3. \A l \in 0..(h - 1) : \A i \in 0..(PowerOfTwo((h - l) - 1) - 1) :
        /\ L[l + 1][i] = HashNode(l, L[l][2 * i], L[l][2 * i + 1])
        /\ M[l + 1][i] = HashNode(l, M[l][2 * i], M[l][2 * i + 1])
  BY <1>0 DEF TreeOver
<1> HIDE DEF h
<1>5. 0 \in S
  <2>1. h - 0 = h /\ PowerOfTwo(0) = 1 BY <1>1, PowerFacts
  <2> QED BY <1>4, <2>1
<1>6. ASSUME NEW d \in 0..(h - 1), d \in S PROVE d + 1 \in S
  <2> SUFFICES ASSUME NEW i \in 0..(PowerOfTwo(d + 1) - 1)
               PROVE  L[h - (d + 1)][i] = M[h - (d + 1)][i]
    BY <1>1
  <2> DEFINE l == h - (d + 1)
             q == i \div 2
  <2>1. d \in Nat /\ l \in 0..(h - 1) /\ l + 1 = h - d /\ (h - l) - 1 = d
    BY <1>1
  <2>2. PowerOfTwo(d) \in Nat /\ PowerOfTwo(d + 1) = 2 * PowerOfTwo(d)
    BY <2>1, PowerFacts
  <2>3. i \in Nat /\ q \in Nat /\ (i = 2 * q \/ i = 2 * q + 1)
    <3>1. i \in Nat BY <2>2
    <3> QED BY <3>1, NumberInHalf
  <2> HIDE DEF q, l
  <2>4. q \in 0..(PowerOfTwo(d) - 1)
    BY <2>2, <2>3
  <2>5. L[l + 1][q] = M[l + 1][q]
    BY <2>1, <2>4, <1>6, <1>1
  <2>6. /\ L[l + 1][q] = HashNode(l, L[l][2 * q], L[l][2 * q + 1])
        /\ M[l + 1][q] = HashNode(l, M[l][2 * q], M[l][2 * q + 1])
    BY <2>1, <2>4, <1>3
  <2>7. L[l][2 * q] = M[l][2 * q] /\ L[l][2 * q + 1] = M[l][2 * q + 1]
    <3> DEFINE a == L[l][2 * q]
               b == L[l][2 * q + 1]
               x == M[l][2 * q]
               y == M[l][2 * q + 1]
    <3>1. HashNode(l, a, b) = HashNode(l, x, y) BY <2>5, <2>6
    <3> HIDE DEF a, b, x, y
    <3>2. a = x /\ b = y BY <3>1, NodeBinds
    <3> QED BY <3>2 DEF a, b, x, y
  <2>8. L[l][i] = M[l][i]
    BY <2>3, <2>7
  <2> QED BY <2>8 DEF l
<1> HIDE DEF S
<1>7. h \in S
  <2>1. \A d \in 0..h : d \in S BY <1>1, <1>5, <1>6, BoundedInduction
  <2> QED BY <2>1, <1>1
<1>8. \A i \in 0..(PowerOfTwo(h) - 1) : L[0][i] = M[0][i]
  <2>1. h - h = 0 BY <1>1
  <2> QED BY <1>7, <2>1 DEF S
<1>9. ASSUME NEW i \in 0..(n - 1)
      PROVE  ChunkBodies(v, size, i) = ChunkBodies(w, size, i)
  <2>1. i \in 0..(PowerOfTwo(h) - 1) /\ i < n
    <3>1. PowerOfTwo(h) \in Nat BY <1>1, PowerFacts
    <3> QED BY <3>1, <1>1
  <2>2. HashLeaf(i, i * size, ChunkBodies(v, size, i))
          = HashLeaf(i, i * size, ChunkBodies(w, size, i))
    BY <2>1, <1>2, <1>8
  <2> QED BY <2>2 DEF HashLeaf, Sha256
<1> QED BY <1>9

LEMMA ChunkCountIsNat ==
  ASSUME NEW N \in Nat, NEW size \in Nat \ {0}
  PROVE  CheckedChunkCount(N, size) \in Nat
<1> DEFINE q == (N - 1) \div size
<1>1. CheckedChunkCount(N, size) = IF N = 0 THEN 0 ELSE 1 + q
  BY DEF CheckedChunkCount
<1>2. CASE N = 0
  <2> HIDE DEF q
  <2> QED BY <1>1, <1>2
<1>3. CASE N # 0
  <2>1. N - 1 \in Nat BY <1>3
  <2>2. q \in Nat BY <2>1, QuotientAndRest
  <2> HIDE DEF q
  <2> QED BY <1>1, <1>3, <2>2
<1> QED BY <1>2, <1>3

\* The chunks of a world are its bodies.
LEMMA ChunkFacts ==
  ASSUME NEW w, IsSeq(w.bodies), NEW size \in Nat \ {0},
         NEW c \in 0..(CheckedChunkCount(Len(w.bodies), size) - 1)
  PROVE  /\ CheckedChunkCount(Len(w.bodies), size) \in Nat
         /\ c * size \in Nat /\ c * size < Len(w.bodies)
         /\ Len(ChunkBodies(w, size, c)) = Least(size, Len(w.bodies) - (c * size))
         /\ \A k \in 1..Len(ChunkBodies(w, size, c)) :
              ChunkBodies(w, size, c)[k] = w.bodies[(c * size) + k]
         /\ ChunkBodies(w, size, c) = [k \in 1..Len(ChunkBodies(w, size, c)) |->
                                         ChunkBodies(w, size, c)[k]]
<1> DEFINE N == Len(w.bodies)
           from == (c * size) + 1
           to == Least((c + 1) * size, N)
           chunk == ChunkBodies(w, size, c)
           n == CheckedChunkCount(N, size)
<1>1. N \in Nat /\ DOMAIN w.bodies = 1..N
  BY SeqFacts
<1> DEFINE q == (N - 1) \div size
           r == (N - 1) % size
<1>0. c \in 0..(n - 1)
  OBVIOUS
<1>2. n = IF N = 0 THEN 0 ELSE 1 + q
  BY DEF CheckedChunkCount
<1>3. N # 0
  <2> SUFFICES ASSUME N = 0 PROVE FALSE OBVIOUS
  <2> HIDE DEF q, n
  <2>1. n = 0 BY <1>2
  <2> QED BY <1>0, <2>1
<1>4. N - 1 \in Nat /\ q \in Nat /\ r \in 0..(size - 1) /\ N - 1 = size * q + r
  <2>1. N - 1 \in Nat BY <1>1, <1>3
  <2> QED BY <2>1, RestIsSmall, QuotientAndRest
<1> HIDE DEF q, r, n
<1>5. n \in Nat /\ c \in Nat /\ c <= q
  BY <1>0, <1>2, <1>3, <1>4
<1>6. c * size \in Nat /\ (c + 1) * size = (c * size) + size
  BY <1>5
<1>7. c * size <= N - 1
  <2>1. PICK k \in Nat : q = c + k BY <1>4, <1>5
  <2>2. size * q = (c * size) + size * k /\ size * k \in Nat BY <2>1, <1>5
  <2> QED BY <2>2, <1>4, <1>6
<1>8. /\ from \in Int /\ to \in Int /\ from..to \subseteq 1..N /\ from <= to
      /\ to - from + 1 = Least(size, N - (c * size))
  <2> DEFINE x == c * size
  <2>1. x \in Nat /\ x <= N - 1 /\ from = x + 1 /\ to = Least(x + size, N)
    BY <1>6, <1>7
  <2> HIDE DEF x, from, to
  <2>2. /\ from \in Int /\ to \in Int /\ from..to \subseteq 1..N /\ from <= to
        /\ to - from + 1 = Least(size, N - x)
    BY <2>1, <1>1 DEF Least
  <2> QED BY <2>2 DEF x
<1>9. chunk = SubSeq(w.bodies, from, to)
  BY DEF ChunkBodies
<1> HIDE DEF from, to, chunk
<1>10. \A i \in from..to : w.bodies[i] \in ToSet(w.bodies)
  BY <1>1, <1>8 DEF ToSet
<1>11. /\ Len(chunk) = to - from + 1
       /\ \A i \in 1..(to - from + 1) : chunk[i] = w.bodies[from + i - 1]
  BY <1>8, <1>9, <1>10, SubSeqProperties
<1>12. Len(chunk) = Least(size, N - (c * size))
  BY <1>8, <1>11
<1>13. ASSUME NEW k \in 1..Len(chunk) PROVE chunk[k] = w.bodies[(c * size) + k]
  <2>1. from + k - 1 = (c * size) + k BY <1>6, <1>8, <1>11 DEF from
  <2> QED BY <2>1, <1>11
<1>14. c * size < N
  BY <1>1, <1>6, <1>7
<1>15. chunk = [k \in 1..Len(chunk) |-> chunk[k]]
  <2>1. chunk \in Seq(ToSet(w.bodies)) BY <1>8, <1>9, <1>10, SubSeqProperties
  <2> QED BY <2>1
<1> QED BY <1>5, <1>6, <1>12, <1>13, <1>14, <1>15 DEF chunk, n

\* A body is in one of the chunks.
LEMMA BodyInChunk ==
  ASSUME NEW w, IsSeq(w.bodies), NEW size \in Nat \ {0},
         NEW k \in 1..Len(w.bodies)
  PROVE  LET c == ChunkOf(k, size)
         IN /\ c \in 0..(CheckedChunkCount(Len(w.bodies), size) - 1)
            /\ k - (c * size) \in 1..Len(ChunkBodies(w, size, c))
            /\ ChunkBodies(w, size, c)[k - (c * size)] = w.bodies[k]
<1> DEFINE N == Len(w.bodies)
           c == ChunkOf(k, size)
           q == (N - 1) \div size
           n == CheckedChunkCount(N, size)
<1>1. N \in Nat /\ k \in Nat /\ 1 <= k /\ k <= N
  BY SeqFacts
<1>2. k - 1 \in Nat /\ N - 1 \in Nat
  BY <1>1
<1> DEFINE r == (k - 1) % size
           t == (N - 1) % size
<1>3. c \in Nat /\ r \in 0..(size - 1) /\ k - 1 = size * c + r
  BY <1>2, RestIsSmall, QuotientAndRest DEF ChunkOf
<1>4. q \in Nat /\ t \in 0..(size - 1) /\ N - 1 = size * q + t
  BY <1>2, RestIsSmall, QuotientAndRest
<1>5. n = 1 + q
  <2>1. N # 0 BY <1>1
  <2> HIDE DEF N
  <2> QED BY <2>1 DEF CheckedChunkCount
<1> HIDE DEF c, q, r, t, n
<1>6. c <= q
  <2> SUFFICES ASSUME q < c PROVE FALSE BY <1>3, <1>4
  <2> DEFINE x == size * q
             y == size * c
  <2>0. q \in Int /\ c \in Int BY <1>3, <1>4
  <2>1. x + size <= y BY <2>0, MultiplesApart
  <2>2. x \in Int /\ y \in Int /\ k - 1 = y + r /\ N - 1 = x + t BY <1>3, <1>4
  <2> HIDE DEF x, y
  <2> QED BY <2>1, <2>2, <1>1, <1>3, <1>4
<1>7. c \in 0..(n - 1)
  BY <1>3, <1>4, <1>5, <1>6
<1>8. c * size = size * c /\ c * size \in Nat
  BY <1>3
<1>9. /\ Len(ChunkBodies(w, size, c)) = Least(size, N - (c * size))
      /\ \A j \in 1..Len(ChunkBodies(w, size, c)) :
           ChunkBodies(w, size, c)[j] = w.bodies[(c * size) + j]
  <2>1. c \in 0..(CheckedChunkCount(Len(w.bodies), size) - 1) BY <1>7 DEF n
  <2> QED BY <2>1, ChunkFacts
<1>10. k - (c * size) \in 1..Least(size, N - (c * size))
  <2> DEFINE x == c * size
  <2>1. x \in Nat /\ k - 1 = x + r BY <1>3, <1>8
  <2> HIDE DEF x
  <2>2. k - x \in 1..Least(size, N - x) BY <2>1, <1>1, <1>3 DEF Least
  <2> QED BY <2>2 DEF x
<1>11. (c * size) + (k - (c * size)) = k
  BY <1>1, <1>8
<1>12. ChunkBodies(w, size, c)[k - (c * size)] = w.bodies[k]
  BY <1>9, <1>10, <1>11
<1> QED BY <1>7, <1>9, <1>10, <1>12 DEF c, n

\* Equal roots are of equal worlds.
LEMMA ChunksTellBodies ==
  ASSUME NEW v, NEW w, IsSeq(v.bodies), IsSeq(w.bodies), NEW size \in Nat \ {0},
         Len(v.bodies) = Len(w.bodies),
         \A c \in 0..(CheckedChunkCount(Len(v.bodies), size) - 1) :
           ChunkBodies(v, size, c) = ChunkBodies(w, size, c)
  PROVE  v.bodies = w.bodies
<1>1. /\ v.bodies = [k \in 1..Len(v.bodies) |-> v.bodies[k]]
      /\ w.bodies = [k \in 1..Len(v.bodies) |-> w.bodies[k]]
  BY SeqFacts
<1>2. ASSUME NEW k \in 1..Len(v.bodies) PROVE v.bodies[k] = w.bodies[k]
  <2> DEFINE c == ChunkOf(k, size)
  <2>1. /\ c \in 0..(CheckedChunkCount(Len(v.bodies), size) - 1)
        /\ ChunkBodies(v, size, c)[k - (c * size)] = v.bodies[k]
    BY BodyInChunk
  <2>2. ChunkBodies(w, size, c)[k - (c * size)] = w.bodies[k]
    BY BodyInChunk
  <2> QED BY <2>1, <2>2
<1> QED BY <1>1, <1>2

-----------------------------------------------------------------------------
(* Proofs of chunks *)

\* A digest carried up a proof's path, made of the one before.
CarriedOver(proof, bodies, l, before) ==
  IF l = 0 THEN HashLeaf(proof.chunk, proof.chunk * proof.chunkSize, bodies)
  ELSE IF (proof.chunk \div PowerOfTwo(l - 1)) % 2 = 1
       THEN HashNode(l - 1, proof.path[l].sibling, before)
       ELSE HashNode(l - 1, before, proof.path[l].sibling)

CarriedTo(f, proof, bodies, m) ==
  f = [l \in 0..m |-> CarriedOver(proof, bodies, l, f[l - 1])]

LEMMA CarriedThere ==
  ASSUME NEW proof, NEW bodies, NEW m \in Nat
  PROVE  \E f : CarriedTo(f, proof, bodies, m)
<1> DEFINE S == {n \in Nat : \E f : CarriedTo(f, proof, bodies, n)}
<1>1. \A x, y : CarriedOver(proof, bodies, 0, x) = CarriedOver(proof, bodies, 0, y)
  BY DEF CarriedOver
<1>2. 0 \in S
  <2> DEFINE f == [l \in 0..0 |-> CarriedOver(proof, bodies, 0, 0)]
  <2>1. \A l \in 0..0 : CarriedOver(proof, bodies, l, f[l - 1])
                          = CarriedOver(proof, bodies, 0, 0)
    BY <1>1
  <2>2. CarriedTo(f, proof, bodies, 0) BY <2>1 DEF CarriedTo
  <2> QED BY <2>2
<1>3. ASSUME NEW n \in Nat, n \in S PROVE n + 1 \in S
  <2>1. PICK f : CarriedTo(f, proof, bodies, n) BY <1>3
  <2> DEFINE g == [l \in 0..(n + 1) |->
                     IF l <= n THEN f[l] ELSE CarriedOver(proof, bodies, n + 1, f[n])]
  <2>2. ASSUME NEW l \in 0..(n + 1) PROVE g[l] = CarriedOver(proof, bodies, l, g[l - 1])
    <3>1. CASE l = 0
      <4>1. g[l] = f[l] BY <3>1
      <4>2. f[l] = CarriedOver(proof, bodies, 0, f[l - 1])
        BY <3>1, <2>1 DEF CarriedTo
      <4> HIDE DEF g
      <4> QED BY <4>1, <4>2, <3>1, <1>1
    <3>2. CASE l # 0 /\ l <= n
      <4>1. g[l] = f[l] /\ g[l - 1] = f[l - 1] BY <3>2
      <4>2. f[l] = CarriedOver(proof, bodies, l, f[l - 1])
        BY <3>2, <2>1 DEF CarriedTo
      <4> HIDE DEF g
      <4> QED BY <4>1, <4>2
    <3>3. CASE l = n + 1
      <4>1. g[l] = CarriedOver(proof, bodies, n + 1, f[n]) /\ g[l - 1] = f[n] BY <3>3
      <4> HIDE DEF g
      <4> QED BY <4>1, <3>3
    <3> QED BY <3>1, <3>2, <3>3
  <2>3. g = [l \in 0..(n + 1) |-> g[l]] OBVIOUS
  <2> HIDE DEF g
  <2>4. g = [l \in 0..(n + 1) |-> CarriedOver(proof, bodies, l, g[l - 1])]
    BY <2>2, <2>3
  <2>5. CarriedTo(g, proof, bodies, n + 1) BY <2>4 DEF CarriedTo
  <2>6. n + 1 \in Nat OBVIOUS
  <2> QED BY <2>5, <2>6
<1> HIDE DEF S
<1>4. \A n \in Nat : n \in S BY <1>2, <1>3, Induction
<1> QED BY <1>4 DEF S

\* What verify_state_merkle_proof looks at, with the digests it carries up.
PathAccepted(bodies, proof, root, up) ==
  /\ ProofShapeValid(bodies, proof)
  /\ \A l \in DOMAIN proof.path :
       proof.path[l].onLeft = ((proof.chunk \div PowerOfTwo(l - 1)) % 2 = 1)
  /\ HashRoot(proof.frame, proof.bodyCount, proof.chunkSize,
              proof.chunkCount, proof.leafCapacity, up[Len(proof.path)]) = root

\* The digests of a path, from the leaf up.
CarriedUp(up, proof, bodies) ==
  /\ up[0] = CarriedOver(proof, bodies, 0, 0)
  /\ \A l \in 0..(Len(proof.path) - 1) :
       up[l + 1] = CarriedOver(proof, bodies, l + 1, up[l])

LEMMA VerifyIs ==
  ASSUME NEW proof, NEW bodies, Len(proof.path) \in Nat, NEW root
  PROVE  \E up :
           /\ CarriedUp(up, proof, bodies)
           /\ VerifyMerkleProof(bodies, proof, root)
                <=> PathAccepted(bodies, proof, root, up)
<1> DEFINE m == Len(proof.path)
           up == CHOOSE f : CarriedTo(f, proof, bodies, m)
<1>1. CarriedTo(up, proof, bodies, m) BY CarriedThere
<1>2. VerifyMerkleProof(bodies, proof, root) <=> PathAccepted(bodies, proof, root, up)
  BY DEF VerifyMerkleProof, PathAccepted, CarriedTo, CarriedOver
<1> HIDE DEF up
<1>3. \A l \in 0..m : up[l] = CarriedOver(proof, bodies, l, up[l - 1])
  BY <1>1 DEF CarriedTo
<1>4. up[0] = CarriedOver(proof, bodies, 0, 0)
  <2>1. up[0] = CarriedOver(proof, bodies, 0, up[0 - 1]) BY <1>3
  <2> QED BY <2>1 DEF CarriedOver
<1>5. ASSUME NEW l \in 0..(m - 1)
      PROVE  up[l + 1] = CarriedOver(proof, bodies, l + 1, up[l])
  <2>1. l + 1 \in 0..m /\ (l + 1) - 1 = l OBVIOUS
  <2> QED BY <1>3, <2>1
<1>6. CarriedUp(up, proof, bodies) BY <1>4, <1>5 DEF CarriedUp, m
<1> QED BY <1>2, <1>6

\* The path of a proof leads from a leaf to the top of the tree it was made of.
LEMMA PathLeadsUp ==
  ASSUME NEW w, IsSeq(w.bodies), NEW size \in Nat \ {0}, NEW n,
         n = CheckedChunkCount(Len(w.bodies), size), NEW c \in 0..(n - 1), NEW up,
         NEW proof, proof = MakeMerkleProof(w, c, size),
         CarriedUp(up, proof, ChunkBodies(w, size, c))
  PROVE  /\ Len(proof.path) = Height(n)
         /\ up[Height(n)] = BuildLevels(w, size)[Height(n)][0]
<1> DEFINE h == Height(n)
           L == BuildLevels(w, size)
           bodies == ChunkBodies(w, size, c)
           S == {l \in Nat : l <= h =>
                   /\ c \div PowerOfTwo(l) \in 0..(PowerOfTwo(h - l) - 1)
                   /\ up[l] = L[l][c \div PowerOfTwo(l)]}
<1>1. n \in Nat /\ h \in Nat /\ PowerOfTwo(h) >= n /\ c \in Nat /\ c < n
      /\ PowerOfTwo(h) \in Nat
  <2>1. n \in Nat BY ChunkFacts
  <2>2. h \in Nat /\ PowerOfTwo(h) >= n BY <2>1, HeightFacts
  <2> HIDE DEF h
  <2>3. PowerOfTwo(h) \in Nat BY <2>2, PowerFacts
  <2> QED BY <2>1, <2>2, <2>3
<1>2. /\ proof.chunk = c /\ proof.chunkSize = size
      /\ DOMAIN proof.path = 1..h
      /\ proof.path = [l \in 1..h |-> proof.path[l]]
      /\ \A l \in 1..h : proof.path[l].sibling = L[l - 1][Sibling(c \div PowerOfTwo(l - 1))]
  BY DEF MakeMerkleProof
<1>3. Len(proof.path) = h
  BY <1>1, <1>2, FunctionIsSeq
<1>0. TreeOver(L, w, size, n)
  BY <1>1, TreeFacts
<1>4. \A i \in 0..(PowerOfTwo(h) - 1) :
        L[0][i] = IF i < n THEN HashLeaf(i, i * size, ChunkBodies(w, size, i))
                           ELSE HashEmptyLeaf(i)
  BY <1>0 DEF TreeOver
<1>5. \A l \in 0..(h - 1) : \A i \in 0..(PowerOfTwo((h - l) - 1) - 1) :
        L[l + 1][i] = HashNode(l, L[l][2 * i], L[l][2 * i + 1])
  BY <1>0 DEF TreeOver
<1> HIDE DEF L, h, bodies
<1>6. 0 \in S
  <2>1. PowerOfTwo(0) = 1 /\ c \div 1 = c /\ h - 0 = h
    BY <1>1, PowerFacts, NumberInHalf
  <2>2. c \in 0..(PowerOfTwo(h) - 1)
    BY <1>1
  <2>3. up[0] = HashLeaf(c, c * size, bodies)
    BY <1>2 DEF CarriedUp, CarriedOver, bodies
  <2>4. L[0][c] = HashLeaf(c, c * size, bodies)
    BY <1>1, <1>4, <2>2 DEF bodies
  <2> QED BY <2>1, <2>2, <2>3, <2>4
<1>7. ASSUME NEW l \in 0..(h - 1), l \in S PROVE l + 1 \in S
  <2> DEFINE cursor == c \div PowerOfTwo(l)
             q == cursor \div 2
             d == (h - l) - 1
  <2>1. l \in Nat /\ l <= h /\ l + 1 \in 1..h /\ (l + 1) - 1 = l /\ d \in Nat
        /\ h - l = d + 1 /\ h - (l + 1) = d /\ l + 1 # 0 /\ l + 1 \in Nat
    BY <1>1
  <2>2. cursor \in 0..(PowerOfTwo(d + 1) - 1) /\ up[l] = L[l][cursor]
    BY <1>7, <2>1
  <2>3. /\ PowerOfTwo(d) \in Nat /\ PowerOfTwo(d + 1) = 2 * PowerOfTwo(d)
        /\ PowerOfTwo(l) \in Nat \ {0} /\ PowerOfTwo(l + 1) = 2 * PowerOfTwo(l)
    BY <2>1, PowerFacts
  <2>4. c \div PowerOfTwo(l + 1) = q
    BY <1>1, <2>3, HalfAgain
  <2>5. proof.path[l + 1].sibling = L[l][Sibling(cursor)]
    BY <1>2, <2>1
  <2>6. up[l + 1] = IF cursor % 2 = 1 THEN HashNode(l, L[l][Sibling(cursor)], up[l])
                                      ELSE HashNode(l, up[l], L[l][Sibling(cursor)])
    BY <1>2, <1>3, <2>1, <2>5 DEF CarriedUp, CarriedOver
  <2> HIDE DEF cursor, d
  <2>7. cursor \in Nat
    BY <2>2, <2>3
  <2>8. q \in Nat /\ cursor % 2 \in 0..1 /\ cursor = 2 * q + (cursor % 2)
    BY <2>7, NumberInHalf
  <2> HIDE DEF q
  <2>9. q \in 0..(PowerOfTwo(d) - 1)
    BY <2>2, <2>3, <2>8
  <2>10. L[l + 1][q] = HashNode(l, L[l][2 * q], L[l][2 * q + 1])
    BY <1>5, <2>9 DEF d
  <2>11. up[l + 1] = L[l + 1][q]
    <3>1. CASE cursor % 2 = 1
      <4>1. cursor = 2 * q + 1 /\ Sibling(cursor) = 2 * q
        BY <3>1, <2>8 DEF Sibling
      <4> QED BY <3>1, <4>1, <2>2, <2>6, <2>10
    <3>2. CASE cursor % 2 = 0
      <4>1. cursor = 2 * q /\ Sibling(cursor) = 2 * q + 1
        BY <3>2, <2>8 DEF Sibling
      <4> QED BY <3>2, <4>1, <2>2, <2>6, <2>10
    <3> QED BY <3>1, <3>2, <2>8
  <2> QED BY <2>1, <2>4, <2>9, <2>11
<1> HIDE DEF S
<1>8. h \in S
  <2>1. \A l \in 0..h : l \in S BY <1>1, <1>6, <1>7, BoundedInduction
  <2> QED BY <2>1, <1>1
<1>9. up[h] = L[h][0]
  <2>1. h - h = 0 /\ PowerOfTwo(0) = 1 BY <1>1, PowerFacts
  <2>2. c \div PowerOfTwo(h) \in 0..(1 - 1) /\ up[h] = L[h][c \div PowerOfTwo(h)]
    BY <1>1, <1>8, <2>1 DEF S
  <2>3. c \div PowerOfTwo(h) = 0 BY <2>2
  <2> QED BY <2>2, <2>3
<1> QED BY <1>3, <1>9 DEF h, L

\* A proof of a chunk is accepted with those bodies and its world's root alone.
LEMMA ProofIsOfWorld ==
  ASSUME NEW v, NEW w, IsSeq(v.bodies), IsSeq(w.bodies), NEW size \in Nat \ {0},
         v = [frame |-> v.frame, bodies |-> v.bodies],
         w = [frame |-> w.frame, bodies |-> w.bodies],
         NEW c \in 0..(CheckedChunkCount(Len(v.bodies), size) - 1)
  PROVE  VerifyMerkleProof(ChunkBodies(v, size, c), MakeMerkleProof(v, c, size),
                           MerkleRoot(w, size))
           <=> v = w
<1> DEFINE bodies == ChunkBodies(v, size, c)
           proof == MakeMerkleProof(v, c, size)
           root == MerkleRoot(w, size)
           N == Len(v.bodies)
           n == CheckedChunkCount(N, size)
           m == CheckedChunkCount(Len(w.bodies), size)
           h == Height(n)
           L == BuildLevels(v, size)
           M == BuildLevels(w, size)
<1>1. /\ n \in Nat /\ c \in Nat /\ c < n /\ n # 0 /\ h \in Nat /\ PowerOfTwo(h) >= n
      /\ N \in Nat
  <2>1. n \in Nat BY ChunkFacts
  <2> QED BY <2>1, HeightFacts, SeqFacts
<1>2. /\ proof.frame = v.frame /\ proof.bodyCount = N /\ proof.chunkSize = size
      /\ proof.chunkCount = n /\ proof.leafCapacity = PowerOfTwo(h) /\ proof.chunk = c
      /\ DOMAIN proof.path = 1..h
      /\ proof.path = [l \in 1..h |-> proof.path[l]]
      /\ \A l \in 1..h : LET cursor == c \div PowerOfTwo(l - 1)
                         IN proof.path[l].onLeft = (Sibling(cursor) < cursor)
  BY DEF MakeMerkleProof, LeafCapacity
<1>3. Len(proof.path) = h
  BY <1>1, <1>2, FunctionIsSeq
<1>4. PICK up : /\ CarriedUp(up, proof, bodies)
                /\ VerifyMerkleProof(bodies, proof, root)
                     <=> PathAccepted(bodies, proof, root, up)
  <2>1. Len(proof.path) \in Nat BY <1>1, <1>3
  <2> HIDE DEF proof, bodies, root, h, n
  <2> QED BY <2>1, VerifyIs
<1>5. up[h] = L[h][0]
  BY <1>4, PathLeadsUp
<1>6. root = HashRoot(w.frame, Len(w.bodies), size, m, LeafCapacity(m), M[Height(m)][0])
  BY DEF MerkleRoot
<1>7. ProofShapeValid(bodies, proof)
  <2>1. /\ c * size < N /\ Len(bodies) = Least(size, N - (c * size))
    BY ChunkFacts
  <2>2. size # 0 /\ n # 0 /\ c < n /\ PowerOfTwo(h) >= n
    BY <1>1
  <2> HIDE DEF proof, bodies, n, h, N
  <2> QED BY <1>2, <1>3, <2>1, <2>2 DEF ProofShapeValid
<1>8. \A l \in DOMAIN proof.path :
        proof.path[l].onLeft = ((proof.chunk \div PowerOfTwo(l - 1)) % 2 = 1)
  <2> SUFFICES ASSUME NEW l \in 1..h
               PROVE  proof.path[l].onLeft = ((c \div PowerOfTwo(l - 1)) % 2 = 1)
    BY <1>2
  <2> DEFINE cursor == c \div PowerOfTwo(l - 1)
  <2>1. PowerOfTwo(l - 1) \in Nat \ {0}
    <3>1. l - 1 \in Nat BY <1>1
    <3> QED BY <3>1, PowerFacts
  <2>2. cursor \in Nat
    BY <1>1, <2>1, QuotientAndRest
  <2>3. proof.path[l].onLeft = (Sibling(cursor) < cursor)
    BY <1>2
  <2> HIDE DEF cursor
  <2>4. cursor % 2 \in 0..1
    BY <2>2, NumberInHalf
  <2>5. (Sibling(cursor) < cursor) = (cursor % 2 = 1)
    BY <2>2, <2>4 DEF Sibling
  <2> QED BY <2>3, <2>5 DEF cursor
<1> HIDE DEF proof, bodies, root, L, M, h, n, m, N
<1>9. VerifyMerkleProof(bodies, proof, root) <=>
        HashRoot(v.frame, N, size, n, PowerOfTwo(h), L[h][0])
          = HashRoot(w.frame, Len(w.bodies), size, m, LeafCapacity(m), M[Height(m)][0])
  BY <1>2, <1>3, <1>4, <1>5, <1>6, <1>7, <1>8 DEF PathAccepted
<1>10. ASSUME v = w PROVE VerifyMerkleProof(bodies, proof, root)
  BY <1>9, <1>10 DEF LeafCapacity, L, M, h, n, m, N
<1>11. ASSUME VerifyMerkleProof(bodies, proof, root) PROVE v = w
  <2>1. v.frame = w.frame /\ N = Len(w.bodies) /\ L[h][0] = M[Height(m)][0]
    BY <1>9, <1>11 DEF HashRoot, Sha256
  <2>2. n = m
    BY <2>1 DEF n, m, N
  <2>3. \A i \in 0..(n - 1) : ChunkBodies(v, size, i) = ChunkBodies(w, size, i)
    BY <1>1, <2>1, <2>2, TopTellsLeaves DEF L, M, h, n, m, N
  <2>4. v.bodies = w.bodies
    BY <2>1, <2>3, ChunksTellBodies DEF n, N
  <2> QED BY <2>1, <2>4
<1> QED BY <1>10, <1>11 DEF proof, bodies, root

-----------------------------------------------------------------------------
(* The worlds of a run *)

Worlds == [frame : Nat, bodies : BodyLists]

WorldsPart == steps \in Seq(Worlds) /\ kept \in Seq(Worlds)

LEMMA NextKeepsWorlds ==
  ASSUME SupportInv, WorldsPart, [SupportNext]_supportVars
  PROVE  WorldsPart'
<1>1. CASE UNCHANGED <<steps, kept>>
  BY <1>1 DEF WorldsPart
<1>2. ASSUME NEW bodies \in BodyLists, StepWorld(bodies) PROVE WorldsPart'
  <2> DEFINE next == [frame |-> world.frame + 1, bodies |-> bodies]
             longer == Append(kept, next)
  <2>1. /\ steps' = Append(steps, next)
        /\ kept' = IF Len(longer) > FrameCapacity THEN Tail(longer) ELSE longer
    BY <1>2 DEF StepWorld
  <2>2. next \in Worlds
    BY DEF Worlds, SupportInv, FramesPart
  <2> HIDE DEF next
  <2>3. Append(steps, next) \in Seq(Worlds) /\ longer \in Seq(Worlds) /\ longer # <<>>
    BY <2>2 DEF WorldsPart
  <2> HIDE DEF longer
  <2>4. Tail(longer) \in Seq(Worlds)
    BY <2>3
  <2> QED BY <2>1, <2>3, <2>4 DEF WorldsPart
<1>3. ASSUME NEW p \in 1..debugger.size, Rollback(p) PROVE WorldsPart'
  <2>1. kept' = SubSeq(kept, 1, p) /\ steps' = steps
    BY <1>3 DEF Rollback
  <2>2. Holds(debugger, kept) /\ p \in 1..Len(kept)
    BY DEF SupportInv, FramesPart, Holds
  <2>3. SubSeq(kept, 1, p) \in Seq(Worlds)
    BY <2>2 DEF WorldsPart
  <2> QED BY <2>1, <2>3 DEF WorldsPart
<1>4. \/ \E bodies \in BodyLists : StepWorld(bodies)
      \/ \E p \in 1..debugger.size : Rollback(p)
      \/ UNCHANGED <<steps, kept>>
  <2>1. ASSUME NEW b \in DOMAIN chains,
               \/ \E signer \in {"none", "key", "fails"} : AppendEvidence(b, signer)
               \/ \E required, verifier \in BOOLEAN :
                    \E i \in DOMAIN chains[b].records : VerifyState(b, i, required, verifier)
               \/ \E x \in anchors, required, verifier \in BOOLEAN :
                    VerifyChain(b, x.anchor, required, verifier)
               \/ \E branch \in Branches :
                    \E i \in DOMAIN chains[b].records : Fork(b, i, branch)
               \/ Anchor(b)
               \/ \E policy \in Policies : BuildBundle(b, policy)
        PROVE  UNCHANGED <<steps, kept>>
    BY <2>1 DEF AppendEvidence, VerifyState, VerifyChain, Fork, Anchor, BuildBundle
  <2>2. ASSUME \/ \E p \in 1..debugger.size : DiagnoseFrame(p)
               \/ \E key \in BundleKeys : ProtectBundle(key)
        PROVE  UNCHANGED <<steps, kept>>
    BY <2>2 DEF DiagnoseFrame, ProtectBundle
  <2> QED BY <2>1, <2>2 DEF SupportNext, supportVars
<1> QED BY <1>1, <1>2, <1>3, <1>4

\* Every world that was recorded has one of the lists of bodies a world can
\* have, and no rollback or overwriting puts another one into the debugger.
THEOREM WorldsAreRecorded == SupportSpec => [](SupportInv /\ WorldsPart)
<1>1. SupportInit => SupportInv /\ WorldsPart
  BY InitSupport DEF SupportInit, WorldsPart
<1>2. SupportInv /\ WorldsPart /\ [SupportNext]_supportVars
        => (SupportInv /\ WorldsPart)'
  BY NextKeepsSupport, NextKeepsWorlds
<1> QED BY <1>1, <1>2, PTL DEF SupportSpec

LEMMA WorldFacts ==
  ASSUME NEW w \in Worlds
  PROVE  /\ IsSeq(w.bodies) /\ w = [frame |-> w.frame, bodies |-> w.bodies]
         /\ w.frame \in Nat /\ w.bodies \in BodyLists
<1>1. w.frame \in Nat /\ w.bodies \in BodyLists
      /\ w = [frame |-> w.frame, bodies |-> w.bodies]
  BY DEF Worlds
<1>2. IsSeq(w.bodies)
  BY <1>1, SupportAssumption DEF IsSeq
<1> QED BY <1>1, <1>2

LEMMA ProofsExact == WorldsPart => ProofsAreOfTheirWorld
<1> SUFFICES ASSUME WorldsPart, NEW i \in DOMAIN steps, NEW j \in DOMAIN steps,
                    NEW c \in 0..(CheckedChunkCount(Len(steps[i].bodies), ChunkSize) - 1)
             PROVE  VerifyMerkleProof(ChunkBodies(steps[i], ChunkSize, c),
                                      MakeMerkleProof(steps[i], c, ChunkSize),
                                      MerkleRoot(steps[j], ChunkSize))
                      <=> steps[i] = steps[j]
  BY DEF ProofsAreOfTheirWorld
<1> DEFINE v == steps[i]
           w == steps[j]
<1>1. v \in Worlds /\ w \in Worlds
  BY DEF WorldsPart
<1>2. ChunkSize \in Nat \ {0}
  BY SupportAssumption
<1>3. c \in 0..(CheckedChunkCount(Len(v.bodies), ChunkSize) - 1)
  OBVIOUS
<1> HIDE DEF v, w
<1>4. VerifyMerkleProof(ChunkBodies(v, ChunkSize, c), MakeMerkleProof(v, c, ChunkSize),
                        MerkleRoot(w, ChunkSize)) <=> v = w
  BY <1>1, <1>2, <1>3, WorldFacts, ProofIsOfWorld
<1> QED BY <1>4 DEF v, w

\* A signed chain that verify_evidence_chain accepts is what one branch
\* recorded first, and verify_state_merkle_proof takes a proof of a chunk
\* against the root of the world it was made of and of no other, whatever
\* the size of a chunk and however many chunks a world has.
THEOREM EvidenceIsExact == SupportSpec => []EvidenceExact
<1>1. SupportInv /\ WorldsPart => ProofsAreOfTheirWorld
  BY ProofsExact
<1> QED BY <1>1, WorldsAreRecorded, AcceptedChainsWereRecorded, PTL DEF EvidenceExact

-----------------------------------------------------------------------------
(* The place of a divergence *)

\* The leaf of the chunk a body is in differs if the other world has another
\* body in that place, or none.
LEMMA LeafDiffers ==
  ASSUME NEW v, NEW w, IsSeq(v.bodies), IsSeq(w.bodies), NEW size \in Nat \ {0},
         NEW k \in 1..Len(v.bodies),
         k \in 1..Len(w.bodies) => v.bodies[k] # w.bodies[k]
  PROVE  LET c == ChunkOf(k, size)
             leaves == BuildLevels(v, size)[0]
             others == BuildLevels(w, size)[0]
         IN c \in DOMAIN leaves /\ (c \in DOMAIN others => leaves[c] # others[c])
<1> DEFINE c == ChunkOf(k, size)
           n == CheckedChunkCount(Len(v.bodies), size)
           m == CheckedChunkCount(Len(w.bodies), size)
           L == BuildLevels(v, size)
           M == BuildLevels(w, size)
           chunk == ChunkBodies(v, size, c)
           other == ChunkBodies(w, size, c)
           p == k - (c * size)
<1>1. c \in 0..(n - 1) /\ p \in 1..Len(chunk) /\ chunk[p] = v.bodies[k]
  BY BodyInChunk
<1>2. n \in Nat /\ c * size \in Nat
  BY <1>1, ChunkFacts
<1>3. m \in Nat
  <2>1. Len(w.bodies) \in Nat BY SeqFacts
  <2> QED BY <2>1, ChunkCountIsNat
<1>4. TreeOver(L, v, size, n) /\ TreeOver(M, w, size, m)
  BY <1>2, <1>3, TreeFacts
<1>5. PowerOfTwo(Height(n)) >= n /\ PowerOfTwo(Height(n)) \in Nat
  BY <1>2, HeightFacts, PowerFacts
<1> HIDE DEF L, M, n, m
<1>6. c \in 0..(PowerOfTwo(Height(n)) - 1) /\ c < n /\ c \in Nat
  BY <1>1, <1>2, <1>5
<1>7. c \in DOMAIN L[0] /\ L[0][c] = HashLeaf(c, c * size, chunk)
  BY <1>4, <1>6 DEF TreeOver
<1>8. ASSUME c \in DOMAIN M[0], L[0][c] = M[0][c] PROVE FALSE
  <2>1. M[0][c] = IF c < m THEN HashLeaf(c, c * size, other) ELSE HashEmptyLeaf(c)
    BY <1>4, <1>8 DEF TreeOver
  <2>2. c < m /\ chunk = other
    BY <2>1, <1>7, <1>8 DEF HashLeaf, HashEmptyLeaf, Sha256
  <2>3. c \in 0..(m - 1)
    BY <2>2, <1>3, <1>6
  <2>4. /\ Len(other) = Least(size, Len(w.bodies) - (c * size))
        /\ other[p] = w.bodies[(c * size) + p]
    BY <2>2, <2>3, <1>1, ChunkFacts DEF m
  <2>5. (c * size) + p = k
    BY <1>2
  <2>6. k <= Len(w.bodies)
    <3> DEFINE x == c * size
    <3>1. x \in Nat /\ p = k - x /\ p \in 1..Len(chunk) /\ Len(w.bodies) \in Nat
          /\ Len(chunk) = Least(size, Len(w.bodies) - x)
      BY <1>1, <1>2, <2>2, <2>4, SeqFacts
    <3> HIDE DEF x, p, chunk
    <3> QED BY <3>1 DEF Least
  <2>7. k \in 1..Len(w.bodies)
    BY <2>6, SeqFacts
  <2> QED BY <2>2, <2>4, <2>5, <2>7, <1>1
<1> QED BY <1>7, <1>8 DEF L, M

AgreeTo(v, w, n) ==
  n <= Len(v.bodies) /\ n <= Len(w.bodies) /\ \A k \in 1..n : v.bodies[k] = w.bodies[k]

\* The leaf of a chunk of which both worlds have all bodies, the same ones.
LEMMA LeafAgrees ==
  ASSUME NEW v, NEW w, IsSeq(v.bodies), IsSeq(w.bodies), NEW size \in Nat \ {0},
         NEW c \in Nat, AgreeTo(v, w, (c * size) + size)
  PROVE  LET leaves == BuildLevels(v, size)[0]
             others == BuildLevels(w, size)[0]
         IN c \in DOMAIN leaves /\ c \in DOMAIN others /\ leaves[c] = others[c]
<1> DEFINE x == c * size
           n == CheckedChunkCount(Len(v.bodies), size)
           m == CheckedChunkCount(Len(w.bodies), size)
           L == BuildLevels(v, size)
           M == BuildLevels(w, size)
<1>1. x \in Nat
  OBVIOUS
<1>2. Len(v.bodies) \in Nat /\ Len(w.bodies) \in Nat
  BY SeqFacts
<1> DEFINE to == x + size
<1>0. /\ to <= Len(v.bodies) /\ to <= Len(w.bodies)
      /\ \A k \in 1..to : v.bodies[k] = w.bodies[k]
  BY DEF AgreeTo
<1>3. ChunkOf(x + 1, size) = c
  <2>1. x = size * c + 0 /\ 0 \in 0..(size - 1) /\ x \in Nat
    BY <1>1
  <2> DEFINE q == x \div size
             r == x % size
  <2>2. q \in Nat /\ r \in 0..(size - 1) /\ x = size * q + r
    BY <1>1, RestIsSmall, QuotientAndRest
  <2>3. ChunkOf(x + 1, size) = q
    <3> HIDE DEF x
    <3>1. (x + 1) - 1 = x BY <2>1
    <3> QED BY <3>1 DEF ChunkOf
  <2> HIDE DEF q, r, x
  <2>4. size * q + r = size * c + 0 BY <2>1, <2>2
  <2>5. q \in Int /\ c \in Int BY <2>2
  <2>6. q = c BY <2>1, <2>2, <2>4, <2>5, QuotientAndRestUnique
  <2> QED BY <2>3, <2>6
<1>4. x + 1 \in 1..Len(v.bodies) /\ x + 1 \in 1..Len(w.bodies)
  <2> HIDE DEF x
  <2> QED BY <1>0, <1>1, <1>2
<1>5. c \in 0..(n - 1) /\ c \in 0..(m - 1)
  <2> HIDE DEF x, n, m
  <2>1. ChunkOf(x + 1, size) \in 0..(n - 1)
    BY <1>4, BodyInChunk DEF n
  <2>2. ChunkOf(x + 1, size) \in 0..(m - 1)
    BY <1>4, BodyInChunk DEF m
  <2> QED BY <2>1, <2>2, <1>3
<1>6. n \in Nat /\ m \in Nat
  BY <1>5, ChunkFacts
<1>7. TreeOver(L, v, size, n) /\ TreeOver(M, w, size, m)
  BY <1>6, TreeFacts
<1>8. /\ PowerOfTwo(Height(n)) >= n /\ PowerOfTwo(Height(n)) \in Nat
      /\ PowerOfTwo(Height(m)) >= m /\ PowerOfTwo(Height(m)) \in Nat
  BY <1>6, HeightFacts, PowerFacts
<1>9. ChunkBodies(v, size, c) = ChunkBodies(w, size, c)
  <2> DEFINE a == ChunkBodies(v, size, c)
             b == ChunkBodies(w, size, c)
  <2>1. /\ Len(a) = Least(size, Len(v.bodies) - x) /\ Len(b) = Least(size, Len(w.bodies) - x)
        /\ a = [k \in 1..Len(a) |-> a[k]] /\ b = [k \in 1..Len(b) |-> b[k]]
        /\ \A k \in 1..Len(a) : a[k] = v.bodies[x + k]
        /\ \A k \in 1..Len(b) : b[k] = w.bodies[x + k]
    BY <1>5, ChunkFacts
  <2>2. \A k \in 1..(x + size) : v.bodies[k] = w.bodies[k]
    BY <1>0
  <2>3. Len(v.bodies) >= x + size /\ Len(w.bodies) >= x + size
    BY <1>0, <1>1, <1>2
  <2> HIDE DEF x, a, b
  <2>4. Len(a) = size /\ Len(b) = size
    BY <2>1, <2>3, <1>1, <1>2 DEF Least
  <2>5. ASSUME NEW k \in 1..size PROVE a[k] = b[k]
    <3>1. x + k \in 1..(x + size) BY <1>1
    <3> QED BY <3>1, <2>1, <2>2, <2>4
  <2>6. a = b
    BY <2>1, <2>4, <2>5
  <2> QED BY <2>6 DEF a, b
<1> HIDE DEF L, M, n, m, x
<1>10. /\ c \in 0..(PowerOfTwo(Height(n)) - 1) /\ c < n
       /\ c \in 0..(PowerOfTwo(Height(m)) - 1) /\ c < m
  BY <1>5, <1>6, <1>8
<1>11. /\ c \in DOMAIN L[0] /\ L[0][c] = HashLeaf(c, c * size, ChunkBodies(v, size, c))
       /\ c \in DOMAIN M[0] /\ M[0][c] = HashLeaf(c, c * size, ChunkBodies(w, size, c))
  BY <1>7, <1>10 DEF TreeOver
<1> QED BY <1>9, <1>11 DEF L, M

\* The first place in which two lists of bodies differ.
DiffersAt(e, a, i) ==
  (i > Len(e)) # (i > Len(a)) \/ (i <= Len(e) /\ i <= Len(a) /\ e[i] # a[i])

LEMMA FirstDifference ==
  ASSUME NEW e, NEW a, IsSeq(e), IsSeq(a), e # a
  PROVE  LET first == CHOOSE i \in 1..(Len(e) + Len(a) + 1) :
                        DiffersAt(e, a, i) /\ \A j \in 1..(i - 1) : ~DiffersAt(e, a, j)
         IN /\ first \in Nat \ {0} /\ DiffersAt(e, a, first)
            /\ first - 1 <= Len(e) /\ first - 1 <= Len(a)
            /\ \A j \in 1..(first - 1) : e[j] = a[j]
<1> DEFINE T == {i \in Nat : i # 0 /\ DiffersAt(e, a, i)}
           N == Len(e) + Len(a) + 1
<1>1. /\ Len(e) \in Nat /\ Len(a) \in Nat
      /\ e = [i \in 1..Len(e) |-> e[i]] /\ a = [i \in 1..Len(a) |-> a[i]]
  BY SeqFacts
<1>2. \E i \in T : i <= N
  <2>1. CASE Len(e) < Len(a)
    <3>1. Len(e) + 1 \in T /\ Len(e) + 1 <= N BY <1>1, <2>1 DEF DiffersAt
    <3> QED BY <3>1
  <2>2. CASE Len(a) < Len(e)
    <3>1. Len(a) + 1 \in T /\ Len(a) + 1 <= N BY <1>1, <2>2 DEF DiffersAt
    <3> QED BY <3>1
  <2>3. CASE Len(e) = Len(a)
    <3>1. PICK i \in 1..Len(e) : e[i] # a[i] BY <1>1, <2>3
    <3>2. i \in T /\ i <= N BY <1>1, <2>3, <3>1 DEF DiffersAt
    <3> QED BY <3>2
  <2>4. Len(e) < Len(a) \/ Len(a) < Len(e) \/ Len(e) = Len(a)
    <3>1. Len(e) \in Nat /\ Len(a) \in Nat BY <1>1
    <3>2. \A x, y \in Nat : x < y \/ y < x \/ x = y OBVIOUS
    <3> QED BY <3>1, <3>2, Zenon
  <2> QED BY <2>1, <2>2, <2>3, <2>4
<1>3. PICK k \in T : \A j \in T : k <= j
  BY <1>2, LeastNumber
<1>4. k \in 1..N /\ DiffersAt(e, a, k)
  BY <1>1, <1>2, <1>3
<1>5. \A j \in 1..(k - 1) : ~DiffersAt(e, a, j)
  BY <1>3, <1>4
<1> DEFINE first == CHOOSE i \in 1..N :
                      DiffersAt(e, a, i) /\ \A j \in 1..(i - 1) : ~DiffersAt(e, a, j)
<1> HIDE DEF T
<1>6. first \in 1..N /\ DiffersAt(e, a, first)
      /\ \A j \in 1..(first - 1) : ~DiffersAt(e, a, j)
  BY <1>4, <1>5
<1> HIDE DEF first
<1>7. first - 1 <= Len(e) /\ first - 1 <= Len(a)
  <2>1. CASE first = 1 BY <2>1, <1>1
  <2>2. CASE first # 1
    <3>1. first - 1 \in 1..(first - 1) BY <2>2, <1>1, <1>6
    <3>2. ~DiffersAt(e, a, first - 1) BY <3>1, <1>6
    <3> QED BY <3>1, <3>2, <1>1, <1>6 DEF DiffersAt
  <2> QED BY <2>1, <2>2
<1>8. \A j \in 1..(first - 1) : e[j] = a[j]
  BY <1>1, <1>6, <1>7 DEF DiffersAt
<1> QED BY <1>1, <1>6, <1>7, <1>8 DEF first

LEMMA PlacedExactly ==
  ASSUME NEW v, NEW w, IsSeq(v.bodies), IsSeq(w.bodies), v.frame = w.frame,
         v = [frame |-> v.frame, bodies |-> v.bodies],
         w = [frame |-> w.frame, bodies |-> w.bodies]
  PROVE  PlacedInFirstLeaf(v, w)
<1> DEFINE leaves == BuildLevels(v, ChunkSize)[0]
           others == BuildLevels(w, ChunkSize)[0]
           Differs(c) == IF c \in DOMAIN leaves /\ c \in DOMAIN others
                         THEN leaves[c] # others[c]
                         ELSE c \in DOMAIN leaves \cup DOMAIN others
           e == v.bodies
           a == w.bodies
           first == CHOOSE i \in 1..(Len(e) + Len(a) + 1) :
                      DiffersAt(e, a, i) /\ \A j \in 1..(i - 1) : ~DiffersAt(e, a, j)
           chunk == ChunkOf(first, ChunkSize)
<1>1. Diagnose(v, w, ChunkSize).divergent
        => v # w /\ Diagnose(v, w, ChunkSize).chunk = chunk
  BY DEF Diagnose, DiffersAt, NoDivergence
<1> SUFFICES ASSUME v # w
             PROVE  Differs(chunk) /\ \A c \in 0..(chunk - 1) : ~Differs(c)
  BY <1>1 DEF PlacedInFirstLeaf
<1>2. e # a
  OBVIOUS
<1>3. ChunkSize \in Nat \ {0}
  BY SupportAssumption
<1>4. /\ first \in Nat \ {0} /\ DiffersAt(e, a, first)
      /\ first - 1 <= Len(e) /\ first - 1 <= Len(a)
      /\ \A j \in 1..(first - 1) : e[j] = a[j]
  BY <1>2, FirstDifference
<1>5. Len(e) \in Nat /\ Len(a) \in Nat
  BY SeqFacts
<1> HIDE DEF first
<1>6. Differs(chunk)
  <2>1. CASE first <= Len(e)
    <3>1. first \in 1..Len(e) /\ (first \in 1..Len(a) => e[first] # a[first])
      BY <2>1, <1>4, <1>5 DEF DiffersAt
    <3>2. chunk \in DOMAIN leaves /\ (chunk \in DOMAIN others => leaves[chunk] # others[chunk])
      BY <3>1, <1>3, LeafDiffers
    <3> QED BY <3>2
  <2>2. CASE first > Len(e)
    <3>1. first \in 1..Len(a) /\ (first \in 1..Len(e) => a[first] # e[first])
      BY <2>2, <1>4, <1>5 DEF DiffersAt
    <3>2. chunk \in DOMAIN others /\ (chunk \in DOMAIN leaves => others[chunk] # leaves[chunk])
      BY <3>1, <1>3, LeafDiffers
    <3> QED BY <3>2
  <2> QED BY <2>1, <2>2, <1>4, <1>5
<1>7. ASSUME NEW c \in 0..(chunk - 1) PROVE ~Differs(c)
  <2> DEFINE S == ChunkSize
             r == (first - 1) % S
  <2>1. chunk \in Nat /\ r \in Nat /\ first - 1 = S * chunk + r
    <3>1. first - 1 \in Nat BY <1>4
    <3> QED BY <3>1, <1>3, RestIsSmall, QuotientAndRest DEF ChunkOf
  <2> HIDE DEF chunk, r, leaves, others
  <2>2. c \in Nat /\ c < chunk /\ c \in Int /\ chunk \in Int
    BY <2>1
  <2>3. S * c + S <= S * chunk
    BY <2>2, <1>3, MultiplesApart
  <2>4. c * S = S * c /\ S * c \in Nat /\ S * chunk \in Nat
    BY <2>1, <2>2, <1>3
  <2>5. (c * S) + S <= first - 1
    <3> DEFINE x == S * c
               y == S * chunk
               z == c * S
    <3>1. x + S <= y /\ x \in Nat /\ y \in Nat /\ z = x /\ first - 1 = y + r
      BY <2>1, <2>3, <2>4
    <3> HIDE DEF x, y, z
    <3>2. z + S <= first - 1 BY <3>1, <2>1, <1>3, <1>4
    <3> QED BY <3>2 DEF z
  <2> DEFINE x == (c * S) + S
  <2>6. x <= first - 1 /\ x \in Nat /\ x = (c * ChunkSize) + ChunkSize
    BY <2>4, <2>5, <1>3
  <2> HIDE DEF x
  <2>7. x <= Len(e) /\ x <= Len(a) /\ \A k \in 1..x : e[k] = a[k]
    BY <2>6, <1>4, <1>5
  <2>8. AgreeTo(v, w, (c * ChunkSize) + ChunkSize)
    <3>1. AgreeTo(v, w, x) BY <2>7 DEF AgreeTo
    <3> QED BY <3>1, <2>6
  <2>9. c \in DOMAIN leaves /\ c \in DOMAIN others /\ leaves[c] = others[c]
    BY <2>2, <2>8, <1>3, LeafAgrees DEF leaves, others
  <2> QED BY <2>9
<1> QED BY <1>6, <1>7

-----------------------------------------------------------------------------
(* The comparison of two frames *)

LEMMA SetOfConcat ==
  ASSUME NEW s, NEW t, IsSeq(s), IsSeq(t)
  PROVE  IsSeq(s \o t) /\ \A x : x \in ToSet(s \o t) <=> x \in ToSet(s) \/ x \in ToSet(t)
<1> DEFINE st == s \o t
<1>1. /\ Len(s) \in Nat /\ DOMAIN s = 1..Len(s)
      /\ Len(t) \in Nat /\ DOMAIN t = 1..Len(t)
  BY SeqFacts
<1>2. /\ IsSeq(st) /\ Len(st) = Len(s) + Len(t) /\ DOMAIN st = 1..Len(st)
      /\ \A i \in 1..(Len(s) + Len(t)) :
           st[i] = IF i <= Len(s) THEN s[i] ELSE t[i - Len(s)]
  BY ConcatIsSeq, SeqFacts
<1> HIDE DEF st
<1>3. ASSUME NEW x \in ToSet(st) PROVE x \in ToSet(s) \/ x \in ToSet(t)
  <2>1. PICK i \in 1..(Len(s) + Len(t)) : x = st[i] BY <1>2, <1>3 DEF ToSet
  <2>2. CASE i <= Len(s) BY <2>1, <2>2, <1>1, <1>2 DEF ToSet
  <2>3. CASE ~(i <= Len(s))
    <3>1. i - Len(s) \in 1..Len(t) /\ x = t[i - Len(s)] BY <2>1, <2>3, <1>1, <1>2
    <3> QED BY <3>1, <1>1 DEF ToSet
  <2> QED BY <2>2, <2>3
<1>4. ASSUME NEW i \in 1..Len(s) PROVE s[i] \in ToSet(st)
  <2>1. i \in 1..(Len(s) + Len(t)) /\ st[i] = s[i] BY <1>1, <1>2
  <2> QED BY <2>1, <1>2 DEF ToSet
<1>5. ASSUME NEW i \in 1..Len(t) PROVE t[i] \in ToSet(st)
  <2>1. /\ Len(s) + i \in 1..(Len(s) + Len(t)) /\ ~(Len(s) + i <= Len(s))
        /\ (Len(s) + i) - Len(s) = i
    BY <1>1
  <2>2. st[Len(s) + i] = t[i] BY <2>1, <1>2
  <2> QED BY <2>1, <2>2, <1>2 DEF ToSet
<1>6. \A x : x \in ToSet(st) <=> x \in ToSet(s) \/ x \in ToSet(t)
  BY <1>1, <1>3, <1>4, <1>5 DEF ToSet
<1> QED BY <1>2, <1>6 DEF st

LEMMA SetOfShort ==
  /\ IsSeq(<<>>) /\ \A x : x \notin ToSet(<<>>)
  /\ \A a : IsSeq(<<a>>) /\ \A x : x \in ToSet(<<a>>) <=> x = a
<1>1. \A x : x \notin ToSet(<<>>) BY DEF ToSet
<1>2. \A a, x : x \in ToSet(<<a>>) <=> x = a BY DEF ToSet
<1> QED BY <1>1, <1>2, ShortIsSeq

LEMMA AppendJoins ==
  ASSUME NEW s, IsSeq(s), NEW a
  PROVE  Append(s, a) = s \o <<a>>
<1> DEFINE S == ToSet(s) \cup {a}
<1>1. s \in Seq(S) /\ a \in S BY DEF IsSeq
<1> HIDE DEF S
<1> QED BY <1>1

LEMMA SetOfAppend ==
  ASSUME NEW s, IsSeq(s), NEW a
  PROVE  IsSeq(Append(s, a)) /\ \A x : x \in ToSet(Append(s, a)) <=> x \in ToSet(s) \/ x = a
<1>1. Append(s, a) = s \o <<a>>
  BY AppendJoins
<1>2. IsSeq(<<a>>) /\ \A x : x \in ToSet(<<a>>) <=> x = a
  BY SetOfShort
<1>3. IsSeq(s \o <<a>>) /\ \A x : x \in ToSet(s \o <<a>>) <=> x \in ToSet(s) \/ x \in ToSet(<<a>>)
  BY <1>2, SetOfConcat
<1> QED BY <1>1, <1>2, <1>3

\* What a comparison lists of two bodies with one id.
Changed(x, y, d) == \E c \in Components : x[c] # y[c] /\ d = ComponentDiff(x, y, c)

LEMMA ComponentDiffsAre ==
  ASSUME NEW x, NEW y
  PROVE  /\ IsSeq(ComponentDiffs(x, y))
         /\ \A d : d \in ToSet(ComponentDiffs(x, y)) <=> Changed(x, y, d)
<1> DEFINE Diffs(c) == IF x[c] = y[c] THEN <<>> ELSE <<ComponentDiff(x, y, c)>>
<1>1. ASSUME NEW c
      PROVE  /\ IsSeq(Diffs(c))
             /\ \A d : d \in ToSet(Diffs(c)) <=> x[c] # y[c] /\ d = ComponentDiff(x, y, c)
  BY SetOfShort
<1>2. ComponentDiffs(x, y) = Diffs("position") \o Diffs("velocity")
  BY DEF ComponentDiffs
<1> HIDE DEF Diffs
<1> QED BY <1>1, <1>2, SetOfConcat DEF Changed, Components

Ordered(list) ==
  /\ IsSeq(list)
  /\ \A k \in 1..Len(list) : list[k].id \in Nat
  /\ \A k, m \in 1..Len(list) : k < m => list[k].id < list[m].id

Alone(body, list) == \A k \in 1..Len(list) : list[k].id # body.id

\* What the first a bodies of one list and the first b of the other give.
Explained(l, r, a, b, d) ==
  \/ \E i \in 1..a : Alone(l[i], r) /\ d = Removed(l[i])
  \/ \E j \in 1..b : Alone(r[j], l) /\ d = Added(r[j])
  \/ \E i \in 1..a, j \in 1..b : l[i].id = r[j].id /\ Changed(l[i], r[j], d)

\* All bodies before a come before those the other list has from b on.
Before(l, r, a, b) == \A i \in 1..a, j \in (b + 1)..Len(r) : l[i].id < r[j].id

LEMMA TakeLeft ==
  ASSUME NEW l, NEW r, Ordered(l), Ordered(r), NEW a \in 0..Len(l), NEW b \in 0..Len(r),
         Before(l, r, a, b), Before(r, l, b, a), a < Len(l),
         b < Len(r) => l[a + 1].id < r[b + 1].id
  PROVE  /\ Before(l, r, a + 1, b) /\ Before(r, l, b, a + 1)
         /\ Alone(l[a + 1], r)
         /\ \A j \in 1..b : r[j].id # l[a + 1].id
<1>1. Len(l) \in Nat /\ Len(r) \in Nat /\ a + 1 \in 1..Len(l)
  BY SeqFacts DEF Ordered
<1>2. ASSUME NEW j \in (b + 1)..Len(r) PROVE l[a + 1].id < r[j].id
  <2>1. b + 1 \in 1..Len(r) /\ j \in 1..Len(r) /\ b + 1 <= j BY <1>1
  <2>2. r[b + 1].id \in Nat /\ r[j].id \in Nat /\ l[a + 1].id \in Nat
    BY <2>1, <1>1 DEF Ordered
  <2>3. l[a + 1].id < r[b + 1].id BY <2>1, <1>1
  <2>4. j = b + 1 \/ r[b + 1].id < r[j].id BY <2>1, <1>1 DEF Ordered
  <2> QED BY <2>2, <2>3, <2>4
<1>3. ASSUME NEW j \in 1..b PROVE r[j].id < l[a + 1].id
  BY <1>1 DEF Before
<1>4. Before(l, r, a + 1, b)
  BY <1>1, <1>2 DEF Before
<1>5. Before(r, l, b, a + 1)
  BY <1>1 DEF Before
<1>6. ASSUME NEW j \in 1..Len(r) PROVE r[j].id # l[a + 1].id
  <2>1. r[j].id \in Nat /\ l[a + 1].id \in Nat BY <1>1 DEF Ordered
  <2>2. j \in 1..b \/ j \in (b + 1)..Len(r) BY <1>1
  <2> QED BY <2>1, <2>2, <1>2, <1>3
<1>7. \A j \in 1..b : r[j].id # l[a + 1].id
  BY <1>1, <1>6
<1> QED BY <1>4, <1>5, <1>6, <1>7 DEF Alone

LEMMA TakeBoth ==
  ASSUME NEW l, NEW r, Ordered(l), Ordered(r), NEW a \in 0..Len(l), NEW b \in 0..Len(r),
         Before(l, r, a, b), Before(r, l, b, a), a < Len(l), b < Len(r),
         l[a + 1].id = r[b + 1].id
  PROVE  /\ Before(l, r, a + 1, b + 1)
         /\ \A i \in 1..a : l[i].id # r[b + 1].id
<1>1. Len(l) \in Nat /\ Len(r) \in Nat /\ a + 1 \in 1..Len(l) /\ b + 1 \in 1..Len(r)
  BY SeqFacts DEF Ordered
<1>2. ASSUME NEW j \in ((b + 1) + 1)..Len(r) PROVE l[a + 1].id < r[j].id
  <2>1. j \in 1..Len(r) /\ b + 1 < j BY <1>1
  <2> QED BY <2>1, <1>1 DEF Ordered
<1>3. Before(l, r, a + 1, b + 1)
  <2> SUFFICES ASSUME NEW i \in 1..(a + 1), NEW j \in ((b + 1) + 1)..Len(r)
               PROVE  l[i].id < r[j].id
    BY DEF Before
  <2>1. CASE i = a + 1 BY <2>1, <1>2
  <2>2. CASE i # a + 1
    <3>1. i \in 1..a /\ j \in (b + 1)..Len(r) BY <2>2, <1>1
    <3> QED BY <3>1 DEF Before
  <2> QED BY <2>1, <2>2
<1>4. ASSUME NEW i \in 1..a PROVE l[i].id # r[b + 1].id
  <2>1. b + 1 \in (b + 1)..Len(r) /\ i \in 1..Len(l) BY <1>1
  <2>2. l[i].id < r[b + 1].id BY <2>1 DEF Before
  <2>3. l[i].id \in Nat /\ r[b + 1].id \in Nat BY <2>1, <1>1 DEF Ordered
  <2> QED BY <2>2, <2>3
<1> QED BY <1>3, <1>4

LEMMA ExplainedLeft ==
  ASSUME NEW l, NEW r, NEW a \in Nat, NEW b \in Nat, Alone(l[a + 1], r),
         \A j \in 1..b : r[j].id # l[a + 1].id, NEW d
  PROVE  Explained(l, r, a + 1, b, d) <=> Explained(l, r, a, b, d) \/ d = Removed(l[a + 1])
<1>1. \A i : i \in 1..(a + 1) <=> i \in 1..a \/ i = a + 1
  OBVIOUS
<1> QED BY <1>1 DEF Explained

LEMMA ExplainedRight ==
  ASSUME NEW l, NEW r, NEW a \in Nat, NEW b \in Nat, Alone(r[b + 1], l),
         \A i \in 1..a : l[i].id # r[b + 1].id, NEW d
  PROVE  Explained(l, r, a, b + 1, d) <=> Explained(l, r, a, b, d) \/ d = Added(r[b + 1])
<1>1. \A j : j \in 1..(b + 1) <=> j \in 1..b \/ j = b + 1
  OBVIOUS
<1> QED BY <1>1 DEF Explained

LEMMA ExplainedBoth ==
  ASSUME NEW l, NEW r, NEW a \in Nat, NEW b \in Nat,
         ~Alone(l[a + 1], r), ~Alone(r[b + 1], l), l[a + 1].id = r[b + 1].id,
         \A i \in 1..a : l[i].id # r[b + 1].id,
         \A j \in 1..b : r[j].id # l[a + 1].id, NEW d
  PROVE  Explained(l, r, a + 1, b + 1, d)
           <=> Explained(l, r, a, b, d) \/ Changed(l[a + 1], r[b + 1], d)
<1>1. /\ \A i : i \in 1..(a + 1) <=> i \in 1..a \/ i = a + 1
      /\ \A j : j \in 1..(b + 1) <=> j \in 1..b \/ j = b + 1
  OBVIOUS
<1> QED BY <1>1 DEF Explained

\* A round of the merge.
MergeStart == [l |-> 0, r |-> 0, changes |-> <<>>]

MergeStep(l, r, s) ==
  LET OnlyLeft == s.l < Len(l) /\ (s.r < Len(r) => l[s.l + 1].id < r[s.r + 1].id)
      OnlyRight == s.r < Len(r) /\ (s.l < Len(l) => r[s.r + 1].id < l[s.l + 1].id)
  IN IF OnlyLeft
     THEN [s EXCEPT !.l = @ + 1, !.changes = Append(@, Removed(l[s.l + 1]))]
     ELSE IF OnlyRight
     THEN [s EXCEPT !.r = @ + 1, !.changes = Append(@, Added(r[s.r + 1]))]
     ELSE IF s.l < Len(l)
     THEN [l |-> s.l + 1, r |-> s.r + 1,
           changes |-> s.changes \o ComponentDiffs(l[s.l + 1], r[s.r + 1])]
     ELSE s

MergedTo(f, l, r, m) ==
  f = [k \in 0..m |-> IF k = 0 THEN MergeStart ELSE MergeStep(l, r, f[k - 1])]

LEMMA MergedThere ==
  ASSUME NEW l, NEW r, NEW m \in Nat
  PROVE  \E f : MergedTo(f, l, r, m)
<1> DEFINE S == {n \in Nat : \E f : MergedTo(f, l, r, n)}
<1>1. 0 \in S
  <2> DEFINE f == [k \in 0..0 |-> MergeStart]
  <2>1. MergedTo(f, l, r, 0) BY DEF MergedTo
  <2> QED BY <2>1
<1>2. ASSUME NEW n \in Nat, n \in S PROVE n + 1 \in S
  <2>1. PICK f : MergedTo(f, l, r, n) BY <1>2
  <2> DEFINE g == [k \in 0..(n + 1) |-> IF k <= n THEN f[k] ELSE MergeStep(l, r, f[n])]
  <2>2. ASSUME NEW k \in 0..(n + 1)
        PROVE  g[k] = IF k = 0 THEN MergeStart ELSE MergeStep(l, r, g[k - 1])
    <3>1. CASE k = 0 BY <3>1, <2>1 DEF MergedTo
    <3>2. CASE k # 0 /\ k <= n
      <4>1. g[k] = f[k] /\ g[k - 1] = f[k - 1] BY <3>2
      <4>2. f[k] = MergeStep(l, r, f[k - 1]) BY <3>2, <2>1 DEF MergedTo
      <4> HIDE DEF g
      <4> QED BY <4>1, <4>2, <3>2
    <3>3. CASE k = n + 1
      <4>1. g[k] = MergeStep(l, r, f[n]) /\ g[k - 1] = f[n] BY <3>3
      <4> HIDE DEF g
      <4> QED BY <4>1, <3>3
    <3> QED BY <3>1, <3>2, <3>3
  <2>3. g = [k \in 0..(n + 1) |-> g[k]] OBVIOUS
  <2> HIDE DEF g
  <2>4. g = [k \in 0..(n + 1) |-> IF k = 0 THEN MergeStart ELSE MergeStep(l, r, g[k - 1])]
    BY <2>2, <2>3
  <2>5. MergedTo(g, l, r, n + 1) BY <2>4 DEF MergedTo
  <2>6. n + 1 \in Nat OBVIOUS
  <2> QED BY <2>5, <2>6
<1> HIDE DEF S
<1>3. \A n \in Nat : n \in S BY <1>1, <1>2, Induction
<1> QED BY <1>3 DEF S

\* After k rounds: what is behind on both sides is listed, and what is ahead
\* comes after it.
Rounds(l, r, k, s) ==
  /\ s = [l |-> s.l, r |-> s.r, changes |-> s.changes]
  /\ s.l \in 0..Len(l) /\ s.r \in 0..Len(r)
  /\ k <= s.l + s.r \/ (s.l = Len(l) /\ s.r = Len(r))
  /\ IsSeq(s.changes)
  /\ Before(l, r, s.l, s.r) /\ Before(r, l, s.r, s.l)
  /\ \A d : d \in ToSet(s.changes) <=> Explained(l, r, s.l, s.r, d)

LEMMA MergeRound ==
  ASSUME NEW l, NEW r, Ordered(l), Ordered(r), NEW k \in Nat, NEW s, Rounds(l, r, k, s)
  PROVE  Rounds(l, r, k + 1, MergeStep(l, r, s))
<1> DEFINE a == s.l
           b == s.r
           OnlyLeft == a < Len(l) /\ (b < Len(r) => l[a + 1].id < r[b + 1].id)
           OnlyRight == b < Len(r) /\ (a < Len(l) => r[b + 1].id < l[a + 1].id)
           after == MergeStep(l, r, s)
<1>1. /\ s = [l |-> a, r |-> b, changes |-> s.changes]
      /\ a \in 0..Len(l) /\ b \in 0..Len(r) /\ Len(l) \in Nat /\ Len(r) \in Nat
      /\ IsSeq(s.changes) /\ Before(l, r, a, b) /\ Before(r, l, b, a)
      /\ \A d : d \in ToSet(s.changes) <=> Explained(l, r, a, b, d)
      /\ k <= a + b \/ (a = Len(l) /\ b = Len(r))
  BY SeqFacts DEF Rounds, Ordered
<1>2. CASE OnlyLeft
  <2> DEFINE longer == Append(s.changes, Removed(l[a + 1]))
  <2>1. after = [l |-> a + 1, r |-> b, changes |-> longer]
    BY <1>1, <1>2 DEF MergeStep
  <2>2. /\ Before(l, r, a + 1, b) /\ Before(r, l, b, a + 1) /\ Alone(l[a + 1], r)
        /\ \A j \in 1..b : r[j].id # l[a + 1].id
    BY <1>1, <1>2, TakeLeft
  <2>3. IsSeq(longer) /\ \A d : d \in ToSet(longer) <=>
                            d \in ToSet(s.changes) \/ d = Removed(l[a + 1])
    BY <1>1, SetOfAppend
  <2>4. \A d : Explained(l, r, a + 1, b, d)
                 <=> Explained(l, r, a, b, d) \/ d = Removed(l[a + 1])
    <3>1. a \in Nat /\ b \in Nat BY <1>1
    <3> HIDE DEF a, b
    <3> QED BY <3>1, <2>2, ExplainedLeft
  <2> HIDE DEF a, b, longer, after
  <2>5. after.l = a + 1 /\ after.r = b /\ after.changes = longer
    BY <2>1
  <2>6. a + 1 \in 0..Len(l) /\ k + 1 <= (a + 1) + b
    BY <1>1, <1>2
  <2>7. \A d : d \in ToSet(longer) <=> Explained(l, r, a + 1, b, d)
    BY <1>1, <2>3, <2>4
  <2> QED BY <1>1, <2>1, <2>2, <2>3, <2>5, <2>6, <2>7 DEF Rounds, after
<1>3. CASE ~OnlyLeft /\ OnlyRight
  <2> DEFINE longer == Append(s.changes, Added(r[b + 1]))
  <2>1. after = [l |-> a, r |-> b + 1, changes |-> longer]
    BY <1>1, <1>3 DEF MergeStep
  <2>2. /\ Before(l, r, a, b + 1) /\ Before(r, l, b + 1, a) /\ Alone(r[b + 1], l)
        /\ \A i \in 1..a : l[i].id # r[b + 1].id
    BY <1>1, <1>3, TakeLeft
  <2>3. IsSeq(longer) /\ \A d : d \in ToSet(longer) <=>
                            d \in ToSet(s.changes) \/ d = Added(r[b + 1])
    BY <1>1, SetOfAppend
  <2>4. \A d : Explained(l, r, a, b + 1, d)
                 <=> Explained(l, r, a, b, d) \/ d = Added(r[b + 1])
    <3>1. a \in Nat /\ b \in Nat BY <1>1
    <3> HIDE DEF a, b
    <3> QED BY <3>1, <2>2, ExplainedRight
  <2> HIDE DEF a, b, longer, after
  <2>5. after.l = a /\ after.r = b + 1 /\ after.changes = longer
    BY <2>1
  <2>6. b + 1 \in 0..Len(r) /\ k + 1 <= a + (b + 1)
    BY <1>1, <1>3
  <2>7. \A d : d \in ToSet(longer) <=> Explained(l, r, a, b + 1, d)
    BY <1>1, <2>3, <2>4
  <2> QED BY <1>1, <2>1, <2>2, <2>3, <2>5, <2>6, <2>7 DEF Rounds, after
<1>4. CASE ~OnlyLeft /\ ~OnlyRight /\ a < Len(l)
  <2> DEFINE diffs == ComponentDiffs(l[a + 1], r[b + 1])
             longer == s.changes \o diffs
  <2>1. after = [l |-> a + 1, r |-> b + 1, changes |-> longer]
    BY <1>1, <1>4 DEF MergeStep
  <2>2. b < Len(r) /\ l[a + 1].id = r[b + 1].id
        /\ a + 1 \in 1..Len(l) /\ b + 1 \in 1..Len(r)
    <3>1. b < Len(r) BY <1>1, <1>4
    <3>2. a + 1 \in 1..Len(l) /\ b + 1 \in 1..Len(r) BY <3>1, <1>1, <1>4
    <3>3. l[a + 1].id \in Nat /\ r[b + 1].id \in Nat BY <3>2 DEF Ordered
    <3>4. ~(l[a + 1].id < r[b + 1].id) /\ ~(r[b + 1].id < l[a + 1].id)
      BY <3>1, <1>4
    <3> QED BY <3>1, <3>2, <3>3, <3>4
  <2>3. /\ Before(l, r, a + 1, b + 1) /\ \A i \in 1..a : l[i].id # r[b + 1].id
        /\ Before(r, l, b + 1, a + 1) /\ \A j \in 1..b : r[j].id # l[a + 1].id
    BY <1>1, <1>4, <2>2, TakeBoth
  <2>4. ~Alone(l[a + 1], r) /\ ~Alone(r[b + 1], l)
    BY <2>2 DEF Alone
  <2>5. /\ IsSeq(diffs) /\ \A d : d \in ToSet(diffs) <=> Changed(l[a + 1], r[b + 1], d)
    BY ComponentDiffsAre
  <2>6. \A d : Explained(l, r, a + 1, b + 1, d)
                 <=> Explained(l, r, a, b, d) \/ Changed(l[a + 1], r[b + 1], d)
    <3>1. a \in Nat /\ b \in Nat BY <1>1
    <3> HIDE DEF a, b
    <3> QED BY <3>1, <2>2, <2>3, <2>4, ExplainedBoth
  <2> HIDE DEF diffs
  <2>7. IsSeq(longer) /\ \A d : d \in ToSet(longer) <=> d \in ToSet(s.changes) \/ d \in ToSet(diffs)
    BY <1>1, <2>5, SetOfConcat
  <2> HIDE DEF a, b, longer, after
  <2>8. after.l = a + 1 /\ after.r = b + 1 /\ after.changes = longer
    BY <2>1
  <2>9. a + 1 \in 0..Len(l) /\ b + 1 \in 0..Len(r) /\ k + 1 <= (a + 1) + (b + 1)
    BY <1>1, <1>4, <2>2
  <2>10. \A d : d \in ToSet(longer) <=> Explained(l, r, a + 1, b + 1, d)
    BY <1>1, <2>5, <2>6, <2>7
  <2> QED BY <1>1, <2>1, <2>3, <2>7, <2>8, <2>9, <2>10 DEF Rounds, after
<1>5. CASE ~OnlyLeft /\ ~OnlyRight /\ ~(a < Len(l))
  <2>1. after = s
    BY <1>5 DEF MergeStep
  <2>2. a = Len(l) /\ b = Len(r)
    BY <1>1, <1>5
  <2> QED BY <1>1, <2>1, <2>2 DEF Rounds
<1> QED BY <1>2, <1>3, <1>4, <1>5

\* TimeTravelDebugger::compare lists what is in one frame only and what both
\* have with another component, and besides that the frames' numbers.
LEMMA CompareLists ==
  ASSUME NEW left, NEW right, Ordered(left.world.bodies), Ordered(right.world.bodies), NEW d
  PROVE  LET l == left.world.bodies
             r == right.world.bodies
         IN d \in ToSet(Compare(left, right)) <=>
              \/ Explained(l, r, Len(l), Len(r), d)
              \/ /\ left.world.frame # right.world.frame
                 /\ d = [entity |-> 0, what |-> "state.frame",
                         from |-> left.world.frame, to |-> right.world.frame]
<1> DEFINE l == left.world.bodies
           r == right.world.bodies
           m == Len(l) + Len(r)
           merged == CHOOSE f : MergedTo(f, l, r, m)
           frames == IF left.world.frame = right.world.frame THEN <<>>
                     ELSE <<[entity |-> 0, what |-> "state.frame",
                             from |-> left.world.frame, to |-> right.world.frame]>>
           S == {k \in Nat : k <= m => Rounds(l, r, k, merged[k])}
<1>1. Len(l) \in Nat /\ Len(r) \in Nat /\ m \in Nat
  <2>1. IsSeq(l) /\ IsSeq(r) BY DEF Ordered
  <2> HIDE DEF l, r
  <2>2. Len(l) \in Nat /\ Len(r) \in Nat BY <2>1, SeqFacts
  <2> QED BY <2>2
<1>2. MergedTo(merged, l, r, m)
  BY <1>1, MergedThere
<1>3. Compare(left, right) = frames \o merged[m].changes
  BY DEF Compare, MergedTo, MergeStep, MergeStart
<1> HIDE DEF merged, l, r
<1>4. 0 \in S
  <2>1. merged[0] = MergeStart BY <1>1, <1>2 DEF MergedTo
  <2>2. \A x : x \notin ToSet(<<>>) BY SetOfShort
  <2>3. \A x : ~Explained(l, r, 0, 0, x) BY DEF Explained
  <2>4. Before(l, r, 0, 0) /\ Before(r, l, 0, 0) BY DEF Before
  <2>5. Rounds(l, r, 0, MergeStart)
    BY <1>1, <2>2, <2>3, <2>4, SetOfShort DEF Rounds, MergeStart
  <2> QED BY <2>1, <2>5
<1>5. ASSUME NEW k \in 0..(m - 1), k \in S PROVE k + 1 \in S
  <2>1. k \in Nat /\ k + 1 \in 1..m /\ k + 1 # 0 /\ (k + 1) - 1 = k BY <1>1
  <2>2. merged[k + 1] = MergeStep(l, r, merged[k]) BY <2>1, <1>2 DEF MergedTo
  <2>3. Rounds(l, r, k, merged[k]) BY <1>5, <2>1
  <2>4. Ordered(l) /\ Ordered(r) BY DEF l, r
  <2>5. Rounds(l, r, k + 1, merged[k + 1]) BY <2>1, <2>2, <2>3, <2>4, MergeRound
  <2> QED BY <2>1, <2>5
<1> HIDE DEF S
<1>6. Rounds(l, r, m, merged[m])
  <2>1. \A k \in 0..m : k \in S BY <1>1, <1>4, <1>5, BoundedInduction
  <2> QED BY <2>1, <1>1 DEF S
<1>7. /\ IsSeq(merged[m].changes)
      /\ \A x : x \in ToSet(merged[m].changes) <=> Explained(l, r, Len(l), Len(r), x)
  <2> DEFINE s == merged[m]
  <2>1. s.l = Len(l) /\ s.r = Len(r)
    <3> HIDE DEF s
    <3> QED BY <1>1, <1>6 DEF Rounds, s
  <2> QED BY <2>1, <1>6 DEF Rounds
<1>8. /\ IsSeq(frames)
      /\ \A x : x \in ToSet(frames) <=>
           /\ left.world.frame # right.world.frame
           /\ x = [entity |-> 0, what |-> "state.frame",
                   from |-> left.world.frame, to |-> right.world.frame]
  BY SetOfShort
<1>9. d \in ToSet(Compare(left, right))
        <=> d \in ToSet(frames) \/ d \in ToSet(merged[m].changes)
  <2> DEFINE changes == merged[m].changes
  <2> HIDE DEF frames, changes
  <2>1. \A x : x \in ToSet(frames \o changes) <=> x \in ToSet(frames) \/ x \in ToSet(changes)
    BY <1>7, <1>8, SetOfConcat DEF changes
  <2> QED BY <2>1, <1>3 DEF changes
<1> QED BY <1>7, <1>8, <1>9 DEF l, r

LEMMA BodiesOrdered ==
  ASSUME NEW w \in Worlds
  PROVE  Ordered(w.bodies)
<1> DEFINE list == w.bodies
<1>1. IsSeq(list) /\ list \in BodyLists
  BY WorldFacts
<1> HIDE DEF list
<1>2. DOMAIN list = 1..Len(list)
  BY <1>1, SeqFacts
<1>3. /\ \A k \in 1..Len(list) : list[k].id \in Nat
      /\ \A k, m \in 1..Len(list) : k < m => list[k].id < list[m].id
  BY <1>1, <1>2, SupportAssumption
<1> QED BY <1>1, <1>3 DEF Ordered, list

LEMMA ComparesExactly ==
  ASSUME NEW left, NEW right, left.world \in Worlds, right.world \in Worlds
  PROVE  ComparedExactly(left, right)
<1> DEFINE x == left.world.bodies
           y == right.world.bodies
           Ids(w) == {w.bodies[k].id : k \in DOMAIN w.bodies}
           Of(w, id) == w.bodies[CHOOSE k \in DOMAIN w.bodies : w.bodies[k].id = id]
           diff == ToSet(Compare(left, right))
           Named(what) == {d.entity : d \in {e \in diff : e.what = what}}
           step == [entity |-> 0, what |-> "state.frame",
                    from |-> left.world.frame, to |-> right.world.frame]
<1>1. Ordered(x) /\ Ordered(y)
  BY BodiesOrdered
<1>2. /\ DOMAIN x = 1..Len(x) /\ DOMAIN y = 1..Len(y)
      /\ Len(x) \in Nat /\ Len(y) \in Nat
  <2>1. IsSeq(x) /\ IsSeq(y) BY <1>1 DEF Ordered
  <2> HIDE DEF x, y
  <2> QED BY <2>1, SeqFacts
<1>3. \A d : d \in diff => Explained(x, y, Len(x), Len(y), d) \/ d = step
  BY <1>1, CompareLists
<1>4. \A d : Explained(x, y, Len(x), Len(y), d) => d \in diff
  BY <1>1, CompareLists
<1>5. /\ Ids(left.world) = {x[k].id : k \in 1..Len(x)}
      /\ Ids(right.world) = {y[k].id : k \in 1..Len(y)}
  BY <1>2
<1>6. /\ \A i \in 1..Len(x) : Of(left.world, x[i].id) = x[i]
      /\ \A j \in 1..Len(y) : Of(right.world, y[j].id) = y[j]
  <2>1. ASSUME NEW list, Ordered(list), DOMAIN list = 1..Len(list), Len(list) \in Nat,
               NEW i \in 1..Len(list)
        PROVE  list[CHOOSE k \in DOMAIN list : list[k].id = list[i].id] = list[i]
    <3> DEFINE k == CHOOSE k \in DOMAIN list : list[k].id = list[i].id
    <3>1. k \in 1..Len(list) /\ list[k].id = list[i].id BY <2>1
    <3> HIDE DEF k
    <3>2. list[k].id \in Nat /\ list[i].id \in Nat BY <2>1, <3>1 DEF Ordered
    <3>3. ~(k < i) /\ ~(i < k) BY <2>1, <3>1, <3>2 DEF Ordered
    <3>4. k = i BY <2>1, <3>1, <3>3
    <3> QED BY <3>4 DEF k
  <2> QED BY <2>1, <1>1, <1>2
<1> HIDE DEF x, y, diff, Ids, Of, step
<1>7. Named("entity.removed") = Ids(left.world) \ Ids(right.world)
  <2>1. ASSUME NEW d \in diff, d.what = "entity.removed"
        PROVE  d.entity \in Ids(left.world) \ Ids(right.world)
    <3>1. d # step BY <2>1 DEF step
    <3>2. PICK i \in 1..Len(x) : Alone(x[i], y) /\ d = Removed(x[i])
      BY <3>1, <2>1, <1>3
         DEF Explained, Changed, Removed, Added, ComponentDiff, Components
    <3> QED BY <3>2, <1>5 DEF Removed, Alone
  <2>2. ASSUME NEW id \in Ids(left.world) \ Ids(right.world)
        PROVE  \E d \in diff : d.what = "entity.removed" /\ d.entity = id
    <3>1. PICK i \in 1..Len(x) : id = x[i].id BY <1>5
    <3>2. Alone(x[i], y) BY <2>2, <3>1, <1>5 DEF Alone
    <3>3. Removed(x[i]) \in diff BY <3>2, <1>4 DEF Explained
    <3> QED BY <3>1, <3>3 DEF Removed
  <2> QED BY <2>1, <2>2
<1>8. Named("entity.added") = Ids(right.world) \ Ids(left.world)
  <2>1. ASSUME NEW d \in diff, d.what = "entity.added"
        PROVE  d.entity \in Ids(right.world) \ Ids(left.world)
    <3>1. d # step BY <2>1 DEF step
    <3>2. PICK j \in 1..Len(y) : Alone(y[j], x) /\ d = Added(y[j])
      BY <3>1, <2>1, <1>3
         DEF Explained, Changed, Removed, Added, ComponentDiff, Components
    <3> QED BY <3>2, <1>5 DEF Added, Alone
  <2>2. ASSUME NEW id \in Ids(right.world) \ Ids(left.world)
        PROVE  \E d \in diff : d.what = "entity.added" /\ d.entity = id
    <3>1. PICK j \in 1..Len(y) : id = y[j].id BY <1>5
    <3>2. Alone(y[j], x) BY <2>2, <3>1, <1>5 DEF Alone
    <3>3. Added(y[j]) \in diff BY <3>2, <1>4 DEF Explained
    <3> QED BY <3>1, <3>3 DEF Added
  <2> QED BY <2>1, <2>2
<1>9. ASSUME NEW c \in Components
      PROVE  Named(c) = {id \in Ids(left.world) \cap Ids(right.world) :
                           Of(left.world, id)[c] # Of(right.world, id)[c]}
  <2>1. ASSUME NEW d \in diff, d.what = c
        PROVE  /\ d.entity \in Ids(left.world) \cap Ids(right.world)
               /\ Of(left.world, d.entity)[c] # Of(right.world, d.entity)[c]
    <3>1. d # step BY <2>1 DEF step, Components
    <3>2. PICK i \in 1..Len(x), j \in 1..Len(y) :
            x[i].id = y[j].id /\ Changed(x[i], y[j], d)
      BY <3>1, <2>1, <1>3 DEF Explained, Removed, Added, Components
    <3>3. x[i][c] # y[j][c] /\ d.entity = x[i].id
      BY <3>2, <2>1 DEF Changed, ComponentDiff
    <3>4. Of(left.world, d.entity) = x[i] /\ Of(right.world, d.entity) = y[j]
      BY <3>2, <3>3, <1>6
    <3> QED BY <3>2, <3>3, <3>4, <1>5
  <2>2. ASSUME NEW id \in Ids(left.world) \cap Ids(right.world),
               Of(left.world, id)[c] # Of(right.world, id)[c]
        PROVE  \E d \in diff : d.what = c /\ d.entity = id
    <3>1. PICK i \in 1..Len(x), j \in 1..Len(y) : id = x[i].id /\ id = y[j].id
      BY <1>5
    <3>2. x[i][c] # y[j][c]
      BY <3>1, <2>2, <1>6
    <3>3. ComponentDiff(x[i], y[j], c) \in diff
      BY <3>1, <3>2, <1>4 DEF Explained, Changed
    <3> QED BY <3>1, <3>3 DEF ComponentDiff
  <2> QED BY <2>1, <2>2
<1> QED BY <1>7, <1>8, <1>9 DEF ComparedExactly, Ids, Of, diff

LEMMA DiagnosesExactly ==
  ASSUME SupportInv, WorldsPart
  PROVE  DiagnosisExact
<1>1. NewestEventsKept /\ NewestFramesKept
  BY NewestKept, NewestFrames DEF SupportInv
<1>2. ASSUME NEW p \in 1..debugger.size, NEW q \in 1..debugger.size
      PROVE  ComparedExactly(FramesOf(debugger)[p], FramesOf(debugger)[q])
  <2>1. Holds(debugger, kept) /\ p \in 1..Len(kept) /\ q \in 1..Len(kept)
    BY DEF SupportInv, FramesPart, Holds
  <2>2. FramesOf(debugger)[p].world = kept[p] /\ FramesOf(debugger)[q].world = kept[q]
    BY <2>1, FrameOf
  <2>3. kept[p] \in Worlds /\ kept[q] \in Worlds
    BY <2>1 DEF WorldsPart
  <2> QED BY <2>2, <2>3, ComparesExactly
<1>3. ASSUME NEW i \in DOMAIN steps, NEW j \in DOMAIN steps
      PROVE  PlacedInFirstLeaf([steps[i] EXCEPT !.frame = steps[j].frame], steps[j])
  <2> DEFINE v == [steps[i] EXCEPT !.frame = steps[j].frame]
             w == steps[j]
  <2>1. steps[i] \in Worlds /\ w \in Worlds
    BY DEF WorldsPart
  <2>2. v \in Worlds /\ v.frame = w.frame
    BY <2>1 DEF Worlds
  <2> HIDE DEF v, w
  <2>3. PlacedInFirstLeaf(v, w)
    BY <2>1, <2>2, WorldFacts, PlacedExactly
  <2> QED BY <2>3 DEF v, w
<1> QED BY <1>1, <1>2, <1>3 DEF DiagnosisExact

\* What TraceBuffer::snapshot and the debugger show is the newest of what
\* happened, TimeTravelDebugger::compare lists exactly what turns one frame
\* into another, and diagnose_state_divergence names the first chunk whose
\* leaf differs, whatever the size of a chunk and the capacity of the rings.
THEOREM DiagnosisIsExact == SupportSpec => []DiagnosisExact
<1>1. SupportInv /\ WorldsPart => DiagnosisExact
  BY DiagnosesExactly
<1> QED BY <1>1, WorldsAreRecorded, PTL

-----------------------------------------------------------------------------
USE LedgerAssumption, RecorderAssumption

-----------------------------------------------------------------------------
(* The ledger of external effects *)

\* What is out and on record is out as it is on record: a key that a rollback
\* discarded after its effect is an orphan from then on.
OutAsRecorded ==
  \A key \in DOMAIN ledger \cap DOMAIN applied :
    key \notin orphans => applied[key] = ledger[key].intent

\* Only a rollback takes a key off the record, and it makes an orphan of it.
OffRecordIsOrphan ==
  \A key \in DOMAIN applied : key \notin orphans => key \in DOMAIN ledger

\* What was undone had been committed, and a committed record is kept.
UndoneIsOnRecord ==
  \A key \in undone : key \in DOMAIN ledger /\ ledger[key].state # "Prepared"

CompensatedIsUndone ==
  \A key \in DOMAIN ledger : ledger[key].state = "Compensated" => key \in undone

\* Committed states are reached through the executor.
OnRecordIsOut ==
  \A key \in DOMAIN ledger : ledger[key].state # "Prepared" => key \in DOMAIN applied

\* The strengthening that is inductive.
LedgerInv ==
  /\ LedgerTypeOK
  /\ OnlyConfirmedTakesEffect
  /\ OutAsRecorded
  /\ OffRecordIsOrphan
  /\ OnRecordIsOut
  /\ UndoneIsOnRecord
  /\ CompensatedIsUndone

\* The invariant is what the ledger promises about the world outside.
LEMMA LedgerInvSuffices == LedgerInv => LedgerMatchesWorld
BY DEF LedgerInv, LedgerMatchesWorld, CommittedIsOut, NothingForgotten,
   OutAsRecorded, OffRecordIsOrphan, OnRecordIsOut

LEMMA LedgerInitInv == LedgerInit => LedgerInv
BY DEF LedgerInit, LedgerInv, LedgerTypeOK, OnlyConfirmedTakesEffect, OutAsRecorded,
   OffRecordIsOrphan, OnRecordIsOut, UndoneIsOnRecord, CompensatedIsUndone, EffectFrames

\* prepare puts a new key on record: nothing of it is out, or it is an orphan.
LEMMA PrepareInv ==
  ASSUME LedgerInv, NEW key \in Keys, NEW intent \in Intent, Prepare(key, intent)
  PROVE  LedgerInv'
<1>1. /\ DOMAIN ledger' = DOMAIN ledger \cup {key}
      /\ ledger'[key] = [intent |-> intent, state |-> "Prepared"]
      /\ \A k \in DOMAIN ledger : ledger'[k] = ledger[k]
      /\ key \notin DOMAIN ledger
  BY DEF Prepare, WithKey
<1>2. LedgerTypeOK'
  <2>1. ledger' \in [DOMAIN ledger' -> [intent : Intent, state : States]]
    BY DEF LedgerInv, LedgerTypeOK, Prepare, WithKey, States
  <2> QED BY <1>1, <2>1 DEF LedgerInv, LedgerTypeOK, Prepare
<1> QED
  BY <1>1, <1>2 DEF LedgerInv, Prepare, OnlyConfirmedTakesEffect, OutAsRecorded,
     OffRecordIsOrphan, OnRecordIsOut, UndoneIsOnRecord, CompensatedIsUndone

\* The executor takes an effect at most once, and only a confirmed one.
LEMMA ExecutorInv ==
  ASSUME LedgerInv, NEW key \in Keys, MayCommit(key),
         applied' = IF key \in DOMAIN applied THEN applied
                    ELSE WithKey(applied, key, ledger[key].intent),
         UNCHANGED <<confirmed, undone, orphans, reported>>
  PROVE  /\ DOMAIN applied' = DOMAIN applied \cup {key}
         /\ \A k \in DOMAIN applied : applied'[k] = applied[k]
         /\ key \notin DOMAIN applied => applied'[key] = ledger[key].intent
         /\ applied' \in [DOMAIN applied' -> Intent]
         /\ OnlyConfirmedTakesEffect'
<1>1. /\ DOMAIN applied' = DOMAIN applied \cup {key}
      /\ \A k \in DOMAIN applied : applied'[k] = applied[k]
      /\ key \notin DOMAIN applied => applied'[key] = ledger[key].intent
  BY DEF WithKey
<1>2. applied' \in [DOMAIN applied' -> Intent]
  BY DEF LedgerInv, LedgerTypeOK, MayCommit, WithKey
<1>3. OnlyConfirmedTakesEffect'
  BY <1>1 DEF LedgerInv, OnlyConfirmedTakesEffect, MayCommit
<1> QED BY <1>1, <1>2, <1>3

\* commit, whether its answer arrives or is lost
LEMMA CommitInv ==
  ASSUME LedgerInv, NEW key \in Keys, Commit(key) \/ CommitAnswerLost(key)
  PROVE  LedgerInv'
<1>1. /\ MayCommit(key)
      /\ DOMAIN applied' = DOMAIN applied \cup {key}
      /\ \A k \in DOMAIN applied : applied'[k] = applied[k]
      /\ key \notin DOMAIN applied => applied'[key] = ledger[key].intent
      /\ applied' \in [DOMAIN applied' -> Intent]
      /\ OnlyConfirmedTakesEffect'
  BY ExecutorInv DEF Commit, CommitAnswerLost
<1>2. /\ DOMAIN ledger' = DOMAIN ledger
      /\ \A k \in DOMAIN ledger : /\ ledger'[k].intent = ledger[k].intent
                                  /\ k # key => ledger'[k] = ledger[k]
      /\ ledger'[key].state \in {"Prepared", "Committed"}
      /\ ledger' \in [DOMAIN ledger -> [intent : Intent, state : States]]
  BY <1>1 DEF Commit, CommitAnswerLost, LedgerInv, LedgerTypeOK, MayCommit, States
<1>3. UNCHANGED <<confirmed, undone, orphans, reported>> /\ lost' \in 0..MaxLostAnswers
  BY DEF Commit, CommitAnswerLost, LedgerInv, LedgerTypeOK
<1>4. LedgerTypeOK'
  BY <1>1, <1>2, <1>3 DEF LedgerInv, LedgerTypeOK
<1>5. OutAsRecorded'
  BY <1>1, <1>2, <1>3 DEF LedgerInv, OutAsRecorded
<1>6. OffRecordIsOrphan' /\ OnRecordIsOut'
  BY <1>1, <1>2, <1>3 DEF LedgerInv, OffRecordIsOrphan, OnRecordIsOut, MayCommit
<1>7. UndoneIsOnRecord' /\ CompensatedIsUndone'
  BY <1>1, <1>2, <1>3 DEF LedgerInv, UndoneIsOnRecord, CompensatedIsUndone, MayCommit
<1> QED BY <1>1, <1>4, <1>5, <1>6, <1>7 DEF LedgerInv

\* compensate, whether its answer arrives or is lost
LEMMA CompensateInv ==
  ASSUME LedgerInv, NEW key \in Keys, Compensate(key) \/ CompensateAnswerLost(key)
  PROVE  LedgerInv'
<1>1. /\ key \in DOMAIN ledger /\ ledger[key].state = "Committed"
      /\ undone' = undone \cup {key}
      /\ UNCHANGED <<confirmed, applied, orphans, reported>>
      /\ lost' \in 0..MaxLostAnswers
  BY DEF Compensate, CompensateAnswerLost, MayCompensate, LedgerInv, LedgerTypeOK
<1>2. /\ DOMAIN ledger' = DOMAIN ledger
      /\ \A k \in DOMAIN ledger : /\ ledger'[k].intent = ledger[k].intent
                                  /\ k # key => ledger'[k] = ledger[k]
      /\ ledger'[key].state # "Prepared"
      /\ ledger' \in [DOMAIN ledger -> [intent : Intent, state : States]]
  BY <1>1 DEF Compensate, CompensateAnswerLost, LedgerInv, LedgerTypeOK, States
<1>3. LedgerTypeOK'
  BY <1>1, <1>2 DEF LedgerInv, LedgerTypeOK
<1>4. OnlyConfirmedTakesEffect' /\ OutAsRecorded' /\ OffRecordIsOrphan' /\ OnRecordIsOut'
  BY <1>1, <1>2 DEF LedgerInv, OnlyConfirmedTakesEffect, OutAsRecorded, OffRecordIsOrphan,
     OnRecordIsOut
<1>5. UndoneIsOnRecord' /\ CompensatedIsUndone'
  BY <1>1, <1>2 DEF LedgerInv, UndoneIsOnRecord, CompensatedIsUndone
<1> QED BY <1>3, <1>4, <1>5 DEF LedgerInv

\* A rollback discards prepared intents; those that are out become orphans.
LEMMA ReconcileInv ==
  ASSUME LedgerInv, NEW frame \in EffectFrames, ReconcileRollback(frame)
  PROVE  LedgerInv'
<1>1. /\ DOMAIN ledger' = DOMAIN ledger \ Discarded(frame)
      /\ \A k \in DOMAIN ledger' : ledger'[k] = ledger[k]
      /\ orphans' = orphans \cup (Discarded(frame) \cap DOMAIN applied)
      /\ UNCHANGED <<confirmed, applied, undone, lost>>
  BY DEF ReconcileRollback, Discarded
<1>2. LedgerTypeOK'
  <2>1. ledger' \in [DOMAIN ledger' -> [intent : Intent, state : States]]
    BY <1>1 DEF LedgerInv, LedgerTypeOK, ReconcileRollback
  <2>2. reported' \subseteq Keys
    BY DEF LedgerInv, LedgerTypeOK, ReconcileRollback, Crossed
  <2> QED BY <1>1, <2>1, <2>2 DEF LedgerInv, LedgerTypeOK
<1>3. OnlyConfirmedTakesEffect' /\ OutAsRecorded' /\ OffRecordIsOrphan' /\ OnRecordIsOut'
  BY <1>1 DEF LedgerInv, OnlyConfirmedTakesEffect, OutAsRecorded, OffRecordIsOrphan,
     OnRecordIsOut
<1>4. UndoneIsOnRecord' /\ CompensatedIsUndone'
  BY <1>1 DEF LedgerInv, UndoneIsOnRecord, CompensatedIsUndone, Discarded
<1> QED BY <1>2, <1>3, <1>4 DEF LedgerInv

LEMMA LedgerNextInv == LedgerInv /\ [LedgerNext]_ledgerVars => LedgerInv'
<1> SUFFICES ASSUME LedgerInv, [LedgerNext]_ledgerVars PROVE LedgerInv'
  OBVIOUS
<1>1. CASE Confirm
  BY <1>1 DEF Confirm, LedgerInv, LedgerTypeOK, OnlyConfirmedTakesEffect, OutAsRecorded,
     OffRecordIsOrphan, OnRecordIsOut, UndoneIsOnRecord, CompensatedIsUndone, EffectFrames,
     Intent
<1>2. CASE UNCHANGED ledgerVars
  BY <1>2 DEF ledgerVars, LedgerInv, LedgerTypeOK, OnlyConfirmedTakesEffect,
     OutAsRecorded, OffRecordIsOrphan, OnRecordIsOut, UndoneIsOnRecord, CompensatedIsUndone
<1>3. ASSUME NEW key \in Keys, CommitFails(key) PROVE LedgerInv'
  BY <1>3, <1>2 DEF CommitFails
<1> QED
  BY <1>1, <1>2, <1>3, PrepareInv, CommitInv, CompensateInv, ReconcileInv DEF LedgerNext

LEMMA LedgerInvariance == LedgerSpec => []LedgerInv
BY LedgerInitInv, LedgerNextInv, PTL DEF LedgerSpec

\* For every set of keys, every horizon and any number of lost answers the
\* ledger and the world outside agree (temporal_contract.cpp:528-711).
THEOREM LedgerMatchesWorldAlways == LedgerSpec => []LedgerMatchesWorld
BY LedgerInvariance, LedgerInvSuffices, PTL

\* A rollback reports every effect of a later frame that is still out.
THEOREM RollbackReportsCrossedAlways == LedgerSpec => RollbackReportsCrossed
<1>1. LedgerInv /\ LedgerNext => ReportsCrossed
  <2> SUFFICES ASSUME LedgerInv, NEW frame \in EffectFrames, ReconcileRollback(frame),
                      NEW key \in DOMAIN applied, applied[key].frame > frame,
                      key \notin undone \cup orphans'
               PROVE  key \in reported'
    BY DEF ReportsCrossed
  <2>1. key \notin orphans /\ key \notin Discarded(frame)
    BY DEF ReconcileRollback, Discarded
  <2>2. key \in DOMAIN ledger /\ ledger[key].intent.frame > frame
    BY <2>1 DEF LedgerInv, OffRecordIsOrphan, OutAsRecorded
  <2>3. ledger[key].state = "Committed"
    BY <2>1, <2>2 DEF LedgerInv, LedgerTypeOK, States, CompensatedIsUndone, Discarded
  <2> QED BY <2>2, <2>3 DEF ReconcileRollback, Crossed
<1> QED BY <1>1, LedgerInvariance, PTL DEF LedgerSpec, RollbackReportsCrossed

-----------------------------------------------------------------------------
(* The timeline on disk *)

\* A record names as many predecessors as its number says.
WellNumbered(r) == r.sequence = Len(r.previous)

\* Only a flushed file gets a record's name, whoever wrote it.
FilesAreFlushed ==
  /\ synced \subseteq DOMAIN directory
  /\ \A s \in DOMAIN directory :
       /\ directory[s].flushed
       /\ directory[s].record # Torn => WellNumbered(directory[s].record)

\* The log in memory is one chain.
LogIsChain == RecoveredIsChain /\ \A i \in 1..Len(records) : WellNumbered(records[i])

\* An append works on the record after the log, and its number is free until
\* it has been renamed.
AppendInProgress ==
  stage # "idle" =>
    /\ recovered
    /\ NextSequence < MaxRecords
    /\ record \in Record
    /\ record.sequence = NextSequence /\ record.previous = LastHash(records)
    /\ stage # "sync" <=> record.sequence \notin DOMAIN directory
    /\ stage = "flush" => pending.record = record
    /\ stage = "rename" => pending = [record |-> record, flushed |-> TRUE]
    /\ stage = "sync" /\ ~damaged => directory[record.sequence].record = record

\* The log in memory is what the directory holds, a file that a failed append
\* left behind it apart.
LogIsOnDisk ==
  recovered /\ ~damaged =>
    /\ 0..(Len(records) - 1) \subseteq DOMAIN directory
    /\ \A i \in 1..Len(records) : records[i] = directory[i - 1].record

\* n is how many files there are; the last of them is not on stable storage
\* while its append is not through.
ChainOfFiles(n) ==
  /\ DOMAIN directory = 0..(n - 1)
  /\ Verified(n)
  /\ synced = IF stage = "sync" THEN 0..(n - 2) ELSE 0..(n - 1)
  /\ recovered => n = IF stage = "sync" THEN Len(records) + 1 ELSE Len(records)

\* Without damage and without an append that failed after its rename the
\* directory holds exactly one chain.
DirectoryIsChain == ~damaged /\ ~unsure => \E n \in 0..MaxRecords : ChainOfFiles(n)

\* What was answered is on stable storage.
AnsweredIsSynced ==
  ~damaged => \A r \in acked : r.sequence \in synced /\ directory[r.sequence].record = r

\* The strengthening that is inductive.
RecorderInv ==
  /\ RecorderTypeOK
  /\ FilesAreFlushed
  /\ LogIsChain
  /\ AppendInProgress
  /\ LogIsOnDisk
  /\ DirectoryIsChain
  /\ AnsweredIsSynced
  /\ AnsweredSurvives
  /\ CrashIsHarmless

\* A chain grows by one payload as long as there is room.
LEMMA ChainGrows ==
  ASSUME NEW c \in Chain, NEW p \in Payloads, Len(c) < MaxRecords
  PROVE  Append(c, p) \in Chain /\ Len(Append(c, p)) = Len(c) + 1
<1>1. PICK n \in 0..MaxRecords : c \in [1..n -> Payloads]
  BY DEF Chain
<1>2. Len(c) = n /\ c \in Seq(Payloads)
  BY <1>1
<1>3. Append(c, p) \in [1..(n + 1) -> Payloads] /\ Len(Append(c, p)) = n + 1
  BY <1>2, AppendProperties, LenProperties
<1> QED BY <1>2, <1>3 DEF Chain

\* The hash of a record is a chain, one longer than its predecessors.
LEMMA HashIsChain ==
  ASSUME NEW r \in Record, WellNumbered(r)
  PROVE  Hash(r) \in Chain /\ Len(Hash(r)) = r.sequence + 1
BY ChainGrows DEF Record, WellNumbered, Hash

\* Files that decode are records: no torn file has a number.
LEMMA VerifiedAreRecords ==
  ASSUME RecorderTypeOK, FilesAreFlushed, NEW n \in Nat, Verified(n)
  PROVE  \A i \in 0..(n - 1) : /\ i \in DOMAIN directory
                               /\ directory[i].record \in Record
                               /\ WellNumbered(directory[i].record)
                               /\ directory[i].record.sequence = i
BY DEF RecorderTypeOK, FilesAreFlushed, Verified, Decodes, Torn

\* What recover reads from the first n files is a log of n records.
LEMMA LogOfVerified ==
  ASSUME RecorderTypeOK, FilesAreFlushed, NEW n \in 0..MaxRecords, Verified(n)
  PROVE  /\ Log(n) \in Seq(Record) /\ Len(Log(n)) = n
         /\ \A i \in 1..n : /\ Log(n)[i] = directory[i - 1].record
                            /\ Log(n)[i].sequence = i - 1
                            /\ Log(n)[i].previous = IF i = 1 THEN <<>>
                                                    ELSE Hash(Log(n)[i - 1])
                            /\ WellNumbered(Log(n)[i])
<1>1. \A i \in 1..n : /\ directory[i - 1].record \in Record
                      /\ WellNumbered(directory[i - 1].record)
                      /\ directory[i - 1].record.sequence = i - 1
  BY VerifiedAreRecords
<1>2. Log(n) \in Seq(Record) /\ Len(Log(n)) = n
  BY <1>1 DEF Log
<1>3. \A i \in 1..n : Log(n)[i] = directory[i - 1].record
  BY DEF Log
<1>4. \A i \in 1..n : directory[i - 1].record.previous =
                        IF i = 1 THEN <<>> ELSE Hash(directory[i - 2].record)
  BY DEF Verified, Decodes
<1> QED BY <1>1, <1>2, <1>3, <1>4

\* The record of an append follows the log.
LEMMA FollowsLog ==
  ASSUME RecorderTypeOK, LogIsChain, NextSequence < MaxRecords
  PROVE  /\ NextSequence \in 0..(MaxRecords - 1)
         /\ LastHash(records) \in Chain /\ Len(LastHash(records)) = NextSequence
<1>1. Len(records) \in Nat /\ NextSequence \in 0..(MaxRecords - 1)
  BY DEF RecorderTypeOK, NextSequence
<1>2. CASE records = <<>>
  <2>1. LastHash(records) = <<>> /\ NextSequence = 0
    BY <1>2 DEF LastHash, NextSequence
  <2>2. <<>> \in [1..0 -> Payloads]
    OBVIOUS
  <2> QED BY <2>1, <2>2, <1>1 DEF Chain
<1>3. CASE records # <<>>
  <2>1. Len(records) \in 1..Len(records) /\ records[Len(records)] \in Record
    BY <1>3 DEF RecorderTypeOK
  <2>2. /\ WellNumbered(records[Len(records)])
        /\ records[Len(records)].sequence = Len(records) - 1
    BY <2>1 DEF LogIsChain, RecoveredIsChain
  <2> QED BY <1>1, <1>3, <2>1, <2>2, HashIsChain DEF LastHash, NextSequence
<1> QED BY <1>1, <1>2, <1>3

LEMMA RecorderInitInv == RecorderInit => RecorderInv
<1> SUFFICES ASSUME RecorderInit PROVE RecorderInv
  OBVIOUS
<1>1. RecorderTypeOK
  <2>1. NoFile \in [record : Record \cup {Torn}, flushed : BOOLEAN]
    BY DEF NoFile
  <2>2. /\ DOMAIN directory \subseteq 0..(MaxRecords - 1)
        /\ directory \in [DOMAIN directory -> [record : Record \cup {Torn},
                                               flushed : BOOLEAN]]
    BY DEF RecorderInit
  <2>3. /\ records \in Seq(Record)
        /\ synced \subseteq DOMAIN directory /\ acked \subseteq Record
        /\ record \in Record \cup {Torn} /\ pending = NoFile
    BY DEF RecorderInit
  <2>4. recovered \in BOOLEAN /\ unsure \in BOOLEAN /\ damaged \in BOOLEAN
    BY Zenon DEF RecorderInit
  <2>5. stage = "idle" /\ outcome = "none" /\ mishaps \in 0..MaxMishaps
    BY DEF RecorderInit
  <2> QED BY <2>1, <2>2, <2>3, <2>4, <2>5 DEF RecorderTypeOK
<1>2. DirectoryIsChain
  <2>1. ChainOfFiles(0)
    BY DEF RecorderInit, ChainOfFiles, Verified
  <2> QED BY <2>1 DEF DirectoryIsChain
<1> QED
  BY <1>1, <1>2 DEF RecorderInit, RecorderInv, FilesAreFlushed, LogIsChain,
     RecoveredIsChain, AppendInProgress, LogIsOnDisk, AnsweredIsSynced, AnsweredSurvives,
     CrashIsHarmless

\* recover takes over the longest chain; a directory that is one chain it
\* takes over whole.
LEMMA RecoverInv == RecorderInv /\ Recover => RecorderInv'
<1> SUFFICES ASSUME RecorderInv, Recover PROVE RecorderInv'
  OBVIOUS
<1>1. PICK n \in 0..MaxRecords :
        /\ StopsAfter(n)
        /\ records' = Log(n)
        /\ recovered' = (DOMAIN directory = 0..(n - 1))
        /\ outcome' = IF recovered' THEN "recovered" ELSE "rejected"
  BY DEF Recover
<1>2. /\ stage = "idle" /\ stage' = "idle"
      /\ UNCHANGED <<directory, synced, record, pending, acked, unsure, damaged, mishaps>>
  BY DEF Recover
<1>3. /\ records' \in Seq(Record) /\ Len(records') = n
      /\ \A i \in 1..n : /\ records'[i] = directory[i - 1].record
                         /\ records'[i].sequence = i - 1
                         /\ records'[i].previous = IF i = 1 THEN <<>>
                                                   ELSE Hash(records'[i - 1])
                         /\ WellNumbered(records'[i])
  BY <1>1, LogOfVerified DEF RecorderInv, StopsAfter
<1>4. RecorderTypeOK' /\ FilesAreFlushed' /\ AppendInProgress' /\ AnsweredIsSynced'
  BY <1>1, <1>2, <1>3 DEF RecorderInv, RecorderTypeOK, FilesAreFlushed, AppendInProgress,
     AnsweredIsSynced
<1>5. LogIsChain'
  BY <1>3 DEF LogIsChain, RecoveredIsChain
<1>6. LogIsOnDisk'
  BY <1>1, <1>2, <1>3 DEF LogIsOnDisk
<1>7. ~damaged /\ ~unsure => recovered' /\ ChainOfFiles(n)'
  <2> SUFFICES ASSUME ~damaged, ~unsure PROVE recovered' /\ ChainOfFiles(n)'
    OBVIOUS
  <2>1. PICK k \in 0..MaxRecords : ChainOfFiles(k)
    BY DEF RecorderInv, DirectoryIsChain
  <2>2. k = n
    <3>1. n <= k
      BY <1>1, <2>1 DEF StopsAfter, Verified, ChainOfFiles
    <3>2. ~(n + 1 <= k)
      BY <1>1, <2>1 DEF StopsAfter, Verified, ChainOfFiles
    <3> QED BY <3>1, <3>2
  <2> QED BY <1>1, <1>2, <1>3, <2>1, <2>2 DEF ChainOfFiles, Verified, Decodes
<1>8. DirectoryIsChain' /\ CrashIsHarmless'
  BY <1>1, <1>2, <1>7 DEF DirectoryIsChain, CrashIsHarmless
<1>9. AnsweredSurvives'
  <2> SUFFICES ASSUME recovered', ~damaged', NEW r \in acked'
               PROVE  r.sequence < Len(records') /\ records'[r.sequence + 1] = r
    BY DEF AnsweredSurvives
  <2>1. r.sequence \in 0..(n - 1) /\ directory[r.sequence].record = r
    BY <1>1, <1>2 DEF RecorderInv, AnsweredIsSynced, FilesAreFlushed
  <2> QED BY <1>3, <2>1
<1> QED BY <1>4, <1>5, <1>6, <1>8, <1>9 DEF RecorderInv

\* A recover that cannot read takes over a chain and lets nobody append.
LEMMA RecoverCannotReadInv == RecorderInv /\ RecoverCannotRead => RecorderInv'
<1> SUFFICES ASSUME RecorderInv, RecoverCannotRead PROVE RecorderInv'
  OBVIOUS
<1>1. PICK n \in 0..MaxRecords : Verified(n) /\ records' = Log(n)
  BY DEF RecoverCannotRead
<1>2. /\ stage = "idle" /\ stage' = "idle" /\ recovered' = FALSE /\ outcome' = "io"
      /\ UNCHANGED <<directory, synced, record, pending, acked, unsure, damaged>>
      /\ mishaps' \in 0..MaxMishaps
  BY DEF RecoverCannotRead, Mishap, RecorderInv, RecorderTypeOK
<1>3. /\ records' \in Seq(Record) /\ Len(records') = n
      /\ \A i \in 1..n : /\ records'[i].sequence = i - 1
                         /\ records'[i].previous = IF i = 1 THEN <<>>
                                                   ELSE Hash(records'[i - 1])
                         /\ WellNumbered(records'[i])
  BY <1>1, LogOfVerified DEF RecorderInv
<1>5. LogIsChain'
  BY <1>3 DEF LogIsChain, RecoveredIsChain
<1>4. DirectoryIsChain'
  BY <1>2 DEF RecorderInv, DirectoryIsChain, ChainOfFiles, Verified, Decodes
<1> QED
  BY <1>2, <1>3, <1>4, <1>5 DEF RecorderInv, RecorderTypeOK, FilesAreFlushed,
     AppendInProgress, LogIsOnDisk, AnsweredIsSynced, AnsweredSurvives, CrashIsHarmless

\* append works on the record that follows the log, under a number that no
\* file has.
LEMMA BeginAppendInv ==
  ASSUME RecorderInv, NEW payload \in Payloads, BeginAppend(payload)
  PROVE  RecorderInv'
<1>1. /\ record' \in Record
      /\ record'.sequence = NextSequence /\ record'.previous = LastHash(records)
  BY FollowsLog DEF RecorderInv, BeginAppend, Record
<1>2. /\ stage = "idle" /\ stage' = "write" /\ recovered /\ pending' = NoFile
      /\ UNCHANGED <<directory, synced, records, recovered, acked, unsure, damaged,
                     outcome, mishaps>>
  BY DEF BeginAppend
<1>3. RecorderTypeOK'
  BY <1>1, <1>2 DEF RecorderInv, RecorderTypeOK, NoFile
<1>4. AppendInProgress'
  BY <1>1, <1>2 DEF BeginAppend, AppendInProgress, NextSequence, LastHash
<1>5. DirectoryIsChain'
  BY <1>2 DEF RecorderInv, DirectoryIsChain, ChainOfFiles, Verified, Decodes
<1> QED
  BY <1>2, <1>3, <1>4, <1>5 DEF RecorderInv, FilesAreFlushed, LogIsChain,
     RecoveredIsChain, LogIsOnDisk, AnsweredIsSynced, AnsweredSurvives, CrashIsHarmless

\* Work on the temporary file touches neither the log nor its files.
LEMMA TemporaryInv == RecorderInv /\ (Write \/ FlushTemporary \/ AppendFails) => RecorderInv'
<1> SUFFICES ASSUME RecorderInv, Write \/ FlushTemporary \/ AppendFails
             PROVE  RecorderInv'
  OBVIOUS
<1>1. /\ UNCHANGED <<directory, synced, records, recovered, record, acked, unsure,
                     damaged, outcome>>
      /\ stage \in {"write", "flush", "rename"} /\ stage' \in {"flush", "rename", "idle"}
  BY DEF Write, FlushTemporary, AppendFails
<1>2. RecorderTypeOK'
  <2>1. RecorderTypeOK /\ mishaps' \in 0..MaxMishaps
    BY DEF Write, FlushTemporary, AppendFails, Mishap, RecorderInv, RecorderTypeOK
  <2>2. pending' \in [record : Record \cup {Torn}, flushed : BOOLEAN]
    <3>1. CASE Write
      BY <2>1, <3>1 DEF Write, RecorderTypeOK
    <3>2. CASE FlushTemporary
      BY <2>1, <3>2 DEF FlushTemporary, RecorderTypeOK
    <3>3. CASE AppendFails
      BY <3>3 DEF AppendFails, NoFile
    <3> QED BY <3>1, <3>2, <3>3
  <2> QED BY <1>1, <2>1, <2>2 DEF RecorderTypeOK
<1>3. AppendInProgress'
  BY <1>1 DEF Write, FlushTemporary, AppendFails, RecorderInv, RecorderTypeOK,
     AppendInProgress, NextSequence, LastHash
<1>4. DirectoryIsChain'
  BY <1>1 DEF RecorderInv, DirectoryIsChain, ChainOfFiles, Verified, Decodes
<1> QED
  BY <1>1, <1>2, <1>3, <1>4 DEF RecorderInv, FilesAreFlushed, LogIsChain,
     RecoveredIsChain, LogIsOnDisk, AnsweredIsSynced, AnsweredSurvives, CrashIsHarmless

\* The rename adds the record's file to a directory that has none of its
\* number: the chain of files grows by one.
LEMMA RenameInv == RecorderInv /\ Rename => RecorderInv'
<1> SUFFICES ASSUME RecorderInv, Rename PROVE RecorderInv'
  OBVIOUS
<1>1. /\ stage = "rename" /\ stage' = "sync" /\ recovered /\ pending' = NoFile
      /\ record \in Record /\ record.sequence = Len(records)
      /\ record.previous = LastHash(records)
      /\ record.sequence \notin DOMAIN directory
      /\ UNCHANGED <<synced, records, recovered, record, acked, unsure, damaged, outcome,
                     mishaps>>
  BY DEF Rename, RecorderInv, AppendInProgress, NextSequence
<1>2. /\ DOMAIN directory' = DOMAIN directory \cup {record.sequence}
      /\ directory'[record.sequence] = [record |-> record, flushed |-> TRUE]
      /\ \A s \in DOMAIN directory : directory'[s] = directory[s]
      /\ directory' = [s \in DOMAIN directory' |-> directory'[s]]
  BY <1>1 DEF Rename, WithFile, RecorderInv, AppendInProgress
<1>3. Len(records) \in Nat /\ record.sequence \in 0..(MaxRecords - 1)
  BY <1>1 DEF Record, RecorderInv, RecorderTypeOK
<1>4. RecorderTypeOK'
  <2>1. directory' \in [DOMAIN directory' -> [record : Record \cup {Torn},
                                              flushed : BOOLEAN]]
    <3>1. \A s \in DOMAIN directory :
            directory[s] \in [record : Record \cup {Torn}, flushed : BOOLEAN]
      BY DEF RecorderInv, RecorderTypeOK
    <3>2. [record |-> record, flushed |-> TRUE]
            \in [record : Record \cup {Torn}, flushed : BOOLEAN]
      BY <1>1
    <3> QED BY <1>2, <3>1, <3>2
  <2> QED BY <1>1, <1>2, <1>3, <2>1 DEF RecorderInv, RecorderTypeOK, FilesAreFlushed, NoFile
<1>5. FilesAreFlushed'
  <2>1. WellNumbered(record)
    BY <1>1, FollowsLog DEF RecorderInv, AppendInProgress, WellNumbered, NextSequence
  <2> QED BY <1>1, <1>2, <2>1 DEF RecorderInv, FilesAreFlushed
<1>6. AppendInProgress'
  BY <1>1, <1>2 DEF RecorderInv, AppendInProgress, NextSequence, LastHash
<1>7. LogIsOnDisk'
  BY <1>1, <1>2, <1>3 DEF RecorderInv, LogIsOnDisk
<1>8. DirectoryIsChain'
  <2> SUFFICES ASSUME ~damaged, ~unsure PROVE ChainOfFiles(Len(records) + 1)'
    BY <1>1, <1>3 DEF DirectoryIsChain
  <2>1. ChainOfFiles(Len(records))
    BY <1>1 DEF RecorderInv, DirectoryIsChain, ChainOfFiles
  <2>2. DOMAIN directory' = 0..Len(records)
    BY <1>1, <1>2, <1>3, <2>1 DEF ChainOfFiles
  <2>3. \A i \in 0..(Len(records) - 1) : directory'[i] = directory[i]
    BY <1>2, <2>1 DEF ChainOfFiles
  <2>4. record.previous = IF Len(records) = 0 THEN <<>>
                          ELSE Hash(directory[Len(records) - 1].record)
    BY <1>1, <1>3 DEF LastHash, RecorderInv, RecorderTypeOK, LogIsOnDisk
  <2>5. Verified(Len(records) + 1)'
    BY <1>1, <1>2, <1>3, <2>1, <2>2, <2>3, <2>4 DEF Verified, Decodes, ChainOfFiles
  <2> QED BY <1>1, <1>3, <2>1, <2>2, <2>5 DEF ChainOfFiles
<1>9. AnsweredIsSynced'
  BY <1>1, <1>2 DEF RecorderInv, AnsweredIsSynced, FilesAreFlushed
<1> QED
  BY <1>1, <1>4, <1>5, <1>6, <1>7, <1>8, <1>9 DEF RecorderInv, LogIsChain,
     RecoveredIsChain, AnsweredSurvives, CrashIsHarmless

\* The append is answered when its file and its name are on stable storage.
LEMMA SyncInv == RecorderInv /\ Sync => RecorderInv'
<1> SUFFICES ASSUME RecorderInv, Sync PROVE RecorderInv'
  OBVIOUS
<1>1. /\ stage = "sync" /\ stage' = "idle" /\ recovered
      /\ record \in Record /\ record.sequence = Len(records)
      /\ record.previous = LastHash(records)
      /\ record.sequence \in DOMAIN directory
      /\ ~damaged => directory[record.sequence].record = record
      /\ records' = Append(records, record) /\ acked' = acked \cup {record}
      /\ UNCHANGED <<recovered, record, pending, unsure, damaged, outcome, mishaps>>
  BY DEF Sync, RecorderInv, AppendInProgress, NextSequence
<1>2. DOMAIN directory' = DOMAIN directory /\ synced' = DOMAIN directory
  BY DEF Sync
<1>3. \A s \in DOMAIN directory : directory'[s].record = directory[s].record
                                  /\ directory'[s].flushed
                                  /\ directory'[s] \in [record : Record \cup {Torn},
                                                        flushed : BOOLEAN]
  <2>1. \A s \in DOMAIN directory : directory[s].flushed
                                    /\ directory[s] \in [record : Record \cup {Torn},
                                                         flushed : BOOLEAN]
    BY DEF RecorderInv, RecorderTypeOK, FilesAreFlushed
  <2> QED BY <1>1, <2>1 DEF Sync
<1>4. /\ records' \in Seq(Record) /\ Len(records') = Len(records) + 1
      /\ \A i \in 1..Len(records) : records'[i] = records[i]
      /\ records'[Len(records) + 1] = record
      /\ Len(records) \in Nat
  BY <1>1, AppendProperties, LenProperties DEF RecorderInv, RecorderTypeOK
<1>5. RecorderTypeOK'
  <2>1. directory' \in [DOMAIN directory' -> [record : Record \cup {Torn},
                                              flushed : BOOLEAN]]
    <3>1. directory' = [s \in DOMAIN directory |-> directory'[s]]
      BY DEF Sync
    <3> QED BY <1>2, <1>3, <3>1
  <2> QED BY <1>1, <1>2, <1>4, <2>1 DEF RecorderInv, RecorderTypeOK
<1>6. FilesAreFlushed' /\ AppendInProgress'
  BY <1>1, <1>2, <1>3 DEF RecorderInv, FilesAreFlushed, AppendInProgress
<1>7. LogIsChain'
  <2>1. WellNumbered(record)
    BY <1>1, FollowsLog DEF RecorderInv, AppendInProgress, WellNumbered, NextSequence
  <2>2. record.previous = IF Len(records) + 1 = 1 THEN <<>>
                          ELSE Hash(records[Len(records)])
    BY <1>1, <1>4 DEF LastHash, RecorderInv, RecorderTypeOK
  <2>3. \A i \in 1..Len(records) :
          /\ records[i].sequence = i - 1
          /\ records[i].previous = IF i = 1 THEN <<>> ELSE Hash(records[i - 1])
          /\ WellNumbered(records[i])
    BY DEF RecorderInv, LogIsChain, RecoveredIsChain
  <2>4. \A i \in 1..Len(records') :
          /\ records'[i].sequence = i - 1
          /\ records'[i].previous = IF i = 1 THEN <<>> ELSE Hash(records'[i - 1])
          /\ WellNumbered(records'[i])
    <3> TAKE i \in 1..Len(records')
    <3>1. CASE i \in 1..Len(records)
      BY <1>4, <2>3, <3>1
    <3>2. CASE i = Len(records) + 1
      BY <1>1, <1>4, <2>1, <2>2, <3>2
    <3> QED BY <1>4, <3>1, <3>2
  <2> QED BY <2>4 DEF LogIsChain, RecoveredIsChain
<1>8. LogIsOnDisk'
  <2> SUFFICES ASSUME ~damaged
               PROVE  /\ 0..Len(records) \subseteq DOMAIN directory'
                      /\ \A i \in 1..(Len(records) + 1) :
                           records'[i] = directory'[i - 1].record
    BY <1>1, <1>4 DEF LogIsOnDisk
  <2>1. /\ 0..(Len(records) - 1) \subseteq DOMAIN directory
        /\ \A i \in 1..Len(records) : records[i] = directory[i - 1].record
    BY <1>1 DEF RecorderInv, LogIsOnDisk
  <2>2. /\ Len(records) \in DOMAIN directory
        /\ directory[Len(records)].record = record
    BY <1>1
  <2>3. 0..Len(records) \subseteq DOMAIN directory'
    BY <1>2, <1>4, <2>1, <2>2
  <2>4. ASSUME NEW i \in 1..(Len(records) + 1)
        PROVE  records'[i] = directory'[i - 1].record
    <3>1. CASE i \in 1..Len(records)
      <4>1. i - 1 \in DOMAIN directory /\ directory'[i - 1].record = directory[i - 1].record
        BY <3>1, <1>3, <1>4, <2>1
      <4> QED BY <3>1, <4>1, <1>4, <2>1
    <3>2. CASE i = Len(records) + 1
      <4>1. i - 1 = Len(records)
        BY <3>2, <1>4
      <4> QED BY <3>2, <4>1, <1>3, <1>4, <2>2
    <3> QED BY <3>1, <3>2, <1>4
  <2> QED BY <2>3, <2>4
<1>9. DirectoryIsChain'
  <2> SUFFICES ASSUME ~damaged, ~unsure
               PROVE  \E n \in 0..MaxRecords : ChainOfFiles(n)'
    BY <1>1 DEF DirectoryIsChain
  <2>1. PICK n \in 0..MaxRecords : ChainOfFiles(n)
    BY DEF RecorderInv, DirectoryIsChain
  <2>2. Verified(n)'
    BY <1>2, <1>3, <2>1 DEF ChainOfFiles, Verified, Decodes
  <2> QED BY <1>1, <1>2, <1>4, <2>1, <2>2 DEF ChainOfFiles
<1>10. AnsweredIsSynced'
  BY <1>1, <1>2, <1>3 DEF RecorderInv, AnsweredIsSynced, FilesAreFlushed
<1>11. AnsweredSurvives'
  <2> SUFFICES ASSUME ~damaged, NEW r \in acked \cup {record}
               PROVE  r.sequence < Len(records') /\ records'[r.sequence + 1] = r
    BY <1>1 DEF AnsweredSurvives
  <2>1. CASE r \in acked
    <3>1. /\ r.sequence \in Nat /\ r.sequence < Len(records)
          /\ records[r.sequence + 1] = r
      BY <1>1, <2>1 DEF RecorderInv, RecorderTypeOK, Record, AnsweredSurvives
    <3> QED BY <1>4, <3>1
  <2>2. CASE r = record
    BY <1>1, <1>4, <2>2
  <2> QED BY <2>1, <2>2
<1> QED
  BY <1>1, <1>5, <1>6, <1>7, <1>8, <1>9, <1>10, <1>11 DEF RecorderInv, CrashIsHarmless

\* An append that fails after its rename leaves a file that the log in memory
\* does not know.
LEMMA SyncFailsInv == RecorderInv /\ SyncFails => RecorderInv'
<1> SUFFICES ASSUME RecorderInv, SyncFails PROVE RecorderInv'
  OBVIOUS
<1>1. /\ stage' = "idle" /\ unsure' = TRUE
      /\ synced \subseteq synced' /\ synced' \subseteq DOMAIN directory
      /\ UNCHANGED <<directory, records, recovered, record, pending, acked, damaged,
                     outcome>>
      /\ mishaps' \in 0..MaxMishaps
  BY DEF SyncFails, Mishap, RecorderInv, RecorderTypeOK, FilesAreFlushed
<1>2. RecorderTypeOK'
  BY <1>1 DEF RecorderInv, RecorderTypeOK
<1> QED
  BY <1>1, <1>2 DEF RecorderInv, FilesAreFlushed, LogIsChain, RecoveredIsChain,
     AppendInProgress, LogIsOnDisk, DirectoryIsChain, AnsweredIsSynced, AnsweredSurvives,
     CrashIsHarmless

\* A crash takes a name that was not flushed or leaves it, with its contents.
LEMMA CrashInv == RecorderInv /\ Crash => RecorderInv'
<1> SUFFICES ASSUME RecorderInv, Crash PROVE RecorderInv'
  OBVIOUS
<1>1. /\ stage' = "idle" /\ pending' = NoFile /\ records' = <<>> /\ recovered' = FALSE
      /\ outcome' = "none"
      /\ UNCHANGED <<record, acked, unsure, damaged>>
      /\ mishaps' \in 0..MaxMishaps
  BY DEF Crash, Mishap, RecorderInv, RecorderTypeOK
<1>2. /\ synced \subseteq synced' /\ synced' \subseteq DOMAIN directory
      /\ directory' = [s \in synced' |-> directory[s]]
  BY DEF Crash, RecorderInv, FilesAreFlushed
<1>3. RecorderTypeOK'
  <2>1. NoFile \in [record : Record \cup {Torn}, flushed : BOOLEAN] /\ <<>> \in Seq(Record)
    BY DEF NoFile
  <2>2. directory' \in [DOMAIN directory' -> [record : Record \cup {Torn},
                                              flushed : BOOLEAN]]
    BY <1>2 DEF RecorderInv, RecorderTypeOK
  <2>3. DOMAIN directory' \subseteq 0..(MaxRecords - 1) /\ synced' \subseteq DOMAIN directory'
    BY <1>2 DEF RecorderInv, RecorderTypeOK
  <2>4. recovered' \in BOOLEAN
    BY <1>1, Zenon
  <2> QED BY <1>1, <2>1, <2>2, <2>3, <2>4 DEF RecorderInv, RecorderTypeOK
<1>4. FilesAreFlushed'
  BY <1>2 DEF RecorderInv, FilesAreFlushed
<1>5. DirectoryIsChain'
  <2> SUFFICES ASSUME ~damaged, ~unsure
               PROVE  \E n \in 0..MaxRecords : ChainOfFiles(n)'
    BY <1>1 DEF DirectoryIsChain
  <2>1. PICK n \in 0..MaxRecords : ChainOfFiles(n)
    BY DEF RecorderInv, DirectoryIsChain
  <2>2. CASE synced' = 0..(n - 1)
    <3>1. \A i \in 0..(n - 1) : directory'[i] = directory[i]
      BY <1>2, <2>2
    <3>2. Verified(n)'
      BY <1>2, <2>1, <2>2, <3>1 DEF ChainOfFiles, Verified, Decodes
    <3> QED BY <1>1, <1>2, <2>2, <3>2 DEF ChainOfFiles
  <2>3. CASE synced' # 0..(n - 1)
    <3>1. stage = "sync" /\ synced' = 0..(n - 2) /\ n > 0
      <4>1. stage = "sync"
        BY <1>2, <2>1, <2>3 DEF ChainOfFiles
      <4>2. 0..(n - 2) \subseteq synced' /\ synced' \subseteq 0..(n - 1)
        BY <1>2, <2>1, <4>1 DEF ChainOfFiles
      <4>3. n - 1 \notin synced'
        <5> SUFFICES ASSUME n - 1 \in synced' PROVE FALSE
          OBVIOUS
        <5>1. \A i \in 0..(n - 1) : i = n - 1 \/ i \in 0..(n - 2)
          OBVIOUS
        <5> QED BY <2>3, <4>2, <5>1
      <4>4. n > 0
        <5> SUFFICES ASSUME n = 0 PROVE FALSE
          OBVIOUS
        <5>1. \A i : i \notin 0..(n - 1)
          OBVIOUS
        <5>2. synced' = 0..(n - 1)
          BY <4>2, <5>1
        <5> QED BY <2>3, <5>2
      <4>5. \A i \in 0..(n - 1) : i # n - 1 => i \in 0..(n - 2)
        OBVIOUS
      <4> QED BY <4>1, <4>2, <4>3, <4>4, <4>5
    <3>2. n - 1 \in 0..MaxRecords /\ Verified(n - 1)'
      BY <1>2, <2>1, <3>1 DEF ChainOfFiles, Verified, Decodes
    <3> QED BY <1>1, <1>2, <3>1, <3>2 DEF ChainOfFiles
  <2> QED BY <2>2, <2>3
<1>6. LogIsChain' /\ AppendInProgress' /\ LogIsOnDisk' /\ AnsweredSurvives' /\ CrashIsHarmless'
  BY <1>1 DEF LogIsChain, RecoveredIsChain, AppendInProgress, LogIsOnDisk,
     AnsweredSurvives, CrashIsHarmless
<1>7. AnsweredIsSynced'
  BY <1>1, <1>2 DEF RecorderInv, AnsweredIsSynced
<1> QED BY <1>3, <1>4, <1>5, <1>6, <1>7 DEF RecorderInv

\* Damage is to contents: names and numbers stay.
LEMMA DamageInv == RecorderInv /\ Damage => RecorderInv'
<1> SUFFICES ASSUME RecorderInv, Damage PROVE RecorderInv'
  OBVIOUS
<1>1. PICK s \in DOMAIN directory :
        \E altered \in {Torn} \cup {r \in Record : r.sequence = s /\ Len(r.previous) = s} :
          directory' = [directory EXCEPT ![s].record = altered]
  BY DEF Damage
<1> PICK altered \in {Torn} \cup {r \in Record : r.sequence = s /\ Len(r.previous) = s} :
      directory' = [directory EXCEPT ![s].record = altered]
  BY <1>1
<1>2. /\ damaged' = TRUE
      /\ UNCHANGED <<synced, records, recovered, stage, record, pending, acked, unsure, outcome>>
      /\ mishaps' \in 0..MaxMishaps
  BY DEF Damage, Mishap, RecorderInv, RecorderTypeOK
<1>3. /\ DOMAIN directory' = DOMAIN directory
      /\ directory' = [t \in DOMAIN directory |-> directory'[t]]
      /\ \A t \in DOMAIN directory :
           /\ t # s => directory'[t] = directory[t]
           /\ directory'[s].record = altered /\ directory'[s].flushed
           /\ directory'[t] \in [record : Record \cup {Torn}, flushed : BOOLEAN]
  <2>1. \A t \in DOMAIN directory : directory[t].flushed
                                    /\ directory[t] \in [record : Record \cup {Torn},
                                                         flushed : BOOLEAN]
    BY DEF RecorderInv, RecorderTypeOK, FilesAreFlushed
  <2> QED BY <1>1, <2>1
<1>4. RecorderTypeOK'
  <2>1. directory' \in [DOMAIN directory' -> [record : Record \cup {Torn},
                                              flushed : BOOLEAN]]
    BY <1>3
  <2> QED BY <1>2, <1>3, <2>1 DEF RecorderInv, RecorderTypeOK
<1>5. FilesAreFlushed'
  BY <1>1, <1>2, <1>3 DEF RecorderInv, FilesAreFlushed, WellNumbered
<1>6. AppendInProgress'
  BY <1>2, <1>3 DEF RecorderInv, AppendInProgress, NextSequence, LastHash
<1> QED
  BY <1>2, <1>4, <1>5, <1>6 DEF RecorderInv, LogIsChain, RecoveredIsChain, LogIsOnDisk,
     DirectoryIsChain, AnsweredIsSynced, AnsweredSurvives, CrashIsHarmless

LEMMA RecorderNextInv == RecorderInv /\ [RecorderNext]_recorderVars => RecorderInv'
<1> SUFFICES ASSUME RecorderInv, [RecorderNext]_recorderVars PROVE RecorderInv'
  OBVIOUS
<1>1. CASE UNCHANGED recorderVars
  <2>1. DirectoryIsChain'
    BY <1>1 DEF recorderVars, RecorderInv, DirectoryIsChain, ChainOfFiles, Verified, Decodes
  <2> QED
    BY <1>1, <2>1 DEF recorderVars, RecorderInv, RecorderTypeOK, FilesAreFlushed,
       LogIsChain, RecoveredIsChain, AppendInProgress, NextSequence, LastHash, LogIsOnDisk,
       AnsweredIsSynced, AnsweredSurvives, CrashIsHarmless
<1> QED
  BY <1>1, RecoverInv, RecoverCannotReadInv, BeginAppendInv, TemporaryInv, RenameInv,
     SyncInv, SyncFailsInv, CrashInv, DamageInv DEF RecorderNext

LEMMA RecorderInvariance == RecorderSpec => []RecorderInv
BY RecorderInitInv, RecorderNextInv, PTL DEF RecorderSpec

\* Whatever crashes, fails or is damaged between any two steps, for every
\* payload and every length of the log: what was answered is in the log, a
\* crash alone never makes it unreadable, and it is one chain
\* (temporal_contract.cpp:354-504).
THEOREM RecordsSurviveAlways == RecorderSpec => []RecordsSurvive
BY RecorderInvariance, PTL DEF RecorderInv, RecordsSurvive, LogIsChain

\* No step of the recorder gives a record file other contents.
THEOREM NeverOverwritesAlways == RecorderSpec => NeverOverwrites
<1>1. RecorderInv /\ RecorderNext => OverwritesNothing
  <2> SUFFICES ASSUME RecorderInv, RecorderNext, ~damaged',
                      NEW s \in DOMAIN directory \cap DOMAIN directory'
               PROVE  directory'[s].record = directory[s].record
    BY DEF OverwritesNothing
  <2>1. CASE Rename
    BY <2>1 DEF Rename, WithFile, RecorderInv, AppendInProgress
  <2>2. CASE Sync
    BY <2>2 DEF Sync
  <2>3. CASE Crash
    BY <2>3 DEF Crash, RecorderInv, FilesAreFlushed
  <2>4. CASE Damage
    BY <2>4 DEF Damage
  <2> QED
    BY <2>1, <2>2, <2>3, <2>4 DEF RecorderNext, Recover, RecoverCannotRead, BeginAppend,
       Write, FlushTemporary, AppendFails, SyncFails
<1> QED BY <1>1, RecorderInvariance, PTL DEF RecorderSpec, NeverOverwrites

-----------------------------------------------------------------------------
(* The recovery contract *)

\* The strengthening that is inductive: the event and the mode name each
\* other, and the event is the last report that needs a recovery.
RecoveryInv == TypeOK /\ EventTracksMode /\ EventIsLastCause

USE RecoveryAssumption, FramesAssumption

LEMMA InitTyped == Init => TypeOK
BY DEF Init, TypeOK, InitialController, RecoveryController, Counter,
   Generation, InitialBridge, RecoveryHostBridge, RecoveryContractEvent,
   NoEvent, RecoverySignal, NoReply, Replies, FaultKind, RecoveryMode,
   RecoveryAction, RecoveryAcknowledgement, Reasons

LEMMA TypeStep == TypeOK /\ [Next]_vars => TypeOK'
<1> SUFFICES ASSUME TypeOK, [Next]_vars PROVE TypeOK'
  OBVIOUS
<1> USE DEF TypeOK
<1>1. ASSUME NEW frame \in Frames, Mark(frame) PROVE TypeOK'
  BY <1>1 DEF Mark, MarkSafeCheckpoint, RecoveryController, NoReply, Replies,
     FaultKind, RecoveryAcknowledgement, Reasons
<1>2. ASSUME NEW fault \in FaultKind, ReportFault(fault) PROVE TypeOK'
  <2> DEFINE signal == SignalOfFault(controller, fault)
  <2>1. controller' \in RecoveryController /\ signal \in RecoverySignal
    BY <1>2, FaultType DEF ReportFault
  <2>2. bridge' \in RecoveryHostBridge /\ Publish(bridge, signal) = bridge'
    BY <1>2, <2>1, PublishType DEF ReportFault
  <2>3. blocked' \in [fault : FaultKind, generation : Nat, checkpoint : Nat]
    BY <1>2, <2>1, <2>2 DEF ReportFault, RecoverySignal, RecoveryHostBridge,
       Generation
  <2>4. reply' \in Replies
    BY <1>2 DEF ReportFault, NoReply, Replies, FaultKind,
       RecoveryAcknowledgement, Reasons
  <2>5. streak' \in [fault : FaultKind, count : Nat]
    BY <1>2 DEF ReportFault
  <2> QED BY <2>1, <2>2, <2>3, <2>4, <2>5
<1>3. ASSUME NEW generation \in 0..bridge.generation,
             NEW ack \in RecoveryAcknowledgement, NEW restored \in Frames,
             Acknowledge(generation, ack, restored)
      PROVE  TypeOK'
  <2>1. generation \in Nat /\ restored \in Nat
    BY DEF RecoveryHostBridge, Generation
  <2>2. /\ controller' \in RecoveryController
        /\ bridge' \in RecoveryHostBridge
    BY <1>3, <2>1, AckType DEF Acknowledge
  <2>4. reply' \in Replies
    BY <1>3, <2>1 DEF Acknowledge, Replies, FaultKind, AckRejectReason, Reasons
  <2>3. streak' \in [fault : FaultKind, count : Nat]
    BY <1>3 DEF Acknowledge, FaultKind
  <2> QED BY <1>3, <2>2, <2>3, <2>4 DEF Acknowledge
<1>4. CASE UNCHANGED vars
  BY <1>4 DEF vars
<1> QED BY <1>1, <1>2, <1>3, <1>4 DEF Next

\* Every variable keeps its type, for every policy.
THEOREM TypeCorrect == Spec => []TypeOK
BY InitTyped, TypeStep, PTL DEF Spec

-----------------------------------------------------------------------------
(* The event and the mode *)

\* The invariant survives a fault reported while an event is pending.
LEMMA ReportKeepsEvent ==
  ASSUME RecoveryInv, NEW fault \in FaultKind, ReportFault(fault)
  PROVE  EventTracksMode' /\ EventIsLastCause'
<1>0. controller \in RecoveryController /\ bridge \in RecoveryHostBridge
  BY DEF RecoveryInv, TypeOK
<1>1. EventTracksMode'
  BY <1>0, ReportTracksMode DEF ReportFault, RecoveryInv, EventTracksMode
<1>2. PICK signal : signal = SignalOfFault(controller, fault) OBVIOUS
<1>3. /\ controller'.mode = signal.mode /\ signal.fault = fault
      /\ blocked' = IF signal.action \in {"None", "DropInput"} THEN blocked
                    ELSE [fault |-> fault, generation |-> bridge'.generation,
                          checkpoint |-> signal.checkpoint]
  BY <1>0, <1>2, FaultType DEF ReportFault
<1>4. /\ signal.action \notin {"None", "DropInput"} \/ controller.mode = "Halted" =>
           bridge'.pending = [generation |-> bridge'.generation, signal |-> signal]
      /\ signal.action \in {"None", "DropInput"} /\ controller.mode = "Normal" =>
           bridge'.pending \in {NoEvent, bridge.pending}
      /\ (signal.action \in {"None", "DropInput"}
            /\ controller.mode \notin {"Halted", "Normal"})
           => bridge'.pending = bridge.pending
  <2>1. PICK next : next = Publish(bridge, signal) OBVIOUS
  <2>2. bridge' = next
    BY <1>2, <2>1 DEF ReportFault
  <2> QED BY <1>0, <1>2, <2>1, <2>2, PublishCases
<1>5. CASE signal.action \notin {"None", "DropInput"}
  <2>1. \/ signal.mode = "Headless" /\ fault = "DeviceLost"
        \/ /\ signal.mode = "ReusingLastConfirmedInput"
           /\ fault \in {"IoStall", "NetworkUnavailable"}
        \/ signal.mode = "QuarantinedInput" /\ fault = "MalformedPacket"
        \/ /\ signal.mode = "SafeWait"
           /\ fault \in {"DeviceLost", "IoStall",
                         "NetworkUnavailable", "OutOfMemory"}
        \/ signal.mode = "RollingBackToCheckpoint" /\ fault = "OutOfMemory"
        \/ signal.mode = "Halted"
    BY <1>0, <1>2, <1>5, ResponseCases
  <2> QED BY <1>1, <1>3, <1>4, <1>5, <2>1 DEF EventIsLastCause
<1>6. CASE signal.action \in {"None", "DropInput"}
  <2>1. controller'.mode = controller.mode /\ blocked' = blocked
    BY <1>0, <1>2, <1>3, <1>6, ResponseCases
  <2>2. CASE controller.mode \in {"Halted", "Normal"}
    BY <1>1, <2>1, <2>2
       DEF EventIsLastCause, EventTracksMode, PendingDescribesMode, HasPending
  <2>3. CASE controller.mode \notin {"Halted", "Normal"}
    BY <1>1, <1>4, <1>6, <2>1, <2>3
       DEF RecoveryInv, EventIsLastCause, HasPending
  <2> QED BY <2>2, <2>3
<1> QED BY <1>1, <1>5, <1>6

\* The invariant survives every acknowledgement, late and mistaken ones too.
LEMMA AckKeepsEvent ==
  ASSUME RecoveryInv, NEW g \in Nat, NEW ack \in RecoveryAcknowledgement,
         NEW r \in Nat, Acknowledge(g, ack, r)
  PROVE  EventTracksMode' /\ EventIsLastCause'
<1>0. controller \in RecoveryController /\ bridge \in RecoveryHostBridge
  BY DEF RecoveryInv, TypeOK
<1>1. EventTracksMode'
  BY <1>0, AckTracksMode DEF Acknowledge, RecoveryInv, EventTracksMode
<1>2. CASE Completes(controller, bridge, g, ack, r)
  <2>1. bridge'.pending = NoEvent
    BY <1>0, <1>2 DEF Acknowledge, BridgeAfterAck, RecoveryHostBridge
  <2> QED BY <1>1, <2>1 DEF EventIsLastCause, HasPending, NoEvent
<1>3. CASE ~Completes(controller, bridge, g, ack, r)
  <2>1. controller' = controller /\ bridge' = bridge /\ blocked' = blocked
    BY <1>3 DEF Acknowledge, ControllerAfterAck, BridgeAfterAck
  <2>2. EventIsLastCause'
    BY <2>1 DEF RecoveryInv, EventIsLastCause, HasPending
  <2> QED BY <1>1, <2>2
<1> QED BY <1>1, <1>2, <1>3

LEMMA InvStep == RecoveryInv /\ [Next]_vars => RecoveryInv'
<1> SUFFICES ASSUME RecoveryInv, [Next]_vars PROVE RecoveryInv'
  OBVIOUS
<1>0. TypeOK'
  BY TypeStep DEF RecoveryInv
<1>1. ASSUME NEW frame \in Frames, Mark(frame)
      PROVE  EventTracksMode' /\ EventIsLastCause'
  <2>1. controller'.mode = controller.mode /\ UNCHANGED <<bridge, blocked>>
    BY <1>1 DEF Mark, MarkSafeCheckpoint, RecoveryInv, TypeOK,
       RecoveryController
  <2> QED BY <2>1 DEF RecoveryInv, EventTracksMode, PendingDescribesMode,
             EventIsLastCause, HasPending
<1>2. ASSUME NEW fault \in FaultKind, ReportFault(fault)
      PROVE  EventTracksMode' /\ EventIsLastCause'
  BY <1>2, ReportKeepsEvent
<1>3. ASSUME NEW g \in 0..bridge.generation,
             NEW ack \in RecoveryAcknowledgement, NEW r \in Frames,
             Acknowledge(g, ack, r)
      PROVE  EventTracksMode' /\ EventIsLastCause'
  <2>1. g \in Nat /\ r \in Nat
    BY DEF RecoveryInv, TypeOK, RecoveryHostBridge
  <2> QED BY <1>3, <2>1, AckKeepsEvent
<1>4. CASE UNCHANGED vars
  <2>1. controller' = controller /\ bridge' = bridge /\ blocked' = blocked
    BY <1>4 DEF vars
  <2>2. EventTracksMode'
    BY <2>1 DEF RecoveryInv, EventTracksMode, PendingDescribesMode, HasPending
  <2>3. EventIsLastCause'
    BY <2>1 DEF RecoveryInv, EventIsLastCause, HasPending
  <2> QED BY <1>0, <2>2, <2>3 DEF RecoveryInv
<1> QED BY <1>0, <1>1, <1>2, <1>3, <1>4 DEF Next, RecoveryInv

LEMMA Invariance == Spec => []RecoveryInv
<1>1. Init => EventTracksMode /\ EventIsLastCause
  BY DEF Init, EventTracksMode, PendingDescribesMode, EventIsLastCause,
     HasPending, InitialController, InitialBridge, NoEvent
<1>2. Init => RecoveryInv
  BY <1>1, InitTyped DEF RecoveryInv
<1> QED BY <1>2, InvStep, PTL DEF Spec

\* The pending event and the mode never drift apart (report_fault, publish
\* and acknowledge), for every policy and every run of calls.
THEOREM EventTracksModeAlways == Spec => []EventTracksMode
<1>1. RecoveryInv => EventTracksMode
  BY DEF RecoveryInv
<1> QED BY <1>1, Invariance, PTL

\* The event the host is asked about is the last cause (publish keeps or
\* replaces it), for every policy and every run of calls.
THEOREM EventIsLastCauseAlways == Spec => []EventIsLastCause
<1>1. RecoveryInv => EventIsLastCause
  BY DEF RecoveryInv
<1> QED BY <1>1, Invariance, PTL

\* acknowledgement_matches has an answer for every event report_fault can
\* leave behind.
THEOREM EventIsAnswerableAlways == Spec => []EventIsAnswerable
<1>1. RecoveryInv => EventIsAnswerable
  <2> SUFFICES ASSUME RecoveryInv, HasPending(bridge),
                      controller.mode # "Halted"
               PROVE  \E ack \in RecoveryAcknowledgement :
                        Completes(controller, bridge,
                                  bridge.pending.generation, ack,
                                  bridge.pending.signal.checkpoint)
    BY DEF EventIsAnswerable, PendingIsAnswerable
  <2> DEFINE signal == bridge.pending.signal
  <2>1. /\ signal.mode = controller.mode /\ signal.mode \in RecoveryMode
        /\ controller.mode # "Normal"
    BY DEF RecoveryInv, EventTracksMode, PendingDescribesMode, TypeOK,
       RecoveryController
  <2>2. \E ack \in RecoveryAcknowledgement \ {"RetryLater"} :
           AcknowledgementMatches(signal, ack)
    BY <2>1 DEF RecoveryInv, EventIsLastCause, AcknowledgementMatches,
       RecoveryMode, RecoveryAcknowledgement
  <2>3. PICK ack \in RecoveryAcknowledgement \ {"RetryLater"} :
           AcknowledgementMatches(signal, ack)
    BY <2>2
  <2> QED BY <2>1, <2>3 DEF Completes, AckRejectReason
<1> QED BY <1>1, Invariance, PTL

\* Only the remedy of the last cause, given for its generation, brings the
\* runtime back to normal operation (RecoveryHostBridge::acknowledge).
THEOREM RecoveryIsEarnedAlways == Spec => RecoveryIsEarned
<1> DEFINE Earned ==
      controller.mode # "Normal" /\ controller'.mode = "Normal" =>
        /\ reply'.call = "ack" /\ reply'.reason = "None"
        /\ reply'.generation = blocked.generation
        /\ reply'.ack \in Remedies(blocked.fault)
        /\ reply'.ack = "CheckpointRestored" =>
             reply'.restored = blocked.checkpoint
<1>1. RecoveryInv /\ [Next]_vars => [Earned]_vars
  <2> SUFFICES ASSUME RecoveryInv, Next, controller.mode # "Normal",
                      controller'.mode = "Normal"
               PROVE  /\ reply'.call = "ack" /\ reply'.reason = "None"
                      /\ reply'.generation = blocked.generation
                      /\ reply'.ack \in Remedies(blocked.fault)
                      /\ reply'.ack = "CheckpointRestored" =>
                           reply'.restored = blocked.checkpoint
    OBVIOUS
  <2>0. controller \in RecoveryController
    BY DEF RecoveryInv, TypeOK
  <2>1. ASSUME NEW frame \in Frames, Mark(frame) PROVE FALSE
    BY <2>0, <2>1 DEF Mark, MarkSafeCheckpoint, RecoveryController
  <2>2. ASSUME NEW fault \in FaultKind, ReportFault(fault) PROVE FALSE
    <3>1. controller'.mode = SignalOfFault(controller, fault).mode
      BY <2>0, <2>2, FaultType DEF ReportFault
    <3> QED BY <2>0, <3>1, ResponseCases
  <2>3. PICK g \in 0..bridge.generation, ack \in RecoveryAcknowledgement,
             r \in Frames : Acknowledge(g, ack, r)
    BY <2>1, <2>2 DEF Next
  <2>4. Completes(controller, bridge, g, ack, r)
    BY <2>3 DEF Acknowledge, ControllerAfterAck
  <2>5. /\ HasPending(bridge) /\ controller.mode # "Halted"
        /\ g = bridge.pending.generation
        /\ AcknowledgementMatches(bridge.pending.signal, ack)
        /\ ack = "CheckpointRestored" => r = bridge.pending.signal.checkpoint
    BY <2>4 DEF Completes, AckRejectReason
  <2>6. reply' = [call |-> "ack", fault |-> "None", ack |-> ack,
                  generation |-> g, restored |-> r, reason |-> "None"]
    BY <2>3, <2>4 DEF Acknowledge, Completes
  <2>7. ack \in Remedies(bridge.pending.signal.fault)
    BY <2>5 DEF RecoveryInv, EventIsLastCause, AcknowledgementMatches,
       Remedies
  <2> QED BY <2>5, <2>6, <2>7 DEF RecoveryInv, EventIsLastCause
<1> QED BY <1>1, Invariance, PTL DEF Spec, RecoveryIsEarned

-----------------------------------------------------------------------------
(* The count of equal faults *)

\* increment_saturating, as often as it was called
Capped(n) == IF n <= UInt32Max THEN n ELSE UInt32Max

\* The two counters that decide an escalation are the length of the streak
\* as far as 32 bits can tell it, and zero when the streak is of another kind.
StreakIsCounted ==
  /\ controller.ioStalls =
       IF streak.fault = "IoStall" THEN Capped(streak.count) ELSE 0
  /\ controller.networkGaps =
       IF streak.fault = "NetworkUnavailable"
       THEN Capped(streak.count) ELSE 0

LEMMA CappedIncrement ==
  /\ \A n \in Nat : IncrementSaturating(Capped(n)) = Capped(n + 1)
  /\ IncrementSaturating(0) = Capped(1)
  /\ Capped(0) = 0
BY DEF IncrementSaturating, Capped

\* A fault adds one to the counter of its kind and clears the other.
LEMMA ReportCounts ==
  ASSUME TypeOK, StreakIsCounted, NEW fault \in FaultKind, ReportFault(fault)
  PROVE  StreakIsCounted'
<1>1. /\ controller'.ioStalls =
           IF fault = "IoStall"
           THEN IncrementSaturating(controller.ioStalls) ELSE 0
      /\ controller'.networkGaps =
           IF fault = "NetworkUnavailable"
           THEN IncrementSaturating(controller.networkGaps) ELSE 0
  <2> HIDE DEF IncrementSaturating
  <2> QED BY DEF ReportFault, ControllerAfterFault, CountFault, TypeOK,
             RecoveryController
<1>2. /\ streak.count \in Nat
      /\ streak' = [fault |-> fault,
                    count |-> IF streak.fault = fault
                              THEN streak.count + 1 ELSE 1]
  BY DEF ReportFault, TypeOK
<1> HIDE DEF IncrementSaturating, Capped
<1>3. CASE streak.fault = fault
  BY <1>1, <1>2, <1>3, CappedIncrement DEF StreakIsCounted
<1>4. CASE streak.fault # fault
  BY <1>1, <1>2, <1>4, CappedIncrement DEF StreakIsCounted
<1> QED BY <1>3, <1>4

LEMMA CountStep ==
  TypeOK /\ StreakIsCounted /\ [Next]_vars => StreakIsCounted'
<1> SUFFICES ASSUME TypeOK, StreakIsCounted, [Next]_vars
             PROVE  StreakIsCounted'
  OBVIOUS
<1>1. ASSUME NEW frame \in Frames, Mark(frame) PROVE StreakIsCounted'
  BY <1>1 DEF Mark, MarkSafeCheckpoint, StreakIsCounted, TypeOK,
     RecoveryController
<1>2. ASSUME NEW g \in 0..bridge.generation,
             NEW ack \in RecoveryAcknowledgement, NEW r \in Frames,
             Acknowledge(g, ack, r)
      PROVE  StreakIsCounted'
  <2>1. CASE Completes(controller, bridge, g, ack, r)
    <3>1. controller'.ioStalls = 0 /\ controller'.networkGaps = 0
      BY <1>2, <2>1 DEF Acknowledge, ControllerAfterAck,
         ControllerAfterRecovery, ResetInputQuarantine, TypeOK,
         RecoveryController
    <3> QED BY <1>2, <2>1, <3>1 DEF Acknowledge, StreakIsCounted
  <2>2. CASE ~Completes(controller, bridge, g, ack, r)
    BY <1>2, <2>2 DEF Acknowledge, ControllerAfterAck, StreakIsCounted
  <2> QED BY <2>1, <2>2
<1>3. CASE UNCHANGED vars
  BY <1>3 DEF vars, StreakIsCounted
<1> QED BY <1>1, <1>2, <1>3, ReportCounts DEF Next

LEMMA CountInvariance == Spec => [](TypeOK /\ StreakIsCounted)
<1>1. Init => TypeOK /\ StreakIsCounted
  <2>1. Init => StreakIsCounted
    BY DEF Init, InitialController, StreakIsCounted
  <2> QED BY <2>1, InitTyped
<1>2. TypeOK /\ StreakIsCounted /\ [Next]_vars
        => (TypeOK /\ StreakIsCounted)'
  BY TypeStep, CountStep
<1> QED BY <1>1, <1>2, PTL DEF Spec

\* A runtime stops reusing the last confirmed input after exactly as many
\* equal faults in a row as its policy tolerates (report_fault).  A policy
\* that tolerates as many as the counter can hold is excepted: the counter
\* saturates there and never exceeds it.
THEOREM EscalationIsConsecutiveAlways ==
  ASSUME MaxIoStalls < UInt32Max, MaxNetworkGaps < UInt32Max
  PROVE  Spec => EscalationIsConsecutive
<1> DEFINE Escalates ==
      reply'.call = "report" =>
        /\ reply'.fault = "IoStall" =>
             (controller'.mode = "SafeWait" <=> streak'.count > MaxIoStalls)
        /\ reply'.fault = "NetworkUnavailable" =>
             (controller'.mode = "SafeWait"
                <=> streak'.count > MaxNetworkGaps)
<1>1. TypeOK /\ StreakIsCounted /\ [Next]_vars => [Escalates]_vars
  <2> SUFFICES ASSUME TypeOK, StreakIsCounted, Next, reply'.call = "report"
               PROVE  Escalates
    OBVIOUS
  <2>1. PICK fault \in FaultKind : ReportFault(fault)
    BY DEF Next, Mark, Acknowledge, NoReply
  <2>2. StreakIsCounted' /\ TypeOK'
    BY <2>1, ReportCounts, TypeStep
  <2>3. /\ reply'.fault = fault
        /\ streak'.fault = fault /\ streak'.count \in Nat
    BY <2>1, <2>2 DEF ReportFault, NoReply, TypeOK
  <2>4. /\ fault = "IoStall" =>
             (controller'.mode = "SafeWait"
                <=> ~(controller'.ioStalls <= MaxIoStalls))
        /\ fault = "NetworkUnavailable" =>
             (controller'.mode = "SafeWait"
                <=> ~(controller'.networkGaps <= MaxNetworkGaps))
    <3>1. PICK counted : counted = CountFault(controller, fault) OBVIOUS
    <3>2. counted \in RecoveryController
      BY <3>1, ResponseType DEF TypeOK
    <3>3. controller' = [counted EXCEPT
             !.mode = Response(counted, fault).mode,
             !.telemetryDisabled = @ \/ fault = "OutOfMemory"]
      BY <2>1, <3>1 DEF ReportFault, ControllerAfterFault
    <3>4. /\ controller'.mode = Response(counted, fault).mode
          /\ controller'.ioStalls = counted.ioStalls
          /\ controller'.networkGaps = counted.networkGaps
      BY <3>2, <3>3 DEF RecoveryController
    <3> QED BY <3>4 DEF Response, TolerantResponse
  <2>5. \A n \in Nat, m \in Nat :
          m < UInt32Max => (~(Capped(n) <= m) <=> n > m)
    BY DEF Capped
  <2> HIDE DEF Capped
  <2> QED BY <2>2, <2>3, <2>4, <2>5 DEF StreakIsCounted
<1> QED BY <1>1, CountInvariance, PTL DEF Spec, EscalationIsConsecutive
=============================================================================
