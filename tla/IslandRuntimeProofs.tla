------------------------- MODULE IslandRuntimeProofs -------------------------
(***************************************************************************)
(* Theorems about the islands and the threads that project them.           *)
(***************************************************************************)
EXTENDS IslandRuntime, FiniteSetTheorems, WellFoundedInduction, TLAPS

-----------------------------------------------------------------------------
(* Induction over the natural numbers, and functions defined by it *)

\* A set of numbers that is not empty has a least one.
LEMMA LeastNumber ==
  ASSUME NEW T, T \subseteq Nat, T # {}
  PROVE  \E x \in T : \A y \in T : x <= y
<1>1. PICK x \in T : \A y \in T : ~ (<<y, x>> \in OpToRel(<, Nat))
  BY NatLessThanWellFounded, WFMin, Zenon
<1>2. ASSUME NEW y \in T PROVE x <= y
  <2>1. ~ (y < x)
    BY <1>1, Zenon DEF OpToRel
  <2> QED BY <2>1
<1> QED BY <1>2

\* A set that holds 0, and with a number the next one, holds every number.
LEMMA Induction ==
  ASSUME NEW S, 0 \in S, \A n \in Nat : n \in S => n + 1 \in S
  PROVE  \A n \in Nat : n \in S
<1> SUFFICES ASSUME Nat \ S # {} PROVE FALSE OBVIOUS
<1>1. PICK x \in Nat \ S : \A y \in Nat \ S : x <= y BY LeastNumber
<1>2. x - 1 \in Nat /\ x - 1 < x BY <1>1
<1>3. x - 1 \in S BY <1>1, <1>2
<1>4. x - 1 + 1 \in S BY <1>3, <1>2
<1> QED BY <1>4, <1>1

\* The same up to a bound
LEMMA BoundedInduction ==
  ASSUME NEW m \in Nat, NEW S, 0 \in S, \A n \in 0..(m - 1) : n \in S => n + 1 \in S
  PROVE  \A n \in 0..m : n \in S
<1> DEFINE R == {n \in Nat : n <= m => n \in S}
<1>1. 0 \in R OBVIOUS
<1>2. \A n \in Nat : n \in R => n + 1 \in R OBVIOUS
<1> HIDE DEF R
<1>3. \A n \in Nat : n \in R BY <1>1, <1>2, Induction
<1> QED BY <1>3 DEF R

\* The function that starts with base and goes on by step
Follows(h, n, base, step) ==
  h[0] = base /\ \A k \in 1..n : h[k] = step[<<h[k - 1], k>>]

LEMMA Recursion ==
  ASSUME NEW V, NEW base \in V, NEW step, NEW n \in Nat,
         \A v \in V, k \in Nat : step[<<v, k>>] \in V
  PROVE  \E h \in [0..n -> V] : Follows(h, n, base, step)
<1> DEFINE S == {m \in Nat : \E h \in [0..m -> V] : Follows(h, m, base, step)}
<1>1. 0 \in S
  <2> DEFINE h == [k \in 0..0 |-> base]
  <2>1. h \in [0..0 -> V] /\ Follows(h, 0, base, step) BY DEF Follows
  <2> QED BY <2>1
<1>2. ASSUME NEW m \in Nat, m \in S PROVE m + 1 \in S
  <2>1. PICK h \in [0..m -> V] : Follows(h, m, base, step) BY <1>2
  <2> DEFINE g == [k \in 0..(m + 1) |-> IF k <= m THEN h[k] ELSE step[<<h[m], m + 1>>]]
  <2>2. h[m] \in V BY <2>1
  <2>3. step[<<h[m], m + 1>>] \in V BY <2>2
  <2>4. g \in [0..(m + 1) -> V] BY <2>1, <2>3
  <2>5. g[0] = base BY <2>1 DEF Follows
  <2>6. ASSUME NEW k \in 1..(m + 1) PROVE g[k] = step[<<g[k - 1], k>>]
    <3>1. CASE k <= m
      <4>1. g[k] = h[k] /\ g[k - 1] = h[k - 1] BY <3>1
      <4>2. h[k] = step[<<h[k - 1], k>>] BY <3>1, <2>1 DEF Follows
      <4> QED BY <4>1, <4>2
    <3>2. CASE k = m + 1
      <4>1. g[k - 1] = h[m] /\ g[k] = step[<<h[m], m + 1>>] BY <3>2
      <4> QED BY <4>1, <3>2
    <3> QED BY <3>1, <3>2
  <2>7. Follows(g, m + 1, base, step) BY <2>5, <2>6 DEF Follows
  <2> HIDE DEF g
  <2> QED BY <2>4, <2>7
<1> HIDE DEF S
<1>3. n \in S BY <1>1, <1>2, Induction
<1> QED BY <1>3 DEF S

-----------------------------------------------------------------------------
(* The classification *)

LEMMA EvaluatedIs == ASSUME NEW v PROVE Evaluated(v) = v
BY DEF Evaluated

LEMMA MinOfTwo ==
  ASSUME NEW a \in Int, NEW b \in Int
  PROVE  Min({a, b}) = IF a <= b THEN a ELSE b
<1>1. PICK m \in {a, b} : m <= a /\ m <= b OBVIOUS
<1>2. Min({a, b}) \in {a, b} /\ \A y \in {a, b} : Min({a, b}) <= y
  BY <1>1 DEF Min
<1> QED BY <1>2

LEMMA MaxOfTwo ==
  ASSUME NEW a \in Int, NEW b \in Int
  PROVE  Max({a, b}) = IF a <= b THEN b ELSE a
<1>1. PICK m \in {a, b} : m >= a /\ m >= b OBVIOUS
<1>2. Max({a, b}) \in {a, b} /\ \A y \in {a, b} : Max({a, b}) >= y
  BY <1>1 DEF Max
<1> QED BY <1>2

Contacts == Seq(Contact)

LEMMA ContactEnds ==
  ASSUME NEW contacts \in Contacts, NEW i \in DOMAIN contacts
  PROVE  /\ contacts[i] \in Contact
         /\ contacts[i][1] \in Bodies /\ contacts[i][2] \in Bodies
         /\ contacts[i][1] # contacts[i][2]
BY DEF Contacts, Contact

LEMMA UniteKeeps ==
  ASSUME NEW roots \in [Bodies -> Bodies], NEW ends \in Contact
  PROVE  /\ Unite(roots, ends) \in [Bodies -> Bodies]
         /\ Unite(roots, ends)[ends[1]] = Unite(roots, ends)[ends[2]]
         /\ \A b, d \in Bodies :
              roots[b] = roots[d] => Unite(roots, ends)[b] = Unite(roots, ends)[d]
<1> DEFINE r == roots[ends[1]]
           s == roots[ends[2]]
           united == [body \in Bodies |-> IF roots[body] \in {r, s} THEN Min({r, s}) ELSE roots[body]]
<1>1. ends[1] \in Bodies /\ ends[2] \in Bodies BY DEF Contact
<1>2. r \in Bodies /\ s \in Bodies /\ r \in Int /\ s \in Int BY <1>1 DEF Bodies
<1>3. Min({r, s}) \in Bodies
  <2> HIDE DEF r, s
  <2> QED BY <1>2, MinOfTwo
<1>4. Unite(roots, ends) = united
  BY EvaluatedIs DEF Unite
<1> HIDE DEF r, s
<1>5. united \in [Bodies -> Bodies] BY <1>2, <1>3
<1>6. united[ends[1]] = Min({r, s}) /\ united[ends[2]] = Min({r, s})
  BY <1>1 DEF r, s
<1>7. \A b, d \in Bodies : roots[b] = roots[d] => united[b] = united[d] OBVIOUS
<1> QED BY <1>4, <1>5, <1>6, <1>7

\* Both ends of every contact have the same root in the end.
LEMMA RootsOfEnds ==
  ASSUME NEW contacts \in Contacts
  PROVE  /\ Roots(contacts) \in [Bodies -> Bodies]
         /\ \A i \in DOMAIN contacts :
              Roots(contacts)[contacts[i][1]] = Roots(contacts)[contacts[i][2]]
<1> DEFINE n == Len(contacts)
           Is(f) == f = [k \in 0..n |-> IF k = 0 THEN [body \in Bodies |-> body]
                                        ELSE Unite(f[k - 1], contacts[k])]
           after == CHOOSE f : Is(f)
           step == [p \in [Bodies -> Bodies] \X Nat |->
                      IF p[2] \in 1..n THEN Unite(p[1], contacts[p[2]]) ELSE p[1]]
<1>1. n \in Nat /\ \A k \in 1..n : contacts[k] \in Contact
  BY DEF Contacts
<1>2. Roots(contacts) = after[n] BY DEF Roots
<1>3. \A v \in [Bodies -> Bodies], k \in Nat : step[<<v, k>>] \in [Bodies -> Bodies]
  <2> TAKE v \in [Bodies -> Bodies], k \in Nat
  <2>1. step[<<v, k>>] = IF k \in 1..n THEN Unite(v, contacts[k]) ELSE v OBVIOUS
  <2> QED BY <2>1, <1>1, UniteKeeps
<1>4. [body \in Bodies |-> body] \in [Bodies -> Bodies] OBVIOUS
<1>5. PICK h \in [0..n -> [Bodies -> Bodies]] : Follows(h, n, [body \in Bodies |-> body], step)
  <2> HIDE DEF step, n
  <2> QED BY <1>1, <1>3, <1>4, Recursion
<1>6. \A k \in 1..n : h[k] = Unite(h[k - 1], contacts[k])
  <2> TAKE k \in 1..n
  <2>1. h[k - 1] \in [Bodies -> Bodies] /\ k \in Nat BY <1>1
  <2>2. h[k] = step[<<h[k - 1], k>>] BY <1>5 DEF Follows
  <2>3. <<h[k - 1], k>> \in [Bodies -> Bodies] \X Nat BY <2>1
  <2>4. step[<<h[k - 1], k>>] = Unite(h[k - 1], contacts[k]) BY <2>3
  <2> QED BY <2>2, <2>4
<1>7. Is(h)
  BY <1>5, <1>6 DEF Follows
<1> HIDE DEF step, Is
<1>8. Is(after) BY <1>7
<1> HIDE DEF after
<1>9. after[0] = [body \in Bodies |-> body] /\ \A k \in 1..n : after[k] = Unite(after[k - 1], contacts[k])
  BY <1>8, <1>1 DEF Is
<1> DEFINE United(k) == \A i \in 1..k : after[k][contacts[i][1]] = after[k][contacts[i][2]]
           S == {k \in 0..n : after[k] \in [Bodies -> Bodies] /\ United(k)}
<1>10. 0 \in S BY <1>9, <1>1
<1>11. ASSUME NEW k \in 0..(n - 1), k \in S PROVE k + 1 \in S
  <2>1. k + 1 \in 1..n /\ (k + 1) - 1 = k /\ k \in Nat BY <1>1
  <2>2. after[k + 1] = Unite(after[k], contacts[k + 1]) BY <2>1, <1>9
  <2>3. contacts[k + 1] \in Contact BY <2>1, <1>1
  <2>4. /\ after[k + 1] \in [Bodies -> Bodies]
        /\ after[k + 1][contacts[k + 1][1]] = after[k + 1][contacts[k + 1][2]]
        /\ \A b, d \in Bodies : after[k][b] = after[k][d] => after[k + 1][b] = after[k + 1][d]
    <3>1. after[k] \in [Bodies -> Bodies] BY <1>11
    <3> HIDE DEF S
    <3> QED BY <3>1, <2>2, <2>3, UniteKeeps
  <2>5. ASSUME NEW i \in 1..(k + 1)
        PROVE  after[k + 1][contacts[i][1]] = after[k + 1][contacts[i][2]]
    <3>1. CASE i = k + 1 BY <3>1, <2>4
    <3>2. CASE i \in 1..k
      <4>1. i \in 1..n BY <3>2, <2>1, <1>1
      <4>2. contacts[i][1] \in Bodies /\ contacts[i][2] \in Bodies BY <4>1, <1>1 DEF Contact
      <4>3. after[k][contacts[i][1]] = after[k][contacts[i][2]] BY <1>11, <3>2
      <4> QED BY <4>2, <4>3, <2>4
    <3> QED BY <3>1, <3>2, <2>1
  <2> QED BY <2>1, <2>4, <2>5
<1> HIDE DEF S
<1>12. n \in S
  <2>1. \A k \in 0..(n - 1) : k \in S => k + 1 \in S BY <1>11
  <2> HIDE DEF n
  <2>2. \A k \in 0..n : k \in S BY <1>1, <1>10, <2>1, BoundedInduction
  <2> QED BY <1>1, <2>2
<1>13. after[n] \in [Bodies -> Bodies] /\ United(n) BY <1>12 DEF S
<1>14. DOMAIN contacts = 1..n BY DEF Contacts
<1> QED BY <1>2, <1>13, <1>14

LEMMA Concatenation ==
  ASSUME NEW a \in Seq(Nat), NEW b \in Seq(Nat)
  PROVE  /\ a \o b \in Seq(Nat) /\ Len(a \o b) = Len(a) + Len(b)
         /\ \A p \in 1..Len(a) : (a \o b)[p] = a[p]
         /\ \A p \in (Len(a) + 1)..(Len(a) + Len(b)) : (a \o b)[p] = b[p - Len(a)]
OBVIOUS

\* The contact order names contacts: one for every place.
LEMMA OrderOfContacts ==
  ASSUME NEW contacts \in Contacts, NEW roots
  PROVE  ContactOrder(contacts, roots) \in [1..Len(contacts) -> 1..Len(contacts)]
<1> DEFINE n == Len(contacts)
           earlier(s, k) == {p \in DOMAIN s : ContactPrecedes(contacts, roots, s[p], k)}
           next(s, k) == InsertAt(s, Cardinality(earlier(s, k)) + 1, k)
           Is(f) == f = [k \in 0..n |-> IF k = 0 THEN <<>> ELSE next(f[k - 1], k)]
           sorted == CHOOSE f : Is(f)
           Orders == {s \in Seq(Nat) : \A p \in 1..Len(s) : s[p] \in 1..n}
           step == [p \in Orders \X Nat |-> IF p[2] \in 1..n THEN next(p[1], p[2]) ELSE p[1]]
<1>1. n \in Nat BY DEF Contacts
<1>2. ContactOrder(contacts, roots) = sorted[n] BY DEF ContactOrder
<1> HIDE DEF n
<1>3. ASSUME NEW s \in Orders, NEW k \in 1..n
      PROVE  next(s, k) \in Orders /\ Len(next(s, k)) = Len(s) + 1
  <2>1. Len(s) \in Nat /\ DOMAIN s = 1..Len(s) /\ s \in Seq(Nat) OBVIOUS
  <2>2. earlier(s, k) \subseteq 1..Len(s)
    <3>1. earlier(s, k) \subseteq DOMAIN s BY Zenon
    <3> HIDE DEF earlier
    <3> QED BY <3>1, <2>1
  <2>3. IsFiniteSet(1..Len(s)) /\ Cardinality(1..Len(s)) = Len(s)
    <3>1. \A m \in Nat : IsFiniteSet(1..m) /\ Cardinality(1..m) = m
      <4> TAKE m \in Nat
      <4>1. 1 \in Int /\ m \in Int OBVIOUS
      <4>2. IsFiniteSet(1..m) /\ Cardinality(1..m) = IF 1 > m THEN 0 ELSE m - 1 + 1
        BY <4>1, FS_Interval
      <4> QED BY <4>2
    <3> QED BY <3>1, <2>1
  <2>4. Cardinality(earlier(s, k)) \in 0..Len(s)
    <3> HIDE DEF earlier
    <3>1. IsFiniteSet(earlier(s, k)) /\ Cardinality(earlier(s, k)) <= Cardinality(1..Len(s))
      BY <2>2, <2>3, FS_Subset
    <3>2. Cardinality(earlier(s, k)) \in Nat BY <3>1, FS_CardinalityType
    <3> QED BY <3>1, <3>2, <2>3
  <2> DEFINE e == Cardinality(earlier(s, k)) + 1
             left == SubSeq(s, 1, e - 1)
             right == SubSeq(s, e, Len(s))
  <2>5. e \in 1..(Len(s) + 1) BY <2>4, <2>1
  <2>6. next(s, k) = left \o <<k>> \o right BY DEF InsertAt
  <2> HIDE DEF e, next, earlier
  <2>7. /\ left \in Seq(Nat) /\ Len(left) = e - 1
        /\ \A p \in 1..(e - 1) : left[p] = s[p]
    BY <2>1, <2>5
  <2>8. /\ right \in Seq(Nat) /\ Len(right) = Len(s) - e + 1
        /\ \A p \in 1..(Len(s) - e + 1) : right[p] = s[e + p - 1]
    BY <2>1, <2>5
  <2>9. k \in Nat /\ <<k>> \in Seq(Nat) BY <1>1
  <2> HIDE DEF left, right
  <2> DEFINE start == left \o <<k>>
  <2>10. /\ start \in Seq(Nat) /\ Len(start) = e
         /\ \A p \in 1..(e - 1) : start[p] = s[p]
         /\ start[e] = k
    BY <2>1, <2>5, <2>7, <2>9
  <2>11. \A q \in 1..Len(s) : s[q] \in 1..n OBVIOUS
  <2>12. ASSUME NEW p \in 1..e PROVE start[p] \in 1..n
    <3>1. CASE p = e BY <3>1, <2>10
    <3>2. CASE p \in 1..(e - 1)
      <4>1. p \in 1..Len(s) BY <3>2, <2>5, <2>1
      <4> QED BY <3>2, <4>1, <2>10, <2>11
    <3>3. e \in Nat BY <2>5, <2>1
    <3>4. p = e \/ p \in 1..(e - 1) BY <3>3
    <3> QED BY <3>1, <3>2, <3>4
  <2>13. ASSUME NEW p \in 1..(Len(s) - e + 1) PROVE right[p] \in 1..n
    <3>1. e + p - 1 \in 1..Len(s) BY <2>5, <2>1
    <3> QED BY <3>1, <2>8, <2>11
  <2> HIDE DEF start
  <2>14. /\ start \o right \in Seq(Nat) /\ Len(start \o right) = Len(s) + 1
         /\ \A p \in 1..(Len(s) + 1) :
              \/ p \in 1..e /\ (start \o right)[p] = start[p]
              \/ p - e \in 1..(Len(s) - e + 1) /\ (start \o right)[p] = right[p - e]
    <3> DEFINE m == Len(s) - e + 1
    <3>1. /\ start \in Seq(Nat) /\ Len(start) = e /\ e \in Nat
          /\ right \in Seq(Nat) /\ Len(right) = m /\ m \in Nat /\ e + m = Len(s) + 1
      BY <2>1, <2>5, <2>8, <2>10
    <3>a. e \in Nat /\ m \in Nat BY <3>1
    <3> HIDE DEF m
    <3>2. /\ start \o right \in Seq(Nat) /\ Len(start \o right) = e + m
          /\ \A p \in 1..(e + m) :
               \/ p \in 1..e /\ (start \o right)[p] = start[p]
               \/ p - e \in 1..m /\ (start \o right)[p] = right[p - e]
      <4>1. /\ start \o right \in Seq(Nat) /\ Len(start \o right) = e + m
            /\ \A p \in 1..e : (start \o right)[p] = start[p]
            /\ \A p \in (e + 1)..(e + m) : (start \o right)[p] = right[p - e]
        BY <3>1, Concatenation
      <4>2. ASSUME NEW p \in 1..(e + m)
            PROVE  p \in 1..e \/ (p \in (e + 1)..(e + m) /\ p - e \in 1..m)
        BY <3>a
      <4> QED BY <4>1, <4>2
    <3> QED BY <3>1, <3>2 DEF m
  <2>15. next(s, k) = start \o right BY <2>6 DEF start
  <2>16. \A p \in 1..(Len(s) + 1) : (start \o right)[p] \in 1..n
    BY <2>12, <2>13, <2>14
  <2> QED BY <2>14, <2>15, <2>16
<1> HIDE DEF next
<1>4. \A v \in Orders, k \in Nat : step[<<v, k>>] \in Orders
  <2> TAKE v \in Orders, k \in Nat
  <2>1. step[<<v, k>>] = IF k \in 1..n THEN next(v, k) ELSE v OBVIOUS
  <2> HIDE DEF step, Orders
  <2> QED BY <2>1, <1>3
<1>5. <<>> \in Orders OBVIOUS
<1> HIDE DEF Orders
<1>6. PICK h \in [0..n -> Orders] : Follows(h, n, <<>>, step)
  <2> HIDE DEF step
  <2> QED BY <1>1, <1>4, <1>5, Recursion
<1>7. \A k \in 1..n : h[k] = next(h[k - 1], k)
  <2> TAKE k \in 1..n
  <2>1. h[k - 1] \in Orders /\ k \in Nat BY <1>1
  <2>2. h[k] = step[<<h[k - 1], k>>] BY <1>6 DEF Follows
  <2>3. <<h[k - 1], k>> \in Orders \X Nat BY <2>1
  <2>4. step[<<h[k - 1], k>>] = next(h[k - 1], k) BY <2>3
  <2> QED BY <2>2, <2>4
<1>8. Is(h)
  BY <1>6, <1>7 DEF Follows
<1> HIDE DEF step, Is
<1>9. Is(sorted) BY <1>8
<1> HIDE DEF sorted
<1>10. sorted[0] = <<>> /\ \A k \in 1..n : sorted[k] = next(sorted[k - 1], k)
  BY <1>9, <1>1 DEF Is
<1> DEFINE S == {k \in 0..n : sorted[k] \in Orders /\ Len(sorted[k]) = k}
<1>11. 0 \in S BY <1>10, <1>1, <1>5
<1>12. ASSUME NEW k \in 0..(n - 1), k \in S PROVE k + 1 \in S
  <2>1. k + 1 \in 1..n /\ (k + 1) - 1 = k /\ k \in Nat BY <1>1
  <2>2. sorted[k + 1] = next(sorted[k], k + 1) BY <2>1, <1>10
  <2>3. sorted[k] \in Orders /\ Len(sorted[k]) = k BY <1>12
  <2>4. next(sorted[k], k + 1) \in Orders /\ Len(next(sorted[k], k + 1)) = k + 1
    BY <2>1, <2>3, <1>3
  <2> QED BY <2>1, <2>2, <2>4
<1> HIDE DEF S
<1>13. n \in S
  <2>1. \A k \in 0..(n - 1) : k \in S => k + 1 \in S BY <1>12
  <2>2. \A k \in 0..n : k \in S BY <1>1, <1>11, <2>1, BoundedInduction
  <2> QED BY <1>1, <2>2
<1>14. sorted[n] \in Orders /\ Len(sorted[n]) = n BY <1>13 DEF S
<1>15. sorted[n] \in [1..n -> 1..n]
  <2>1. sorted[n] \in Seq(Nat) /\ \A p \in 1..n : sorted[n][p] \in 1..n BY <1>14 DEF Orders
  <2>2. sorted[n] = [p \in 1..n |-> sorted[n][p]] BY <2>1, <1>14
  <2> QED BY <2>1, <2>2
<1> QED BY <1>2, <1>15 DEF n

\* What the projection relies on: the order names contacts, and contacts of
\* two islands share no body.
WellClassified(contacts, ws) ==
  /\ ws.order \in [1..Len(contacts) -> 1..Len(contacts)]
  /\ \A i \in 1..Len(contacts) : ws.island[i] \in Nat
  /\ \A i, j \in 1..Len(contacts) :
       ws.island[i] # ws.island[j] =>
         EndsOf(contacts[i]) \intersect EndsOf(contacts[j]) = {}

\* Contacts that classification puts into different islands share no body, and
\* its order names every place by a contact: for any sequence of contacts
\* (ContactIslandWorkspace::classify, unite and find).  It is why the islands
\* can be projected in any interleaving.
THEOREM IslandsShareNoBody ==
  ASSUME NEW contacts \in Seq(Contact)
  PROVE  WellClassified(contacts, Classify(contacts))
<1> DEFINE n == Len(contacts)
           roots == Roots(contacts)
           ws == Classify(contacts)
<1>1. contacts \in Contacts /\ n \in Nat /\ DOMAIN contacts = 1..n BY DEF Contacts
<1>2. roots \in [Bodies -> Bodies]
      /\ \A i \in 1..n : roots[contacts[i][1]] = roots[contacts[i][2]]
  BY <1>1, RootsOfEnds
<1>3. ContactOrder(contacts, roots) \in [1..n -> 1..n] BY <1>1, OrderOfContacts
<1>4. /\ ws.order = ContactOrder(contacts, roots)
      /\ ws.island = [i \in 1..n |-> IslandOf(contacts, roots, i)]
  <2> DEFINE order == ContactOrder(contacts, roots)
             island == [i \in DOMAIN contacts |-> IslandOf(contacts, roots, i)]
             colors == Colors(contacts, roots, order)
             topology == {<<r, Topology(contacts, {i \in DOMAIN contacts : roots[contacts[i][1]] = r})>> :
                            r \in {roots[contacts[i][1]] : i \in DOMAIN contacts}}
  <2>1. ws = Evaluated([order |-> order, island |-> island, colors |-> colors,
                        topology |-> topology])
    BY DEF Classify
  <2> HIDE DEF order, island, colors, topology, ws
  <2>2. ws = [order |-> order, island |-> island, colors |-> colors, topology |-> topology]
    BY <2>1, EvaluatedIs
  <2>3. ws.order = order /\ ws.island = island BY <2>2
  <2> QED BY <2>3, <1>1 DEF order, island
<1> HIDE DEF roots, ws
<1>5. ASSUME NEW i \in 1..n PROVE ws.island[i] \in Nat
  <2>1. ws.island[i] = IslandOf(contacts, roots, i) BY <1>4
  <2> DEFINE all == {roots[contacts[j][1]] : j \in DOMAIN contacts}
  <2>2. IsFiniteSet(DOMAIN contacts) BY <1>1, FS_Interval
  <2>3. IsFiniteSet(all)
    <3> DEFINE first == [j \in DOMAIN contacts |-> roots[contacts[j][1]]]
    <3>1. all = {first[j] : j \in DOMAIN contacts} BY Zenon
    <3>2. first \in Surjection(DOMAIN contacts, all)
      <4> HIDE DEF all
      <4>1. \A j \in DOMAIN contacts : first[j] \in all BY <3>1
      <4>2. \A r \in all : \E j \in DOMAIN contacts : first[j] = r BY <3>1
      <4> QED BY <4>1, <4>2 DEF Surjection
    <3> HIDE DEF all, first
    <3> QED BY <2>2, <3>2, FS_Surjection
  <2> DEFINE lesser == all \intersect 0..(roots[contacts[i][1]] - 1)
  <2>4. IsFiniteSet(lesser)
    <3>1. lesser \subseteq all OBVIOUS
    <3> HIDE DEF lesser, all
    <3> QED BY <2>3, <3>1, FS_Subset
  <2>5. IslandOf(contacts, roots, i) = Cardinality(lesser) BY DEF IslandOf
  <2> HIDE DEF lesser
  <2> QED BY <2>1, <2>4, <2>5, FS_CardinalityType
<1>6. ASSUME NEW i \in 1..n, NEW j \in 1..n, ws.island[i] # ws.island[j]
      PROVE  EndsOf(contacts[i]) \intersect EndsOf(contacts[j]) = {}
  <2>1. IslandOf(contacts, roots, i) # IslandOf(contacts, roots, j) BY <1>4, <1>6
  <2>2. roots[contacts[i][1]] # roots[contacts[j][1]] BY <2>1 DEF IslandOf
  <2>3. ASSUME NEW body, body \in EndsOf(contacts[i]), body \in EndsOf(contacts[j]) PROVE FALSE
    <3>1. roots[body] = roots[contacts[i][1]] BY <2>3, <1>2 DEF EndsOf
    <3>2. roots[body] = roots[contacts[j][1]] BY <2>3, <1>2 DEF EndsOf
    <3> QED BY <3>1, <3>2, <2>2
  <2> QED BY <2>3
<1> QED BY <1>3, <1>4, <1>5, <1>6 DEF WellClassified, ws

-----------------------------------------------------------------------------
(* One contact *)

LEMMA CanonicalEnds ==
  ASSUME NEW ends \in Contact
  PROVE  /\ Canonical(ends)[1] \in Bodies /\ Canonical(ends)[2] \in Bodies
         /\ Canonical(ends)[1] < Canonical(ends)[2]
         /\ {Canonical(ends)[1], Canonical(ends)[2]} = EndsOf(ends)
<1>1. ends[1] \in Bodies /\ ends[2] \in Bodies /\ ends[1] # ends[2] BY DEF Contact
<1>2. ends[1] \in Int /\ ends[2] \in Int BY <1>1 DEF Bodies
<1>3. /\ Min({ends[1], ends[2]}) = IF ends[1] <= ends[2] THEN ends[1] ELSE ends[2]
      /\ Max({ends[1], ends[2]}) = IF ends[1] <= ends[2] THEN ends[2] ELSE ends[1]
  BY <1>2, MinOfTwo, MaxOfTwo
<1>4. /\ Canonical(ends)[1] = Min({ends[1], ends[2]})
      /\ Canonical(ends)[2] = Max({ends[1], ends[2]})
  BY DEF Canonical
<1> QED BY <1>1, <1>2, <1>3, <1>4 DEF EndsOf

\* The values of the lesser and of the greater body after they have met
Lower(x, y) == IF x <= y THEN x ELSE (x + y) \div 2
Upper(x, y) == IF x <= y THEN y ELSE (x + y) - (x + y) \div 2

Arrays == [Bodies -> Int]

LEMMA HalvesAreNumbers ==
  ASSUME NEW x \in Int, NEW y \in Int
  PROVE  Lower(x, y) \in Int /\ Upper(x, y) \in Int
BY DEF Lower, Upper

LEMMA ProjectAt ==
  ASSUME NEW array \in Arrays, NEW ends \in Contact
  PROVE  LET p == Canonical(ends)[1]
             q == Canonical(ends)[2]
         IN  Project(array, ends) =
               [body \in Bodies |-> IF body = p THEN Lower(array[p], array[q])
                                    ELSE IF body = q THEN Upper(array[p], array[q])
                                    ELSE array[body]]
<1> DEFINE p == Canonical(ends)[1]
           q == Canonical(ends)[2]
<1>1. p \in Bodies /\ q \in Bodies /\ p # q
  <2>1. p \in Int /\ q \in Int BY CanonicalEnds DEF Bodies
  <2> QED BY <2>1, CanonicalEnds
<1>2. array[p] \in Int /\ array[q] \in Int BY <1>1 DEF Arrays
<1>3. Project(array, ends) =
        IF array[p] <= array[q] THEN array
        ELSE [array EXCEPT ![p] = (array[p] + array[q]) \div 2,
                           ![q] = (array[p] + array[q]) - (array[p] + array[q]) \div 2]
  BY DEF Project, Half
<1> HIDE DEF p, q
<1>4. CASE array[p] <= array[q]
  BY <1>1, <1>3, <1>4 DEF Lower, Upper, Arrays, p, q
<1>5. CASE ~(array[p] <= array[q])
  BY <1>1, <1>3, <1>5 DEF Lower, Upper, Arrays, p, q
<1> QED BY <1>4, <1>5

LEMMA ProjectKeepsType ==
  ASSUME NEW array \in Arrays, NEW ends \in Contact
  PROVE  Project(array, ends) \in Arrays
<1> DEFINE p == Canonical(ends)[1]
           q == Canonical(ends)[2]
<1>1. array[p] \in Int /\ array[q] \in Int BY CanonicalEnds DEF Arrays
<1>2. Lower(array[p], array[q]) \in Int /\ Upper(array[p], array[q]) \in Int
  BY <1>1, HalvesAreNumbers
<1> QED BY <1>2, ProjectAt DEF Arrays

\* Two contacts that share no body are projected in either order.
LEMMA ProjectionsCommute ==
  ASSUME NEW array \in Arrays, NEW c \in Contact, NEW d \in Contact,
         EndsOf(c) \intersect EndsOf(d) = {}
  PROVE  /\ Project(Project(array, c), d) = Project(Project(array, d), c)
         /\ Adjusts(Project(array, c), d) = Adjusts(array, d)
<1> DEFINE p == Canonical(c)[1]
           q == Canonical(c)[2]
           r == Canonical(d)[1]
           s == Canonical(d)[2]
           byC == Project(array, c)
           byD == Project(array, d)
<1>1. p \in Bodies /\ q \in Bodies /\ r \in Bodies /\ s \in Bodies BY CanonicalEnds
<1>2. p # r /\ p # s /\ q # r /\ q # s
  <2>1. {p, q} = EndsOf(c) /\ {r, s} = EndsOf(d) BY CanonicalEnds
  <2> HIDE DEF p, q, r, s
  <2> QED BY <2>1
<1>3. byC \in Arrays /\ byD \in Arrays BY ProjectKeepsType
<1>4. byC = [body \in Bodies |-> IF body = p THEN Lower(array[p], array[q])
                                 ELSE IF body = q THEN Upper(array[p], array[q])
                                 ELSE array[body]]
  BY ProjectAt
<1>5. byD = [body \in Bodies |-> IF body = r THEN Lower(array[r], array[s])
                                 ELSE IF body = s THEN Upper(array[r], array[s])
                                 ELSE array[body]]
  BY ProjectAt
<1>6. Project(byC, d) = [body \in Bodies |-> IF body = r THEN Lower(byC[r], byC[s])
                                             ELSE IF body = s THEN Upper(byC[r], byC[s])
                                             ELSE byC[body]]
  <2> HIDE DEF byC
  <2> QED BY <1>3, ProjectAt
<1>7. Project(byD, c) = [body \in Bodies |-> IF body = p THEN Lower(byD[p], byD[q])
                                             ELSE IF body = q THEN Upper(byD[p], byD[q])
                                             ELSE byD[body]]
  <2> HIDE DEF byD
  <2> QED BY <1>3, ProjectAt
<1>8. Adjusts(byC, d) = (byC[r] > byC[s]) /\ Adjusts(array, d) = (array[r] > array[s])
  BY DEF Adjusts
<1> HIDE DEF p, q, r, s, byC, byD
<1>9. byC[r] = array[r] /\ byC[s] = array[s] /\ byD[p] = array[p] /\ byD[q] = array[q]
  BY <1>1, <1>2, <1>4, <1>5
<1>10. ASSUME NEW body \in Bodies PROVE Project(byC, d)[body] = Project(byD, c)[body]
  BY <1>1, <1>2, <1>4, <1>5, <1>6, <1>7, <1>9
<1>11. Project(byC, d) = Project(byD, c)
  <2>1. Project(byC, d) \in [Bodies -> Int] /\ Project(byD, c) \in [Bodies -> Int]
    BY <1>3, ProjectKeepsType DEF Arrays
  <2> QED BY <2>1, <1>10
<1> QED BY <1>8, <1>9, <1>11 DEF byC, byD

-----------------------------------------------------------------------------
(* The projection of a call *)

\* A call that the projections take, with its classified contacts
Callable(c, ws) ==
  /\ c.contacts \in Seq(Contact) /\ c.iterations \in Nat
  /\ WellClassified(c.contacts, ws)

EndsAt(c, ws, turn) == c.contacts[ContactAt(c, ws, turn)]
IslandAt(c, ws, turn) == ws.island[ContactAt(c, ws, turn)]

LEMMA TurnsAreNumbers ==
  ASSUME NEW c, c.contacts \in Seq(Contact), c.iterations \in Nat
  PROVE  Turns(c) \in Nat /\ (Len(c.contacts) = 0 => Turns(c) = 0)
<1>1. \A a, b \in Nat : a * b \in Nat /\ a + b \in Nat OBVIOUS
<1>2. Len(c.contacts) \in Nat /\ MaxColors \in Nat BY PoolAssumption
<1>3. ColorSpan(c) \in Nat BY <1>1, <1>2 DEF ColorSpan
<1>4. ColorSpan(c) * Len(c.contacts) \in Nat BY <1>1, <1>2, <1>3
<1>5. IslandSpan(c) \in Nat BY <1>1, <1>4 DEF IslandSpan
<1>6. Len(c.contacts) * IslandSpan(c) \in Nat BY <1>1, <1>2, <1>5
<1>7. \A a \in Nat : 0 * a = 0 OBVIOUS
<1>8. Len(c.contacts) = 0 => Len(c.contacts) * IslandSpan(c) = 0 BY <1>5, <1>7
<1> QED BY <1>6, <1>8 DEF Turns

\* Every turn has a contact.
LEMMA ContactOfTurn ==
  ASSUME NEW c, NEW ws, Callable(c, ws), NEW turn \in 0..(Turns(c) - 1)
  PROVE  /\ ContactAt(c, ws, turn) \in 1..Len(c.contacts)
         /\ EndsAt(c, ws, turn) \in Contact
         /\ IslandAt(c, ws, turn) \in Nat
<1> DEFINE n == Len(c.contacts)
<1>1. n \in Nat /\ n # 0 /\ turn \in Nat
  <2>1. Turns(c) \in Nat /\ (n = 0 => Turns(c) = 0) BY TurnsAreNumbers DEF Callable
  <2> QED BY <2>1 DEF Callable
<1>2. \A m \in Nat, t \in Nat : m # 0 => (t % m) + 1 \in 1..m OBVIOUS
<1>3. (turn % n) + 1 \in 1..n BY <1>1, <1>2
<1>4. ContactAt(c, ws, turn) \in 1..n
  BY <1>3 DEF ContactAt, Callable, WellClassified
<1> QED BY <1>4 DEF EndsAt, IslandAt, Callable, WellClassified

\* What a turn that projects a contact makes of an array and a count
Runs == [values : Arrays, adjusted : Nat]
Meet(run, ends) ==
  [values |-> Project(run.values, ends),
   adjusted |-> run.adjusted + (IF Adjusts(run.values, ends) THEN 1 ELSE 0)]

LEMMA MeetType ==
  ASSUME NEW run \in Runs, NEW ends \in Contact
  PROVE  Meet(run, ends) \in Runs
<1>1. run.values \in Arrays /\ run.adjusted \in Nat BY DEF Runs
<1>2. Project(run.values, ends) \in Arrays BY <1>1, ProjectKeepsType
<1>3. run.adjusted + (IF Adjusts(run.values, ends) THEN 1 ELSE 0) \in Nat BY <1>1
<1> QED BY <1>2, <1>3 DEF Meet, Runs

LEMMA MeetsCommute ==
  ASSUME NEW run \in Runs, NEW c \in Contact, NEW d \in Contact,
         EndsOf(c) \intersect EndsOf(d) = {}
  PROVE  Meet(Meet(run, c), d) = Meet(Meet(run, d), c)
<1> DEFINE array == run.values
           n == run.adjusted
           a == IF Adjusts(array, c) THEN 1 ELSE 0
           b == IF Adjusts(array, d) THEN 1 ELSE 0
<1>1. array \in Arrays /\ n \in Nat BY DEF Runs
<1>2. EndsOf(d) \intersect EndsOf(c) = {} OBVIOUS
<1> HIDE DEF array, n
<1>3. /\ Project(Project(array, c), d) = Project(Project(array, d), c)
      /\ Adjusts(Project(array, c), d) = Adjusts(array, d)
  BY <1>1, ProjectionsCommute
<1>4. Adjusts(Project(array, d), c) = Adjusts(array, c)
  BY <1>1, <1>2, ProjectionsCommute
<1>5. Meet(run, c) = [values |-> Project(array, c), adjusted |-> n + a]
  BY DEF Meet, array, n
<1>6. Meet(run, d) = [values |-> Project(array, d), adjusted |-> n + b]
  BY DEF Meet, array, n
<1>7. Meet(Meet(run, c), d) = [values |-> Project(Project(array, c), d), adjusted |-> (n + a) + b]
  BY <1>5, <1>3 DEF Meet
<1>8. Meet(Meet(run, d), c) = [values |-> Project(Project(array, d), c), adjusted |-> (n + b) + a]
  BY <1>6, <1>4 DEF Meet
<1>9. (n + a) + b = (n + b) + a BY <1>1
<1> QED BY <1>3, <1>7, <1>8, <1>9

\* The array and the count after each turn, of which some project a contact
RunsThrough(after, c, ws, array, turns) ==
  /\ after \in [0..Turns(c) -> Runs]
  /\ after[0] = [values |-> array, adjusted |-> 0]
  /\ \A k \in 0..(Turns(c) - 1) :
       after[k + 1] = IF k \in turns THEN Meet(after[k], EndsAt(c, ws, k)) ELSE after[k]

LEMMA ProjectedRunsThrough ==
  ASSUME NEW c, NEW ws, Callable(c, ws), NEW array \in Arrays, NEW turns
  PROVE  \E after : /\ RunsThrough(after, c, ws, array, turns)
                    /\ Projected(c, ws, array, turns) = after[Turns(c)]
<1> DEFINE n == Turns(c)
           start == [values |-> array, adjusted |-> 0]
           next(run, k) == IF k - 1 \notin turns THEN run
                           ELSE LET ends == c.contacts[ContactAt(c, ws, k - 1)]
                                IN  [values |-> Project(run.values, ends),
                                     adjusted |-> run.adjusted
                                       + (IF Adjusts(run.values, ends) THEN 1 ELSE 0)]
           Is(f) == f = [k \in 0..n |-> IF k = 0 THEN start ELSE next(f[k - 1], k)]
           after == CHOOSE f : Is(f)
           step == [p \in Runs \X Nat |-> IF p[2] \in 1..n THEN next(p[1], p[2]) ELSE p[1]]
<1>1. n \in Nat BY TurnsAreNumbers DEF Callable
<1>2. Projected(c, ws, array, turns) = after[n] BY DEF Projected
<1>3. ASSUME NEW run, NEW k
      PROVE  next(run, k) = IF k - 1 \in turns THEN Meet(run, EndsAt(c, ws, k - 1)) ELSE run
  BY DEF Meet, EndsAt
<1> HIDE DEF next
<1>4. ASSUME NEW run \in Runs, NEW k \in 1..n PROVE next(run, k) \in Runs
  <2>1. k - 1 \in 0..(n - 1) BY <1>1
  <2>2. EndsAt(c, ws, k - 1) \in Contact BY <2>1, ContactOfTurn
  <2>3. Meet(run, EndsAt(c, ws, k - 1)) \in Runs BY <2>2, MeetType
  <2> QED BY <1>3, <2>3
<1>5. start \in Runs BY DEF Runs
<1> HIDE DEF n, start
<1>6. \A v \in Runs, k \in Nat : step[<<v, k>>] \in Runs
  <2> TAKE v \in Runs, k \in Nat
  <2>1. step[<<v, k>>] = IF k \in 1..n THEN next(v, k) ELSE v OBVIOUS
  <2> QED BY <2>1, <1>4
<1>7. PICK h \in [0..n -> Runs] : Follows(h, n, start, step)
  <2> HIDE DEF step
  <2> QED BY <1>1, <1>5, <1>6, Recursion
<1>8. \A k \in 1..n : h[k] = next(h[k - 1], k)
  <2> TAKE k \in 1..n
  <2>1. h[k - 1] \in Runs /\ k \in Nat BY <1>1
  <2>2. h[k] = step[<<h[k - 1], k>>] BY <1>7 DEF Follows
  <2>3. <<h[k - 1], k>> \in Runs \X Nat BY <2>1
  <2>4. step[<<h[k - 1], k>>] = next(h[k - 1], k) BY <2>3
  <2> QED BY <2>2, <2>4
<1>9. Is(h) BY <1>7, <1>8 DEF Follows
<1> HIDE DEF step, Is
<1>10. Is(after) BY <1>9
<1> HIDE DEF after
<1>11. /\ after = [k \in 0..n |-> IF k = 0 THEN start ELSE next(after[k - 1], k)]
  BY <1>10 DEF Is
<1>12. after[0] = start BY <1>1, <1>11
<1>13. ASSUME NEW k \in 0..(n - 1) PROVE after[k + 1] = next(after[k], k + 1)
  <2>1. k + 1 \in 0..n /\ k + 1 # 0 /\ (k + 1) - 1 = k BY <1>1
  <2> QED BY <1>11, <2>1
<1>14. ASSUME NEW k \in 0..(n - 1)
       PROVE  after[k + 1] = IF k \in turns THEN Meet(after[k], EndsAt(c, ws, k)) ELSE after[k]
  <2>1. (k + 1) - 1 = k BY <1>1
  <2> QED BY <1>13, <1>3, <2>1
<1> DEFINE S == {k \in 0..n : after[k] \in Runs}
<1>15. 0 \in S BY <1>1, <1>12, <1>5
<1>16. \A k \in 0..(n - 1) : k \in S => k + 1 \in S
  <2> SUFFICES ASSUME NEW k \in 0..(n - 1), k \in S PROVE k + 1 \in S OBVIOUS
  <2>1. k + 1 \in 1..n BY <1>1
  <2> QED BY <2>1, <1>13, <1>4
<1> HIDE DEF S
<1>17. \A k \in 0..n : k \in S BY <1>1, <1>15, <1>16, BoundedInduction
<1>18. after \in [0..n -> Runs]
  <2>1. \A k \in 0..n : after[k] \in Runs BY <1>17 DEF S
  <2>2. after = [k \in 0..n |-> after[k]] BY <1>11
  <2> QED BY <2>1, <2>2
<1>19. RunsThrough(after, c, ws, array, turns)
  BY <1>12, <1>14, <1>18 DEF RunsThrough, n, start
<1> QED BY <1>2, <1>19 DEF n

LEMMA ProjectedType ==
  ASSUME NEW c, NEW ws, Callable(c, ws), NEW array \in Arrays, NEW turns
  PROVE  Projected(c, ws, array, turns) \in Runs
<1>1. PICK after : /\ RunsThrough(after, c, ws, array, turns)
                   /\ Projected(c, ws, array, turns) = after[Turns(c)]
  BY ProjectedRunsThrough
<1>2. Turns(c) \in Nat BY TurnsAreNumbers DEF Callable
<1> QED BY <1>1, <1>2 DEF RunsThrough

LEMMA ProjectedNothing ==
  ASSUME NEW c, NEW ws, Callable(c, ws), NEW array \in Arrays
  PROVE  Projected(c, ws, array, {}) = [values |-> array, adjusted |-> 0]
<1>1. PICK after : /\ RunsThrough(after, c, ws, array, {})
                   /\ Projected(c, ws, array, {}) = after[Turns(c)]
  BY ProjectedRunsThrough
<1>2. Turns(c) \in Nat BY TurnsAreNumbers DEF Callable
<1> DEFINE n == Turns(c)
           start == [values |-> array, adjusted |-> 0]
           S == {k \in 0..n : after[k] = start}
<1>3. 0 \in S BY <1>1, <1>2 DEF RunsThrough
<1>4. \A k \in 0..(n - 1) : k \in S => k + 1 \in S
  BY <1>1, <1>2 DEF RunsThrough
<1> HIDE DEF S
<1>5. \A k \in 0..n : k \in S BY <1>2, <1>3, <1>4, BoundedInduction
<1> QED BY <1>1, <1>2, <1>5 DEF S

\* A turn whose island has been projected up to it can as well come last.
LEMMA ProjectedOneMore ==
  ASSUME NEW c, NEW ws, Callable(c, ws), NEW array \in Arrays,
         NEW turns \in SUBSET (0..(Turns(c) - 1)),
         NEW turn \in 0..(Turns(c) - 1), turn \notin turns,
         \A t \in turns : IslandAt(c, ws, t) = IslandAt(c, ws, turn) => t < turn
  PROVE  Projected(c, ws, array, turns \union {turn})
           = Meet(Projected(c, ws, array, turns), EndsAt(c, ws, turn))
<1> DEFINE n == Turns(c)
           more == turns \union {turn}
           last == EndsAt(c, ws, turn)
<1>1. PICK A : /\ RunsThrough(A, c, ws, array, turns)
               /\ Projected(c, ws, array, turns) = A[n]
  BY ProjectedRunsThrough
<1>2. PICK B : /\ RunsThrough(B, c, ws, array, more)
               /\ Projected(c, ws, array, more) = B[n]
  BY ProjectedRunsThrough
<1>3. n \in Nat /\ turn \in 0..(n - 1) BY TurnsAreNumbers DEF Callable
<1>4. last \in Contact BY ContactOfTurn
<1> DEFINE S == {k \in 0..n : B[k] = IF k <= turn THEN A[k] ELSE Meet(A[k], last)}
<1>5. 0 \in S BY <1>1, <1>2, <1>3 DEF RunsThrough
<1>6. ASSUME NEW k \in 0..(n - 1), k \in S PROVE k + 1 \in S
  <2>1. k \in 0..n /\ k + 1 \in 0..n /\ k \in Nat BY <1>3
  <2>2. A[k] \in Runs BY <2>1, <1>1 DEF RunsThrough
  <2>3. A[k + 1] = IF k \in turns THEN Meet(A[k], EndsAt(c, ws, k)) ELSE A[k]
    BY <1>1 DEF RunsThrough
  <2>4. B[k + 1] = IF k \in more THEN Meet(B[k], EndsAt(c, ws, k)) ELSE B[k]
    BY <1>2 DEF RunsThrough
  <2>5. B[k] = IF k <= turn THEN A[k] ELSE Meet(A[k], last) BY <1>6
  <2> HIDE DEF S, n, last
  <2>6. CASE k < turn
    <3>1. k + 1 <= turn /\ k # turn BY <2>6, <2>1, <1>3
    <3>2. B[k + 1] = A[k + 1] BY <2>3, <2>4, <2>5, <2>6, <3>1
    <3> QED BY <3>1, <3>2, <2>1 DEF S
  <2>7. CASE k = turn
    <3>1. ~(k + 1 <= turn) /\ k <= turn BY <2>7, <2>1, <1>3
    <3>2. B[k + 1] = Meet(A[k], last) BY <2>4, <2>5, <2>7, <3>1 DEF last
    <3>3. A[k + 1] = A[k] BY <2>3, <2>7
    <3> QED BY <3>1, <3>2, <3>3, <2>1 DEF S
  <2>8. CASE k > turn
    <3>1. ~(k + 1 <= turn) /\ ~(k <= turn) /\ k # turn BY <2>8, <2>1, <1>3
    <3>2. CASE k \notin turns
      <4>1. A[k + 1] = A[k] /\ B[k + 1] = B[k] BY <2>3, <2>4, <3>1, <3>2
      <4> QED BY <4>1, <2>5, <3>1, <2>1 DEF S
    <3>3. CASE k \in turns
      <4>1. A[k + 1] = Meet(A[k], EndsAt(c, ws, k)) BY <2>3, <3>3
      <4>2. B[k + 1] = Meet(Meet(A[k], last), EndsAt(c, ws, k)) BY <2>4, <2>5, <3>1, <3>3
      <4>3. IslandAt(c, ws, k) # IslandAt(c, ws, turn)
        BY <3>3, <2>8, <2>1, <1>3
      <4>4. k \in 0..(Turns(c) - 1) BY DEF n
      <4>5. /\ ContactAt(c, ws, k) \in 1..Len(c.contacts)
            /\ EndsAt(c, ws, k) \in Contact
        BY <4>4, ContactOfTurn
      <4>6. ContactAt(c, ws, turn) \in 1..Len(c.contacts)
        BY ContactOfTurn
      <4>7. EndsOf(last) \intersect EndsOf(EndsAt(c, ws, k)) = {}
        BY <4>3, <4>5, <4>6 DEF Callable, WellClassified, IslandAt, EndsAt, last
      <4>8. Meet(Meet(A[k], last), EndsAt(c, ws, k)) = Meet(Meet(A[k], EndsAt(c, ws, k)), last)
        BY <4>5, <4>7, <2>2, <1>4, MeetsCommute
      <4>9. B[k + 1] = Meet(A[k + 1], last) BY <4>1, <4>2, <4>8
      <4> QED BY <4>9, <3>1, <2>1 DEF S
    <3> QED BY <3>2, <3>3
  <2> QED BY <2>6, <2>7, <2>8, <2>1, <1>3
<1>7. n \in S
  <2>1. \A k \in 0..(n - 1) : k \in S => k + 1 \in S BY <1>6
  <2> HIDE DEF S, n
  <2>2. \A k \in 0..n : k \in S BY <1>3, <1>5, <2>1, BoundedInduction
  <2> QED BY <1>3, <2>2
<1>8. B[n] = Meet(A[n], last)
  <2>1. B[n] = IF n <= turn THEN A[n] ELSE Meet(A[n], last) BY <1>7
  <2> QED BY <2>1, <1>3
<1> QED BY <1>1, <1>2, <1>8

-----------------------------------------------------------------------------
(* The shares of a call *)

LEMMA LeastOfSet ==
  ASSUME NEW S, S \subseteq Nat, S # {}
  PROVE  Min(S) \in S /\ \A y \in S : Min(S) <= y
<1>1. PICK x \in S : \A y \in S : x <= y BY LeastNumber
<1> QED BY <1>1 DEF Min

LEMMA CallsAreCallable ==
  ASSUME NEW c \in Calls
  PROVE  /\ Callable(c, Classify(c.contacts))
         /\ c.values \in Arrays /\ c # NoCall /\ c.pooled \in BOOLEAN /\ c.workers \in Nat
<1>1. /\ c.contacts \in Seq(Contact) /\ c.values \in [Bodies -> Int] /\ c.iterations \in Nat \ {0}
      /\ c.workers \in Nat /\ c.pooled \in BOOLEAN
  BY PoolAssumption
<1>2. NoCall.iterations = 0 BY DEF NoCall
<1>3. c # NoCall BY <1>1, <1>2
<1>4. WellClassified(c.contacts, Classify(c.contacts)) BY <1>1, IslandsShareNoBody
<1> QED BY <1>1, <1>3, <1>4 DEF Callable, Arrays

LEMMA WorkersOfCall ==
  ASSUME NEW c, NEW ws, Callable(c, ws), c.pooled \in BOOLEAN, c.workers \in Nat
  PROVE  /\ WorkersOf(c, ws) \in Nat \ {0}
         /\ c.pooled => WorkersOf(c, ws) <= PoolThreads
<1> DEFINE all == {ws.island[i] : i \in DOMAIN c.contacts}
           islands == Cardinality(all)
           fewer == Min({c.workers, islands})
           wanted == Max({1, fewer})
<1>1. islands \in Nat
  <2> DEFINE first == [i \in DOMAIN c.contacts |-> ws.island[i]]
  <2>1. DOMAIN c.contacts = 1..Len(c.contacts) /\ Len(c.contacts) \in Nat
    BY DEF Callable
  <2>2. IsFiniteSet(DOMAIN c.contacts) BY <2>1, FS_Interval
  <2>3. all = {first[i] : i \in DOMAIN c.contacts} BY Zenon
  <2>4. first \in Surjection(DOMAIN c.contacts, all)
    <3> HIDE DEF all
    <3>1. \A j \in DOMAIN c.contacts : first[j] \in all BY <2>3
    <3>2. \A r \in all : \E j \in DOMAIN c.contacts : first[j] = r BY <2>3
    <3> QED BY <3>1, <3>2 DEF Surjection
  <2> HIDE DEF all, first
  <2>5. IsFiniteSet(all) BY <2>2, <2>4, FS_Surjection
  <2> QED BY <2>5, FS_CardinalityType
<1>2. /\ fewer = IF c.workers <= islands THEN c.workers ELSE islands
      /\ fewer \in Nat
  <2> HIDE DEF islands
  <2> QED BY <1>1, MinOfTwo
<1>3. wanted \in Nat \ {0}
  <2> HIDE DEF fewer
  <2>1. wanted = IF 1 <= fewer THEN fewer ELSE 1 BY <1>2, MaxOfTwo
  <2> QED BY <1>2, <2>1
<1>4. PoolThreads \in Nat \ {0} BY PoolAssumption
<1>5. WorkersOf(c, ws) = IF c.pooled THEN Min({wanted, PoolThreads}) ELSE wanted
  BY DEF WorkersOf
<1> HIDE DEF wanted
<1>6. Min({wanted, PoolThreads}) = IF wanted <= PoolThreads THEN wanted ELSE PoolThreads
  BY <1>3, <1>4, MinOfTwo
<1> QED BY <1>3, <1>4, <1>5, <1>6

\* Every turn of the work is in one share.
LEMMA ShareOfTurn ==
  ASSUME NEW c, NEW ws, Callable(c, ws), NEW n \in Nat \ {0}
  PROVE  /\ Work(c, ws) \subseteq 0..(Turns(c) - 1)
         /\ \A k : Share(c, ws, k, n) \subseteq Work(c, ws)
         /\ \A turn \in Work(c, ws) :
              /\ IslandAt(c, ws, turn) % n \in 0..(n - 1)
              /\ \A k : turn \in Share(c, ws, k, n) <=> k = IslandAt(c, ws, turn) % n
<1>1. Work(c, ws) \subseteq 0..(Turns(c) - 1) BY DEF Work
<1>2. \A k : Share(c, ws, k, n) \subseteq Work(c, ws) BY DEF Share
<1>3. ASSUME NEW turn \in Work(c, ws)
      PROVE  /\ IslandAt(c, ws, turn) % n \in 0..(n - 1)
             /\ \A k : turn \in Share(c, ws, k, n) <=> k = IslandAt(c, ws, turn) % n
  <2>1. IslandAt(c, ws, turn) \in Nat BY <1>1, ContactOfTurn
  <2>2. IslandAt(c, ws, turn) % n \in 0..(n - 1) BY <2>1
  <2> QED BY <2>2 DEF Share, IslandAt
<1> QED BY <1>1, <1>2, <1>3

\* The turns no share has left
DoneBut(c, ws, left, n) == {turn \in Work(c, ws) : \A k \in 0..(n - 1) : turn \notin left[k]}

LEMMA NothingDone ==
  ASSUME NEW c, NEW ws, Callable(c, ws), NEW n \in Nat \ {0}, NEW left,
         \A k \in 0..(n - 1) : left[k] = Share(c, ws, k, n)
  PROVE  DoneBut(c, ws, left, n) = {}
BY ShareOfTurn DEF DoneBut

LEMMA AllDone ==
  ASSUME NEW c, NEW ws, NEW n, NEW left, \A k \in 0..(n - 1) : left[k] = {}
  PROVE  DoneBut(c, ws, left, n) = Work(c, ws)
BY DEF DoneBut

\* A turn is taken from what is left of one share.
Within(c, ws, left, n) == \A j \in 0..(n - 1) : left[j] \subseteq Share(c, ws, j, n)
TakenFrom(left, after, k, turn, n) ==
  /\ turn \in left[k] /\ after[k] = left[k] \ {turn}
  /\ \A j \in 0..(n - 1) : j # k => after[j] = left[j]

LEMMA OneMoreDone ==
  ASSUME NEW c, NEW ws, Callable(c, ws), NEW n \in Nat \ {0}, NEW left, NEW after,
         NEW k \in 0..(n - 1), NEW turn,
         Within(c, ws, left, n), TakenFrom(left, after, k, turn, n)
  PROVE  /\ turn \in Work(c, ws) /\ turn \notin DoneBut(c, ws, left, n)
         /\ DoneBut(c, ws, after, n) = DoneBut(c, ws, left, n) \union {turn}
<1> USE DEF Within, TakenFrom
<1>1. turn \in Share(c, ws, k, n) /\ turn \in Work(c, ws) BY ShareOfTurn
<1>2. turn \notin DoneBut(c, ws, left, n) BY DEF DoneBut
<1>3. \A j \in 0..(n - 1) : j # k => turn \notin left[j]
  <2>1. \A j \in 0..(n - 1) : turn \in Share(c, ws, j, n) => j = k BY <1>1, ShareOfTurn
  <2> QED BY <2>1
<1>4. \A j \in 0..(n - 1) : turn \notin after[j] BY <1>3
<1>5. \A t : t # turn => \A j \in 0..(n - 1) : t \in after[j] <=> t \in left[j] OBVIOUS
<1>6. ASSUME NEW t
      PROVE  t \in DoneBut(c, ws, after, n) <=> t \in DoneBut(c, ws, left, n) \union {turn}
  BY <1>1, <1>4, <1>5 DEF DoneBut
<1> QED BY <1>1, <1>2, <1>6

-----------------------------------------------------------------------------
(* The sum of what the workers report *)

\* The sums of the first counts
Sums(sum, counts, n) ==
  sum \in [0..n -> Nat] /\ sum[0] = 0 /\ \A k \in 0..(n - 1) : sum[k + 1] = sum[k] + counts[k]

LEMMA TotalSums ==
  ASSUME NEW n \in Nat, NEW counts, \A k \in 0..(n - 1) : counts[k] \in Nat
  PROVE  \E sum : Sums(sum, counts, n) /\ Total(counts, n) = sum[n]
<1> DEFINE Is(f) == f = [k \in 0..n |-> IF k = 0 THEN 0 ELSE f[k - 1] + counts[k - 1]]
           sum == CHOOSE f : Is(f)
           step == [p \in Nat \X Nat |-> IF p[2] \in 1..n THEN p[1] + counts[p[2] - 1] ELSE p[1]]
<1>1. Total(counts, n) = sum[n] BY DEF Total
<1>2. \A v \in Nat, k \in Nat : step[<<v, k>>] \in Nat
  <2> TAKE v \in Nat, k \in Nat
  <2>1. step[<<v, k>>] = IF k \in 1..n THEN v + counts[k - 1] ELSE v OBVIOUS
  <2>2. k \in 1..n => counts[k - 1] \in Nat OBVIOUS
  <2> HIDE DEF step
  <2> QED BY <2>1, <2>2
<1>3. PICK h \in [0..n -> Nat] : Follows(h, n, 0, step)
  <2> HIDE DEF step
  <2>1. 0 \in Nat OBVIOUS
  <2> QED BY <1>2, <2>1, Recursion
<1>4. \A k \in 1..n : h[k] = h[k - 1] + counts[k - 1]
  <2> TAKE k \in 1..n
  <2>1. h[k - 1] \in Nat /\ k \in Nat OBVIOUS
  <2>2. h[k] = step[<<h[k - 1], k>>] BY <1>3 DEF Follows
  <2>3. <<h[k - 1], k>> \in Nat \X Nat BY <2>1
  <2>4. step[<<h[k - 1], k>>] = h[k - 1] + counts[k - 1] BY <2>1, <2>3
  <2> QED BY <2>2, <2>4
<1>5. h[0] = 0 BY <1>3 DEF Follows
<1>6. \A k \in 0..n : h[k] = IF k = 0 THEN 0 ELSE h[k - 1] + counts[k - 1]
  <2> TAKE k \in 0..n
  <2>1. CASE k = 0 BY <2>1, <1>5
  <2>2. CASE k # 0
    <3>1. k \in 1..n BY <2>2
    <3> QED BY <3>1, <2>2, <1>4
  <2> QED BY <2>1, <2>2
<1>7. Is(h) BY <1>6
<1> HIDE DEF Is
<1>8. Is(sum) BY <1>7
<1>9. sum = [k \in 0..n |-> IF k = 0 THEN 0 ELSE sum[k - 1] + counts[k - 1]] BY <1>8 DEF Is
<1> HIDE DEF sum, step
<1>10. sum[0] = 0 /\ \A k \in 0..(n - 1) : sum[k + 1] = sum[k] + counts[k]
  <2>1. sum[0] = 0 BY <1>9
  <2>2. ASSUME NEW k \in 0..(n - 1) PROVE sum[k + 1] = sum[k] + counts[k]
    <3>1. k + 1 \in 0..n /\ k + 1 # 0 /\ (k + 1) - 1 = k OBVIOUS
    <3> QED BY <3>1, <1>9
  <2> QED BY <2>1, <2>2
<1>11. \A k \in 0..n : sum[k] \in Nat
  <2> DEFINE S == {k \in 0..n : sum[k] \in Nat}
  <2>1. 0 \in S BY <1>10
  <2>2. ASSUME NEW k \in 0..(n - 1), k \in S PROVE k + 1 \in S
    <3>1. sum[k] \in Nat /\ counts[k] \in Nat BY <2>2
    <3>2. sum[k + 1] = sum[k] + counts[k] BY <1>10
    <3>3. k + 1 \in 0..n OBVIOUS
    <3> QED BY <3>1, <3>2, <3>3
  <2> HIDE DEF S
  <2>3. \A k \in 0..n : k \in S BY <2>1, <2>2, BoundedInduction
  <2> QED BY <2>3 DEF S
<1>12. sum \in [0..n -> Nat] BY <1>9, <1>11
<1>13. Sums(sum, counts, n) BY <1>10, <1>12 DEF Sums
<1> QED BY <1>1, <1>13

LEMMA TotalOfNothing ==
  ASSUME NEW n \in Nat, NEW counts, \A k \in 0..(n - 1) : counts[k] = 0
  PROVE  Total(counts, n) = 0
<1>0. \A k \in 0..(n - 1) : counts[k] \in Nat OBVIOUS
<1>1. PICK sum : Sums(sum, counts, n) /\ Total(counts, n) = sum[n]
  BY <1>0, TotalSums
<1> DEFINE S == {k \in 0..n : sum[k] = 0}
<1>2. 0 \in S BY <1>1 DEF Sums
<1>3. \A k \in 0..(n - 1) : k \in S => k + 1 \in S BY <1>1 DEF Sums
<1> HIDE DEF S
<1>4. \A k \in 0..n : k \in S BY <1>2, <1>3, BoundedInduction
<1> QED BY <1>1, <1>4 DEF S

\* One count more by d: the sum more by d
Numbers(counts, n) == \A k \in 0..(n - 1) : counts[k] \in Nat
AddedTo(counts, more, j, d, n) ==
  /\ more[j] = counts[j] + d
  /\ \A k \in 0..(n - 1) : k # j => more[k] = counts[k]

LEMMA TotalOfOneMore ==
  ASSUME NEW n \in Nat, NEW counts, NEW more, NEW j \in 0..(n - 1), NEW d \in Nat,
         Numbers(counts, n), AddedTo(counts, more, j, d, n)
  PROVE  Total(more, n) = Total(counts, n) + d
<1> USE DEF Numbers, AddedTo
<1>1. PICK A : Sums(A, counts, n) /\ Total(counts, n) = A[n]
  BY TotalSums
<1>2. \A k \in 0..(n - 1) : more[k] \in Nat OBVIOUS
<1>3. PICK B : Sums(B, more, n) /\ Total(more, n) = B[n]
  BY <1>2, TotalSums
<1> DEFINE S == {k \in 0..n : B[k] = IF k <= j THEN A[k] ELSE A[k] + d}
<1>4. 0 \in S BY <1>1, <1>3 DEF Sums
<1>5. ASSUME NEW k \in 0..(n - 1), k \in S PROVE k + 1 \in S
  <2>1. k \in Nat /\ j \in Nat /\ k \in 0..n /\ k + 1 \in 0..n OBVIOUS
  <2>2. A[k] \in Nat /\ counts[k] \in Nat /\ A[k + 1] = A[k] + counts[k] BY <1>1, <2>1 DEF Sums
  <2>3. B[k + 1] = B[k] + more[k] BY <1>3 DEF Sums
  <2>4. B[k] = IF k <= j THEN A[k] ELSE A[k] + d BY <1>5
  <2>5. CASE k < j BY <2>1, <2>2, <2>3, <2>4, <2>5
  <2>6. CASE k = j BY <2>1, <2>2, <2>3, <2>4, <2>6
  <2>7. CASE k > j BY <2>1, <2>2, <2>3, <2>4, <2>7
  <2> QED BY <2>1, <2>5, <2>6, <2>7
<1>6. \A k \in 0..(n - 1) : k \in S => k + 1 \in S BY <1>5
<1>7. n \in S
  <2> HIDE DEF S
  <2>1. \A k \in 0..n : k \in S BY <1>4, <1>6, BoundedInduction
  <2> QED BY <2>1
<1>8. B[n] = A[n] + d
  <2>1. B[n] = IF n <= j THEN A[n] ELSE A[n] + d BY <1>7
  <2> QED BY <2>1
<1> QED BY <1>1, <1>3, <1>8
-----------------------------------------------------------------------------
(* What a call has done so far *)

\* Each share is done in ascending turns, and the array and the adjustments so
\* far are those of one thread that takes the same turns in order.
Agrees(c, ws, array, n, vals, left, counts) ==
  /\ \A k \in 0..(n - 1) :
       /\ left[k] \subseteq Share(c, ws, k, n) /\ counts[k] \in Nat
       /\ \A t \in Share(c, ws, k, n) \ left[k] : \A u \in left[k] : t < u
  /\ [values |-> vals, adjusted |-> Total(counts, n)]
       = Projected(c, ws, array, DoneBut(c, ws, left, n))

LEMMA AgreesAtFirst ==
  ASSUME NEW c, NEW ws, Callable(c, ws), NEW n \in Nat \ {0}, NEW array \in Arrays,
         NEW left, NEW counts,
         \A k \in 0..(n - 1) : left[k] = Share(c, ws, k, n) /\ counts[k] = 0
  PROVE  Agrees(c, ws, array, n, array, left, counts)
<1>1. DoneBut(c, ws, left, n) = {} BY NothingDone
<1>2. Total(counts, n) = 0 BY TotalOfNothing
<1>3. Projected(c, ws, array, {}) = [values |-> array, adjusted |-> 0] BY ProjectedNothing
<1> QED BY <1>1, <1>2, <1>3 DEF Agrees

LEMMA AgreesAtLast ==
  ASSUME NEW c, NEW ws, NEW n, NEW array, NEW vals, NEW left, NEW counts,
         Agrees(c, ws, array, n, vals, left, counts), \A k \in 0..(n - 1) : left[k] = {}
  PROVE  /\ vals = Sequential(c, ws, array).values
         /\ Total(counts, n) = Sequential(c, ws, array).adjusted
<1>1. DoneBut(c, ws, left, n) = Work(c, ws) BY AllDone
<1>2. [values |-> vals, adjusted |-> Total(counts, n)] = Sequential(c, ws, array)
  BY <1>1 DEF Agrees, Sequential
<1> DEFINE run == Sequential(c, ws, array)
<1>3. run.values = vals /\ run.adjusted = Total(counts, n)
  <2> HIDE DEF run
  <2>1. run = [values |-> vals, adjusted |-> Total(counts, n)] BY <1>2 DEF run
  <2> QED BY <2>1
<1> QED BY <1>3

\* The least turn of what is left of a share
LEMMA AgreesOneMore ==
  ASSUME NEW c, NEW ws, Callable(c, ws), NEW n \in Nat \ {0}, NEW array \in Arrays,
         NEW vals, NEW left, NEW counts, Agrees(c, ws, array, n, vals, left, counts),
         NEW after, NEW more, NEW k \in 0..(n - 1), NEW turn \in left[k],
         \A u \in left[k] : turn <= u,
         after[k] = left[k] \ {turn},
         more[k] = counts[k] + (IF Adjusts(vals, EndsAt(c, ws, turn)) THEN 1 ELSE 0),
         \A j \in 0..(n - 1) : j # k => after[j] = left[j] /\ more[j] = counts[j]
  PROVE  Agrees(c, ws, array, n, Project(vals, EndsAt(c, ws, turn)), after, more)
<1> DEFINE d == IF Adjusts(vals, EndsAt(c, ws, turn)) THEN 1 ELSE 0
           done == DoneBut(c, ws, left, n)
           ends == EndsAt(c, ws, turn)
<1>1. /\ \A j \in 0..(n - 1) : left[j] \subseteq Share(c, ws, j, n) /\ counts[j] \in Nat
      /\ \A j \in 0..(n - 1) : \A t \in Share(c, ws, j, n) \ left[j] : \A u \in left[j] : t < u
      /\ [values |-> vals, adjusted |-> Total(counts, n)] = Projected(c, ws, array, done)
  BY DEF Agrees
<1>2. /\ turn \in Work(c, ws) /\ turn \notin done
      /\ DoneBut(c, ws, after, n) = done \union {turn}
  <2>1. Within(c, ws, left, n) BY <1>1 DEF Within
  <2>2. TakenFrom(left, after, k, turn, n) BY DEF TakenFrom
  <2> QED BY <2>1, <2>2, OneMoreDone
<1>3. Work(c, ws) \subseteq 0..(Turns(c) - 1) BY ShareOfTurn
<1>4. done \in SUBSET (0..(Turns(c) - 1)) BY <1>3 DEF DoneBut
<1>5. turn \in 0..(Turns(c) - 1) /\ turn \in Share(c, ws, k, n) BY <1>1, <1>2, <1>3
<1>6. \A t \in done : IslandAt(c, ws, t) = IslandAt(c, ws, turn) => t < turn
  <2> SUFFICES ASSUME NEW t \in done, IslandAt(c, ws, t) = IslandAt(c, ws, turn) PROVE t < turn
    OBVIOUS
  <2>1. t \in Work(c, ws) /\ t \notin left[k] BY DEF DoneBut
  <2>2. k = IslandAt(c, ws, turn) % n BY <1>5, <1>2, ShareOfTurn
  <2>3. t \in Share(c, ws, k, n) BY <2>1, <2>2, ShareOfTurn
  <2> QED BY <2>1, <2>3, <1>1
<1>7. Projected(c, ws, array, done \union {turn}) = Meet(Projected(c, ws, array, done), ends)
  <2> HIDE DEF done
  <2> QED BY <1>2, <1>4, <1>5, <1>6, ProjectedOneMore
<1>8. Total(more, n) = Total(counts, n) + d
  <2>1. d \in Nat OBVIOUS
  <2>2. Numbers(counts, n) BY <1>1 DEF Numbers
  <2>3. AddedTo(counts, more, k, d, n) BY DEF AddedTo
  <2> HIDE DEF d
  <2> QED BY <2>1, <2>2, <2>3, TotalOfOneMore
<1>9. Meet([values |-> vals, adjusted |-> Total(counts, n)], ends)
        = [values |-> Project(vals, ends), adjusted |-> Total(counts, n) + d]
  BY DEF Meet
<1>10. [values |-> Project(vals, ends), adjusted |-> Total(more, n)]
         = Projected(c, ws, array, DoneBut(c, ws, after, n))
  <2> HIDE DEF done, ends, d
  <2> QED BY <1>1, <1>2, <1>7, <1>8, <1>9
<1>11. ASSUME NEW j \in 0..(n - 1)
       PROVE  /\ after[j] \subseteq Share(c, ws, j, n) /\ more[j] \in Nat
              /\ \A t \in Share(c, ws, j, n) \ after[j] : \A u \in after[j] : t < u
  <2>1. CASE j # k BY <2>1, <1>1
  <2>2. CASE j = k
    <3>1. after[k] \subseteq Share(c, ws, k, n) BY <1>1
    <3>2. d \in Nat OBVIOUS
    <3>3. more[k] \in Nat BY <1>1, <3>2
    <3>4. ASSUME NEW t \in Share(c, ws, k, n) \ after[k], NEW u \in after[k] PROVE t < u
      <4>1. u \in left[k] /\ u # turn OBVIOUS
      <4>2. CASE t = turn
        <5>0. u \in Share(c, ws, k, n) BY <1>1, <4>1
        <5>1. u \in 0..(Turns(c) - 1) BY <5>0, <1>3, ShareOfTurn
        <5>2. turn <= u BY <4>1
        <5> QED BY <5>1, <5>2, <1>5, <4>1, <4>2
      <4>3. CASE t # turn
        <5>1. t \in Share(c, ws, k, n) \ left[k] BY <4>3
        <5> QED BY <5>1, <4>1, <1>1
      <4> QED BY <4>2, <4>3
    <3> QED BY <2>2, <3>1, <3>3, <3>4
  <2> QED BY <2>1, <2>2
<1> QED BY <1>10, <1>11 DEF Agrees

-----------------------------------------------------------------------------
(* The threads of a pool and of a call *)

Active == caller \in {"notify", "wait", "asleep"}
Spawning == caller \in {"spawn", "joinThreads"}
InCall == Active \/ Spawning
Busy(w) == worker[w] \in {"run", "report"}

\* The call under way: its workers, what each of them is given, who does a
\* share, and whether that thread has begun
Shares == WorkersOf(call, workspace)
Task == [call |-> call, workspace |-> workspace, workers |-> Shares]
Owner(k) == ThreadOf(call, k)
Started(w) == IF call.pooled THEN observed[w] = generation ELSE worker[w] # "none"

\* What is left of each share, and what has been adjusted of it
Left == [k \in 0..(Shares - 1) |-> IF Started(Owner(k)) THEN todo[Owner(k)]
                                   ELSE Share(call, workspace, k, Shares)]
Counted == [k \in 0..(Shares - 1) |-> IF Started(Owner(k)) THEN count[Owner(k)] ELSE 0]

Tasks == {NoJob} \union [call : Calls, workspace : {Classify(c.contacts) : c \in Calls},
                         workers : Nat]

PoolTyped ==
  /\ caller \in {"idle", "notify", "wait", "asleep", "spawn", "joinThreads", "stop", "join", "gone"}
  /\ stopping \in BOOLEAN /\ generation \in Nat /\ completed \in Nat
  /\ job \in Tasks /\ local \in [AllThreads -> Tasks]
  /\ worker \in [AllThreads -> {"top", "asleep", "run", "report", "exited", "none"}]
  /\ observed \in [AllThreads -> Nat]
  /\ todo \in [AllThreads -> SUBSET Nat]
  /\ count \in [AllThreads -> Nat] /\ stats \in [AllThreads -> Nat]

\* The call under way is one of the calls, classified.
CallKept ==
  /\ call # NoCall => /\ call \in Calls /\ workspace = Classify(call.contacts)
                      /\ before = call.values /\ Shares <= MaxWorkers
  /\ InCall => call # NoCall /\ values \in Arrays

\* Its job stays that of the pool until every worker has reported.
JobKept ==
  /\ Active => call.pooled /\ job = Task
  /\ stopping <=> caller \in {"stop", "join", "gone"}

\* A thread of the pool is busy with the job of this generation only, and every
\* worker of the last job has seen it when the dispatch has returned.
PoolKept ==
  \A w \in Threads :
    /\ worker[w] # "none" /\ observed[w] <= generation
    /\ Busy(w) => Active /\ observed[w] = generation /\ w < job.workers /\ local[w] = job
    /\ ~stopping /\ ~Active /\ w < job.workers => observed[w] = generation

\* completed counts the workers that have seen this generation and are through.
Finished == {w \in Threads : w < job.workers /\ observed[w] = generation /\ ~Busy(w)}
CompletedCounts == Active => completed = Cardinality(Finished)

\* The threads made for a call: made from the second on, then the first, and
\* none of them outlives the call.
SpawnedKept ==
  /\ Spawning => ~call.pooled
  /\ \A k \in 0..(MaxWorkers - 1) :
       /\ worker[Spawned(k)] \in {"none", "run", "exited"}
       /\ ~Spawning \/ k >= Shares => worker[Spawned(k)] = "none"
       /\ worker[Spawned(k)] = "run" => local[Spawned(k)] = Task
       /\ caller = "spawn" /\ k = 0 => worker[Spawned(k)] = "none"
       /\ caller = "joinThreads" /\ k < Shares => worker[Spawned(k)] # "none"

\* A thread that is through has nothing left and has reported.
Reported ==
  InCall =>
    \A k \in 0..(Shares - 1) :
      Started(Owner(k)) /\ worker[Owner(k)] # "run" =>
        todo[Owner(k)] = {} /\ stats[Owner(k)] = count[Owner(k)]

\* The array is what one thread would have made of the turns already done.
HalfWay == InCall => Agrees(call, workspace, before, Shares, values, Left, Counted)

\* The inductive invariant of the pool, the threads made for a call and the caller
PoolInvariant ==
  /\ PoolTyped /\ CallKept /\ JobKept /\ PoolKept /\ CompletedCounts /\ SpawnedKept
  /\ Reported /\ HalfWay /\ ReturnIsComplete

-----------------------------------------------------------------------------
(* The threads and the shares they own *)

LEMMA ThreadNumbers ==
  /\ MaxWorkers \in Nat \ {0} /\ PoolThreads \in Nat \ {0} /\ PoolThreads <= MaxWorkers
  /\ Threads = 0..(PoolThreads - 1) /\ AllThreads = 0..(PoolThreads + MaxWorkers - 1)
  /\ Threads \subseteq AllThreads /\ IsFiniteSet(Threads)
  /\ \A k \in 0..(MaxWorkers - 1) : Spawned(k) \in AllThreads /\ Spawned(k) \notin Threads
  /\ \A w \in AllThreads : w \notin Threads => \E k \in 0..(MaxWorkers - 1) : w = Spawned(k)
<1>1. MaxWorkers \in Nat \ {0} /\ PoolThreads \in 1..MaxWorkers BY PoolAssumption
<1>2. Threads = 0..(PoolThreads - 1) /\ AllThreads = 0..(PoolThreads + MaxWorkers - 1)
  BY DEF Threads, AllThreads
<1>3. IsFiniteSet(Threads) BY <1>1, <1>2, FS_Interval
<1>4. \A k \in 0..(MaxWorkers - 1) : Spawned(k) \in AllThreads /\ Spawned(k) \notin Threads
  BY <1>1, <1>2 DEF Spawned
<1>5. ASSUME NEW w \in AllThreads, w \notin Threads
      PROVE  \E k \in 0..(MaxWorkers - 1) : w = Spawned(k)
  <2>1. w - PoolThreads \in 0..(MaxWorkers - 1) /\ w = PoolThreads + (w - PoolThreads)
    BY <1>1, <1>2, <1>5
  <2> QED BY <2>1 DEF Spawned
<1>6. Threads \subseteq AllThreads BY <1>1, <1>2
<1> QED BY <1>1, <1>2, <1>3, <1>4, <1>5, <1>6

\* The call under way, its workers and its threads
LEMMA CallUnderWay ==
  ASSUME CallKept, JobKept, SpawnedKept, InCall
  PROVE  /\ call \in Calls /\ Callable(call, workspace) /\ before \in Arrays /\ values \in Arrays
         /\ Shares \in Nat \ {0} /\ Shares <= MaxWorkers /\ Task \in Tasks
         /\ call.pooled \in BOOLEAN /\ call.pooled <=> Active
         /\ call.pooled => Shares <= PoolThreads
<1>1. /\ call \in Calls /\ workspace = Classify(call.contacts) /\ before = call.values
      /\ Shares <= MaxWorkers /\ values \in Arrays
  BY DEF CallKept
<1>2. /\ Callable(call, workspace) /\ call.values \in Arrays
      /\ call.pooled \in BOOLEAN /\ call.workers \in Nat
  BY <1>1, CallsAreCallable
<1>3. Shares \in Nat \ {0} /\ (call.pooled => Shares <= PoolThreads)
  BY <1>2, WorkersOfCall DEF Shares
<1>4. call.pooled <=> Active
  <2>1. Active => ~Spawning BY DEF Active, Spawning
  <2> QED BY <2>1 DEF JobKept, SpawnedKept, InCall
<1>5. Task \in Tasks BY <1>1, <1>3 DEF Task, Tasks
<1> QED BY <1>1, <1>2, <1>3, <1>4, <1>5

LEMMA OwnersOfShares ==
  ASSUME CallKept, JobKept, SpawnedKept, InCall
  PROVE  \A k \in 0..(Shares - 1) :
           /\ Owner(k) \in AllThreads
           /\ Active => Owner(k) = k /\ k \in Threads
           /\ Spawning => Owner(k) = Spawned(k) /\ k \in 0..(MaxWorkers - 1)
<1>1. /\ Shares \in Nat \ {0} /\ Shares <= MaxWorkers /\ (call.pooled <=> Active)
      /\ call.pooled => Shares <= PoolThreads
  BY CallUnderWay
<1>2. TAKE k \in 0..(Shares - 1)
<1>3. k \in 0..(MaxWorkers - 1) BY <1>1, ThreadNumbers
<1>4. Active => Owner(k) = k /\ k \in Threads
  BY <1>1, ThreadNumbers DEF Owner, ThreadOf
<1>5. Spawning => Owner(k) = Spawned(k)
  <2>1. Spawning => ~Active BY DEF Active, Spawning
  <2> QED BY <1>1, <2>1 DEF Owner, ThreadOf
<1> QED BY <1>3, <1>4, <1>5, ThreadNumbers DEF InCall

\* A thread that is busy does a share of the call under way.
LEMMA BusyThread ==
  ASSUME PoolTyped, CallKept, JobKept, PoolKept, SpawnedKept, NEW w \in AllThreads, Busy(w)
  PROVE  /\ InCall /\ local[w] = Task
         /\ \E k \in 0..(Shares - 1) : w = Owner(k) /\ Started(w)
         /\ w \in Threads => Active /\ w < job.workers /\ observed[w] = generation
         /\ w \notin Threads => Spawning /\ worker[w] = "run"
<1>1. CASE w \in Threads
  <2>1. Active /\ observed[w] = generation /\ w < job.workers /\ local[w] = job
    BY <1>1 DEF PoolKept
  <2>2. InCall BY <2>1 DEF InCall
  <2>3. job = Task /\ call.pooled BY <2>1 DEF JobKept
  <2>4. job.workers = Shares BY <2>3 DEF Task
  <2>5. Shares \in Nat BY <2>2, CallUnderWay
  <2>6. w \in 0..(Shares - 1) BY <1>1, <2>1, <2>4, <2>5, ThreadNumbers
  <2>7. w = Owner(w) /\ Started(w) BY <2>1, <2>3 DEF Owner, ThreadOf, Started
  <2> QED BY <1>1, <2>1, <2>2, <2>3, <2>6, <2>7
<1>2. CASE w \notin Threads
  <2>1. PICK k \in 0..(MaxWorkers - 1) : w = Spawned(k) BY <1>2, ThreadNumbers
  <2>2. worker[w] \in {"none", "run", "exited"} BY <2>1 DEF SpawnedKept
  <2>3. worker[w] = "run" BY <2>2 DEF Busy
  <2>4. Spawning /\ ~(k >= Shares) /\ local[w] = Task BY <2>1, <2>3 DEF SpawnedKept
  <2>5. InCall BY <2>4 DEF InCall
  <2>6. Shares \in Nat /\ ~call.pooled
    BY <2>5, <2>4, CallUnderWay DEF SpawnedKept
  <2>7. k \in 0..(Shares - 1) BY <2>4, <2>6
  <2>8. w = Owner(k) /\ Started(w) BY <2>1, <2>3, <2>6 DEF Owner, ThreadOf, Started
  <2> QED BY <1>2, <2>3, <2>4, <2>5, <2>7, <2>8
<1> QED BY <1>1, <1>2

\* Nobody projects anything while no call is under way.
LEMMA NobodyBusy ==
  ASSUME PoolTyped, CallKept, JobKept, PoolKept, SpawnedKept, ~InCall
  PROVE  \A w \in AllThreads : ~Busy(w)
BY BusyThread

\* Two shares have two owners.
LEMMA OneShareEach ==
  ASSUME CallKept, JobKept, SpawnedKept, InCall,
         NEW j \in 0..(Shares - 1), NEW k \in 0..(Shares - 1), Owner(j) = Owner(k)
  PROVE  j = k
<1>1. Shares \in Nat BY CallUnderWay
<1>2. Active \/ Spawning BY DEF InCall
<1>3. CASE Active BY <1>3, OwnersOfShares
<1>4. CASE Spawning
  <2>1. Spawned(j) = Spawned(k) BY <1>4, OwnersOfShares
  <2>2. PoolThreads \in Nat BY ThreadNumbers
  <2> QED BY <2>1, <2>2, <1>1 DEF Spawned
<1> QED BY <1>2, <1>3, <1>4

-----------------------------------------------------------------------------
(* Steps that project nothing *)

\* What a thread has left and has counted stays, or it begins with its share.
Stays(k) ==
  \/ /\ Started(Owner(k)) /\ Started(Owner(k))'
     /\ todo'[Owner(k)] = todo[Owner(k)] /\ count'[Owner(k)] = count[Owner(k)]
  \/ ~Started(Owner(k)) /\ ~Started(Owner(k))'
  \/ /\ ~Started(Owner(k)) /\ Started(Owner(k))'
     /\ todo'[Owner(k)] = Share(call, workspace, k, Shares) /\ count'[Owner(k)] = 0

LEMMA NothingProjected ==
  ASSUME HalfWay, UNCHANGED <<values, call, workspace, before>>, InCall' => InCall,
         InCall' => \A k \in 0..(Shares - 1) : Stays(k)
  PROVE  HalfWay'
<1> SUFFICES ASSUME InCall' PROVE Agrees(call, workspace, before, Shares, values, Left, Counted)'
  BY DEF HalfWay
<1>1. Agrees(call, workspace, before, Shares, values, Left, Counted) BY DEF HalfWay
<1>2. Shares' = Shares /\ \A k : Owner(k)' = Owner(k) BY DEF Shares, Owner
<1>3. \A k \in 0..(Shares - 1) :
        /\ (IF Started(Owner(k)) THEN todo[Owner(k)] ELSE Share(call, workspace, k, Shares))'
             = IF Started(Owner(k)) THEN todo[Owner(k)] ELSE Share(call, workspace, k, Shares)
        /\ (IF Started(Owner(k)) THEN count[Owner(k)] ELSE 0)'
             = IF Started(Owner(k)) THEN count[Owner(k)] ELSE 0
  <2> TAKE k \in 0..(Shares - 1)
  <2>1. Stays(k) OBVIOUS
  <2>2. Share(call, workspace, k, Shares)' = Share(call, workspace, k, Shares) BY <1>2
  <2> QED BY <1>2, <2>1, <2>2 DEF Stays
<1>4. Left' = Left BY <1>2, <1>3 DEF Left
<1>5. Counted' = Counted BY <1>2, <1>3 DEF Counted
<1> QED BY <1>1, <1>2, <1>4, <1>5

\* Nothing changes for a call that has returned.
LEMMA StillReturned ==
  ASSUME ReturnIsComplete, UNCHANGED <<values, call, workspace, before, stats>>,
         caller' = "idle" => /\ caller = "idle"
                             /\ \A w \in AllThreads : worker'[w] \notin {"run", "report"}
  PROVE  ReturnIsComplete'
BY DEF ReturnIsComplete

-----------------------------------------------------------------------------
(* A call begins *)

\* No thread has begun when the call begins.
LEMMA BeginsAnew ==
  ASSUME NEW c \in Calls, Begin(c),
         \A k \in 0..(Shares' - 1) : ~Started(Owner(k))'
  PROVE  HalfWay' /\ Reported'
<1> DEFINE ws == Classify(c.contacts)
           n == WorkersOf(c, ws)
<1>1. call' = c /\ workspace' = ws /\ values' = c.values /\ before' = c.values BY DEF Begin
<1>2. /\ Callable(c, ws) /\ c.values \in Arrays /\ c.pooled \in BOOLEAN /\ c.workers \in Nat
  BY CallsAreCallable
<1> HIDE DEF ws
<1>3. n \in Nat \ {0} BY <1>2, WorkersOfCall
<1>4. Shares' = n BY <1>1 DEF Shares
<1>5. Left' = [k \in 0..(n - 1) |-> IF Started(Owner(k))' THEN todo'[Owner(k)'] ELSE Share(c, ws, k, n)]
  BY <1>1, <1>4 DEF Left
<1>6. Counted' = [k \in 0..(n - 1) |-> IF Started(Owner(k))' THEN count'[Owner(k)'] ELSE 0]
  BY <1>4 DEF Counted
<1> HIDE DEF n
<1>7. \A k \in 0..(n - 1) : Left'[k] = Share(c, ws, k, n) /\ Counted'[k] = 0
  BY <1>4, <1>5, <1>6
<1>8. Agrees(c, ws, c.values, n, c.values, Left', Counted')
  BY <1>2, <1>3, <1>7, AgreesAtFirst
<1>9. HalfWay' BY <1>1, <1>4, <1>8 DEF HalfWay
<1>10. Reported' BY DEF Reported
<1> QED BY <1>9, <1>10

LEMMA BeginTypes ==
  ASSUME PoolInvariant, NEW c \in Calls, Begin(c)
  PROVE  /\ ~InCall /\ ~stopping /\ \A w \in AllThreads : ~Busy(w)
         /\ \A k \in 0..(MaxWorkers - 1) : worker[Spawned(k)] = "none"
         /\ call' = c /\ workspace' = Classify(c.contacts) /\ values' = c.values /\ before' = c.values
         /\ c # NoCall /\ c.values \in Arrays /\ Callable(c, workspace')
         /\ Shares' = WorkersOf(c, workspace') /\ Shares' \in Nat \ {0} /\ Shares' <= MaxWorkers
         /\ c.pooled => Shares' <= PoolThreads
         /\ Task' \in Tasks
<1>1. caller = "idle" BY DEF Begin
<1>2. ~InCall /\ ~Spawning BY <1>1 DEF InCall, Active, Spawning
<1>3. ~stopping BY <1>1 DEF PoolInvariant, JobKept
<1>4. \A w \in AllThreads : ~Busy(w) BY <1>2, NobodyBusy DEF PoolInvariant
<1>5. \A k \in 0..(MaxWorkers - 1) : worker[Spawned(k)] = "none"
  BY <1>2 DEF PoolInvariant, SpawnedKept
<1>6. call' = c /\ workspace' = Classify(c.contacts) /\ values' = c.values /\ before' = c.values
  BY DEF Begin
<1>7. /\ Callable(c, workspace') /\ c.values \in Arrays /\ c # NoCall
      /\ c.pooled \in BOOLEAN /\ c.workers \in Nat
  BY <1>6, CallsAreCallable
<1>8. Shares' = WorkersOf(c, workspace') BY <1>6 DEF Shares
<1>9. Shares' \in Nat \ {0} /\ (c.pooled => Shares' <= PoolThreads)
  BY <1>7, <1>8, WorkersOfCall
<1>10. Shares' <= MaxWorkers BY <1>6, <1>8 DEF Begin
<1>11. Task' = [call |-> c, workspace |-> Classify(c.contacts), workers |-> Shares']
  BY <1>6 DEF Task
<1>12. Task' \in Tasks BY <1>9, <1>11 DEF Tasks
<1> QED BY <1>2, <1>3, <1>4, <1>5, <1>6, <1>7, <1>8, <1>9, <1>10, <1>12

LEMMA DispatchKeeps ==
  ASSUME PoolInvariant, NEW c \in Calls, Dispatch(c)
  PROVE  PoolInvariant'
<1>1. Begin(c) /\ c.pooled BY DEF Dispatch
<1>2. /\ ~InCall /\ ~stopping /\ \A w \in AllThreads : ~Busy(w)
      /\ \A k \in 0..(MaxWorkers - 1) : worker[Spawned(k)] = "none"
      /\ call' = c /\ workspace' = Classify(c.contacts) /\ values' = c.values /\ before' = c.values
      /\ c # NoCall /\ c.values \in Arrays /\ Shares' = WorkersOf(c, workspace')
      /\ Shares' \in Nat \ {0} /\ Shares' <= MaxWorkers /\ Shares' <= PoolThreads /\ Task' \in Tasks
  BY <1>1, BeginTypes
<1>3. /\ job' = [call |-> c, workspace |-> workspace', workers |-> WorkersOf(c, workspace')]
      /\ completed' = 0 /\ generation' = generation + 1 /\ caller' = "notify"
      /\ stats' = [w \in AllThreads |-> IF w < job'.workers THEN 0 ELSE stats[w]]
      /\ UNCHANGED <<stopping, worker, observed, local, todo, count>>
  BY DEF Dispatch
<1>4. PoolTyped /\ PoolKept BY DEF PoolInvariant
<1>5. job' = Task' BY <1>2, <1>3 DEF Task
<1>6. Active' /\ InCall' /\ ~Spawning' BY <1>3 DEF Active, InCall, Spawning
<1>7. PoolTyped'
  <2>1. generation' \in Nat BY <1>3, <1>4 DEF PoolTyped
  <2>2. stats' \in [AllThreads -> Nat] BY <1>3, <1>4 DEF PoolTyped
  <2>3. job' \in Tasks BY <1>2, <1>5
  <2> QED BY <1>3, <1>4, <2>1, <2>2, <2>3 DEF PoolTyped
<1>8. CallKept' BY <1>2 DEF CallKept
<1>9. JobKept' BY <1>1, <1>2, <1>3, <1>5 DEF JobKept
<1>10. \A w \in Threads : observed[w] \in Nat /\ observed[w] <= generation /\ ~Busy(w)
  BY <1>2, <1>4, ThreadNumbers DEF PoolTyped, PoolKept
<1>11. \A w \in Threads : ~Busy(w)' /\ observed'[w] # generation' /\ observed'[w] <= generation'
  BY <1>3, <1>4, <1>10 DEF Busy, PoolTyped
<1>12. PoolKept'
  <2>1. \A w \in Threads : worker'[w] # "none" BY <1>3, <1>4 DEF PoolKept
  <2> QED BY <1>6, <1>11, <2>1 DEF PoolKept
<1>13. CompletedCounts'
  <2>1. Finished' = {} BY <1>11 DEF Finished
  <2>2. Cardinality({}) = 0 BY FS_EmptySet
  <2> QED BY <1>3, <2>1, <2>2 DEF CompletedCounts
<1>14. SpawnedKept' BY <1>2, <1>3, <1>6 DEF SpawnedKept
<1>15. \A k \in 0..(Shares' - 1) : ~Started(Owner(k))'
  <2> TAKE k \in 0..(Shares' - 1)
  <2>1. Owner(k)' = k BY <1>1, <1>2 DEF Owner, ThreadOf
  <2>2. k \in Threads BY <1>2, ThreadNumbers
  <2> QED BY <1>1, <1>2, <2>1, <2>2, <1>11 DEF Started
<1>16. HalfWay' /\ Reported' BY <1>1, <1>15, BeginsAnew
<1>17. ReturnIsComplete' BY <1>3 DEF ReturnIsComplete
<1> QED BY <1>7, <1>8, <1>9, <1>12, <1>13, <1>14, <1>16, <1>17 DEF PoolInvariant

LEMMA CallThreadsKeeps ==
  ASSUME PoolInvariant, NEW c \in Calls, CallThreads(c)
  PROVE  PoolInvariant'
<1>1. Begin(c) /\ ~c.pooled BY DEF CallThreads
<1>2. /\ ~InCall /\ ~stopping /\ \A w \in AllThreads : ~Busy(w)
      /\ \A k \in 0..(MaxWorkers - 1) : worker[Spawned(k)] = "none"
      /\ call' = c /\ workspace' = Classify(c.contacts) /\ values' = c.values /\ before' = c.values
      /\ c # NoCall /\ c.values \in Arrays /\ Shares' = WorkersOf(c, workspace')
      /\ Shares' \in Nat \ {0} /\ Shares' <= MaxWorkers
  BY <1>1, BeginTypes
<1>3. /\ stats' = [w \in AllThreads |-> IF w \in Threads THEN stats[w] ELSE 0]
      /\ caller' = "spawn"
      /\ UNCHANGED <<pool, worker, observed, local, todo, count>>
  BY DEF CallThreads
<1>4. PoolTyped /\ PoolKept /\ SpawnedKept BY DEF PoolInvariant
<1>5. ~Active /\ ~Active' /\ Spawning' BY <1>2, <1>3 DEF Active, InCall, Spawning
<1>6. PoolTyped' BY <1>3, <1>4 DEF PoolTyped, pool
<1>7. CallKept' BY <1>2 DEF CallKept
<1>8. JobKept' BY <1>2, <1>3, <1>5 DEF JobKept, pool
<1>9. PoolKept' BY <1>3, <1>4, <1>5 DEF PoolKept, Busy, pool
<1>10. CompletedCounts' BY <1>5 DEF CompletedCounts
<1>11. SpawnedKept' BY <1>1, <1>2, <1>3 DEF SpawnedKept
<1>12. \A k \in 0..(Shares' - 1) : ~Started(Owner(k))'
  <2> TAKE k \in 0..(Shares' - 1)
  <2>1. Owner(k)' = Spawned(k) BY <1>1, <1>2 DEF Owner, ThreadOf
  <2>2. k \in 0..(MaxWorkers - 1) BY <1>2, ThreadNumbers
  <2> QED BY <1>1, <1>2, <1>3, <2>1, <2>2 DEF Started
<1>13. HalfWay' /\ Reported' BY <1>1, <1>12, BeginsAnew
<1>14. ReturnIsComplete' BY <1>3 DEF ReturnIsComplete
<1> QED BY <1>6, <1>7, <1>8, <1>9, <1>10, <1>11, <1>13, <1>14 DEF PoolInvariant

-----------------------------------------------------------------------------
(* Threads sleep and wake *)

\* Only threads that do nothing go on to do nothing.
OnlySleeps ==
  /\ UNCHANGED <<values, call, workspace, before, pool, observed, local, todo, count, stats>>
  /\ worker' \in [AllThreads -> {"top", "asleep", "run", "report", "exited", "none"}]
  /\ \A w \in AllThreads :
       \/ worker'[w] = worker[w]
       \/ w \in Threads /\ worker[w] \in {"top", "asleep"} /\ worker'[w] \in {"top", "asleep", "exited"}
  /\ \/ caller' = caller
     \/ <<caller, caller'>> \in {<<"notify", "wait">>, <<"wait", "asleep">>, <<"asleep", "wait">>,
                                 <<"stop", "join">>, <<"join", "gone">>}

LEMMA SleepKeeps ==
  ASSUME PoolInvariant, OnlySleeps
  PROVE  PoolInvariant'
<1> USE DEF PoolInvariant
<1>1. /\ UNCHANGED <<values, call, workspace, before, pool, observed, local, todo, count, stats>>
      /\ UNCHANGED <<generation, completed, job, stopping>>
  BY DEF OnlySleeps, pool
<1>2. /\ (Active' <=> Active) /\ (InCall' <=> InCall) /\ (Spawning' <=> Spawning)
      /\ (caller' = "idle" <=> caller = "idle")
      /\ (caller' = "spawn" <=> caller = "spawn") /\ (caller' = "joinThreads" <=> caller = "joinThreads")
      /\ (caller' \in {"stop", "join", "gone"} <=> caller \in {"stop", "join", "gone"})
      /\ caller' \in {"idle", "notify", "wait", "asleep", "spawn", "joinThreads", "stop", "join", "gone"}
  BY DEF OnlySleeps, Active, InCall, Spawning, PoolTyped
<1>3. \A w \in AllThreads :
        /\ (Busy(w)' <=> Busy(w)) /\ (worker'[w] = "run" <=> worker[w] = "run")
        /\ (worker'[w] = "none" <=> worker[w] = "none")
        /\ w \notin Threads => worker'[w] = worker[w]
  BY DEF OnlySleeps, Busy
<1>4. Task' = Task /\ Shares' = Shares /\ \A j : Owner(j)' = Owner(j)
  BY <1>1 DEF Task, Shares, Owner
<1>5. PoolTyped' BY <1>1, <1>2 DEF PoolTyped, OnlySleeps
<1>6. CallKept' BY <1>1, <1>2, <1>4 DEF CallKept
<1>7. JobKept' BY <1>1, <1>2, <1>4 DEF JobKept
<1>8. PoolKept' BY <1>1, <1>2, <1>3, ThreadNumbers DEF PoolKept
<1>9. CompletedCounts'
  <2>1. Finished' = Finished BY <1>1, <1>3, ThreadNumbers DEF Finished
  <2> QED BY <1>1, <1>2, <2>1 DEF CompletedCounts
<1>10. SpawnedKept'
  <2>1. \A k \in 0..(MaxWorkers - 1) : worker'[Spawned(k)] = worker[Spawned(k)]
    BY <1>3, ThreadNumbers
  <2> QED BY <1>1, <1>2, <1>4, <2>1 DEF SpawnedKept
<1>11. \A w \in AllThreads : Started(w)' <=> Started(w) BY <1>1, <1>3 DEF Started
<1>12. Reported'
  <2> SUFFICES ASSUME InCall, NEW j \in 0..(Shares - 1), Started(Owner(j))', worker'[Owner(j)] # "run"
               PROVE  todo'[Owner(j)] = {} /\ stats'[Owner(j)] = count'[Owner(j)]
    BY <1>2, <1>4 DEF Reported
  <2>1. Owner(j) \in AllThreads BY OwnersOfShares
  <2>2. Started(Owner(j)) /\ worker[Owner(j)] # "run" BY <2>1, <1>3, <1>4, <1>11
  <2> QED BY <2>2, <1>1 DEF Reported
<1>13. HalfWay'
  <2>1. ASSUME InCall, NEW j \in 0..(Shares - 1) PROVE Stays(j)
    <3>1. Owner(j) \in AllThreads BY <2>1, OwnersOfShares
    <3>2. Started(Owner(j))' <=> Started(Owner(j)) BY <3>1, <1>4, <1>11
    <3> QED BY <3>2, <1>1 DEF Stays
  <2> QED BY <2>1, <1>1, <1>2, NothingProjected
<1>14. ReturnIsComplete'
  <2>1. caller' = "idle" => \A w \in AllThreads : worker'[w] \notin {"run", "report"}
    <3>1. caller = "idle" => ~InCall BY DEF InCall, Active, Spawning
    <3> QED BY <3>1, <1>2, <1>3, NobodyBusy DEF Busy
  <2> QED BY <2>1, <1>1, <1>2, StillReturned
<1> QED BY <1>5, <1>6, <1>7, <1>8, <1>9, <1>10, <1>12, <1>13, <1>14

LEMMA NotifyStartKeeps ==
  ASSUME PoolInvariant, NotifyStart
  PROVE  PoolInvariant'
<1>1. PoolTyped /\ SpawnedKept BY DEF PoolInvariant
<1>2. \A w \in AllThreads : w \notin Threads => worker[w] # "asleep"
  BY <1>1, ThreadNumbers DEF SpawnedKept
<1>3. worker' = [w \in AllThreads |-> Awake(worker[w])] BY DEF NotifyStart
<1>4. \A w \in AllThreads : worker'[w] = worker[w] \/ (w \in Threads /\ worker[w] = "asleep" /\ worker'[w] = "top")
  BY <1>2, <1>3 DEF Awake
<1>5. worker' \in [AllThreads -> {"top", "asleep", "run", "report", "exited", "none"}]
  BY <1>1, <1>3, <1>4 DEF PoolTyped
<1>6. OnlySleeps BY <1>4, <1>5 DEF OnlySleeps, NotifyStart
<1> QED BY <1>6, SleepKeeps

LEMMA WorkerWaitsKeeps ==
  ASSUME PoolInvariant, NEW w \in Threads, WorkerWaits(w)
  PROVE  PoolInvariant'
<1>1. OnlySleeps BY ThreadNumbers DEF OnlySleeps, WorkerWaits, PoolInvariant, PoolTyped
<1> QED BY <1>1, SleepKeeps

LEMMA SpuriousWakeKeeps ==
  ASSUME PoolInvariant, SpuriousWake
  PROVE  PoolInvariant'
<1>1. OnlySleeps
  BY ThreadNumbers DEF OnlySleeps, SpuriousWake, PoolInvariant, PoolTyped, threads
<1> QED BY <1>1, SleepKeeps

LEMMA JoinedKeeps ==
  ASSUME PoolInvariant, Joined
  PROVE  PoolInvariant'
<1>1. OnlySleeps BY DEF OnlySleeps, Joined, PoolInvariant, PoolTyped, threads
<1> QED BY <1>1, SleepKeeps

LEMMA NothingKeeps ==
  ASSUME PoolInvariant, UNCHANGED runtimeVars
  PROVE  PoolInvariant'
<1>1. OnlySleeps BY DEF OnlySleeps, runtimeVars, PoolInvariant, PoolTyped, threads
<1> QED BY <1>1, SleepKeeps

LEMMA StopKeeps ==
  ASSUME PoolInvariant, Stop
  PROVE  PoolInvariant'
<1> USE DEF PoolInvariant
<1>1. /\ caller = "idle" /\ stopping' = TRUE /\ generation' = generation + 1 /\ caller' = "stop"
      /\ UNCHANGED <<values, call, workspace, before, completed, job, threads, calls>>
  BY DEF Stop
<1>2. ~InCall /\ ~InCall' /\ ~Active' /\ ~Spawning /\ ~Spawning'
  BY <1>1 DEF InCall, Active, Spawning
<1>3. PoolTyped' BY <1>1 DEF PoolTyped, threads
<1>4. CallKept' BY <1>1, <1>2 DEF CallKept, Shares
<1>5. JobKept' BY <1>1, <1>2 DEF JobKept
<1>6. PoolKept'
  <2>1. \A w \in Threads : ~Busy(w)' BY <1>1, <1>2, NobodyBusy, ThreadNumbers DEF Busy, threads
  <2>2. \A w \in Threads : worker'[w] # "none" /\ observed'[w] <= generation'
    <3> TAKE w \in Threads
    <3>1. observed[w] \in Nat /\ generation \in Nat BY ThreadNumbers DEF PoolTyped
    <3>2. worker[w] # "none" /\ observed[w] <= generation BY DEF PoolKept
    <3>3. worker' = worker /\ observed' = observed BY <1>1 DEF threads
    <3> QED BY <1>1, <3>1, <3>2, <3>3
  <2> QED BY <1>1, <2>1, <2>2 DEF PoolKept
<1>7. CompletedCounts' BY <1>2 DEF CompletedCounts
<1>8. SpawnedKept' BY <1>1, <1>2 DEF SpawnedKept, threads
<1>9. Reported' /\ HalfWay' BY <1>2 DEF Reported, HalfWay
<1>10. ReturnIsComplete' BY <1>1 DEF ReturnIsComplete
<1> QED BY <1>3, <1>4, <1>5, <1>6, <1>7, <1>8, <1>9, <1>10

-----------------------------------------------------------------------------
(* A call returns *)

\* The owners of all shares are through.
LEMMA Returns ==
  ASSUME CallKept, JobKept, SpawnedKept, Reported, HalfWay, InCall,
         \A k \in 0..(Shares - 1) : Started(Owner(k)) /\ worker[Owner(k)] # "run",
         UNCHANGED <<values, call, workspace, before, stats>>,
         \A w \in AllThreads : worker'[w] \notin {"run", "report"}
  PROVE  ReturnIsComplete'
<1>1. \A k \in 0..(Shares - 1) : todo[Owner(k)] = {} /\ stats[Owner(k)] = count[Owner(k)]
  BY DEF Reported
<1>2. \A k \in 0..(Shares - 1) : Left[k] = {} BY <1>1 DEF Left
<1>3. Agrees(call, workspace, before, Shares, values, Left, Counted) BY DEF HalfWay
<1>4. /\ values = Sequential(call, workspace, before).values
      /\ Total(Counted, Shares) = Sequential(call, workspace, before).adjusted
  BY <1>2, <1>3, AgreesAtLast
<1>5. Counted = [k \in 0..(Shares - 1) |-> stats[ThreadOf(call, k)]]
  BY <1>1 DEF Counted, Owner
<1>6. Adjustments(call, workspace, stats)
        = Total([k \in 0..(Shares - 1) |-> stats[ThreadOf(call, k)]], Shares)
  BY DEF Adjustments, Shares
<1>7. Adjustments(call, workspace, stats) = Sequential(call, workspace, before).adjusted
  BY <1>4, <1>5, <1>6
<1> QED BY <1>4, <1>7 DEF ReturnIsComplete

LEMMA WaitDoneKeeps ==
  ASSUME PoolInvariant, WaitDone
  PROVE  PoolInvariant'
<1> USE DEF PoolInvariant
<1>1. /\ caller = "wait" /\ caller' = IF completed = job.workers THEN "idle" ELSE "asleep"
      /\ UNCHANGED <<values, call, workspace, before, pool, threads, calls>>
  BY DEF WaitDone
<1>2. Active /\ InCall /\ ~Spawning /\ ~Spawning' BY <1>1 DEF Active, InCall, Spawning
<1>3. job = Task /\ call.pooled /\ ~stopping BY <1>1, <1>2 DEF JobKept
<1>4. job.workers = Shares BY <1>3 DEF Task
<1>5. Shares \in Nat \ {0} /\ Shares <= PoolThreads /\ call.pooled BY <1>2, <1>3, CallUnderWay
<1>6. CASE completed = job.workers
  <2>1. caller' = "idle" /\ ~InCall' /\ ~Active'
    BY <1>1, <1>6 DEF InCall, Active, Spawning
  <2>2. Finished = 0..(Shares - 1)
    <3>1. Finished \subseteq 0..(Shares - 1)
      BY <1>4, <1>5, ThreadNumbers DEF Finished
    <3>2. Cardinality(Finished) = Shares BY <1>2, <1>4, <1>6 DEF CompletedCounts
    <3>3. IsFiniteSet(0..(Shares - 1)) /\ Cardinality(0..(Shares - 1)) = Shares
      BY <1>5, FS_Interval
    <3> QED BY <3>1, <3>2, <3>3, FS_Subset
  <2>3. \A w \in 0..(Shares - 1) : observed[w] = generation /\ ~Busy(w)
    BY <2>2 DEF Finished
  <2>4. \A w \in Threads : ~Busy(w)
    <3> SUFFICES ASSUME NEW w \in Threads, Busy(w) PROVE FALSE OBVIOUS
    <3>1. w < job.workers BY DEF PoolKept
    <3>2. w \in 0..(Shares - 1) BY <3>1, <1>4, <1>5, ThreadNumbers
    <3> QED BY <3>2, <2>3
  <2>5. \A w \in AllThreads : ~Busy(w)
    <3> SUFFICES ASSUME NEW w \in AllThreads, Busy(w) PROVE FALSE OBVIOUS
    <3>1. w \notin Threads BY <2>4
    <3> QED BY <3>1, <1>2, BusyThread
  <2>6. \A k \in 0..(Shares - 1) : Started(Owner(k)) /\ worker[Owner(k)] # "run"
    BY <2>3, <1>2, <1>3, OwnersOfShares DEF Started, Busy
  <2>7. \A w \in AllThreads : worker'[w] \notin {"run", "report"}
    BY <2>5, <1>1 DEF Busy, threads
  <2>8. UNCHANGED <<values, call, workspace, before, stats>> BY <1>1 DEF threads
  <2>9. ReturnIsComplete' BY <2>6, <2>7, <2>8, <1>2, Returns
  <2>10. PoolTyped' BY <1>1, <2>1 DEF PoolTyped, pool, threads
  <2>11. CallKept' BY <1>1, <2>1 DEF CallKept, Shares
  <2>12. JobKept' BY <1>1, <1>3, <2>1 DEF JobKept, pool
  <2>13. PoolKept'
    <3>1. \A w \in Threads : w < job.workers => observed[w] = generation
      BY <2>3, <1>4, <1>5, ThreadNumbers
    <3>2. \A w \in Threads : ~Busy(w)' BY <2>7, ThreadNumbers DEF Busy
    <3> QED BY <1>1, <3>1, <3>2 DEF PoolKept, pool, threads
  <2>14. CompletedCounts' BY <2>1 DEF CompletedCounts
  <2>15. SpawnedKept' BY <1>1, <1>2, <2>1 DEF SpawnedKept, threads
  <2>16. Reported' /\ HalfWay' BY <2>1 DEF Reported, HalfWay
  <2> QED BY <2>9, <2>10, <2>11, <2>12, <2>13, <2>14, <2>15, <2>16
<1>7. CASE completed # job.workers
  <2>1. caller' = "asleep" BY <1>1, <1>7
  <2>2. OnlySleeps BY <1>1, <2>1 DEF OnlySleeps, pool, threads, PoolTyped
  <2> QED BY <2>2, SleepKeeps
<1> QED BY <1>6, <1>7

LEMMA JoinThreadsKeeps ==
  ASSUME PoolInvariant, JoinThreads
  PROVE  PoolInvariant'
<1> USE DEF PoolInvariant
<1>1. /\ caller = "joinThreads" /\ caller' = "idle"
      /\ \A k \in 0..(WorkersOf(call, workspace) - 1) : worker[Spawned(k)] = "exited"
      /\ worker' = [w \in AllThreads |-> IF w \in Threads THEN worker[w] ELSE "none"]
      /\ UNCHANGED <<values, call, workspace, before, pool, observed, local, todo, count, stats, calls>>
  BY DEF JoinThreads
<1>2. Spawning /\ InCall /\ ~Active /\ ~Active' /\ ~InCall' /\ ~Spawning'
  BY <1>1 DEF Active, InCall, Spawning
<1>3. ~call.pooled /\ ~stopping BY <1>1, <1>2 DEF JobKept, SpawnedKept
<1>4. \A k \in 0..(Shares - 1) : Started(Owner(k)) /\ worker[Owner(k)] # "run"
  BY <1>1, <1>2, <1>3, OwnersOfShares DEF Started, Shares
<1>5. \A w \in Threads : worker'[w] = worker[w] /\ ~Busy(w) /\ ~Busy(w)'
  BY <1>1, <1>2, ThreadNumbers DEF PoolKept, Busy
<1>6. \A k \in 0..(MaxWorkers - 1) : worker'[Spawned(k)] = "none" BY <1>1, ThreadNumbers
<1>7. \A w \in AllThreads : worker'[w] \notin {"run", "report"}
  BY <1>1, <1>5, ThreadNumbers DEF Busy
<1>8. ReturnIsComplete' BY <1>1, <1>2, <1>4, <1>7, Returns
<1>9. PoolTyped' BY <1>1 DEF PoolTyped, pool
<1>10. CallKept' BY <1>1, <1>2 DEF CallKept, Shares
<1>11. JobKept' BY <1>1, <1>2, <1>3 DEF JobKept, pool
<1>12. PoolKept' BY <1>1, <1>2, <1>5 DEF PoolKept, pool
<1>13. CompletedCounts' BY <1>2 DEF CompletedCounts
<1>14. SpawnedKept' BY <1>1, <1>2, <1>6 DEF SpawnedKept
<1>15. Reported' /\ HalfWay' BY <1>2 DEF Reported, HalfWay
<1> QED BY <1>8, <1>9, <1>10, <1>11, <1>12, <1>13, <1>14, <1>15

-----------------------------------------------------------------------------
(* Threads begin *)

LEMMA SpawnNextKeeps ==
  ASSUME PoolInvariant, SpawnNext
  PROVE  PoolInvariant'
<1> USE DEF PoolInvariant
<1> DEFINE left == {k \in 1..(Shares - 1) : worker[Spawned(k)] = "none"}
           k == IF left = {} THEN 0 ELSE Min(left)
           w == Spawned(k)
<1>1. /\ caller = "spawn" /\ caller' = IF left = {} THEN "joinThreads" ELSE "spawn"
      /\ Starts(w, Task, k)
      /\ UNCHANGED <<values, call, workspace, before, pool, observed, stats, calls>>
  BY DEF SpawnNext, Task, Shares
<1>2. /\ Spawning /\ InCall /\ ~Active /\ ~Active' /\ InCall' /\ Spawning'
  BY <1>1 DEF Active, InCall, Spawning
<1>3. /\ ~call.pooled /\ ~stopping /\ Shares \in Nat \ {0} /\ Shares <= MaxWorkers /\ Task \in Tasks
      /\ Callable(call, workspace)
  BY <1>1, <1>2, CallUnderWay DEF JobKept, SpawnedKept
<1>4. k \in 0..(Shares - 1) /\ worker[w] = "none"
  <2>1. CASE left = {}
    <3>1. worker[Spawned(0)] = "none" BY <1>1, <1>3, ThreadNumbers DEF SpawnedKept
    <3> QED BY <2>1, <3>1, <1>3
  <2>2. CASE left # {}
    <3>1. left \subseteq Nat OBVIOUS
    <3>2. Min(left) \in left
      <4> HIDE DEF left
      <4> QED BY <2>2, <3>1, LeastOfSet
    <3> QED BY <2>2, <3>2, <1>3
  <2> QED BY <2>1, <2>2
<1>5. left = {} => \A j \in 1..(Shares - 1) : worker[Spawned(j)] # "none" OBVIOUS
<1>6. left # {} => k # 0
  <2> SUFFICES ASSUME left # {} PROVE Min(left) # 0 OBVIOUS
  <2>1. left \subseteq Nat OBVIOUS
  <2>2. Min(left) \in left
    <3> HIDE DEF left
    <3> QED BY <2>1, LeastOfSet
  <2> QED BY <2>2
<1> HIDE DEF k, left
<1>7. w \in AllThreads /\ w \notin Threads /\ k \in 0..(MaxWorkers - 1)
      /\ \A j \in 0..(MaxWorkers - 1) : Spawned(j) = w <=> j = k
  <2>1. k \in 0..(MaxWorkers - 1) BY <1>3, <1>4, ThreadNumbers
  <2>2. \A j \in 0..(MaxWorkers - 1) : Spawned(j) = w <=> j = k
    BY <2>1, ThreadNumbers DEF Spawned
  <2> QED BY <2>1, <2>2, ThreadNumbers
<1> HIDE DEF w
<1>8. /\ worker' = [worker EXCEPT ![w] = "run"] /\ local' = [local EXCEPT ![w] = Task]
      /\ todo' = [todo EXCEPT ![w] = Share(call, workspace, k, Shares)]
      /\ count' = [count EXCEPT ![w] = 0]
  BY <1>1 DEF Starts, Task
<1>9. Share(call, workspace, k, Shares) \subseteq Nat
  <2>1. Share(call, workspace, k, Shares) \subseteq 0..(Turns(call) - 1) BY <1>3, ShareOfTurn
  <2> QED BY <2>1
<1>10. \A j \in 0..(Shares - 1) :
         Owner(j) = Spawned(j) /\ Owner(j) \in AllThreads /\ j \in 0..(MaxWorkers - 1)
  BY <1>2, OwnersOfShares
<1>11. /\ worker'[w] = "run" /\ todo'[w] = Share(call, workspace, k, Shares) /\ count'[w] = 0
       /\ local'[w] = Task
       /\ \A v \in AllThreads : v # w => /\ worker'[v] = worker[v] /\ todo'[v] = todo[v]
                                         /\ count'[v] = count[v] /\ local'[v] = local[v]
  BY <1>7, <1>8 DEF PoolTyped
<1>12. PoolTyped'
  <2>1. worker' \in [AllThreads -> {"top", "asleep", "run", "report", "exited", "none"}]
    BY <1>8 DEF PoolTyped
  <2>2. local' \in [AllThreads -> Tasks] BY <1>3, <1>8 DEF PoolTyped
  <2>3. todo' \in [AllThreads -> SUBSET Nat] BY <1>8, <1>9 DEF PoolTyped
  <2>4. count' \in [AllThreads -> Nat] BY <1>8 DEF PoolTyped
  <2> QED BY <1>1, <2>1, <2>2, <2>3, <2>4 DEF PoolTyped, pool
<1>13. CallKept' BY <1>1, <1>2 DEF CallKept, Shares
<1>14. JobKept' BY <1>1, <1>2, <1>3 DEF JobKept, pool
<1>15. PoolKept' BY <1>1, <1>2, <1>7, <1>11, ThreadNumbers DEF PoolKept, pool, Busy
<1>16. CompletedCounts' BY <1>2 DEF CompletedCounts
<1>17. Task' = Task /\ Shares' = Shares /\ (\A j : Owner(j)' = Owner(j))
       /\ \A v : Started(v)' <=> worker'[v] # "none"
  BY <1>1, <1>3 DEF Task, Shares, Owner, Started
<1>18. SpawnedKept'
  <2>1. ASSUME NEW j \in 0..(MaxWorkers - 1)
        PROVE  /\ worker'[Spawned(j)] \in {"none", "run", "exited"}
               /\ j >= Shares => worker'[Spawned(j)] = "none"
               /\ worker'[Spawned(j)] = "run" => local'[Spawned(j)] = Task
               /\ caller' = "spawn" /\ j = 0 => worker'[Spawned(j)] = "none"
               /\ caller' = "joinThreads" /\ j < Shares => worker'[Spawned(j)] # "none"
    <3>1. Spawned(j) \in AllThreads BY ThreadNumbers
    <3>2. /\ worker[Spawned(j)] \in {"none", "run", "exited"}
          /\ j >= Shares => worker[Spawned(j)] = "none"
          /\ worker[Spawned(j)] = "run" => local[Spawned(j)] = Task
          /\ j = 0 => worker[Spawned(j)] = "none"
      BY <1>1 DEF SpawnedKept
    <3>3. CASE j = k
      <4>1. Spawned(j) = w /\ ~(j >= Shares) BY <3>3, <1>7, <1>4, <1>3
      <4>2. caller' = "spawn" => j # 0 BY <1>1, <1>6, <3>3
      <4> QED BY <4>1, <4>2, <1>11
    <3>4. CASE j # k
      <4>1. Spawned(j) # w BY <3>4, <1>7
      <4>2. caller' = "joinThreads" /\ j < Shares => worker[Spawned(j)] # "none"
        <5> SUFFICES ASSUME caller' = "joinThreads", j < Shares PROVE worker[Spawned(j)] # "none"
          OBVIOUS
        <5>1. left = {} BY <1>1
        <5>2. k = 0 BY <5>1 DEF k
        <5>3. j \in 1..(Shares - 1) BY <5>2, <3>4, <1>3, ThreadNumbers
        <5> QED BY <5>1, <5>3, <1>5
      <4> QED BY <4>1, <4>2, <3>1, <3>2, <1>11
    <3> QED BY <3>3, <3>4
  <2> QED BY <1>2, <1>1, <1>3, <1>17, <2>1 DEF SpawnedKept
<1>19. Reported'
  <2> SUFFICES ASSUME NEW j \in 0..(Shares - 1), worker'[Owner(j)] # "none",
                      worker'[Owner(j)] # "run"
               PROVE  todo'[Owner(j)] = {} /\ stats'[Owner(j)] = count'[Owner(j)]
    BY <1>17 DEF Reported
  <2>1. Owner(j) \in AllThreads BY <1>10
  <2>2. Owner(j) # w BY <1>11
  <2>3. Started(Owner(j)) /\ worker[Owner(j)] # "run" BY <2>1, <2>2, <1>3, <1>11 DEF Started
  <2>4. todo[Owner(j)] = {} /\ stats[Owner(j)] = count[Owner(j)] BY <2>3, <1>2 DEF Reported
  <2> QED BY <2>1, <2>2, <2>4, <1>1, <1>11
<1>20. HalfWay'
  <2>1. \A j \in 0..(Shares - 1) : Stays(j)
    <3> TAKE j \in 0..(Shares - 1)
    <3>1. Owner(j) = Spawned(j) /\ Owner(j) \in AllThreads /\ j \in 0..(MaxWorkers - 1) BY <1>10
    <3>2. CASE j = k
      <4>1. Owner(j) = w BY <3>1, <3>2, <1>7
      <4>2. ~Started(Owner(j)) /\ Started(Owner(j))'
        BY <4>1, <1>4, <1>3, <1>11, <1>17 DEF Started, w
      <4> QED BY <3>2, <4>1, <4>2, <1>11 DEF Stays
    <3>3. CASE j # k
      <4>1. Owner(j) # w BY <3>1, <3>3, <1>7
      <4>2. Started(Owner(j))' <=> Started(Owner(j))
        BY <4>1, <3>1, <1>3, <1>11, <1>17 DEF Started
      <4> QED BY <4>1, <4>2, <3>1, <1>11 DEF Stays
    <3> QED BY <3>2, <3>3
  <2> QED BY <2>1, <1>1, <1>2, NothingProjected
<1>21. ReturnIsComplete' BY <1>1 DEF ReturnIsComplete
<1> QED BY <1>12, <1>13, <1>14, <1>15, <1>16, <1>18, <1>19, <1>20, <1>21

LEMMA WorkerSeesKeeps ==
  ASSUME PoolInvariant, NEW w \in Threads, WorkerSees(w)
  PROVE  PoolInvariant'
<1> USE DEF PoolInvariant
<1>1. /\ worker[w] = "top" /\ ~stopping /\ generation # observed[w]
      /\ observed' = [observed EXCEPT ![w] = generation]
      /\ w < job.workers => Starts(w, job, w)
      /\ ~(w < job.workers) => local' = [local EXCEPT ![w] = job] /\ UNCHANGED <<worker, todo, count>>
      /\ UNCHANGED <<values, call, workspace, before, caller, pool, stats, calls>>
  BY DEF WorkerSees
<1>2. w \in AllThreads /\ Threads \subseteq AllThreads BY ThreadNumbers
<1>3. w < job.workers => Active BY <1>1 DEF PoolKept
<1>4. /\ (Active' <=> Active) /\ (InCall' <=> InCall) /\ (Spawning' <=> Spawning)
      /\ Task' = Task /\ Shares' = Shares /\ \A j : Owner(j)' = Owner(j)
  BY <1>1 DEF Active, InCall, Spawning, Task, Shares, Owner
<1>5. Active => /\ call.pooled /\ job = Task /\ job.workers = Shares /\ Callable(call, workspace)
                /\ Shares \in Nat \ {0} /\ InCall
  BY CallUnderWay DEF JobKept, InCall, Task
<1>6. /\ observed'[w] = generation /\ local'[w] = job
      /\ w < job.workers => /\ worker'[w] = "run" /\ count'[w] = 0
                            /\ todo'[w] = Share(call, workspace, w, Shares)
      /\ ~(w < job.workers) => worker'[w] = "top"
      /\ \A v \in AllThreads : v # w => /\ observed'[v] = observed[v] /\ local'[v] = local[v]
                                        /\ worker'[v] = worker[v] /\ count'[v] = count[v]
                                        /\ todo'[v] = todo[v]
  BY <1>1, <1>2, <1>3, <1>5 DEF PoolTyped, Starts, Task
<1>7. PoolTyped'
  <2>1. observed' \in [AllThreads -> Nat] BY <1>1 DEF PoolTyped
  <2>2. local' \in [AllThreads -> Tasks] BY <1>1 DEF PoolTyped, Starts
  <2>3. worker' \in [AllThreads -> {"top", "asleep", "run", "report", "exited", "none"}]
    BY <1>1 DEF PoolTyped, Starts
  <2>4. count' \in [AllThreads -> Nat] BY <1>1 DEF PoolTyped, Starts
  <2>5. todo' \in [AllThreads -> SUBSET Nat]
    <3>1. CASE w < job.workers
      <4>1. Share(call, workspace, w, Shares) \subseteq 0..(Turns(call) - 1)
        BY <3>1, <1>3, <1>5, ShareOfTurn
      <4>2. Share(call, workspace, w, Shares) \in SUBSET Nat BY <4>1
      <4>3. todo' = [todo EXCEPT ![w] = Share(call, workspace, w, Shares)]
        BY <3>1, <1>1, <1>3, <1>5 DEF Starts, Task
      <4> QED BY <4>2, <4>3 DEF PoolTyped
    <3>2. CASE ~(w < job.workers) BY <3>2, <1>1 DEF PoolTyped
    <3> QED BY <3>1, <3>2
  <2> QED BY <1>1, <2>1, <2>2, <2>3, <2>4, <2>5 DEF PoolTyped, pool
<1>8. CallKept' BY <1>1, <1>4 DEF CallKept
<1>9. JobKept' BY <1>1, <1>4 DEF JobKept, pool
<1>10. PoolKept'
  <2> SUFFICES ASSUME NEW v \in Threads
               PROVE  /\ worker'[v] # "none" /\ observed'[v] <= generation'
                      /\ Busy(v)' => /\ Active' /\ observed'[v] = generation'
                                     /\ v < job'.workers /\ local'[v] = job'
                      /\ ~stopping' /\ ~Active' /\ v < job'.workers => observed'[v] = generation'
    BY DEF PoolKept
  <2>1. generation' = generation /\ job' = job /\ stopping' = stopping BY <1>1 DEF pool
  <2>2. CASE v = w
    <3>1. generation \in Nat BY DEF PoolTyped
    <3>2. Busy(v)' => w < job.workers BY <2>2, <1>6 DEF Busy
    <3> QED BY <2>1, <2>2, <3>1, <3>2, <1>3, <1>4, <1>6
  <2>3. CASE v # w
    <3>1. worker'[v] = worker[v] /\ observed'[v] = observed[v] /\ local'[v] = local[v]
      BY <2>3, <1>2, <1>6
    <3> QED BY <2>1, <3>1, <1>4 DEF PoolKept, Busy
  <2> QED BY <2>2, <2>3
<1>11. CompletedCounts'
  <2> SUFFICES ASSUME Active PROVE completed' = Cardinality(Finished')
    BY <1>4 DEF CompletedCounts
  <2>1. \A v \in Threads : v \in Finished' <=> v \in Finished
    <3> TAKE v \in Threads
    <3>1. generation' = generation /\ job' = job BY <1>1 DEF pool
    <3>2. CASE v = w
      <4>1. v \notin Finished BY <3>2, <1>1 DEF Finished
      <4>2. v \notin Finished' BY <3>1, <3>2, <1>6 DEF Finished, Busy
      <4> QED BY <4>1, <4>2
    <3>3. CASE v # w
      <4>1. worker'[v] = worker[v] /\ observed'[v] = observed[v] BY <3>3, <1>2, <1>6
      <4> QED BY <3>1, <4>1 DEF Finished, Busy
    <3> QED BY <3>2, <3>3
  <2>2. Finished' = Finished BY <2>1 DEF Finished
  <2> QED BY <2>2, <1>1 DEF CompletedCounts, pool
<1>12. SpawnedKept'
  <2>1. \A j \in 0..(MaxWorkers - 1) :
          worker'[Spawned(j)] = worker[Spawned(j)] /\ local'[Spawned(j)] = local[Spawned(j)]
    BY <1>6, ThreadNumbers
  <2> QED BY <2>1, <1>1, <1>4 DEF SpawnedKept
<1>13. Reported'
  <2> SUFFICES ASSUME InCall, NEW j \in 0..(Shares - 1), Started(Owner(j))', worker'[Owner(j)] # "run"
               PROVE  todo'[Owner(j)] = {} /\ stats'[Owner(j)] = count'[Owner(j)]
    BY <1>4 DEF Reported
  <2>1. Owner(j) \in AllThreads BY OwnersOfShares
  <2>2. Owner(j) # w
    <3>1. CASE Active
      <4>1. Owner(j) = j /\ j < job.workers BY <3>1, <1>5, OwnersOfShares
      <4> QED BY <4>1, <1>6
    <3>2. CASE Spawning
      <4>1. Owner(j) \notin Threads BY <3>2, OwnersOfShares, ThreadNumbers
      <4> QED BY <4>1
    <3> QED BY <3>1, <3>2 DEF InCall
  <2>3. Started(Owner(j)) BY <2>1, <2>2, <1>1, <1>4, <1>6 DEF Started, pool
  <2>4. worker[Owner(j)] # "run" BY <2>1, <2>2, <1>6
  <2>5. todo[Owner(j)] = {} /\ stats[Owner(j)] = count[Owner(j)] BY <2>3, <2>4 DEF Reported
  <2> QED BY <2>1, <2>2, <2>5, <1>1, <1>6
<1>14. HalfWay'
  <2>1. ASSUME InCall, NEW j \in 0..(Shares - 1) PROVE Stays(j)
    <3>1. Owner(j) \in AllThreads BY <2>1, OwnersOfShares
    <3>2. CASE Owner(j) = w
      <4>1. ~Spawning BY <3>2, <2>1, OwnersOfShares, ThreadNumbers
      <4>2. Active BY <4>1, <2>1 DEF InCall
      <4>3. j = w /\ w < job.workers BY <4>2, <3>2, <1>5, <2>1, OwnersOfShares
      <4>4. ~Started(w) BY <4>2, <1>1, <1>5 DEF Started
      <4>5. Started(Owner(j))' BY <4>2, <3>2, <1>1, <1>4, <1>5, <1>6 DEF Started, pool
      <4> QED BY <4>3, <4>4, <4>5, <3>2, <1>6 DEF Stays
    <3>3. CASE Owner(j) # w
      <4>1. Started(Owner(j))' <=> Started(Owner(j))
        BY <3>1, <3>3, <1>1, <1>4, <1>6 DEF Started, pool
      <4> QED BY <4>1, <3>1, <3>3, <1>6 DEF Stays
    <3> QED BY <3>2, <3>3
  <2> QED BY <2>1, <1>1, <1>4, NothingProjected
<1>15. ReturnIsComplete'
  <2>1. caller' = "idle" => \A v \in AllThreads : worker'[v] \notin {"run", "report"}
    <3> SUFFICES ASSUME caller' = "idle", NEW v \in AllThreads
                 PROVE  worker'[v] \notin {"run", "report"}
      OBVIOUS
    <3>1. ~InCall /\ ~Active BY <1>1 DEF InCall, Active, Spawning
    <3>2. ~Busy(v) BY <3>1, NobodyBusy
    <3> QED BY <3>1, <3>2, <1>3, <1>6 DEF Busy
  <2> QED BY <2>1, <1>1, StillReturned
<1> QED BY <1>7, <1>8, <1>9, <1>10, <1>11, <1>12, <1>13, <1>14, <1>15

-----------------------------------------------------------------------------
(* Threads project and report *)

LEMMA WorkerProjectKeeps ==
  ASSUME PoolInvariant, NEW w \in AllThreads, WorkerProject(w)
  PROVE  PoolInvariant'
<1> USE DEF PoolInvariant
<1> DEFINE turn == Min(todo[w])
           ends == EndsAt(call, workspace, turn)
           d == IF Adjusts(values, ends) THEN 1 ELSE 0
<1>1. worker[w] = "run" /\ todo[w] # {} /\ Busy(w) BY DEF WorkerProject, Busy
<1>2. InCall /\ local[w] = Task BY <1>1, BusyThread
<1>3. PICK k \in 0..(Shares - 1) : w = Owner(k) /\ Started(w) BY <1>1, BusyThread
<1>4. local[w].call = call /\ local[w].workspace = workspace BY <1>2 DEF Task
<1>5. /\ values' = Project(values, ends)
      /\ count' = [count EXCEPT ![w] = @ + d]
      /\ todo' = [todo EXCEPT ![w] = @ \ {turn}]
      /\ UNCHANGED <<call, workspace, before, caller, pool, worker, observed, local, stats, calls>>
  BY <1>4 DEF WorkerProject, EndsAt
<1>6. /\ Callable(call, workspace) /\ Shares \in Nat \ {0} /\ before \in Arrays /\ values \in Arrays
  BY <1>2, CallUnderWay
<1>7. Agrees(call, workspace, before, Shares, values, Left, Counted) BY <1>2 DEF HalfWay
<1>8. Left[k] = todo[w] /\ Counted[k] = count[w] BY <1>3 DEF Left, Counted
<1>9. turn \in todo[w] /\ \A u \in todo[w] : turn <= u
  <2>1. todo[w] \subseteq Nat BY DEF PoolTyped
  <2> QED BY <2>1, <1>1, LeastOfSet
<1>10. ends \in Contact
  <2>1. Left[k] \subseteq Share(call, workspace, k, Shares) BY <1>7 DEF Agrees
  <2>2. turn \in 0..(Turns(call) - 1) BY <2>1, <1>6, <1>8, <1>9, ShareOfTurn
  <2> HIDE DEF turn
  <2> QED BY <2>2, <1>6, ContactOfTurn
<1>11. values' \in Arrays BY <1>5, <1>6, <1>10, ProjectKeepsType
<1> HIDE DEF turn
<1>12. d \in Nat OBVIOUS
<1>13. count'[w] = count[w] + d /\ todo'[w] = todo[w] \ {turn}
       /\ \A v \in AllThreads : v # w => count'[v] = count[v] /\ todo'[v] = todo[v]
  <2> HIDE DEF d
  <2> QED BY <1>5 DEF PoolTyped
<1>14. /\ (Active' <=> Active) /\ (InCall' <=> InCall) /\ (Spawning' <=> Spawning)
       /\ Task' = Task /\ Shares' = Shares /\ (\A j : Owner(j)' = Owner(j))
       /\ \A v : Started(v)' <=> Started(v)
  BY <1>5 DEF Active, InCall, Spawning, Task, Shares, Owner, Started, pool
<1>15. PoolTyped'
  <2> HIDE DEF d
  <2>1. count' \in [AllThreads -> Nat] BY <1>5, <1>12 DEF PoolTyped
  <2>2. todo' \in [AllThreads -> SUBSET Nat] BY <1>5 DEF PoolTyped
  <2> QED BY <2>1, <2>2, <1>5 DEF PoolTyped, pool
<1>16. CallKept' BY <1>5, <1>11, <1>14 DEF CallKept
<1>17. JobKept' BY <1>5, <1>14 DEF JobKept, pool
<1>18. PoolKept' BY <1>5, <1>14 DEF PoolKept, Busy, pool
<1>19. CompletedCounts'
  <2>1. Finished' = Finished BY <1>5 DEF Finished, Busy, pool
  <2> QED BY <1>5, <1>14, <2>1 DEF CompletedCounts, pool
<1>20. SpawnedKept' BY <1>5, <1>14 DEF SpawnedKept
<1>21. Reported'
  <2> SUFFICES ASSUME NEW j \in 0..(Shares - 1), Started(Owner(j)), worker[Owner(j)] # "run"
               PROVE  todo'[Owner(j)] = {} /\ stats'[Owner(j)] = count'[Owner(j)]
    BY <1>5, <1>14 DEF Reported
  <2>1. Owner(j) \in AllThreads /\ Owner(j) # w BY <1>1, <1>2, OwnersOfShares
  <2>2. todo[Owner(j)] = {} /\ stats[Owner(j)] = count[Owner(j)] BY <1>2 DEF Reported
  <2> QED BY <2>1, <2>2, <1>5, <1>13
<1>22. HalfWay'
  <2>1. Left' = [j \in 0..(Shares - 1) |-> IF Started(Owner(j)) THEN todo'[Owner(j)]
                                           ELSE Share(call, workspace, j, Shares)]
    BY <1>5, <1>14 DEF Left
  <2>2. Counted' = [j \in 0..(Shares - 1) |-> IF Started(Owner(j)) THEN count'[Owner(j)] ELSE 0]
    BY <1>14 DEF Counted
  <2>3. Left'[k] = Left[k] \ {turn} /\ Counted'[k] = Counted[k] + d
    <3> HIDE DEF d
    <3> QED BY <2>1, <2>2, <1>3, <1>8, <1>13
  <2>4. \A j \in 0..(Shares - 1) : j # k => Left'[j] = Left[j] /\ Counted'[j] = Counted[j]
    <3> TAKE j \in 0..(Shares - 1)
    <3> HAVE j # k
    <3>1. Owner(j) # w BY <1>2, <1>3, OneShareEach
    <3>2. Owner(j) \in AllThreads BY <1>2, OwnersOfShares
    <3>3. count'[Owner(j)] = count[Owner(j)] /\ todo'[Owner(j)] = todo[Owner(j)]
      BY <3>1, <3>2, <1>13
    <3> QED BY <3>3, <2>1, <2>2 DEF Left, Counted
  <2>5. turn \in Left[k] /\ \A u \in Left[k] : turn <= u BY <1>8, <1>9
  <2>6. Agrees(call, workspace, before, Shares, Project(values, EndsAt(call, workspace, turn)),
               Left', Counted')
    BY <1>6, <1>7, <2>3, <2>4, <2>5, AgreesOneMore
  <2> QED BY <2>6, <1>5, <1>14 DEF HalfWay
<1>23. ReturnIsComplete' BY <1>2, <1>14 DEF ReturnIsComplete, InCall, Active, Spawning
<1> QED BY <1>15, <1>16, <1>17, <1>18, <1>19, <1>20, <1>21, <1>22, <1>23

LEMMA WorkerReportKeeps ==
  ASSUME PoolInvariant, NEW w \in AllThreads, WorkerReport(w)
  PROVE  PoolInvariant'
<1> USE DEF PoolInvariant
<1>1. /\ worker[w] = "run" /\ todo[w] = {} /\ Busy(w)
      /\ stats' = [stats EXCEPT ![w] = count[w]]
      /\ worker' = [worker EXCEPT ![w] = IF w \in Threads THEN "report" ELSE "exited"]
      /\ UNCHANGED <<values, call, workspace, before, caller, pool, observed, local, todo, count, calls>>
  BY DEF WorkerReport, Busy
<1>2. InCall /\ (w \in Threads => Active) /\ (w \notin Threads => Spawning)
  BY <1>1, BusyThread
<1>3. /\ stats'[w] = count[w] /\ worker'[w] = IF w \in Threads THEN "report" ELSE "exited"
      /\ \A v \in AllThreads : v # w => stats'[v] = stats[v] /\ worker'[v] = worker[v]
  BY <1>1 DEF PoolTyped
<1>4. /\ (Active' <=> Active) /\ (InCall' <=> InCall) /\ (Spawning' <=> Spawning)
      /\ Task' = Task /\ Shares' = Shares /\ (\A j : Owner(j)' = Owner(j))
      /\ \A v \in AllThreads : Started(v)' <=> Started(v)
  BY <1>1, <1>3 DEF Active, InCall, Spawning, Task, Shares, Owner, Started, pool
<1>5. PoolTyped' BY <1>1 DEF PoolTyped, pool
<1>6. CallKept' BY <1>1, <1>4 DEF CallKept
<1>7. JobKept' BY <1>1, <1>4 DEF JobKept, pool
<1>8. \A v \in Threads : (Busy(v)' <=> Busy(v)) /\ worker'[v] # "none"
  <2> TAKE v \in Threads
  <2>1. worker[v] # "none" /\ v \in AllThreads BY ThreadNumbers DEF PoolKept
  <2> QED BY <2>1, <1>1, <1>3 DEF Busy
<1>9. PoolKept' BY <1>1, <1>4, <1>8 DEF PoolKept, pool
<1>10. CompletedCounts'
  <2>1. Finished' = Finished BY <1>1, <1>8 DEF Finished, pool
  <2> QED BY <1>1, <1>4, <2>1 DEF CompletedCounts, pool
<1>11. SpawnedKept'
  <2>1. \A k \in 0..(MaxWorkers - 1) :
          \/ worker'[Spawned(k)] = worker[Spawned(k)]
          \/ worker[Spawned(k)] = "run" /\ worker'[Spawned(k)] = "exited"
    BY <1>1, <1>3, ThreadNumbers
  <2> QED BY <2>1, <1>1, <1>4 DEF SpawnedKept
<1>12. Reported'
  <2> SUFFICES ASSUME NEW j \in 0..(Shares - 1), Started(Owner(j))', worker'[Owner(j)] # "run"
               PROVE  todo'[Owner(j)] = {} /\ stats'[Owner(j)] = count'[Owner(j)]
    BY <1>4 DEF Reported
  <2>1. Owner(j) \in AllThreads BY <1>2, OwnersOfShares
  <2>2. CASE Owner(j) = w BY <2>2, <1>1, <1>3
  <2>3. CASE Owner(j) # w
    <3>1. Started(Owner(j)) /\ worker[Owner(j)] # "run" BY <2>1, <2>3, <1>3, <1>4
    <3>2. todo[Owner(j)] = {} /\ stats[Owner(j)] = count[Owner(j)] BY <3>1, <1>2 DEF Reported
    <3> QED BY <3>2, <2>1, <2>3, <1>1, <1>3
  <2> QED BY <2>2, <2>3
<1>13. HalfWay'
  <2>1. ASSUME NEW j \in 0..(Shares - 1) PROVE Stays(j)
    <3>1. Owner(j) \in AllThreads BY <1>2, OwnersOfShares
    <3>2. Started(Owner(j))' <=> Started(Owner(j)) BY <3>1, <1>4
    <3> QED BY <3>2, <1>1 DEF Stays
  <2> QED BY <2>1, <1>1, <1>4, NothingProjected
<1>14. ReturnIsComplete' BY <1>2, <1>4 DEF ReturnIsComplete, InCall, Active, Spawning
<1> QED BY <1>5, <1>6, <1>7, <1>9, <1>10, <1>11, <1>12, <1>13, <1>14

LEMMA WorkerCompleteKeeps ==
  ASSUME PoolInvariant, NEW w \in Threads, WorkerComplete(w)
  PROVE  PoolInvariant'
<1> USE DEF PoolInvariant
<1>1. /\ worker[w] = "report" /\ Busy(w) /\ w \in AllThreads /\ completed' = completed + 1
      /\ caller' = caller \/ (caller = "asleep" /\ caller' = "wait")
      /\ worker' = [worker EXCEPT ![w] = "top"]
      /\ UNCHANGED <<values, call, workspace, before, generation, job, stopping, observed, local,
                     todo, count, stats, calls>>
  BY ThreadNumbers DEF WorkerComplete, Busy
<1>2. InCall /\ Active /\ w < job.workers /\ observed[w] = generation BY <1>1, BusyThread
<1>3. worker'[w] = "top" /\ \A v \in AllThreads : v # w => worker'[v] = worker[v]
  BY <1>1 DEF PoolTyped
<1>4. call.pooled /\ ~Spawning
  <2>1. Active => ~Spawning BY DEF Active, Spawning
  <2> QED BY <2>1, <1>2 DEF JobKept
<1>5. /\ Active' /\ InCall' /\ ~Spawning' /\ caller' # "idle"
      /\ (caller' \in {"stop", "join", "gone"} <=> caller \in {"stop", "join", "gone"})
      /\ Task' = Task /\ Shares' = Shares /\ (\A j : Owner(j)' = Owner(j))
      /\ \A v : Started(v)' <=> Started(v)
  BY <1>1, <1>2, <1>4 DEF Active, InCall, Spawning, Task, Shares, Owner, Started
<1>6. PoolTyped' BY <1>1 DEF PoolTyped
<1>7. CallKept' BY <1>1, <1>2, <1>5 DEF CallKept
<1>8. JobKept' BY <1>1, <1>2, <1>5 DEF JobKept
<1>9. ~Busy(w)' /\ \A v \in Threads : v # w => (Busy(v)' <=> Busy(v)) /\ worker'[v] = worker[v]
  BY <1>3, ThreadNumbers DEF Busy
<1>10. PoolKept' BY <1>1, <1>2, <1>3, <1>5, <1>9 DEF PoolKept
<1>11. CompletedCounts'
  <2>1. Finished' = Finished \union {w} /\ w \notin Finished
    BY <1>1, <1>2, <1>9 DEF Finished
  <2>2. IsFiniteSet(Finished)
    <3>1. Finished \subseteq Threads BY DEF Finished
    <3> QED BY <3>1, ThreadNumbers, FS_Subset
  <2>3. Cardinality(Finished') = Cardinality(Finished) + 1 BY <2>1, <2>2, FS_AddElement
  <2> QED BY <2>3, <1>1, <1>2 DEF CompletedCounts
<1>12. SpawnedKept'
  <2>1. \A k \in 0..(MaxWorkers - 1) : worker'[Spawned(k)] = worker[Spawned(k)]
    BY <1>3, ThreadNumbers
  <2> QED BY <2>1, <1>1, <1>4, <1>5 DEF SpawnedKept, Active
<1>13. Reported'
  <2> SUFFICES ASSUME NEW j \in 0..(Shares - 1), Started(Owner(j)), worker'[Owner(j)] # "run"
               PROVE  todo[Owner(j)] = {} /\ stats[Owner(j)] = count[Owner(j)]
    BY <1>1, <1>5 DEF Reported
  <2>1. Owner(j) \in AllThreads BY <1>2, OwnersOfShares
  <2>2. worker[Owner(j)] # "run" BY <2>1, <1>1, <1>3
  <2> QED BY <2>2, <1>2 DEF Reported
<1>14. HalfWay'
  <2>1. \A j \in 0..(Shares - 1) : Stays(j) BY <1>1, <1>5 DEF Stays
  <2> QED BY <2>1, <1>1, <1>2, NothingProjected
<1>15. ReturnIsComplete' BY <1>5 DEF ReturnIsComplete
<1> QED BY <1>6, <1>7, <1>8, <1>10, <1>11, <1>12, <1>13, <1>14, <1>15

-----------------------------------------------------------------------------
(* The theorems *)

LEMMA PoolStarts ==
  ASSUME PoolInit
  PROVE  PoolInvariant
<1> USE DEF PoolInit, PoolStill
<1>1. caller = "idle" /\ call = NoCall /\ ~InCall /\ ~Active /\ ~Spawning
  BY DEF InCall, Active, Spawning
<1>2. job = NoJob /\ NoJob.workers = 0 BY DEF NoJob
<1>3. PoolTyped BY DEF PoolTyped, Tasks
<1>4. CallKept BY <1>1 DEF CallKept
<1>5. JobKept BY <1>1 DEF JobKept
<1>6. PoolKept
  <2>1. \A w \in Threads : worker[w] = "top" /\ observed[w] = 0 /\ ~Busy(w)
    BY ThreadNumbers DEF Busy
  <2>2. generation = 0 /\ 0 <= 0 OBVIOUS
  <2> HIDE DEF PoolInit, PoolStill
  <2> QED BY <2>1, <2>2 DEF PoolKept
<1>7. CompletedCounts BY <1>1 DEF CompletedCounts
<1>8. SpawnedKept
  <2>1. \A k \in 0..(MaxWorkers - 1) : worker[Spawned(k)] = "none" BY ThreadNumbers
  <2> QED BY <1>1, <2>1 DEF SpawnedKept
<1>9. Reported /\ HalfWay BY <1>1 DEF Reported, HalfWay
<1>10. ReturnIsComplete BY <1>1 DEF ReturnIsComplete
<1> QED BY <1>3, <1>4, <1>5, <1>6, <1>7, <1>8, <1>9, <1>10 DEF PoolInvariant

LEMMA PoolSteps ==
  ASSUME PoolInvariant, [PoolNext]_runtimeVars
  PROVE  PoolInvariant'
<1>1. CASE UNCHANGED runtimeVars BY <1>1, NothingKeeps
<1>2. ASSUME NEW c \in Calls, Dispatch(c) PROVE PoolInvariant' BY <1>2, DispatchKeeps
<1>3. ASSUME NEW c \in Calls, CallThreads(c) PROVE PoolInvariant' BY <1>3, CallThreadsKeeps
<1>4. CASE SpawnNext BY <1>4, SpawnNextKeeps
<1>5. CASE JoinThreads BY <1>5, JoinThreadsKeeps
<1>6. CASE NotifyStart BY <1>6, NotifyStartKeeps
<1>7. CASE WaitDone BY <1>7, WaitDoneKeeps
<1>8. ASSUME NEW w \in Threads, WorkerSees(w) PROVE PoolInvariant' BY <1>8, WorkerSeesKeeps
<1>9. ASSUME NEW w \in Threads, WorkerWaits(w) PROVE PoolInvariant' BY <1>9, WorkerWaitsKeeps
<1>10. ASSUME NEW w \in AllThreads, WorkerProject(w) PROVE PoolInvariant'
  BY <1>10, WorkerProjectKeeps
<1>11. ASSUME NEW w \in AllThreads, WorkerReport(w) PROVE PoolInvariant'
  BY <1>11, WorkerReportKeeps
<1>12. ASSUME NEW w \in Threads, WorkerComplete(w) PROVE PoolInvariant'
  BY <1>12, WorkerCompleteKeeps
<1>13. CASE SpuriousWake BY <1>13, SpuriousWakeKeeps
<1>14. CASE Stop BY <1>14, StopKeeps
<1>15. CASE Joined BY <1>15, JoinedKeeps
<1> QED BY <1>1, <1>2, <1>3, <1>4, <1>5, <1>6, <1>7, <1>8, <1>9, <1>10, <1>11, <1>12, <1>13,
           <1>14, <1>15 DEF PoolNext

\* In every reachable state of the pool and its caller: the job is that of the
\* call under way, every share of it is not yet begun, being done, done, or
\* counted once, and the array is what one thread would have made of the turns
\* already done (PersistentIslandWorkerPool::Impl, dispatch and worker_loop).
THEOREM PoolIsInvariant == PoolSpec => []PoolInvariant
<1>1. PoolInit => PoolInvariant BY PoolStarts
<1>2. PoolInvariant /\ [PoolNext]_runtimeVars => PoolInvariant' BY PoolSteps
<1> QED BY <1>1, <1>2, PTL DEF PoolSpec

\* A call that has returned has projected every island as one thread would
\* have, with as many adjustments, and nobody works on its arrays any more: for
\* any contacts, any number of bodies, workers and threads, and any order in
\* which the threads of this call and of earlier ones take their steps
\* (PersistentIslandWorkerPool::Impl, project_contact_islands_monotone).
THEOREM ReturnsAreComplete == PoolSpec => []ReturnIsComplete
<1>1. PoolInvariant => ReturnIsComplete BY DEF PoolInvariant
<1> QED BY <1>1, PoolIsInvariant, PTL
=============================================================================
