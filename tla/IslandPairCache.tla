--------------------------- MODULE IslandPairCache ---------------------------
(***************************************************************************)
(* src/island_pair_cache.cpp: the pairs of every contact island in a       *)
(* segment of one array, replaced an island at a time.  A replacement that *)
(* is refused half way has written the pairs before the bad one.           *)
(***************************************************************************)
EXTENDS PairHistories

CONSTANTS
  Topologies,      \* bound: the lists of contacts given to initialize
  Lists,           \* bound: the lists of pairs given to a replacement
  ExtraPairs,      \* extra_pairs_per_island
  MaxReplacements  \* bound: replacements and initializations

VARIABLES
  islandOf,      \* body_island_
  offsets, capacities, counts, storage, live,
  promised,      \* island -> the list last accepted, or Unknown after a refusal
  replacements   \* bound

vars == <<islandOf, offsets, capacities, counts, storage, live, promised, replacements>>

\* No list of pairs: what a refused replacement leaves is not promised.
Unknown == <<<<None, None>>>>

CanonicalPair(p) == <<Min({p[1], p[2]}), Max({p[1], p[2]})>>
IslandIds == Range(islandOf)

\* The segment of each island: a slot for each of its contacts and the extra.
CapacitiesOf(islands, contacts) ==
  [i \in Range(islands) |->
     Max({1, Cardinality({k \in DOMAIN contacts : islands[contacts[k][1]] = i}) + ExtraPairs})]

\* A mutant: the extra slots are left out of the offsets.
OffsetsWithoutExtra(sizes) ==
  [i \in DOMAIN sizes |->
     FoldSet(LAMBDA j, sum : sum + sizes[j] - ExtraPairs, 0, {j \in DOMAIN sizes : j < i})]

OffsetsOf(sizes) ==
  [i \in DOMAIN sizes |-> FoldSet(LAMBDA j, sum : sum + sizes[j], 0, {j \in DOMAIN sizes : j < i})]

\* The contacts of an island as its first pairs, sorted
SeedOf(islands, contacts, i) ==
  SortSeq(SelectSeq([k \in DOMAIN contacts |-> CanonicalPair(contacts[k])],
                    LAMBDA p : islands[p[1]] = i), Precedes)

PairsForIsland(i) == [k \in 1..counts[i] |-> storage[offsets[i] + k]]

\* What initialize makes of a list of contacts
Initialized(contacts) ==
  LET islands == IslandNumbers(Keys(Range(contacts)))
      sizes == CapacitiesOf(islands, contacts)
      starts == OffsetsOf(sizes)
      seeds == [i \in DOMAIN sizes |-> SeedOf(islands, contacts, i)]
      slot(k) == LET i == Max({j \in DOMAIN starts : starts[j] < k})
                 IN  IF k - starts[i] \in DOMAIN seeds[i] THEN seeds[i][k - starts[i]] ELSE <<0, 0>>
  IN  [islandOf |-> islands, offsets |-> starts, capacities |-> sizes,
       counts |-> [i \in DOMAIN sizes |-> Len(seeds[i])],
       storage |-> [k \in 1..(FoldSet(LAMBDA i, sum : sum + sizes[i], 0, DOMAIN sizes)) |-> slot(k)],
       live |-> Len(contacts), promised |-> seeds]

Init ==
  \E contacts \in Topologies :
    LET fresh == Initialized(contacts)
    IN  /\ islandOf = fresh.islandOf /\ offsets = fresh.offsets
        /\ capacities = fresh.capacities /\ counts = fresh.counts
        /\ storage = fresh.storage /\ live = fresh.live /\ promised = fresh.promised
        /\ replacements = 0

\* initialize once more: whatever the cache held is forgotten.  A list that is
\* refused leaves nothing that is read.
Initialize(contacts) ==
  LET fresh == Initialized(contacts)
  IN  /\ replacements < MaxReplacements
      /\ replacements' = replacements + 1
      /\ islandOf' = fresh.islandOf /\ offsets' = fresh.offsets
      /\ capacities' = fresh.capacities /\ counts' = fresh.counts
      /\ storage' = fresh.storage /\ live' = fresh.live /\ promised' = fresh.promised

\* The pairs written before the first that is foreign, repeated or unsorted
Valid(list, i, k) ==
  LET p == CanonicalPair(list[k])
  IN  /\ p[1] # p[2]
      /\ p[1] \in Bodies /\ p[2] \in Bodies
      /\ islandOf[p[1]] = i /\ islandOf[p[2]] = i
      /\ k > 1 => Precedes(CanonicalPair(list[k - 1]), p)

Written(list, i) == Max({n \in 0..Len(list) : \A k \in 1..n : Valid(list, i, k)})

\* replace_pairs_for_body and replace_island_pairs
ReplacePairsForBody(body, list) ==
  LET i == islandOf[body]
      fits == Len(list) <= capacities[i]
      written == IF fits THEN Written(list, i) ELSE 0
      accepted == fits /\ written = Len(list)
  IN  /\ replacements < MaxReplacements
      /\ replacements' = replacements + 1
      /\ storage' = [k \in DOMAIN storage |->
                       IF k - offsets[i] \in 1..written THEN CanonicalPair(list[k - offsets[i]])
                       ELSE storage[k]]
      /\ counts' = IF accepted THEN [counts EXCEPT ![i] = Len(list)] ELSE counts
      /\ live' = IF accepted THEN live - counts[i] + Len(list) ELSE live
      /\ promised' = [promised EXCEPT ![i] =
                        IF accepted THEN [k \in DOMAIN list |-> CanonicalPair(list[k])]
                        ELSE IF written = 0 THEN @ ELSE Unknown]
      /\ UNCHANGED <<islandOf, offsets, capacities>>

Next ==
  \/ \E contacts \in Topologies : Initialize(contacts)
  \/ \E body \in Bodies, list \in Lists : ReplacePairsForBody(body, list)

Spec == Init /\ [][Next]_vars

-----------------------------------------------------------------------------
\* Every island keeps the list it last accepted whatever happens to the
\* others, replacements that overflow a segment or break off half way
\* included, and the live pairs are counted right (island_pair_cache.hpp:29-31:
\* replacing one island never rewrites the pairs of another).
SegmentsHold ==
  /\ \A i \in IslandIds : promised[i] # Unknown => PairsForIsland(i) = promised[i]
  /\ live = FoldSet(LAMBDA i, sum : sum + counts[i], 0, IslandIds)
=============================================================================
