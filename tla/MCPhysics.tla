---- MODULE MCPhysics ----
(***************************************************************************)
(* The physics engines, one of them in each behaviour: the pair histories, *)
(* the temporal kernel with its internal and with its paged history, the   *)
(* rollback of atomic arrays, of active bodies and of interacting bodies,  *)
(* the islands of contacts projected by a pool of threads, and the pair    *)
(* cache of islands.  Each instance gives its module the sizes it needs;    *)
(* the sizes of the pool are those of the configurations.                  *)
(***************************************************************************)
EXTENDS IslandRuntime

VARIABLES
  part,  \* the part this behaviour is of
  kind, timeline, frame, held, rollbacks, caches, flavor, pairs, trusted, worlds, cutShort,
  cached, mode, versions, arena, state, refused, islandOf, offsets, capacities, counts, storage,
  live, promised, replacements, history, kernel, snapshots, current, inputs, script, failed,
  corrections

historyVars == <<kind, timeline, frame, held, rollbacks>>
temporalVars == <<caches>>
pagedVars == <<flavor, pairs, trusted>>
activeVars == <<worlds, cutShort>>
contactVars == <<cached, mode, versions, arena>>
arrayVars == <<state, refused>>
poolVars == <<values, call, workspace, before, caller, completed, job, stopping, worker,
    observed, local, todo, count, stats, calls>>
cacheVars == <<islandOf, offsets, capacities, counts, storage, live, promised,
    replacements>>


---------------------------------------------------------------------------
\* Pair histories: an empty world, contacts with and without a pair across
\* the islands, and two worlds of other contacts.
PairWorld(contacts, near) == [contacts |-> contacts, pairs |-> near]
PairWorlds ==
  {PairWorld({}, {}),
   PairWorld({<<0, 1>>, <<2, 3>>}, {<<0, 1>>, <<2, 3>>}),
   PairWorld({<<0, 1>>, <<2, 3>>}, {<<0, 1>>, <<2, 3>>, <<1, 2>>}),
   PairWorld({<<0, 3>>, <<1, 2>>}, {<<0, 3>>, <<1, 2>>}),
   PairWorld({<<0, 1>>, <<2, 3>>}, {<<2, 3>>, <<1, 3>>})}

Histories == INSTANCE PairHistoryConformance WITH
  N <- 4, Capacity <- 2, MaxFrame <- 3, MaxRollbacks <- 1, Worlds <- PairWorlds,
  ExtraPairs <- 1, PairGenerations <- 0, TopologyGenerations <- 0, SegmentPool <- 4,
  SegmentRoom <- 3, PageElements <- 2, BodyPagePool <- 5, SegmentPagePool <- 5,
  MaximumPairs <- 6, WordBits <- 2, Mode <- "Adaptive"

---------------------------------------------------------------------------
\* The temporal kernel on a line of four bodies: two contacts that share no
\* body, a body that drifts towards another, pushes that outrun the guard.
Kernel == INSTANCE TemporalKernel WITH
  N <- 4, M <- 2, Capacity <- 3, HalfExtent <- 1, Horizon <- 2, Guard <- 1, Iterations <- 3

Line(pos, vel, mass, manifold) ==
  [pos |-> Kernel!Array(pos), vel |-> Kernel!Array(vel), mass |-> Kernel!Array(mass),
   manifold |-> Kernel!Array(manifold)]
TwoContacts == <<Kernel!Contact(0, 1, 1), Kernel!Contact(3, 2, -1)>>
Velocities(list) == [Kernel!NoInput EXCEPT !.velocity = list]
NewMass == [Kernel!NoInput EXCEPT !.mass = <<<<1, 3>>>>]
NewContact ==
  [Kernel!NoInput EXCEPT !.contact = <<<<1, Kernel!Contact(2, 1, -1)>>>>,
                         !.velocity = <<<<1, 2>>>>]
BadContact == [Kernel!NoInput EXCEPT !.contact = <<<<0, Kernel!Contact(0, 4, 1)>>>>]

Temporal == INSTANCE AtomicTemporalPhysics WITH
  N <- 4, M <- 2, Capacity <- 3, HalfExtent <- 1, Horizon <- 2, Guard <- 1, Iterations <- 3,
  World <- Line(<<0, 7, 19, 21>>, <<0, 0, 0, -1>>, <<1, 1, 1, 2>>, TwoContacts),
  Inputs <- {Kernel!NoInput, Velocities(<<<<0, 1>>, <<1, -1>>>>)},
  MaxFrame <- 4, MaxCorrections <- 1

\* The velocities have the smallest pool of pages, and run out of it.
Paged == INSTANCE PagedTemporalPhysics WITH
  N <- 4, M <- 2, Capacity <- 2, HalfExtent <- 1, Horizon <- 3, Guard <- 1, Iterations <- 3,
  World <- Line(<<0, 4, 9, 11>>, <<0, 0, 0, 0>>, <<1, 1, 1, 2>>, TwoContacts),
  Inputs <- {Kernel!NoInput, Velocities(<<<<0, 3>>>>), Velocities(<<<<0, -1>>, <<4, 1>>>>),
             [NewMass EXCEPT !.velocity = <<<<1, -1>>>>], NewContact},
  MaxFrame <- 3, MaxCorrections <- 1, PageSize <- 2,
  PagePool <- [a \in {"pos", "vel", "mass", "dual", "manifold", "stable", "candidate",
                      "bounds", "pairs"} |-> IF a = "vel" THEN 4 ELSE 6],
  PairGenerations <- 0, TopologyGenerations <- 0, PageElements <- 2, BodyPagePool <- 10,
  SegmentPagePool <- 10, SegmentPool <- 20, SegmentRoom <- 6, MaximumPairs <- 6,
  WordBits <- 2, Mode <- "Adaptive"

Drifting == INSTANCE PagedTemporalPhysics WITH
  N <- 4, M <- 2, Capacity <- 2, HalfExtent <- 1, Horizon <- 2, Guard <- 1, Iterations <- 3,
  World <- Line(<<0, 5, 9, 11>>, <<0, 0, 0, -1>>, <<1, 1, 1, 2>>, TwoContacts),
  Inputs <- {Kernel!NoInput}, MaxFrame <- 3, MaxCorrections <- 1, PageSize <- 2,
  PagePool <- [a \in {"pos", "vel", "mass", "dual", "manifold", "stable", "candidate",
                      "bounds", "pairs"} |-> 6],
  PairGenerations <- 0, TopologyGenerations <- 0, PageElements <- 2, BodyPagePool <- 10,
  SegmentPagePool <- 10, SegmentPool <- 20, SegmentRoom <- 6, MaximumPairs <- 6,
  WordBits <- 2, Mode <- "Adaptive"

Arrays == INSTANCE AtomicPhysics WITH
  N <- 4, M <- 2, Capacity <- 3, HalfExtent <- 1, Horizon <- 2, Guard <- 1, Iterations <- 3,
  World <- [vel |-> Kernel!Array(<<2, -1, 0, 1>>), mass |-> Kernel!Array(<<1, 2, 1, 1>>),
            manifold |-> Kernel!Array(TwoContacts)],
  Inputs <- {Kernel!NoInput, Velocities(<<<<0, 3>>>>), Velocities(<<<<3, -2>>, <<4, 1>>>>),
             NewMass, NewContact, BadContact},
  MaxFrame <- 4, MaxCorrections <- 1

---------------------------------------------------------------------------
Vector(x, y) == [axis \in {"x", "y"} |-> IF axis = "x" THEN x ELSE y]
Body(x, y, vx, vy) == [position |-> Vector(x, y), velocity |-> Vector(vx, vy)]
Push(entity, x, y) == [entity |-> entity, acceleration |-> Vector(x, y)]

\* Three bodies of which one moves at first: commands that start and stop a
\* body, that name one body twice or none, and that overflow.
Active == INSTANCE ActiveRollback WITH
  BodyCount <- 3, Axes <- <<"x", "y">>, Limit <- 9, Scale <- 2, RadixChunkSize <- 1, Fanout <- 2,
  PageSize <- 2, GridCellSize <- 2, GridHalfExtent <- 1, ChunkSize <- 2,
  Initial <- [body \in 0..2 |-> <<Body(0, 1, 0, 0), Body(2, 0, 2, -1), Body(-3, 0, 0, 0)>>[body + 1]],
  Inputs <- {<<>>,
             <<Push(5, 2, 0), Push(2, 4, 4), Push(1, 3, -2)>>,
             <<Push(3, -4, 2), Push(1, 0, 2), Push(1, -6, 0)>>,
             <<Push(1, 6, 0)>>,
             <<Push(3, 6, 0), Push(3, 4, 0), Push(3, -9, 0)>>},
  Capacity <- 3, MaxFrame <- 4, MaxCorrections <- 1

\* Three bodies on a row: one flies at the others, a push makes one cross a
\* body within a frame, and a strong one overflows.
Contacts == INSTANCE InteractiveRollback WITH
  BodyCount <- 3, Axes <- <<"x", "y">>, Limit <- 18, Scale <- 2, One <- 16, HalfExtent <- 2,
  CellSize <- 5, MaxCells <- 30, PositionIterations <- 2, MaxColors <- 3, PageSize <- 2,
  HorizonFrames <- 2, IncrementalLimit <- 1,
  Initial <- [body \in 0..2 |-> <<Body(0, 0, 4, 0), Body(7, 1, 0, 0), Body(13, -1, 0, 2)>>[body + 1]],
  Inputs <- {<<>>, <<Push(5, -12, 4), Push(1, 4, 0)>>, <<Push(3, 8, 8)>>},
  Capacity <- 3, MaxFrame <- 4, MaxCorrections <- 2

---------------------------------------------------------------------------
\* Three islands over seven bodies, or one over three and a cycle in it; calls
\* that use all threads of the pool, some of them, or threads of their own.
Apart == <<<<1, 0>>, <<3, 2>>, <<5, 4>>>>
Joint == <<<<0, 1>>, <<5, 4>>, <<2, 1>>, <<0, 2>>>>
CallOf(contacts, workers, pooled) ==
  [contacts |-> contacts, values |-> [b \in 0..6 |-> <<5, 2, 0, 7, 4, 1, 0>>[b + 1]],
   iterations |-> 1, workers |-> workers, pooled |-> pooled]

PoolCalls ==
  {CallOf(Apart, 3, TRUE), CallOf(Apart, 2, TRUE), CallOf(Joint, 2, TRUE),
   CallOf(Joint, 1, TRUE), CallOf(Apart, 3, FALSE), CallOf(Joint, 2, FALSE)}

Cache == INSTANCE IslandPairCache WITH
  N <- 5, Capacity <- 2, ExtraPairs <- 1, MaxReplacements <- 3,
  Topologies <- {<<<<1, 0>>, <<2, 3>>>>, <<<<0, 2>>, <<1, 2>>, <<4, 3>>>>},
  Lists <- {<<>>, <<<<0, 1>>>>, <<<<3, 2>>>>, <<<<4, 3>>>>, <<<<0, 1>>, <<0, 2>>, <<1, 2>>>>,
            <<<<0, 1>>, <<2, 3>>>>, <<<<0, 2>>, <<2, 1>>, <<2, 1>>>>,
            <<<<0, 1>>, <<0, 1>>, <<2, 3>>, <<0, 3>>>>}

ASSUME PhysicsAssumptions ==
  /\ Histories!PairHistoriesAssumption /\ Cache!PairHistoriesAssumption
  /\ Temporal!KernelAssumption /\ Paged!KernelAssumption /\ Arrays!KernelAssumption

---------------------------------------------------------------------------

Unused == "idle"
NoHistoryVars == kind = Unused /\ timeline = Unused /\ frame = Unused /\ held = Unused /\
    rollbacks = Unused
NoTemporalVars == caches = Unused
NoPagedVars == flavor = Unused /\ pairs = Unused /\ trusted = Unused
NoActiveVars == worlds = Unused /\ cutShort = Unused
NoContactVars == cached = Unused /\ mode = Unused /\ versions = Unused /\ arena = Unused
NoArrayVars == state = Unused /\ refused = Unused
\* The pool's own, of which generation is another engine's too
NoPoolVars == PoolStill
NoCacheVars == islandOf = Unused /\ offsets = Unused /\ capacities = Unused /\ counts =
    Unused /\ storage = Unused /\ live = Unused /\ promised = Unused /\ replacements =
    Unused

Init ==
  \/ part = "pairs" /\ Histories!Init
     /\ NoTemporalVars /\ NoPagedVars /\ NoActiveVars /\ NoContactVars /\ NoArrayVars /\
        NoPoolVars /\ NoCacheVars /\ kernel = Unused /\ snapshots = Unused /\ current =
        Unused /\ generation = Unused /\ inputs = Unused /\ script = Unused /\ failed =
        Unused /\ corrections = Unused
  \/ part = "temporal" /\ Temporal!Init
     /\ NoHistoryVars /\ NoPagedVars /\ NoActiveVars /\ NoContactVars /\ NoArrayVars /\
        NoPoolVars /\ NoCacheVars /\ history = Unused
  \/ part = "paged" /\ Paged!Init
     /\ NoHistoryVars /\ NoTemporalVars /\ NoActiveVars /\ NoContactVars /\ NoArrayVars /\
        NoPoolVars /\ NoCacheVars /\ snapshots = Unused /\ current = Unused /\ generation =
        Unused
  \/ part = "arrays" /\ Arrays!Init
     /\ NoHistoryVars /\ NoTemporalVars /\ NoPagedVars /\ NoActiveVars /\ NoContactVars /\
        NoPoolVars /\ NoCacheVars /\ history = Unused /\ kernel = Unused /\ current = Unused
        /\ generation = Unused
  \/ part = "active" /\ Active!Init
     /\ NoHistoryVars /\ NoTemporalVars /\ NoPagedVars /\ NoContactVars /\ NoArrayVars /\
        NoPoolVars /\ NoCacheVars /\ kernel = Unused /\ generation = Unused /\ inputs =
        Unused /\ script = Unused /\ failed = Unused
  \/ part = "contacts" /\ Contacts!Init
     /\ NoHistoryVars /\ NoTemporalVars /\ NoPagedVars /\ NoActiveVars /\ NoArrayVars /\
        NoPoolVars /\ NoCacheVars /\ history = Unused /\ kernel = Unused /\ snapshots =
        Unused /\ current = Unused /\ generation = Unused /\ inputs = Unused /\ failed =
        Unused
  \/ part = "pool" /\ PoolInit
     /\ NoHistoryVars /\ NoTemporalVars /\ NoPagedVars /\ NoActiveVars /\ NoContactVars /\
        NoArrayVars /\ NoCacheVars /\ history = Unused /\ kernel = Unused /\ snapshots =
        Unused /\ current = Unused /\ inputs = Unused /\ script = Unused /\ failed = Unused
        /\ corrections = Unused
  \/ part = "cache" /\ Cache!Init
     /\ NoHistoryVars /\ NoTemporalVars /\ NoPagedVars /\ NoActiveVars /\ NoContactVars /\
        NoArrayVars /\ NoPoolVars /\ history = Unused /\ kernel = Unused /\ snapshots =
        Unused /\ current = Unused /\ generation = Unused /\ inputs = Unused /\ script =
        Unused /\ failed = Unused /\ corrections = Unused

BesideHistories == <<part, temporalVars, pagedVars, activeVars, contactVars, arrayVars,
    poolVars, cacheVars, kernel, snapshots, current, generation, inputs, script, failed,
    corrections>>
BesideTemporal == <<part, historyVars, pagedVars, activeVars, contactVars, arrayVars,
    poolVars, cacheVars, history>>
BesidePaged == <<part, historyVars, temporalVars, activeVars, contactVars, arrayVars,
    poolVars, cacheVars, snapshots, current, generation>>
BesideArrays == <<part, historyVars, temporalVars, pagedVars, activeVars, contactVars,
    poolVars, cacheVars, history, kernel, current, generation>>
BesideActive == <<part, historyVars, temporalVars, pagedVars, contactVars, arrayVars,
    poolVars, cacheVars, kernel, generation, inputs, script, failed>>
BesideContacts == <<part, historyVars, temporalVars, pagedVars, activeVars, arrayVars,
    poolVars, cacheVars, history, kernel, snapshots, current, generation, inputs, failed>>
BesidePool == <<part, historyVars, temporalVars, pagedVars, activeVars, contactVars,
    arrayVars, cacheVars, history, kernel, snapshots, current, inputs, script, failed,
    corrections>>
BesideCache == <<part, historyVars, temporalVars, pagedVars, activeVars, contactVars,
    arrayVars, poolVars, history, kernel, snapshots, current, generation, inputs, script,
    failed, corrections>>

Next ==
  \/ part = "pairs" /\ Histories!Next /\ UNCHANGED BesideHistories
  \/ part = "temporal" /\ Temporal!Next /\ UNCHANGED BesideTemporal
  \/ part = "paged" /\ Paged!Next /\ UNCHANGED BesidePaged
  \/ part = "arrays" /\ Arrays!Next /\ UNCHANGED BesideArrays
  \/ part = "active" /\ Active!Next /\ UNCHANGED BesideActive
  \/ part = "contacts" /\ Contacts!Next /\ UNCHANGED BesideContacts
  \/ part = "pool" /\ PoolNext /\ UNCHANGED BesidePool
  \/ part = "cache" /\ Cache!Next /\ UNCHANGED BesideCache

vars ==
  <<part, historyVars, temporalVars, pagedVars, activeVars, contactVars, arrayVars, poolVars,
    cacheVars, history, kernel, snapshots, current, generation, inputs, script, failed, corrections>>

\* The threads of the pool, and the caller between a call and its return.
Fairness ==
  /\ \A w \in AllThreads :
        WF_vars(part = "pool" /\ Worker(w) /\ UNCHANGED BesidePool)
  /\ WF_vars(part = "pool" /\ Caller /\ UNCHANGED BesidePool)

Spec == Init /\ [][Next]_vars /\ Fairness

\* Of the histories of pairs: see PairHistoryConformance.
HistoriesAgree == part = "pairs" => Histories!HistoriesAgree

\* Every page, segment and table has as many references as show it, and the
\* segments of an island stay its own: see PairHistoryConformance,
\* PagedTemporalPhysics and IslandPairCache.
StoragesExact ==
  /\ part = "pairs" => Histories!ReferencesExact
  /\ part = "paged" => Paged!PagesExact
  /\ part = "cache" => Cache!SegmentsHold

\* Of the engines that are rolled back: a correction gives what a clean run of
\* the inputs in force gives, and those inputs are the corrected ones.  See
\* AtomicTemporalPhysics, AtomicPhysics, PagedTemporalPhysics and
\* InteractiveRollback.
RollbackEqualsClean ==
  /\ part = "temporal" => Temporal!RollbackEqualsClean
  /\ part = "arrays" => Arrays!AtomicRollbackEqualsClean
  /\ part = "paged" => Paged!HintedRestoreGivesBackFrame
  /\ part = "contacts" => Contacts!StoredInputsSurvive

\* Of the worlds with active sets: see ActiveRollback.
WorldsAgree == part = "active" => Active!WorldsAgree

\* Of the worlds with contacts: see InteractiveRollback.
BroadphaseLosesNoContactBetween ==
  part = "contacts" => Contacts!BroadphaseLosesNoContactBetween

\* The paged engine alone, without inputs: one body drifts towards the others.
DriftingInit ==
  /\ part = "paged" /\ Drifting!Init
  /\ NoHistoryVars /\ NoTemporalVars /\ NoActiveVars /\ NoContactVars /\ NoArrayVars
  /\ NoPoolVars /\ NoCacheVars /\ snapshots = Unused /\ current = Unused
  /\ generation = Unused
DriftingSpec == DriftingInit /\ [][Drifting!Next /\ UNCHANGED BesidePaged]_vars

\* What the tests and comments of the repository state and the code does not
\* keep: see AtomicTemporalPhysics, PagedTemporalPhysics, InteractiveRollback.
CacheEqualsRebuild == part = "temporal" => Temporal!CacheEqualsRebuild
RestoreGivesBackFrame == Drifting!RestoreGivesBackFrame
BroadphaseLosesNoContact == part = "contacts" => Contacts!BroadphaseLosesNoContact

====
