---------------------------- MODULE IslandRuntime ----------------------------
(***************************************************************************)
(* src/island_runtime.cpp: contacts are classified into islands, each with *)
(* a colouring, and the islands are projected by the threads of a          *)
(* persistent pool or by threads made for the call.                        *)
(*                                                                         *)
(* A section under the pool's mutex is one action.  A thread that waits on *)
(* a condition variable is asleep until it is notified, or wakes for no    *)
(* reason.  One action projects one contact, so the threads of a job       *)
(* interleave between any two of them.  One thread dispatches: the         *)
(* repository never shares a pool.                                         *)
(*                                                                         *)
(* A turn is the number of a pass through the innermost loop of            *)
(* run_projection_worker, counted over islands, iterations, colours and    *)
(* places of the contact order: what one thread does in ascending turns    *)
(* the workers of a call share among them.                                 *)
(***************************************************************************)
EXTENDS Integers, Sequences, SequencesExt, FiniteSetsExt, Functions

CONSTANTS
  BodyCount,      \* bodies of a call
  PoolThreads,    \* threads of the pool (worker_count of the constructor)
  MaxWorkers,     \* kMaximumProjectionWorkers: 64 in the code
  Calls,          \* bound: records [contacts, values, iterations, workers, pooled]
  MaxCalls,       \* bound: calls
  MaxColors       \* bits of a colour mask: 64 in the code

Bodies == 0..(BodyCount - 1)

\* What classify does not refuse: both ends are bodies, and not the same one.
Contact == {ends \in Bodies \X Bodies : ends[1] # ends[2]}

\* What the constructor of the pool, classify and the projections do not refuse
ASSUME PoolAssumption ==
  /\ BodyCount \in Nat /\ MaxCalls \in Nat /\ MaxColors \in Nat \ {0}
  /\ MaxWorkers \in Nat \ {0} /\ PoolThreads \in 1..MaxWorkers
  /\ \A c \in Calls :
       c \in [contacts : Seq(Contact), values : [Bodies -> Int], iterations : Nat \ {0},
              workers : Nat, pooled : BOOLEAN]

VARIABLES
  values,        \* the array the caller passed
  call,          \* the call under way or the last one
  workspace,     \* its classified contacts: the workspace
  before,        \* the array when the call began
  caller,        \* what the calling thread does
  generation, completed, job, stopping,     \* of the pool
  worker,        \* thread -> what it does
  observed,      \* thread -> the generation it has seen
  local,         \* thread -> its copy of the job
  todo,          \* thread -> turns of its islands left to do
  count,         \* thread -> adjustments so far
  stats,         \* thread -> the adjustments it reported
  calls          \* bound

pool == <<generation, completed, job, stopping>>
threads == <<worker, observed, local, todo, count, stats>>
runtimeVars == <<values, call, workspace, before, caller, pool, threads, calls>>

Threads == 0..(PoolThreads - 1)

\* The threads a call without a pool makes, and first the calling thread's own
\* share of the work
Spawned(k) == PoolThreads + k
AllThreads == 0..(PoolThreads + MaxWorkers - 1)
NoCall == [contacts |-> <<>>, values |-> <<>>, iterations |-> 0, workers |-> 0, pooled |-> FALSE]
NoJob == [call |-> NoCall, workspace |-> <<>>, workers |-> 0]

-----------------------------------------------------------------------------
\* ContactIslandWorkspace::classify
Canonical(ends) == <<Min({ends[1], ends[2]}), Max({ends[1], ends[2]})>>
EndsOf(ends) == {ends[1], ends[2]}

\* TLC evaluates a function at each use: a value that is used again is built once.
Evaluated(value) == CHOOSE v \in {value} : v = value

\* unite: the lesser root becomes the root of both.
Unite(roots, ends) ==
  LET joined == {roots[ends[1]], roots[ends[2]]}
  IN  Evaluated([body \in Bodies |-> IF roots[body] \in joined THEN Min(joined) ELSE roots[body]])

\* find(body) when every contact has been united
Roots(contacts) ==
  LET after[k \in 0..Len(contacts)] ==
        IF k = 0 THEN [body \in Bodies |-> body] ELSE Unite(after[k - 1], contacts[k])
  IN  after[Len(contacts)]

\* The order of the contacts: by islands, then by ends, then by place.  Their
\* axis, which comes before the place, is left out: no projection reads it.
ContactPrecedes(contacts, roots, i, j) ==
  LET c == Canonical(contacts[i])
      d == Canonical(contacts[j])
      left == <<roots[c[1]], c[1], c[2], i>>
      right == <<roots[d[1]], d[1], d[2], j>>
  IN  \E k \in 1..4 : left[k] < right[k] /\ \A m \in 1..(k - 1) : left[m] = right[m]

\* contact_order()
ContactOrder(contacts, roots) ==
  LET sorted[k \in 0..Len(contacts)] ==
        IF k = 0 THEN <<>>
        ELSE LET earlier == {p \in DOMAIN sorted[k - 1] :
                               ContactPrecedes(contacts, roots, sorted[k - 1][p], k)}
             IN  InsertAt(sorted[k - 1], Cardinality(earlier) + 1, k)
  IN  sorted[Len(contacts)]

\* islands() is by ascending root: the number of the island of a contact.
IslandOf(contacts, roots, i) ==
  Cardinality({roots[contacts[j][1]] : j \in DOMAIN contacts}
                \intersect 0..(roots[contacts[i][1]] - 1))

\* The least colour of the mask neither body has, or a new one beyond it
Colors(contacts, roots, order) ==
  FoldLeft(LAMBDA colors, i :
             LET taken == {colors[j] : j \in {k \in DOMAIN colors :
                             EndsOf(contacts[k]) \intersect EndsOf(contacts[i]) # {}}}
                 own == {k \in DOMAIN colors : roots[contacts[k][1]] = roots[contacts[i][1]]}
                 free == (0..(MaxColors - 1)) \ taken
             IN  Evaluated([j \in DOMAIN colors \union {i} |->
                   CASE j # i -> colors[j]
                     [] j = i /\ free # {} -> Min(free)
                     [] j = i /\ free = {} ->
                          Max({MaxColors - 1} \union {colors[k] : k \in own}) + 1]),
           <<>>, order)

\* The island's shape by its bodies, contacts and degrees
Topology(contacts, own) ==
  LET bodies == UNION {EndsOf(contacts[i]) : i \in own}
      degree(body) == Cardinality({i \in own : body \in EndsOf(contacts[i])})
      size == Cardinality(own)
  IN  CASE Cardinality(bodies) = 2 /\ size = 1 -> "matching"
        [] Cardinality(bodies) > 2 /\ size + 1 = Cardinality(bodies) ->
             IF \A body \in bodies : degree(body) <= 2 THEN "chain" ELSE "tree"
        [] size = Cardinality(bodies) /\ (\A body \in bodies : degree(body) = 2) -> "cycle"
        [] OTHER -> "general"

Classify(contacts) ==
  LET roots == Roots(contacts)
      order == ContactOrder(contacts, roots)
  IN  Evaluated([order |-> order,
                 island |-> [i \in DOMAIN contacts |-> IslandOf(contacts, roots, i)],
                 colors |-> Colors(contacts, roots, order),
                 topology |-> {<<r, Topology(contacts, {i \in DOMAIN contacts : roots[contacts[i][1]] = r})>> :
                                 r \in {roots[contacts[i][1]] : i \in DOMAIN contacts}}])

-----------------------------------------------------------------------------
\* run_projection_worker: the loops over islands, iterations, colours and the
\* places of the order.  An island has fewer colours than ColorSpan.
ColorSpan(c) == MaxColors + Len(c.contacts)
IslandSpan(c) == c.iterations * (ColorSpan(c) * Len(c.contacts))
Turns(c) == Len(c.contacts) * IslandSpan(c)
ContactAt(c, ws, turn) == ws.order[(turn % Len(c.contacts)) + 1]

\* The turns at which a contact is projected: in its island and its colour
Work(c, ws) ==
  {turn \in 0..(Turns(c) - 1) :
     /\ ws.island[ContactAt(c, ws, turn)] = turn \div IslandSpan(c)
     /\ ws.colors[ContactAt(c, ws, turn)] = (turn \div Len(c.contacts)) % ColorSpan(c)}

\* A mutant: the islands are dealt out in runs, the last of which is dropped
\* when they cannot be shared evenly.
ShareOfRuns(c, ws, thread, workers) ==
  LET islands == Cardinality({ws.island[i] : i \in DOMAIN c.contacts})
  IN  {turn \in Work(c, ws) :
         (turn \div IslandSpan(c)) \div Max({1, islands \div workers}) = thread}

\* Every worker_count-th island from the thread's own number on
Share(c, ws, thread, workers) ==
  {turn \in Work(c, ws) : ws.island[ContactAt(c, ws, turn)] % workers = thread}

\* floor_div_two: it lies between the two values, so checked_rep takes it.
Half(sum) == sum \div 2

\* One contact: two values out of order meet in the middle.
Project(array, ends) ==
  LET pair == Canonical(ends)
      sum == array[pair[1]] + array[pair[2]]
  IN  IF array[pair[1]] <= array[pair[2]] THEN array
      ELSE [array EXCEPT ![pair[1]] = Half(sum), ![pair[2]] = sum - Half(sum)]

Adjusts(array, ends) == array[Canonical(ends)[1]] > array[Canonical(ends)[2]]

\* The array and the adjustments after some turns, in ascending order
Projected(c, ws, array, turns) ==
  LET after[k \in 0..Turns(c)] ==
        IF k = 0 THEN [values |-> array, adjusted |-> 0]
        ELSE IF k - 1 \notin turns THEN after[k - 1]
        ELSE LET ends == c.contacts[ContactAt(c, ws, k - 1)]
             IN  [values |-> Project(after[k - 1].values, ends),
                  adjusted |-> after[k - 1].adjusted
                                 + (IF Adjusts(after[k - 1].values, ends) THEN 1 ELSE 0)]
  IN  after[Turns(c)]

\* The whole projection by one thread.
Sequential(c, ws, array) == Projected(c, ws, array, Work(c, ws))

\* The workers of a call: no more than islands, nor than the pool has.
WorkersOf(c, ws) ==
  LET islands == Cardinality({ws.island[i] : i \in DOMAIN c.contacts})
      wanted == Max({1, Min({c.workers, islands})})
  IN  IF c.pooled THEN Min({wanted, PoolThreads}) ELSE wanted

\* The thread that does a share of a call
ThreadOf(c, k) == IF c.pooled THEN k ELSE Spawned(k)

\* finalize_projection_stats
Total(counts, n) ==
  LET sum[k \in 0..n] == IF k = 0 THEN 0 ELSE sum[k - 1] + counts[k - 1]
  IN  sum[n]

Adjustments(c, ws, reported) ==
  LET workers == WorkersOf(c, ws)
  IN  Total([k \in 0..(workers - 1) |-> reported[ThreadOf(c, k)]], workers)

-----------------------------------------------------------------------------
PoolStill ==
  /\ values = <<>> /\ call = NoCall /\ workspace = <<>> /\ before = <<>> /\ caller = "idle"
  /\ completed = 0 /\ stopping = FALSE /\ job = NoJob
  /\ worker = [w \in AllThreads |-> IF w \in Threads THEN "top" ELSE "none"]
  /\ observed = [w \in AllThreads |-> 0]
  /\ local = [w \in AllThreads |-> NoJob]
  /\ todo = [w \in AllThreads |-> {}]
  /\ count = [w \in AllThreads |-> 0]
  /\ stats = [w \in AllThreads |-> 0]
  /\ calls = 0

PoolInit == PoolStill /\ generation = 0

\* A call that is not refused: 64 threads are the most a call makes.
Begin(c) ==
  /\ caller = "idle" /\ calls < MaxCalls
  /\ WorkersOf(c, Classify(c.contacts)) <= MaxWorkers
  /\ calls' = calls + 1 /\ call' = c /\ workspace' = Classify(c.contacts)
  /\ values' = c.values /\ before' = c.values

\* project_contact_islands_monotone_pooled, then dispatch's first section
DispatchAfterwards(c) ==
  /\ Begin(c) /\ c.pooled
  /\ job' = [call |-> c, workspace |-> workspace', workers |-> WorkersOf(c, workspace')]
  /\ completed' = completed
  /\ generation' = generation + 1
  /\ stats' = [w \in AllThreads |-> IF w < job'.workers THEN 0 ELSE stats[w]]
  /\ caller' = "notify"
  /\ UNCHANGED <<stopping, worker, observed, local, todo, count>>

Dispatch(c) ==
  /\ Begin(c) /\ c.pooled
  /\ job' = [call |-> c, workspace |-> workspace', workers |-> WorkersOf(c, workspace')]
  /\ completed' = 0
  /\ generation' = generation + 1
  /\ stats' = [w \in AllThreads |-> IF w < job'.workers THEN 0 ELSE stats[w]]
  /\ caller' = "notify"
  /\ UNCHANGED <<stopping, worker, observed, local, todo, count>>

\* project_contact_islands_monotone: threads are made for all shares but the
\* first, which the calling thread does itself before it joins them.
CallThreads(c) ==
  /\ Begin(c) /\ ~c.pooled
  /\ stats' = [w \in AllThreads |-> IF w \in Threads THEN stats[w] ELSE 0]
  /\ caller' = "spawn"
  /\ UNCHANGED <<pool, worker, observed, local, todo, count>>

\* The share a thread starts with
Starts(w, task, share) ==
  /\ worker' = [worker EXCEPT ![w] = "run"]
  /\ local' = [local EXCEPT ![w] = task]
  /\ todo' = [todo EXCEPT ![w] = Share(task.call, task.workspace, share, task.workers)]
  /\ count' = [count EXCEPT ![w] = 0]

SpawnNext ==
  /\ caller = "spawn"
  /\ LET shares == WorkersOf(call, workspace)
         left == {k \in 1..(shares - 1) : worker[Spawned(k)] = "none"}
         k == IF left = {} THEN 0 ELSE Min(left)
     IN  /\ Starts(Spawned(k), [call |-> call, workspace |-> workspace, workers |-> shares], k)
         /\ caller' = IF left = {} THEN "joinThreads" ELSE "spawn"
  /\ UNCHANGED <<values, call, workspace, before, pool, observed, stats, calls>>

JoinThreads ==
  /\ caller = "joinThreads"
  /\ \A k \in 0..(WorkersOf(call, workspace) - 1) : worker[Spawned(k)] = "exited"
  /\ worker' = [w \in AllThreads |-> IF w \in Threads THEN worker[w] ELSE "none"]
  /\ caller' = "idle"
  /\ UNCHANGED <<values, call, workspace, before, pool, observed, local, todo, count, stats, calls>>

Awake(state) == IF state = "asleep" THEN "top" ELSE state

\* start.notify_all
NotifyStart ==
  /\ caller \in {"notify", "stop"}
  /\ worker' = [w \in AllThreads |-> Awake(worker[w])]
  /\ caller' = IF caller = "notify" THEN "wait" ELSE "join"
  /\ UNCHANGED <<values, call, workspace, before, pool, observed, local, todo, count, stats, calls>>

\* done.wait: the predicate, and sleep
WaitDone ==
  /\ caller = "wait"
  /\ caller' = IF completed = job.workers THEN "idle" ELSE "asleep"
  /\ UNCHANGED <<values, call, workspace, before, pool, threads, calls>>

\* worker_loop: start.wait's predicate, the generation and the job
WorkerSees(w) ==
  /\ worker[w] = "top" /\ ~stopping /\ generation # observed[w]
  /\ observed' = [observed EXCEPT ![w] = generation]
  /\ IF w < job.workers THEN Starts(w, job, w)
     ELSE /\ local' = [local EXCEPT ![w] = job]
          /\ UNCHANGED <<worker, todo, count>>
  /\ UNCHANGED <<values, call, workspace, before, caller, pool, stats, calls>>

WorkerWaits(w) ==
  /\ worker[w] = "top"
  /\ stopping \/ generation = observed[w]
  /\ worker' = [worker EXCEPT ![w] = IF stopping THEN "exited" ELSE "asleep"]
  /\ UNCHANGED <<values, call, workspace, before, caller, pool, observed, local, todo, count,
                 stats, calls>>

\* One contact of run_projection_worker
WorkerProject(w) ==
  /\ worker[w] = "run" /\ todo[w] # {}
  /\ LET turn == Min(todo[w])
         ends == local[w].call.contacts[ContactAt(local[w].call, local[w].workspace, turn)]
     IN  /\ values' = Project(values, ends)
         /\ count' = [count EXCEPT ![w] = @ + (IF Adjusts(values, ends) THEN 1 ELSE 0)]
         /\ todo' = [todo EXCEPT ![w] = @ \ {turn}]
  /\ UNCHANGED <<call, workspace, before, caller, pool, worker, observed, local, stats, calls>>

WorkerReport(w) ==
  /\ worker[w] = "run" /\ todo[w] = {}
  /\ stats' = [stats EXCEPT ![w] = count[w]]
  /\ worker' = [worker EXCEPT ![w] = IF w \in Threads THEN "report" ELSE "exited"]
  /\ UNCHANGED <<values, call, workspace, before, caller, pool, observed, local, todo, count, calls>>

\* A mutant: only the last thread of the pool wakes the caller.
WorkerCompleteByLast(w) ==
  /\ worker[w] = "report"
  /\ completed' = completed + 1
  /\ caller' = IF w = local[w].workers - 1 /\ caller = "asleep" THEN "wait" ELSE caller
  /\ worker' = [worker EXCEPT ![w] = "top"]
  /\ UNCHANGED <<values, call, workspace, before, generation, job, stopping, observed, local, todo,
                 count, stats, calls>>

\* ++completed, and done.notify_one by whoever completes the job
WorkerComplete(w) ==
  /\ worker[w] = "report"
  /\ completed' = completed + 1
  /\ caller' = IF completed' = local[w].workers /\ caller = "asleep" THEN "wait" ELSE caller
  /\ worker' = [worker EXCEPT ![w] = "top"]
  /\ UNCHANGED <<values, call, workspace, before, generation, job, stopping, observed, local, todo,
                 count, stats, calls>>

\* A wait may return without a notification.
SpuriousWake ==
  \/ /\ caller = "asleep" /\ caller' = "wait"
     /\ UNCHANGED <<values, call, workspace, before, pool, threads, calls>>
  \/ \E w \in Threads :
       /\ worker[w] = "asleep"
       /\ worker' = [worker EXCEPT ![w] = "top"]
       /\ UNCHANGED <<values, call, workspace, before, caller, pool, observed, local, todo, count,
                      stats, calls>>

\* ~Impl
Stop ==
  /\ caller = "idle" /\ ~stopping
  /\ stopping' = TRUE /\ generation' = generation + 1
  /\ caller' = "stop"
  /\ UNCHANGED <<values, call, workspace, before, completed, job, threads, calls>>

Joined ==
  /\ caller = "join" /\ \A w \in Threads : worker[w] = "exited"
  /\ caller' = "gone"
  /\ UNCHANGED <<values, call, workspace, before, pool, threads, calls>>

Worker(w) ==
  \/ WorkerProject(w) \/ WorkerReport(w)
  \/ w \in Threads /\ (WorkerSees(w) \/ WorkerWaits(w) \/ WorkerComplete(w))
Caller == NotifyStart \/ WaitDone \/ Joined \/ SpawnNext \/ JoinThreads

PoolNext ==
  \/ \E c \in Calls : Dispatch(c) \/ CallThreads(c)
  \/ SpawnNext \/ JoinThreads
  \/ NotifyStart \/ WaitDone
  \/ \E w \in Threads : WorkerSees(w)
  \/ \E w \in Threads : WorkerWaits(w)
  \/ \E w \in AllThreads : WorkerProject(w)
  \/ \E w \in AllThreads : WorkerReport(w)
  \/ \E w \in Threads : WorkerComplete(w)
  \/ SpuriousWake
  \/ Stop
  \/ Joined

\* Every thread that is neither asleep nor gone is scheduled, and the calling
\* thread too; whether it calls again or stops the pool is its own affair.
PoolFairness ==
  /\ \A w \in AllThreads : WF_runtimeVars(Worker(w))
  /\ WF_runtimeVars(Caller)

PoolSpec == PoolInit /\ [][PoolNext]_runtimeVars /\ PoolFairness

-----------------------------------------------------------------------------
\* A call that has returned has projected every island as one thread would
\* have, the adjustments of its workers add up, and no worker holds its arrays
\* any more, whatever the threads of an earlier job were doing when it began
\* (island_runtime.cpp, PersistentIslandWorkerPool::Impl).
ReturnIsComplete ==
  caller = "idle" /\ call # NoCall =>
    /\ values = Sequential(call, workspace, before).values
    /\ Adjustments(call, workspace, stats) = Sequential(call, workspace, before).adjusted
    /\ \A w \in AllThreads : worker[w] \notin {"run", "report"}

\* A dispatch returns, and a pool that is destroyed has its threads joined: no
\* wake-up is lost between the predicate and the sleep of either side.
DispatchReturns == (caller # "idle") ~> (caller \in {"idle", "gone"})
=============================================================================
