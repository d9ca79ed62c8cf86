# A TLA+ verification of the AllCallAll agent runtime

The agent runtime answers workflow requests (`POST /v1/workflows/{preset}/run`, its resume route, and the agent routes) by running a graph of
language-model roles over retrieved context. Every request passes an admission controller, runs its graph on a
shared pool of threads under a deadline, gathers evidence from a RAG runtime and the Go tool bridge, may put write
proposals into an in-process tool queue, and keeps its checkpoints in MySQL or SQLite; a reviewer's decisions come back through the
resume route. Tools of foreign MCP servers are run by a separate one-shot sandbox runner. This directory models those parts in
TLA+, checks them with TLC on small instances, and proves central safety properties with TLAPS for every value of the constants.

Paths below are relative to `services/agent-runtime/allcallall_agent_runtime/` unless they start with `services/`,
`packages/` or `docs/`. `PROJECT.json` maps every definition to the lines it translates, and lists components,
runs, mutants, hazards, findings and theorems.

## 1. Inventory

| Component | State | Operations | Hard because | Correct when |
|---|---|---|---|---|
| Admission control (`admission.py`) | counters of active runs, global and per organization; a FIFO deque of waiters; leases | `acquire`, `close`, `_release`, `_try_grant_waiters` | many threads; `acquire` reads its grant outside the lock; deadlines | counters equal leases; limits hold; no idle slot with somebody it could serve; FIFO within quotas; nobody starves |
| Request lifecycle (`api/routes.py`, `orchestration/harness.py`, `api/app.py`, `deadline.py`) | the request's lease, deadline, future and answer; the executor's work queue | `_run_with_admission`, `run_workflow`, `_invoke_graph`, cancellation points | HTTP thread against graph thread; timeouts; graphs that outlive their request | every slot comes back; abandoned graphs are bounded; nothing starts after its answer; cancellation is seen |
| Async tool queue (`async_tool_queue.py`, worker start and stop in `api/app.py`) | the task store, its key index, the dead-letter list; one worker thread per lifespan | `enqueue`, `claim`, `complete`, `fail`, `run_once`, `run`, `stop` | no lock; leases that expire; a worker that outlives its lifespan | dead letters exact; rate cap; outcomes final; tasks settle |
| Connection pool (`persistence/mysql_pool.py`) | the queue of free connections, the counter of open ones | `_acquire`, `_release`, `_retire_and_replenish` | growth and replacement by several threads; failing connects | never more than `pool_size`; `acquire` ends |
| Workflow graph (`dag.py`, `nodes/*.py`) | the run state: evidence, role results, merged answer, proposals, review | the nodes and the conditional edges | revision loop; skipped roles; parallel branches | results follow the allocation; mandatory roles run; flags escalate; runs end |
| Role router, parallel roles, two-tier review | the allocation; branches, budget reservation; review decision | `route_roles`, `next_role_after`; `execute_parallel_roles`; `quality_check`, `safety_check` | branch failures, cancellation with a grace period, token budget | order independent of arrival; budget kept; a failed group leaves nothing |
| Checkpoint savers (`checkpoint/mysql.py`, `checkpoint/sqlite_saver.py`, `checkpoint/store.py`) | threads, checkpoints and pending writes in tables; buffered transactions, their registry, `execution_lock` | `put`, `put_writes`, `get_tuple`, `list`, `delete_thread`, `checkpoint_transaction` | optimistic versions; a flush of several statements over row and gap locks; a crash inside it; background threads that write into or beside a transaction | commits atomic; versions grow and are distinct; a transaction reads its own puts; nobody waits for ever while `execution_lock` leaves the pool a connection |
| Approval and resume (`orchestration/harness.py`, `api/routes.py`) | the thread's checkpoints; the contract in each answer | `run_workflow`, `resume_workflow` | four separate reads and writes of the thread; two resumes; a repeated or abandoned run beside them | decisions fit what the reviewer saw; a version is resumed once; an answer's version covers its proposals, and decisions on them are refused where they are not pending |
| Retrieval plan, loop and run cache (`nodes/context.py`, `nodes/retrieval.py`, `retrieval.py`) | the plan, the attempts, the gathered chunks | `retrieval_planner`, `retrieval_loop`, `retrieve_context`, `rerank_context`, `sufficiency_gate` | three sources that may fail, retry or answer with nothing | a failure loses no evidence; limits hold |
| Bounded ReAct search (`nodes/synthesis.py`) | iterations, observations, citations, the loop trace | `bounded_react_search` and its triggers | five ways to stop early; cancellation by a sibling branch | budgets hold; a cancelled search winds down |
| Retries, tool bridge (`retry.py`, `tool_bridge.py`, `rag_runtime_client.py`) | the attempt in progress | `with_retry`, `retrieve_tool_context`, `execute_write_tool` | no deadline is bound on the graph's thread | attempts bounded |
| Sandbox runner (`services/sandbox-runner`) | the one-shot claim; the session; reader, writer and lock of the transport | run, validate, send, close | asyncio cancellation and shielding; a socket that is full in mid-frame | one execution per sandbox; control frames are readable; every admitted request is answered |
| RAG runtime, reference MCP server, providers, skills, evaluation, configuration, SDK | none, or append-only | I/O, scoring, text | - | not protocol code |

How they interact: a route fixes the request's deadline, calls `acquire` (which has a queue-wait limit of its own), then the harness, and closes the lease in a
`finally` block. The harness submits the graph to the executor whose size is the number of admission slots and
waits for the future. The graph thread runs the nodes; the retrieval loop and the searches call the RAG runtime and the bridge over
HTTP; the parallel-roles node starts two more threads. LangGraph calls the checkpoint saver between nodes, which borrows connections
from the pool. When the graph returns, the harness enqueues proposals (shared store, no lock) that the lifespan's
worker executes over HTTP, and answers with a contract that names the thread's latest checkpoint; a resume compares that
version, then writes the decisions. The sandbox runner is a process of its own.

`PROJECT.json` lists the hazards, each at its line with the properties that would catch it.

## 2. Modules

| Module | Models | Builds on |
|---|---|---|
| `LeasePool` | abstract: a pool of at most `MaxActive` leases, `OrgShare` per organization, each granted and returned once | - |
| `Admission` | the admission controller | implements `LeasePool` |
| `RequestLifecycle` | route, harness, executor, deadline, graph as a sequence of cancellation points | extends `Admission` |
| `ToolQueue`, `ToolQueueHistory` | task store, producers, workers of successive lifespans; a count of the outcomes that are overwritten | - |
| `ConnectionPool` | the pool of connections | - |
| `WorkflowGraph` | the graph, its router, the parallel group and the review | - |
| `CheckpointStore` | abstract: the tables of one graph thread change by whole commits with fresh versions | - |
| `CheckpointTxn` | the MySQL saver over InnoDB's locks | implements `CheckpointStore` |
| `SqliteSaver` | the SQLite saver | implements `CheckpointStore` |
| `Checkpoints` | the configured saver, its reads, the properties of both | composes the two savers |
| `ApprovalFlow` | runs and resumes of one durable thread | takes versions as `CheckpointStore` gives them |
| `RetryCall`, `RetrievalLoop`, `ReactSearch` | a retried call; the retrieval; a role's search after it | each extends the one before |
| `SandboxRunner` | gate, session and supervisor transport of a one-shot sandbox | - |
| `AdmissionProofs`, `LifecycleProofs` | theorems and proofs | `Admission`; `RequestLifecycle` on top of `AdmissionProofs` |
| `ToolQueueProofs`, `ConnectionPoolProofs`, `WorkflowProofs`, `ApprovalProofs` | theorems and proofs | `ToolQueue`, `ConnectionPool`, `WorkflowGraph`, `ApprovalFlow` |
| `CheckpointProofs` | theorems and proofs, with the refinement of `CheckpointStore` by both savers | `Checkpoints` |
| `EvidenceProofs` | theorems and proofs | `ReactSearch` and, below it, `RetrievalLoop` and `RetryCall` |
| `MC*` | instances for TLC | the modules they name |

Each module that has faulty variants of its actions keeps them beside the action they vary ("Faulty variant:" in
the comment). No specification uses them; they are the mutants that show each property can fail.

### Admission
`active`, `orgActive`, `waiters` are the controller's fields, `lock` the holder of its condition, `pc` and
`lease` the caller's position and what `AdmissionLease` it has. One action is one critical section, or one step of
a caller outside the lock. A release takes the lock (`Release`), grants one waiter per iteration (`GrantWaiter`)
and leaves (`EndRelease`); the unlocked reads in `acquire` (`ExpireBeforeWait`, `WaitTimeout`, `WakeGranted`)
interleave with the iterations. Time is the choice whether a deadline has passed. `_Waiter.cancelled` is never set,
so the branches that test it have no action.

### RequestLifecycle
Adds to Admission the handler's position, the state of the future, the executor's work queue, the nodes entered, the
deadline and the answer. Admission steps are reused as they are, except that `Close` waits for the handler's answer.
A remaining time of zero means "no timeout" in `_invoke_graph`, so a late request runs its graph on the HTTP thread
(`InvokeInline`). The deadline is a context variable: `ThreadPoolExecutor.submit` does not copy the context, so
`SeesDeadline` is false on a pool thread. A graph is `MaxNodes` cancellation points; what its nodes do is in
`WorkflowGraph`.

### ToolQueue
The store is a sequence of tasks, `byKey` its index, `dead` the dead-letter list. The queue has no lock: a look-up
and the add that follows it (`KeyIsNew`, `Add`), and the selection and the lease of a claim (`ClaimSelect`,
`ClaimTake`), are separate steps. Clocks are relative: a task keeps the time left of its lease and of its delay, a
worker how long ago it read the clock. The queue is a singleton of the process and survives the lifespan; `Stop`,
`Exit` and `Restart` are the lifespan's `stop()`, the end of the thread and the next start, and a worker that is still
in its executor when the join times out goes on beside its successor, or never returns. `ToolQueueHistory` adds one history variable, `overwritten`:
the number of times a settled task has changed its status. It restricts no step.

### ConnectionPool
Free connections are interchangeable, hence a number; clients take the code's paths: queue, growth under the lock,
blocking `get`; return, or retire and replace. Each call of the factory may fail (`MaxFaults` times).

### WorkflowGraph
`node` is the graph thread's position and the other variables are the state fields a decision reads. Texts are reduced to what the
decisions tell apart: whether evidence is cited and sufficient, whether a role's result is cited and flagged.
Retrieval is one step with its outcome; a role is one step with its result. The parallel group is modelled with its
threads: reservation of the token budget, submission, branches that return, raise or outlive their cancellation,
collection in the order of arrival, the grace period, the merge in canonical order. The review is the two checks, their
accumulated decision and the revision loop.

### CheckpointStore, CheckpointTxn, SqliteSaver, Checkpoints
The store is three tables: a namespace's counter (`current`), a checkpoint's version (`version`) and the pending writes; contents are
left out. `tx[a]` is a thread's buffered transaction with its snapshots, `op[a]` the database transaction it has in progress and the
locks that holds, `registry` the map by which a background thread finds the transaction of its execution. A flush goes
statement by statement (`FlushLock` once per namespace, `FlushRefs`, `FlushInsert`, `FlushCommit`), a direct put likewise; InnoDB's row and gap
locks decide who waits, a cycle of waits fails one of its members, and `OperationFails` or `Crash` may strike between any two
statements. In SQLite one lock makes every operation one step. `delete_thread` is the caller's housekeeping and is not run under an open
transaction (`DeleteRaces` FALSE; what happens otherwise is in the observations).

### ApprovalFlow
`log` is the thread's checkpoint table, a version its position. A run reads the latest checkpoint, runs, writes its
proposals, enqueues them, and reads the contract for its answer; a resume reads a snapshot, reads the version
again, reads the base of `update_state`, writes, and reads the contract: each is a step, and all calls of the thread interleave. A
timed-out run's graph goes on and writes later (`abandoned`).

### RetryCall, RetrievalLoop, ReactSearch
One service call with its attempts is `call`; while it is under way the graph's thread waits and only the call, its answer or its
failure moves. The retrieval keeps what was gathered and by which way each attempt got it; the fall-backs between RAG runtime,
bridge and the request's own chunks are the actions. The search counts iterations, citations and the scores of its triggers
exactly, in integer units that make every threshold comparison of the code exact. `cancel` is the group's event, set by a failing sibling at any
moment (`WorkflowGraph` models the group itself).

### SandboxRunner
The request's own task (`host`), the session's receive loop, the reader and the writer task are four processes of one event
loop; their zero-capacity streams are joint steps. A message is two units on the wire, so that a cancellation may fall in the middle of
a send. The supervisor (external) reads or not, and sends anything. Cancellation by `fail_after` reaches each task at any point where it waits,
except inside the shielded close.

## 3. Runs

Twelve runs; each checks a question of its own. State counts are those of the passing runs.

| Run | Instance | Shows |
|---|---|---|
| `admission` | 5 requests (3, 1, 1 of three organizations), 2 slots, share 1, queue 2, fair; 123,879 states | counting, work conservation, exact queue, no overtaking, implementation of `LeasePool`, no starvation unless a slot leaked |
| `admission_leak` | 4 requests of two organizations, 2 slots | **violation** of `RejectedHoldsNoSlot` |
| `lifecycle` | 3 requests of two organizations, 1 slot, 1 worker, queue 1, 1 node, fair; 650,147 states | no start after the answer, abandoned graphs bounded, late requests run no node, every slot comes back although graphs hang |
| `lifecycle_cancel` | the same with a queue of 2 | **violation** of `CancellationIsSeen` |
| `tool_queue` | 3 producers, 2 keys, rate limit 1, 2 attempts, 3 lifespans, fair; 393,865 states | dead letters, in-flight count, final outcomes, at most one lost outcome per restart, rate cap, settling of unlimited tasks |
| `connection_pool` | 4 clients, size 2, 2 faults, fair | bound and counter (hence room for every put), `acquire` ends while nothing fails |
| `workflow` | every preset, router and parallel setting, budgets 1, 2, 3, two revisions, fair; 154,548 states | results, mandatory role, escalation, grounded writes, budget, nothing left of a failed group, termination |
| `checkpoint` | 2 threads of one or two executions, 3 calls, 2 namespaces of 2 checkpoints, buffer limit 1, `execution_lock` held by each, 2 connections, 1 crash, fair; both savers; 193,105 states | ordered versions, flushes that see their snapshot, own puts read, atomicity, implementation of `CheckpointStore`, no operation waits for ever unless `execution_lock` has taken the pool |
| `approval` | a run and its repetition, 2 resumes, 2 tools, symmetry; 1,909,757 states | decisions fit what was shown, one resume per version unless two overlap, versions and proposals of the answers, also of those whose version is another call's checkpoint |
| `approval_queue` | the same | **violation** of `WritesFollowApproval` |
| `evidence` | 5 chunks of 4 types, 144 requests (routes, modes, policies, limits), 1 retry, every answer or failure of both services; 183,912 states | no failure loses evidence, budgets, wind-down of a cancelled branch |
| `sandbox` | an expected request, its repetition and a foreign one, 2 exchanges, a socket of one unit, fair; 353,004 states | readable control frames, an answer for every admitted request |

Why the bounds are enough. *Admission*: with three organizations at two slots the global limit and an organization's
quota can each be the binding one; with two queue places a release can pass over one waiter to grant the next, and the fifth
request meets a full queue. Larger shares are left to the proofs. *Lifecycle*: the second request is admitted while the first one's abandoned graph still holds
the worker, and the third is queued behind it, refused, or runs inline; a second node adds no control, since all cancellation
points are alike. *Tool queue*: two producers of one key
meet between look-up and add, the third adds the task without a rate limit; two attempts give one retry and one dead letter; three
lifespans leave up to two abandoned workers beside the present one. *Pool*: twice as many clients as connections, so clients wait
while others retire; two faults can empty it. *Workflow*: two revisions distinguish the first, the repeated and the
spent budget; with estimates of 2 and 1 the budgets 1, 2 and 3
are too small for one role alone, hold the pair in turn, and hold it at once. *Checkpoint*: two threads make every pair of
transaction, background thread and direct put; two namespaces are locked in order by both; a limit of one lets the buffer be full, one
write without a checkpoint locks a gap, one refers to a checkpoint that may be missing; with two connections a flush, a put
and `execution_lock` compete, and as both threads take the lock there are states with as many holders as connections. *Approval*: two
resumes race for one version, a repeated run moves the thread under them, two tools allow complete, partial and
repeated decisions. *Evidence*: answers of none, one and three chunks reach each score's threshold from both sides. *Sandbox*: a socket of one unit is full in
the middle of every message, and the second exchange is begun after a complete first one.

Symmetry is used in `approval` only, which checks invariants only. `CHECK_DEADLOCK FALSE` is set where the system really stops: in
the connection pool, where a pool that lost its places comes to a halt, and in the approval runs, whose calls come to an
end. Elsewhere an explicit action (`AllAnswered`, `AllSettled`, `Ended`, `Finished`) marks the
states where the system is done, and `Starved` those where `execution_lock` has taken every connection, so a deadlock anywhere else would be reported; in ToolQueue the clock always ticks, and
its liveness property takes the place of the deadlock check.

### Fairness

- *Admission*: a caller that can run outside the lock does; one that waits for the lock gets it if the lock is
  free again and again (strong fairness of `Release`; critical sections are finite); the holder goes on; a lease is
  closed (the route's `finally`). Neither an arrival nor the passing of a deadline is assumed.
- *Lifecycle*: the deadline passes, handlers run, the lock is shared as above. A graph on a pool thread may hang for
  ever. A graph on the HTTP thread reaches its next cancellation point (a graph with an expired deadline has it before
  its first node). A request has finitely many of these steps, so it is enough that some request takes one
  while any of them can.
- *Tool queue*: the clock runs, the worker is scheduled, a stopped lifespan is started again, and the executor of the
  present worker returns or raises (the bridge's HTTP calls have a timeout). A stopped worker may never return.
- *Connection pool*: threads leave the lock; a waiting `get` is served if connections are free again and again
  (strong fairness: `queue.Queue` wakes waiters); a client that holds a connection gives it back.
- *Workflow*: the graph thread runs; a branch ends as long as its group is not cancelled (bounded loops, timeouts of
  the bridge). Nothing is assumed of a cancelled branch.
- *Checkpoint*: the body of a transaction ends; a thread goes on with a flush or a put if locks and connections let it again and
  again (strong fairness: InnoDB and the pool serve their waiters); InnoDB fails a member of a deadlock; a thread
  that has made its calls leaves its `execution_lock` (the body of the `with` is one invocation). No call has to be made: a holder with
  calls left may be waiting in `pool.get()`.
- *Sandbox*: the event loop runs what can run, and the supervisor ends the execution (it is sent `timeout_ms` with START). The
  runner's own timeouts are not assumed to fire: validation has none around the session.

## 4. Theorems

TLAPS checks every proof. All theorems hold for every set of constants that satisfies the named assumptions.

**`AdmissionProofs`** (assumptions `RequestsAssumption`: finitely many requests, each of one organization;
`LimitsAssumption`: at least one slot, natural limits). The inductive invariant `IInv` is the conjunction of

- `TypeOK`;
- `LeaseMatchesCaller`: a caller's position determines the state of its lease, and the holder of the lock is the caller in the
  grant loop. Needed because `WakeGranted` and `Close` act on a position and mean a lease;
- `QueueExact`: the deque is exactly the waiting callers without a lease, each once. Without it a grant from the deque
  could be a second grant of one request, and the counters would drift;
- `SlotsAccounted`: counters equal the cardinalities of the sets of leases; each action moves one request into or out of them;
- `CapacityRespected`: each grant is guarded by `CanGrant`;
- `WorkConserving`: not inductive alone: a release frees a slot and re-establishes it only at the end of its loop;
- `OneFreeShare`: what a release in progress has freed is one slot or one share of its own organization. It
  carries "nobody eligible before the release" into the loop and gives "at most one admission per release".

From it: `TypeCorrect`, `SlotsAreAccounted`, `CapacityIsRespected`, `IsWorkConserving`, `QueueIsExact` (invariants),
`ReleaseAdmitsAtMostOne` and `NobodyIsOvertaken` (action properties; the second follows from `WorkConserving` on the
fast path and from `FirstEligible` in the loop), and `AdmissionImplementsLeasePool`: a grant is the pool's grant, a
`Release` its return, every other step a stutter.

**`LifecycleProofs`** (the same assumptions). `LifecycleImplementsAdmission`: every step of the lifecycle is a step of
`Admission` or leaves its variables alone, so the theorems above hold in the composed system too. The inductive invariant `LInv` adds to `IInv`

- `LTypes`: the types of the handler, graph, backlog and deadline variables;
- `HandlerMatchesGraph`: the position of a handler tells what its graph may be: no graph before it is invoked, no pending
  graph once the future was cancelled, an expired deadline and no node for a run on the HTTP thread, and no handler
  outside `invoke` or `answered` unless its caller holds a lease (`Close` acts only on an answered handler);
- `WorkersBounded`: the graphs on pool threads are at most `MaxActive`; only `StartGraph` adds one, and it needs a free worker.

From it: `NothingStartsAfterItsAnswer`, `LateRequestsEnterNoNode` (the first cancellation point of a run on the HTTP thread sees the
expired deadline) and `AbandonedGraphsAreBounded` (a running graph whose lease is not open is on a pool thread, because
`HandlerMatchesGraph` and `LeaseMatchesCaller` tie a run on the HTTP thread to an open lease).

**`ConnectionPoolProofs`** (assumption `PoolAssumption`). The invariant is `TypeOK` and `ConnectionsBounded`: the free
connections and those in use are at most the counter, and the counter at most `PoolSize`. From it: `TypeCorrect`, `PoolIsBounded`. A client
that puts a connection back is one of those in use, so fewer than `PoolSize` are free: the `queue.Full` branches of the code are dead.

**`ToolQueueProofs`** (`QueueAssumption`: keys and priorities are given, a rate limit and a number of attempts of at least one). `IInv` is

- `Types`; the lengths of leases and delays stay untyped, because nothing below depends on them;
- `OneClaimer`: only the present lifespan's worker is between selection and claim, those to come have not begun;
- `ClaimFits`: what it has selected still fits under the rate limit. `claim` does not look again, so without this conjunct
  `RateCapRespected` is not inductive: it holds because producers never put a task into processing and the abandoned workers only take some out;
- `ClaimIsQueued`: until a restart the selected task is still queued, which makes a claim an attempt that `InFlightExact` can count;
- `DeadAreTasks`, and the three properties themselves.

From it: `RateLimitHolds` (over any number of restarts), and for the first lifespan `DeadLettersAreExact`, `InFlightIsExact` and the
action property `OutcomesAreFinal`. That scope is the properties' own; the late worker of section 5 breaks them
afterwards. What holds then is `RestartsCostOneOutcome`, by an invariant over the history: `overwritten`, the workers left behind in their executors, and the
outcome the present worker is about to overwrite because a late result has settled its task (`Due`), together never exceed the restarts. A worker left behind
pays for its one late result by its exit.

**`WorkflowProofs`** (`GraphAssumption`: natural revision budget, estimates and token budgets). Three invariants, each resting on
the one before, and a fourth on the first:

- `GroupInv`: a branch runs only while its group is at its node, collected branches are those whose deltas the group has, and in the
  sequential mode one branch is under way. `RunningWithinBudget` needs the last: the reservation allows what the total allows, and without one
  only a single branch, or those a failed group left behind, may run. `TokensMonotone` bounds the sum over part of the roles by the sum over all;
- `RolesInv`: `role_results` is, at every role of every pass, exactly the prefix of what the allocated list and its revisions demand
  (`Expected` gives the role at each position; `InPass` and `PassDone` say how far the pass is). The order in which branches end does not show;
- `ReviewInv`: merged flags are those of all results, proposals exist only with sufficient evidence, such a run passes the roles
  once, and the critic's verdict is the one of the present pass;
- `LeftoverInv`: before the group has ended there are no results, a run with an outstanding branch (begun, not collected) is in its group
  or has failed, and while the group runs the outstanding branches are those that hold a share (`SharesHeld`).

From them: `FailedGroupsLeaveNothing`, `GroupsFitTheBudget`, `ResultsFollowTheList`, `TheRiskAnalystRan`, `FlagsAreEscalated` and `AcceptedWritesAreGrounded`. The last
needs a positive revision budget, which is part of the property: with none, the first pass is accepted unseen.

**`CheckpointProofs`** (`StoreAssumption`, `TxnAssumption`). `VersionsStayOrdered`: whatever implements `CheckpointStore` keeps the versions of a
namespace distinct and its counter ahead of them. The invariant adds only the types of the two tables; a new version is above the
old counter and hence above all old versions (`CommitKeepsOrder`), and a delete starts afresh (`EraseKeepsOrder`).

The theorems about the savers assume `~DeleteRaces`: no thread is deleted while a transaction is open. Nothing in the runtime
calls `delete_thread`, and the assumption is necessary (section 5). Their inductive invariant `TxnInv` is the conjunction of

- the order above and the types of buffers and operations;
- `BufferConsistent`: as long as a namespace has not moved on, its tables are what the snapshot saw, and none of the transaction's puts is in them;
- `FlushConsistent`: what the statements of a flush have established, one by one: past the lock on a namespace's row its version is
  the snapshot's, and before the commit the rows to insert are locked. This is what makes a commit find what the check saw;
- `PutConsistent`: a direct put that found its checkpoint missing holds the gap, and its new version is the next one;
- `Apart`: thread rows are locked exclusively, and no flush is about to commit a checkpoint that a direct put found missing. It is the only
  conjunct about two threads, and where InnoDB's gap locks enter the argument;
- `SqliteHasNoTransactions`, and that nothing was deleted.

`TransactionInvariant` proves it. Every step belongs to one thread, and `OthersStayConsistent` shows once that the others keep their part when
no row they have locked moves. From it: `SaversImplementTheStore` (the refinement: a flush's commit, a direct put's insert and SQLite's `put` are one `Commit` of the store each, every other
step a stutter), `SaversKeepVersionsOrdered` (by the refinement, from `VersionsStayOrdered`), `FlushesSeeTheirSnapshots`, `FlushesAreAtomic` and `ReadsSeeOwnPuts`.

**`ApprovalProofs`** (`FlowAssumption`: runs and resumes are different calls, each proposal is a finite set of tools and each decision a sequence of
them). `IInv` is `Types` with one part per resume (`ResumeFits`) and one per run (`RunFits`), each about that call and the log:

- what a resume read first is still in the log at that version (`HasSnapshot`), and once past its checks it is the version the
  request names and its decisions cover that version's tools (`Checked`). The log only grows, so both survive the steps of others;
- a resume that has written is past its checks, and every checkpoint of its own is above the version it names;
- the last checkpoint a graph has written is what it holds in memory (`LastWriteIsMemory`), until it reports; after its answer it writes
  no more (`NamesItsProposals`), so an answer's proposals are those of its run's last checkpoint whoever wrote meanwhile.

From it: `DecisionsCover`, `ResumedOnce`, `AnswersAreCurrent`, `AnswersNameTheirProposals`, for any number of runs and resumes.

**`EvidenceProofs`** (`RetrievalAssumption`, `SearchAssumption`). `EInv` is

- `EvidenceTypes` and `Places`: a call is awaited at two nodes only, and at the search's it is the bridge's;
- `RetrievalInv`: an attempt under way has a step of its own within the limit, although the plan may be longer; while the bridge is
  asked for a request with chunks, some are kept. `FallbackKeepsEvidence` needs it: only the failure of that call, a step later, uses them;
- `SearchInv`: an iteration begins only while one is left;
- `WindDownInv`: late attempts belong to the call under way. `CancelledBranchWindsDown` alone is not inductive: a call that begins with
  late attempts already counted could exceed the bound, and `node = "tool_call" => late = 0` excludes it.

From it: `FailuresKeepTheEvidence`, `CancelledSearchesWindDown` and `BudgetsHold`. The last assumes `LoopMaxSteps >= 3`: a search makes up to three iterations, so a smaller `loop_max_steps` gives the harness a
budget that the search does not know of (section 5); the default is five.

All inductive invariants were checked by TLC on the instances of section 3 before they were proved.

**Model-checked only.** Liveness (`QueuedIsAnswered`, `SlotAlwaysReturned`, `UnlimitedTaskSettles`,
`AcquireEndsWithoutFaults`, `EveryRunEnds`, `OperationsEnd`, `ShotReachesItsEnd`): fairness and `ENABLED` are beyond the prover, as are induction over data and
`RECURSIVE` operators (none is used here). The safety of `SandboxRunner` (`ControlFrameIsReadable`) is checked on the instance above and not proved yet.
Every other safety property of a passing run has a theorem.

## 5. Findings

Each has a run whose counterexample shows it; `PROJECT.json` quotes the text it contradicts.

1. `admission.py:189` — a grant between the unlocked read of `waiter.acquired` and `_remove_waiter` leaves a counted lease
   nobody can close; the slot is lost until the process restarts (`admission_leak`).
2. `orchestration/harness.py:279` — the deadline's context variable is not bound on the pool thread, so a cancelled graph
   enters further nodes (`lifecycle_cancel`).
3. `orchestration/harness.py:465` — proposals are enqueued when the graph returns, before anybody has decided on them, though
   two texts speak of approved proposals (`approval_queue`).

Observations made while modelling that have no run of their own:

*Requests and threads.* The lease is closed when the grace period ends while the graph still runs (`orchestration/harness.py:301`; two
comments say it stays held until the graph exits); `AbandonedGraphsBounded` is what does hold. A failed connect leaves the pool's counter
raised (`persistence/mysql_pool.py:62`); once every place is lost `acquire` blocks for ever, hence `AcquireEndsWithoutFaults`.

*Tool queue.*
- An expired lease still counts as in flight (`async_tool_queue.py:184`), so a vanished worker's task throttles its own rate key for
  ever, though the docstring (13-14) promises recovery. `UnlimitedTaskSettles` states what holds.
- Two threads that enqueue one key between each other's look-up and add make two tasks (`async_tool_queue.py:139`).
- After a restart, a late `complete` or `fail` of the abandoned worker overwrites a settled task (`async_tool_queue.py:211`).
  `DeadLettersExact`, `InFlightExact` and `OutcomeIsFinal` are therefore stated for the first lifespan; beyond it
  `RestartCostsOneOutcome` bounds the damage.
- The backoff counts from the clock read before the execution (`async_tool_queue.py:300`), so a retry after a long attempt
  comes at once. A write whose answer was lost is executed again (`tool_bridge.py:183`); the key goes with it, and repeating is the Go backend's affair.

*Graph.*
- A budget smaller than one role's estimate makes the group fail rather than run in turn (`nodes/parallel_roles.py:358`).
- A draft that is still ungrounded when the revision budget is spent is passed (`nodes/check.py:78`, expected by
  `test_quality_budget_exhausted_accepts_draft`), where `docs/` speaks of escalation (`architecture/check-agents.md:24`, `reference/configuration.md:128`).
- The first-tier decision "escalate" is unreachable in the composed graph: sufficient evidence is cited and therefore
  grounded, and insufficient evidence is revised until the budget is spent, then passed. What keeps
  ungrounded writes out is that insufficient evidence yields no proposals (`AcceptedWriteIsGrounded`).
- A revision runs with the same evidence, and the merge keeps the first summary, so the loop does not change the draft.
- A run repeated on a durable thread inherits `critic_retries` and `output_decision` of the run before (`nodes/check.py:78`).

*Checkpoints.*
- `execution_lock` keeps its connection while the operations under it need another (`checkpoint/mysql.py:635`), and `pool.get()` has no
  timeout: with as many holders as connections each waits for the others and every other thread for them, until a restart.
  `OperationsEnd` names this state (`LocksTakeThePool`) as the only exception; without the exception TLC finds, in five steps, a holder
  whose sealed transaction never flushes because a second holder took the last connection. Only tests call `execution_lock` today.
- `delete_thread` under an open transaction makes its flush create the thread row at the snapshot's version (`checkpoint/mysql.py:344`): with
  `DeleteRaces` TRUE `FlushSeesItsSnapshot` fails, and a delete followed by as many commits as before is not noticed at all.
- `put` moves the snapshot's version on before `ensure_capacity` may refuse it (`checkpoint/mysql.py:759`): a version is skipped, never reused.
- SQLite's `put` of an existing checkpoint gives it a new version, MySQL's keeps the old one; both are commits of the store.
- SQLite's `list` limits before it filters (`checkpoint/sqlite_saver.py:189`), so matching checkpoints behind the limit are missed.
- `list` reads each checkpoint again without the execution id: on a background thread, which reaches the transaction only through the
  registry, buffered checkpoints are dropped from its answer.

*Approval.* A graph abandoned by its timeout writes its checkpoint over decisions that were acknowledged meanwhile. The same approval
is accepted again in a second, later resume that names the new version. Two overlapping resumes of one version may both be
acknowledged (`orchestration/harness.py:545`; `ResumedOnceUnlessConcurrent` states the limit of the check).
A run whose thread another call wrote to before it answered names that call's checkpoint beside its own proposals
(`orchestration/harness.py:498`): a reviewer who approves them is refused with a conflict although nothing was wrong with the decisions.

*Evidence.*
- In `go_context` mode the bridge is still asked when the request carries no chunks (`models/retrieval.py:8`). An empty answer of the bridge replaces
  local chunks (`nodes/retrieval.py:228`), while an empty answer of the RAG runtime is filled up with them. `allowed_source_types` does not restrict a step that asks for all.
- `CONFIDENCE_PLATEAU` and `CHECKAGENT_EARLY_STOP` can never end a search. The docstring of `bounded_react_search` counts them among "three additional
  signals [that] can stop the loop early" (`nodes/synthesis.py:238-244`), but both ask for `quality_gate_passed` (`nodes/synthesis.py:412`, `423`), which already
  requires the goal score to reach its threshold (`nodes/role_router.py:120`), and then the loop has left at line 399. `Trigger` of `ReactSearch` keeps both
  branches as the code has them, and `TriggerMeaning` in `EvidenceProofs` proves that it never yields their outcomes. No property passes on this: one that every reachable state satisfies because a guard contradicts itself would hide the disagreement.
- `_compute_citation_coverage` speaks of distinct citations but counts repetitions. A `ToolBridgeError` skips the cancellation check after the call.
- The reported stop reason may be "max_iterations" although the last iteration ended by its citations or its goal. With `loop_max_steps` below 3 the
  reported budget would be smaller than what the search may use.
- No `RetryBudget` exists on the graph's thread, and elsewhere each call would get a fresh one (`deadline.py:310`). A malformed 2xx answer of the
  bridge raises `ValueError` past the retries and the fall-back. Within one run the run cache never has the query it is asked for.

*Sandbox.*
- The control frame of the shielded close is called best-effort, but waits for room in the socket (`supervisor_transport.py:158`): a timed-out execution is answered
  only when the supervisor reads or closes, so `ShotReachesItsEnd` needs the supervisor's own timeout.
- After a timeout the CANCEL frame may follow the first part of an unfinished STDIN frame; `ControlFrameIsReadable` holds for every other
  close. A STDIN frame may follow CLOSE_STDIN when the writer was waiting for the lock.

## 6. Not modelled

- Model providers and the RAG runtime: HTTP calls, parsing and floating-point ranking of stateless input; their outcomes are
  choices in the models.
- Reference MCP server, skills and context compression, badcases, datasets and evaluation, configuration, authentication,
  metrics, SDK and shared models: text processing, settings, counters, append-only records.
- Of modelled components: the task store other than the in-memory one; the in-memory saver (LangGraph's); serialization and payload sizes of
  checkpoints; `RetryBudget` (never built in a graph run) and delays; parsing of tool output and of MCP pages; the stub layer; the HTTPS and stdio transports of the
  sandbox runner, whose sessions are the SDK's; the driver's opening and rolling back of a connection; metrics and traces;
  the bypass without an admission controller (tests only); start-up and teardown of the lifespan other than the worker's.

## 7. Plan

1. `SandboxRunner`: `ControlFrameIsReadable`, with an invariant that ties each frame in the socket to the writer that owns the lock.
2. A saver that deletes: what remains true of `CheckpointTxn` with `DeleteRaces`, stated as an invariant of its own.
3. The composed lifecycle restates what it inherits from `AdmissionProofs` (`WorkConserving`, `QueueExact`) as theorems of its own.
