# ReleaseHub: TLA+ models, checks and proofs

ReleaseHub deploys approved versions of Argo CD Applications. An API server and
a worker share one PostgreSQL database; the worker drains a job queue, looks for
new candidates and drives Argo CD. These modules model the parts of the Go code
where interleavings, crashes, leases, retries and old pages decide whether a
release is safe, check them with TLC on small instances and prove the central
results with TLAPS for every value of the constants.

Paths below are relative to `src/Server/internal/`.

## Inventory

| Component | State | Operations | What makes it hard | What makes it correct |
| --- | --- | --- | --- | --- |
| Job queue and consumer (`deployment/*/job*.go`) | `deployment_jobs` rows; a lease copy per consumer | enqueue, claim, defer, heartbeat, succeed, retry | clocks read before statements, lease takeover, crashes, deferrals that give attempts back | one grant per fencing token, bounded executions, resolved jobs stay resolved |
| Application operation locks (`deployment/*/application_lock*.go`) | a row per locked Application; a lock set per runner | acquire with takeover, heartbeat, release, hand-over, unlock | late statements, partial takeover, operators beside runners | one operator per Application, sets are whole |
| Plan engine (`deployment/domain/deployment_plan_engine.go`) | none: evaluates a plan and statuses | cycle check, ready nodes, slots | parallel batches, redelivery with saved statuses | cycles rejected, dependencies first, limits kept |
| Executor and execution repository (`deployment/application/executor*.go`, `deployment/infrastructure/execution_*.go`) | executions, nodes, versions; Argo CD operations | prepare, preflight, block, run, sync, watch, complete | a crash between any two calls, two deliveries at once, operations that go on without the worker | nothing synced twice or without its preflight, the outcome is the truth |
| Execution control (`deployment/application/execution_control*.go`) | commands on executions, with their keys | retry, terminate, unlock | commands decided on a snapshot while the executor and other commands go on, lost answers | each attempt ended once, each retry one attempt, no Application operated after its unlock |
| Release workflow and reviews (`deployment/*/workflow_runtime*.go`, `domain/review.go`, `domain/workflow_engine.go`) | instances, tasks, decisions | transition, review, reassign, recover | votes beside reassignments, quorum at its limit, results beside commands | jobs only after reviews, one open review, approved ones move on |
| Candidates and request versioning (`deployment/*/candidate*.go`, `deployment_request*.go`) | observations, requests, versions | observe, version, supersede, edit | reads of Argo CD between transactions, targets that change or are reverted | one live version, nothing accumulated is lost, no difference missed |
| Preflight and content locking (`deployment/application/preflight.go`) | none: compares recorded and current content | compare | content that drifts after the review | drift fails closed |
| Definitions and bindings (`deployment/*/workflow_definition*.go`, `*plan_repository.go`, `*binding*.go`) | drafts, published versions, bindings | save, publish, disable, bind, delete | old pages, deletion beside publication | lifecycles go forward |
| Schedules (`deployment/*/deployment_schedule*.go`) | versioned policies, recorded commands | replace, evaluate | lost answers, window and blackout arithmetic | what was accepted is stored, the first allowed minute is found |
| Lists and history (`deployment/*/*request_list*.go`, `*history*.go`) | none: keyset pages | page | rows that appear, move and leave between pages | nothing that stays is skipped |
| Notifications (`deployment/*/notification*.go`) | outbox, inbox, receipts, streams | project, expire, stream, mark | failures, events committed out of order, lost connections | each recipient gets each event, once |
| Onboarding, reconciliation and status (`argocd/`) | candidates, onboarding rows, commands; Applications in Argo CD | assign, validate, confirm, recover, observe | calls to Argo CD between transactions, edits of others | managed only after a readback, drift is found |
| Runtime reads (`argocd/application/runtime*.go`) | none: several reads per answer | topology, manifest, events, logs | rights and resources that change between reads, limits | nothing disclosed that was not allowed and recorded |
| Identity and sessions (`identity/`) | users, sessions | sign in, refresh, revoke, change password, log out | refreshes beside revocation | a disabled user is not served |
| Authorization (`authorization/`) | groups, roles, bindings, denials, policy revision; a cache per process | manage, reload | a cached policy beside commits, guards that read before they write | someone can manage, a revoked right does not come back |
| Catalog (`catalog/`) | organizations, projects | create, rename, delete | deletion beside creation | no project without its organization |
| Audit trail (`audit/`) | events, scopes | list, get, offer scopes | grants and denials read in several statements | what is shown was allowed |
| ECR, HTTP, configuration, bootstrap, web client, charts | lookups, wiring | | little of it is concurrent | |

How they interact: the candidate worker opens or supersedes a *version*, whose
*workflow instance* collects reviews; a workflow transition or a retry *inserts a
job* in its own transaction; the consumer *claims* the job, asks the schedule
*gate*, and calls the executor, which *locks* the Applications, *evaluates* the
plan, calls Argo CD and *saves* node statuses; `Complete` closes the execution and
advances the workflow. Operators act on the same rows from the API process; every
request is first authorized from the policy cache of its process. Transactions
leave outbox events, which the worker projects into inboxes. Components share
state only through the database, so transactions are the atomic steps.

## Modules

Every variable is a column, a local variable of a process or the state of Argo
CD; every action is one statement or transaction of the database, one call to
Argo CD or one read of the clock. Definitions whose comment begins "Mutant of"
are wrong variants, kept to show that a property notices the bug they stand for.

| Modules | Model | Run |
| --- | --- | --- |
| `JobQueue`, `JobLedger`, `JobQueueProofs` | the job queue and its abstract ledger | `job_queue` |
| `ApplicationLocks`, `OperationLocks`, `ApplicationProofs` | the lock table and its abstraction | `application_locks` |
| `PlanEngine`, `PlanRun`, `PlanRunProofs` | plans and how they are carried out | `plan_run` |
| `DeploymentExecution` (on `PlanEngine` and `OperationLocks`), `DeploymentExecutionProofs` | executor, execution rows, operators, Argo CD | `exec_*` |
| `ReleaseWorkflow`, `ReleaseWorkflowProofs` | workflow documents, reviews, commands, results | `release_workflow`, `workflow_result` |
| `Candidates`, `CandidatesProofs` | candidate worker and request versions | `candidates` |
| `Access`, `AccessProofs` | users, sessions, rules, policy caches | `access` |
| `Onboarding`, `ApplicationProofs` | onboarding and reconciliation of an Application | `onboarding` |
| `PlanCycle`, `Definitions`, `Catalog`, `Schedules`, `ExecutionCommands`, `Notifications`, `Listings`, `AuditTrail`, `Diagnostics`, `ConsoleProofs` | what users do in the console beside releasing | `console` |

`Console` composes the last nine. They share no state, so its behaviours are those
of one part with the others left as they start; one run then covers all of them.
`MC*` modules hold the values of the constants.

### Job queue

`rows` is `deployment_jobs`; `worker[w]` is a consumer with the clock it has read
(`at`) and its lease copy. `StartPoll`/`Claim`/`ClaimNothing` are `Run` and
`Claim` (with the failing of exhausted leases, which an empty claim rolls back);
`Defer`, `StartExecution`, `Heartbeat`, `Succeed`, `Retry` are the calls of
`ProcessOnce` and the updates of `job_queue_lease.go`, all guarded by
`HoldsLease`. Time passes between the read of a clock and the statement that uses
it, so leases are late, are taken over and end in any order. `JobLedger` is the
promise without clocks: numbered grants, of which only the current one may
resolve its job. `JobQueue` implements it (`ImplementsLedger`).

- `job_queue`: one job, two consumers, two attempts, a heartbeat, a deferral and a
  crash, clock up to 24, which is beyond the longest life of the job. Jobs do not
  touch one another's rows, so one is enough.

`FairSpec`: the clock goes on and a consumer that is up takes its next step. `Run`
polls in a loop and its container is restarted. Progress ends in
`ResolvedOrStranded`: see *Gaps*.

### Application locks

`locks[a]` is a row of `deployment_application_locks`; `runner[r]` is an executor
with its owner token, fencing tokens and last heartbeat. `Acquire` is the upsert
loop (all rows or a rollback), `Heartbeat` and `Release` compare each row's owner
and token, `HandOff` is the transfer inside a retry, which writes the time that
`retryPrepared` read before the transaction, `Unlock` the deletion. `OperationLocks`
has the same operations without clocks: a lock lapses at any time, and what is
granted, renewed or handed over may be lapsed already (`Refresh`), because the time
that is written is older than the statement. `DeploymentExecution` is built on that abstraction; `ImplementsTable` shows
that it is one.

- `application_locks`: two runners, three executions with overlapping
  Applications, three acquisitions, TTL 2, clock up to 5, which lets a lock be
  acquired, expire, be taken over and renewed late. Runners are symmetric.

### Plans

`PlanEngine` holds the pure part of `deployment_plan_engine.go`: edges, ready
nodes in plan order, free slots. `PlanCycle` is `visitPlanGraph` with its counters
and queue; `VerdictIsRight` compares it with the definition of a cycle. `PlanRun`
is the loop of `executePlan` over batches, deliveries that start from saved
statuses, and failed-only retries; one state variable per saved column and one
for each local map of the loop.

- `plan_run`: every acyclic plan of three nodes with both kinds of edges and each
  kind of limit, every subset of them in the request, two infrastructure errors,
  two retries. Three nodes give chains, forks and joins; two errors give a crash
  of a delivery that already resumed one. Fairness: a delivery goes on and an open
  job is delivered again. Errors are bounded by `MaxBreaks`, as `max_attempts` does.

### Executions

The executor, the rows it shares with operators, locks and Argo CD in one system.
`run[r]` is one delivery: `pc` names the call it makes next, `seen` the status it
loaded, `runtime`, `known` and `task` its batch. A node's `task` goes through
`saving`, `syncing`, `watching` (or `resuming`), then `succeeding` or `failing`,
which are the saves of its result. `Break` ends a delivery anywhere; `LoseJob`
lets the job go to another runner while this one goes on; `LoseLocks` is the
heartbeat that finds a lock in other hands. Commands of operators are `Retry`,
`Unlock`, and a `Terminate` in three steps: snapshot, a call to Argo CD per node,
transaction (`BeginTerminate`, `StopOperation`, `FinishTerminate`). `Supersede` is
a new candidate. `StartOperation`, `EndOperation` and `Drift` are the environment:
Argo CD takes one operation at a time, starts it some time after the call, ends it
either way; a call or its reply can fail.

| Run | Instance | Shows |
| --- | --- | --- |
| `exec_batch` | one version on two Applications, at once or one after the other; one worker, two deliveries, crashes, errors and lapsing locks; fair | no Sync is repeated, every job ends |
| `exec_leases_kept` | two versions and a retry that share an Application, a dependent second one; two workers, leases kept | a Sync is sent under its lock, others keep out, a success is an operation of its own version, a terminated execution is never written to |
| `exec_blocked_again` | one Application that drifts, two deliveries | a disagreement, see *Gaps* |

Two Applications give partial failures, two attempts a retry, two runners a late
run beside its successor, two versions contention; a third of each repeats these.
`FairSpec` is one condition per runner: its next step, its loss of locks, or the
claim of a job happens in the end. Every wait of the code has a timeout
(`receiveWatchObservation`, the condition timeout, RPC deadlines), which the model
has as the second disjunct of `Watch`. Nothing is assumed of operators, Argo CD or
time.

### Release workflow

`document` is the published graph, `version[v]`, `instance[v]`, `tasks[v]` and
`exec[v]` are rows, `intents[v]` counts the jobs inserted. A command is decided on
a snapshot (`Load*`), kept in `cmd[c]`, and written in one transaction that
compares lock versions and fences (`Apply`), or is a conflict. Operators, the
candidate worker (`LoadStart`, `LoadRecovery`), the deployment worker (`Prepare` to
`Complete`) and `NewCandidate` interleave. An execution is reduced to its status.

- `release_workflow`: two versions on a graph with one review of two voters or with
  two reviews in turn that may be called back, with three of the five review policies
  (the other two are satisfied by counting approvals, like a minimum); two
  operators. Instances change up to lock version 5, the first at which a result is
  recorded and a retry, or a termination of a partial failure, follows.
  `FairSpec` is fair to the two workers, which poll, and to no operator.

### Candidates

`pass` is what the candidate worker has read and not written: the binding, the
Applications to go, the manifests, the observation. `ReadTarget` and `ReadDiff` are
its two reads of Argo CD, `Persist` the transaction that records the observation
and creates or supersedes a version; `Skip` and `Restart` are its failures. `edit` is
a page of an operator; `Deploy` to `Terminate` are what executions and operators make
of a version and of the live content.

- `candidates`: two Applications, two contents, two bindings of which one plans
  only the second Application, an editor, three versions, and three changes made
  outside or failures: a target that changes and is reverted between two reads
  needs two. `FairSpec`: the worker's loop goes on.

### Access

`facts` are the authorization tables, `cache[p]` what a process took from them with
the revision it was stamped with; `request[c]` goes through proving the session,
checking the revision, reloading in two reads, deciding and committing. A request
may need two decisions, each with a check of the revision of its own: creating and
revoking bindings and denials below the platform ask for the scope and then, whatever
the answer, for the platform (`AsksBoth`); the other commands ask for the platform and
for the scope if that is refused. `session` has the browsers' rows, with refreshes from
the provider.

`RevokedStaysOut` excludes one case, which `CacheIsWhatItSays` under *Gaps* is about: a
grant by rules that a commit outdated between the two reads of their reload, in either
decision of the request.

- `access`: three users, two of them with passwords, two browsers on one process,
  three requests or sign-ins, in each of several workloads: managers that remove one
  another, denials and grants of what a viewer sees, a project's groups and roles,
  passwords and log-outs. Two requests at once can take the last managers away, and a
  third sees what a stale cache grants. Browsers are symmetric.

### Onboarding

`argo` is the Application in Argo CD, `candidate`, `mapping`, `row` and `command` are
rows; `knows` and `current` say who knows the present version of a row, instead of
version numbers. `task[p]` is a client's request or the worker's recovery between its
calls (`Check`, `DisableAutomatedSync`, `ReadBack`, `MarkManaged`), `listed` the list
that a reconciliation has read. `Edit` is anybody in Argo CD, `Interrupt` a crash.

- `onboarding`: two clients with three dry runs and confirmations, or one with four
  beside one edit of others, or with two beside two edits.
  `LiveSpec` is fair to the worker's loops, strongly where a call may fail but does
  not fail every time.

### The console

- `PlanCycle`: every graph of four nodes, the queue in every order.
- `Definitions`: a workflow or a plan whose versions two authors create, publish,
  disable and delete from pages that may be old; three versions, two bindings. Every
  command is checked where it is loaded and again where it is written.
- `Catalog`: two operators, two organizations, two projects, with the row locks that
  statements take (`FOR UPDATE`, `FOR KEY SHARE`) in the steps that take them.
- `Schedules`: two planners with two keys and two documents, answers that are lost;
  and the search for a start, for each set of windows and up to two blackouts in a
  week of three minutes. Time is in thirds of a minute, so that a search may begin and
  a blackout end within one. The search reaches its limit in some.
- `ExecutionCommands`: two operators, two keys, two commands, three attempts of a
  version on two Applications: a retry of a retry, two commands on one attempt, and a
  command that is sent again are among the behaviours.
- `Notifications`: three events whose transactions commit out of their order, one
  reader; projection with failures, restarts and expiry, beside a stream, marks, or
  changes of rights. `ProjectionIsFair`: the worker is restarted and an event that
  can be projected again and again is.
- `Listings`: six lists of three rows in two groups, one row per page, rows that
  appear, move and leave between pages, memberships and candidates that come back,
  filters that change.
- `AuditTrail`: a project with an environment and an Application in it, an event in each,
  one of the platform and one without scope, two changes of grants and denials
  anywhere between the statements of a request and of a reload. Two are enough for
  rules that are stale and a reload that is torn, or a change within the request.
- `Diagnostics`: some 3600 resource trees of three resources, a Pod and a Secret
  among them, limits of two nodes and one edge, rights and resources that change.
  The right to view is decided by the rules the process has loaded (`loaded`), and
  nobody asks for their revision there (`Authorize`). Orphaned resources are in the
  tree, and content of one is refused.

In the audit trail `granted` and `denied` are the tables, `changes` their revision, `cache` the rules the
process holds with the revision it takes them for. Every decision of a request is
preceded by the comparison of the two revisions and, if the tables are ahead, by a
reload in two reads (`AuthorizeFresh`); the listener and other requests reload too, and
may fail between the reads. `ResolveDenials` and `ListRoots` read the tables, without
the cache.

`DisclosedWasAllowed` makes the exclusion of `RevokedStaysOut`: a request that was let
in by rules outdated between the two reads of their reload may have no grant any more
and a denial at its root or above against it. The denials below the root are read from
the tables, and even then nothing that they cover is shown.

## Proofs

Proved with TLAPS for every value of the constants that satisfies the modules'
assumptions (finite sets of consumers, positive attempts and durations, acyclic
plans, numbers for bounds):

- `JobQueueProofs`: `TypeCorrect`, `LeasesExclusive`, `ExecutionsBounded`,
  `FailedIsExhausted`, `LiveLeasesKept`, `QueueImplementsLedger`. The inductive
  invariant adds that the row's counters fit together (`RowsCounted`), that a
  consumer's lease copy is no newer than its row, and equal to it while it is the
  owner (`LeasesKnown`), and that started executions and those that may still
  start all have an attempt (`ExecutionsCounted`): without the last a superseded
  consumer before its gate could start one execution too many.
- `ApplicationProofs`, of the locks of Applications: `TypeCorrect`,
  `UnexpiredSetsAreWhole`, `OneOperator`, `OneOwner`, `UnexpiredRowsAreKept`. The
  invariant adds that owner tokens are drawn once (`TokensDrawn`) and that rows
  belong to executions that deploy their Application (`RowsBelong`).
  `RowsImplementTable`: the rows implement `OperationLocks`, action by action. A
  statement whose clock was read long ago, the hand-over of a retry among them, may
  write a row that is expired already, which is why the abstraction's `Refresh` may
  leave a lock lapsed; `Unlock` deletes all rows the
  execution has, and these are its targets by `RowsBelong`.
- `ApplicationProofs`, of onboarding: `OnboardingTypeCorrect`,
  `OneCommandPerConfirmation`, `ManagedIsTrue`. Whoever is at work has the mapping,
  which is set once; a row is `Applying` exactly while a command is accepted, and a
  save that does not know the present version of the row writes nothing; a task that
  is past its readback has seen what was confirmed.
- `PlanRunProofs`: `TypeCorrect`, `DependenciesComeFirst`, `OutcomeIsTrue`,
  `SuccessesAreKept`. The invariant relates the statuses a delivery works on to the
  saved ones, and says that the upstreams of a started node are deployed.
  `LimitsAreKept` and `FailuresStopTheRollout`, which say so themselves that they are
  about executions without infrastructure errors, need that whatever is under way or
  has failed then belongs to the batch that goes on (`CalmIInv`), and that a batch has
  no more nodes than there are slots, because no two nodes have one rank.
- `CandidatesProofs`: `TypeCorrect`, `OnlyTheNewestIsAlive`,
  `NothingAccumulatedIsLost`. The invariant says that a version that is not final is
  the newest of its request, that of two versions of a request the later by index
  carries what the earlier does (`Grows`), that an execution under way means
  `Deploying`, and that pages show versions there are: the transaction compares the
  lock version of the row it supersedes, so a page that is old changes nothing.
- `DeploymentExecutionProofs`: under no hypothesis `TypeCorrect`,
  `SuccessesAreTheVersionsOwn` (the task that is about to save a success has seen an
  operation of its execution, and Argo CD's operations are those that were started)
  and `ResolvedJobsAreConcluded`. The others say under which faults they hold:
  - `AtMostOneSync` and `TerminatedStaysFrozen` if `RunsDoNotOverlap`: there is one
    runner, or none loses its job. What a run knows of operation ids is then what is
    saved, since nobody else saves (`SendIInv`). With two runs they are false, the
    first by the row of `NothingSentTwice` under *Gaps*.
  - `BlockedIsQuiet` if no run breaks off. The status of an execution is that of the
    place its run is at (`StageIInv`). The crash that refutes it is `exec_blocked_again`.
  - `SyncsAreUnderLock`, `OthersAreKeptOut` and `PartialFailuresKeepLocks` if no run
    breaks off and no lock lapses: an execution that runs, is past its preflight or
    failed in part has all of its locks (`LocksIInv`). With `Lapses` a lock may be
    taken over between a heartbeat and a Sync, which nothing in the code prevents.
- `ReleaseWorkflowProofs`: `TypeCorrect`, `ReviewsAreDecidedByVotes`,
  `JobsFollowApproval`, `SupersededTakesNothing`, `DeployedIsSettled`. A command that
  was decided long ago is taken only under the lock version it was decided on; the
  invariant says that everything it was decided from is then still so (`Stands`), and
  that a step that is taken at all draws a new lock version. From the preparation of an
  execution on the lock of the version's row is ahead of the instance's (`ExecIInv`),
  so that no decision is ever taken again.
  `OpenReviewsAreCurrent` needs `ReviewsEndAsReviews`: no deployment result and no
  termination leaves a review state. The validation of documents permits such
  graphs; `Terminate` and `Complete` move the instance without closing its review,
  and TLC finds it open beside an instance in another state. In the graphs of
  `release_workflow` the hypothesis holds.
- `AccessProofs`: `TypeCorrect`, `LateRequestsAreNotServed`, `GrantsAreNotStale`,
  `SomeoneManages`. A request of a disabled user never gets past the reading of its
  user (`LateIInv`); a cache that is as new as its revision has the rules of the tables,
  and a user who has a right by a fresh cache had it since the request began
  (`CachesIInv`, `HeldIInv`); a request that is about to commit what may take a manager
  away holds the guard, and one remains after it (`ManagersIInv`). `SomeoneManages`
  needs `ViewersDoNotManage`, in every state: no group that the provider fills is bound
  to platform management. See *Gaps* for what happens otherwise.
  The assumptions on the constants say that the tables of the first state are
  proper (`Tables`), that the offered commands are commands (`Commands`), and that
  someone manages the platform at first (`ManagedAssumption`), as `BootstrapManager`
  sees to.
- `ConsoleProofs`, part by part, each with an invariant over the variables of its part:
  - the cycle check: `CountersNeverNegative`, `VisitsAreCounted`, `Verdict`. A node's
    counter is the number of its edges from unvisited nodes, and a set whose members
    all wait for one another is never visited.
  - definitions: `VersionsGoForward`, `AtMostOneDraft`. A change asks for a lifecycle
    that its page permits (`ChangesFit`), and is written only if the version is still
    as on the page.
  - the catalog: `DeletionLeavesNoOrphans`, `DeletionExcludesOthers`. What each command
    holds and knows while it holds it (`LocksFit`), and that nobody else holds a row
    that a deletion has locked (`DeletionIsAlone`).
  - execution commands: `CommandsStayExact`, `TerminationIsFinal`. Whatever ends an
    attempt counts the lock version of the workflow instance up; a snapshot with the
    present one is therefore of the latest attempt (`SnapshotsFit`). The lock version of
    the execution alone would not do: every attempt counts from one.
  - schedules: `StoredIsTold` (a key is recorded with what was stored under it) and
    `SearchFindsTheFirst` (no minute that the search has passed is allowed).
  - the audit trail: `NothingIsDisclosedUnallowed`. Rules that are
    as new as their revision are those of the tables at a time since the revision was
    asked for; the invariant carries that through the steps of a request, and what it
    was let in by with `torn`.
  - runtime reads: `ReadersAreToldTheTruth` (the steps of an inquiry have been through
    its checks; what the process has loaded the reader was entitled to at some time);
    notifications: `NothingIsHeardTwice` (what was heard is not after the cursor);
    lists: `PagesShowWhatStays` (what was not seen and stayed is after the cursor).

Only model-checked: liveness (`ResolvedOrStranded`, `EndsOrDeadEnd`, `JobsEnd`,
`ApprovedMovesOn`, `FreshIsObserved`, `DriftIsFound`, `ConfirmationIsFinished`,
`EventsReachTheirRecipients`), which the prover cannot reach. Every invariant and
every action property of a passing run is stated by a theorem.

Some properties of the modules also hold on an instance above and are left out of its
configuration, which keeps the hardest: `OutcomeMatchesNodes` and
`VersionFollowsLatest` (both configurations of executions), and, proved as well,
`InFlightWithinLimits` and `FailureStopsRollout` (`MCPlanRun.cfg`),
`JobsEndWithTheirExecution` (both configurations of executions),
`PartialFailureKeepsLocks` (`MCDeploymentLeases.cfg`) and `SupersededIsLeftAlone`
(`MCReleaseWorkflow.cfg`).

## Gaps between documents and code

Two runs end in a counterexample to what a document says:

- `exec_blocked_again`: after `Block` and before the job is settled the worker
  dies. The next delivery loads `Blocked`, skips the preflight, and syncs drifted
  content, although architecture.md says that content drift fails closed.
- `workflow_result`: a deployment result for which the graph has no edge is to block
  the instance, as release-flow.md says. The update sets `Blocked` without
  `completed_at`, which a CHECK of the table asks for: the transaction fails, with
  every redelivery, and the result is never recorded.

Others have a property in their module and no run of their own. TLC refutes each
when it is added to the named configuration:

| Property | Configuration | What happens |
| --- | --- | --- |
| `EveryJobResolves` | `MCJobQueue.cfg` | the expired lease of a last attempt is failed in the transaction of a claim, which rolls back when there is nothing to claim |
| `RunEnds` | `MCPlanRun.cfg` | a crash after a node failed and before `Complete` leaves dependents no delivery can execute |
| `HealthyPrerequisiteAdmits` | `MCPlanRun.cfg` | the executor passes no observations of prerequisites outside of the request |
| `RetryHeals` | `MCPlanRun.cfg` | dependents skipped in the first attempt stay skipped, and the retry ends as a partial failure |
| `NothingSentTwice` | `MCDeploymentBatch.cfg` with two runners | a run that lost its job before it saved `Syncing`, and the delivery that replaced it, both send the Sync: only `Terminated` fences the save of a node |
| `OnlyDriftBlocks` | `MCDeploymentLeases.cfg` | the retry of a partial failure preflights all of its Applications again; a deployed one has no difference any more, and blocks it (architecture.md:53, operations-runbook.md:101 and 106-110 describe the retry) |
| `TerminatedSendsNothing` | either of executions | a node saved as `Syncing` after the terminate's snapshot is not stopped, and its Sync is sent after the termination |
| `FailedHasConverged` | either of executions | a node fails by its timeout while its operation goes on, and its lock is given back |
| `UnlockedIsQuiet` | either of executions | unlock compares revisions and images, not the operation's phase |
| `KeepsWaiting` | `MCDeploymentLeases.cfg` under `FairSpec` | every delivery that finds its Application locked counts as an attempt |
| `SupersededIsFinal` | `MCReleaseWorkflow.cfg` | a termination matches the version by its key and the instance by a lock version that superseding leaves alone |
| `RunningCanAdvance` | `MCReleaseWorkflow.cfg` | the deployment worker counts the version's lock version up without the instance's, a command compares both with one number, and every manual transition conflicts |
| `AttemptWasSeen` | `MCConsole.cfg` | a termination names a lock version and no attempt, and may end the attempt after the one on the page |
| `RetryStaysPossible` | `MCConsole.cfg` | what a retry does not select is skipped and cannot be selected later, until nothing can be retried (operations-runbook.md:101) |
| `SupersededHasSuccessor` | `MCCandidates.cfg` | a preflight that finds other content supersedes the version without a newer one (release-flow.md:146) |
| `EveryDifferenceIsOffered` | `MCCandidates.cfg` | an observation that was recorded before is not recorded again, although its version has ended without deploying it |
| `OnlyDraftsAreDeleted` | `MCConsole.cfg` | a draft is published between the check of a deletion and the deletion (`workflow_definition_deletion.go:28`) |
| `StreamMissesNothing` | `MCConsole.cfg` | an event committed late has an earlier time than the stream's cursor (configuration.md:95) |
| `FirstAllowedInstant` | `MCConsole.cfg` | a start that is not allowed in the middle of a minute is searched from the next full one, though a blackout ends before |
| `DriftIsReal` | `MCOnboarding.cfg` | a list read before automated sync was taken away is recorded after the confirmation (release-flow.md:134) |
| `CacheIsWhatItSays` | `MCAccess.cfg` | a reload reads rules and revision in two statements, and a commit between them stamps old rules with the new revision |
| `OldPasswordIsOut` | `MCAccess.cfg` | a change of password and the revocation of sessions are two statements; a sign-in between or beside them stays |
| `ManagerRemains` | `MCAccess.cfg` with a workload that binds the provider-filled group of viewers to the administrator's role at the platform and revokes the binding of the administrators | the guard counts members whoever named them (`mutateWithGuard`), the policy only those that were added by hand (`effectivePolicyQuery`): nobody is left who manages |
| `OpenReviewIsCurrent` | `MCReleaseWorkflow.cfg` with a graph in which a termination or a deployment result leaves a review state | the instance moves on and its review stays open |
| `PartialFailureKeepsLocks` | `MCDeploymentLeases.cfg` with `Lapses = TRUE` | nobody renews the locks of a partial failure, and they lapse |

An observation without a property: a topology that was cut to its limit draws an
edge for a reference that is ambiguous in the whole tree and no longer in the part
that is left.

## Not modelled, and assumptions

- Hazards that no property covers are listed with the reason, such as a release of
  locks that fails and is ignored, after which they stay until they lapse. A run that
  outlives its lease beside its successor is covered by a proof only
  (`SuccessesAreTheVersionsOwn`): the runs of executions keep the leases or have one
  runner.
- One wall clock for all processes: skew between hosts and the database is not
  modelled. Statements and transactions are atomic and serializable as far as the
  rows of one component go; the row locks the code takes justify it. Where several
  statements of one request read without a transaction, each is a step.
- The comparison inside a preflight and a node's success condition are inputs:
  a preflight allows or blocks, a watch succeeds or fails.
- Errors of the database are the same as crashes: the delivery fails and the job
  is delivered again. A run abandoned by its heartbeat is taken to stop at once,
  its context being cancelled; `LoseJob` has runs that go on.
- Keys of idempotent commands are modelled where a record answers them (schedules,
  execution commands, confirmations); elsewhere every command has one of its own.
- Documents, hashes, names, time zones, health and size limits are abstracted to
  what the properties tell apart; the login state of the identity provider,
  cross-site tokens and the status queries over snapshots are left out.
- The Argo CD and ECR clients, HTTP decoding and the generated API, configuration,
  bootstrap, the schema (beyond the constraints named above), the web client and the
  charts: adapters and wiring without a protocol of their own. Audit and outbox
  records are plain inserts in the transactions of the other parts.

## Plan

1. Job queue and ledger, Application locks and lock table, plan engine and runs,
   executor with Argo CD and operators: done and proved.
2. `ReleaseWorkflow`, `Candidates`, `Access`, `Onboarding`: done and proved.
3. The console's parts: done and proved.
4. Left: proofs of `OutcomeMatchesNodes` and `VersionFollowsLatest` of
   `DeploymentExecution`, and of the drift part of `Onboarding` that is not liveness.
5. Left: `DeploymentExecution` with three Applications in one run, the composition of
   `ReleaseWorkflow` with `Candidates` (each has the other's versions reduced to a
   status), time zones and windows over midnight in `Schedules`.
