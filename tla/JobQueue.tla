------------------------------- MODULE JobQueue -------------------------------
(***************************************************************************)
(* The PostgreSQL queue of deployment jobs and the consumers that drain    *)
(* it.  A row is claimed under a lease (owner, expiry, fencing token); the *)
(* consumer asks the deployment schedule, runs the executor while it       *)
(* extends the lease, then settles the row.                                *)
(*                                                                         *)
(* Every call reads the clock first and reaches the database later, so a   *)
(* worker has a sampled time `at' that may be old when its statement runs. *)
(* A statement (and the transaction of a claim) is atomic.  A claim that   *)
(* skips rows locked by another transaction acts as if it ran after it.    *)
(***************************************************************************)
EXTENDS Integers, FiniteSets

CONSTANTS
  Jobs,         \* idempotency keys of deployment_jobs
  Workers,      \* consumer processes, each with its own lease owner name
  MaxAttempts,  \* max_attempts of a row
  LeaseTTL,     \* job lease duration
  RetryDelay,   \* delay before an infrastructure retry
  MaxWait,      \* bound: how far ahead a schedule or an enqueue may set available_at
  MaxTime,      \* bound on the clock
  MaxBeats,     \* bound on the heartbeats of one execution
  MaxDefers,    \* bound on the schedule deferrals of one job
  MaxCrashes    \* bound on worker crashes

ASSUME JobQueueAssumption ==
  /\ IsFiniteSet(Workers)
  /\ "none" \notin Jobs
  /\ MaxAttempts \in Nat \ {0}
  /\ LeaseTTL \in Nat \ {0}
  /\ RetryDelay \in Nat \ {0}
  /\ MaxWait \in Nat
  /\ MaxTime \in Nat
  /\ MaxBeats \in Nat
  /\ MaxDefers \in Nat
  /\ MaxCrashes \in Nat

VARIABLES
  now,      \* wall clock
  rows,     \* rows[j]: the deployment_jobs row with idempotency key j
  worker,   \* worker[w]: program counter, sampled time and lease copy of consumer w
  crashes,  \* number of crashes so far
  runs,     \* history: runs[j] executions of job j that were started
  defers    \* history: defers[j] claims of job j the schedule sent back

vars == <<now, rows, worker, crashes, runs, defers>>

NoJob == "none"

Row == [status: {"Absent", "Pending", "Running", "Succeeded", "Failed"},
        availableAt: Nat, createdAt: Nat, expiresAt: Nat,
        owner: Workers \cup {"none"}, token: Nat, attempts: Nat]

PCs == {"down", "idle", "claiming", "gating", "executing",
        "beating", "succeeding", "retrying"}

Leased == {"gating", "executing", "beating", "succeeding", "retrying"}

WorkerState == [pc: PCs, at: Nat, beats: Nat,
                job: Jobs \cup {NoJob}, token: Nat, attempts: Nat]

NoLease == [pc |-> "idle", at |-> 0, beats |-> 0, job |-> NoJob, token |-> 0, attempts |-> 0]

Down == [NoLease EXCEPT !.pc = "down"]

AbsentRow == [status |-> "Absent", availableAt |-> 0, createdAt |-> 0, expiresAt |-> 0,
              owner |-> "none", token |-> 0, attempts |-> 0]

Init ==
  /\ now = 0
  /\ rows = [j \in Jobs |-> AbsentRow]
  /\ worker = [w \in Workers |-> NoLease]
  /\ crashes = 0
  /\ runs = [j \in Jobs |-> 0]
  /\ defers = [j \in Jobs |-> 0]

-----------------------------------------------------------------------------
(* Enqueue: a new key inserts a Pending row. A known key inserts nothing:    *)
(* the caller gets the existing row back, or a conflict when it is about     *)
(* something else, so that call changes no state.                            *)

Enqueue(j, availableAt) ==
  /\ rows[j].status = "Absent"
  /\ rows' = [rows EXCEPT ![j] = [AbsentRow EXCEPT
       !.status = "Pending", !.availableAt = availableAt, !.createdAt = now]]
  /\ UNCHANGED <<now, worker, crashes, runs, defers>>

-----------------------------------------------------------------------------
(* Claim *)

(* Mutant of Claimable: an expired lease is never taken over. *)
ClaimableWithoutTakeover(j, at) ==
  /\ rows[j].status = "Pending"
  /\ rows[j].availableAt <= at
  /\ rows[j].attempts < MaxAttempts

Claimable(j, at) ==
  /\ \/ rows[j].status = "Pending" /\ rows[j].availableAt <= at
     \/ rows[j].status = "Running" /\ rows[j].expiresAt <= at
  /\ rows[j].attempts < MaxAttempts

(* ORDER BY available_at, created_at, id; ids are random *)
Earlier(i, j) ==
  \/ rows[i].availableAt < rows[j].availableAt
  \/ rows[i].availableAt = rows[j].availableAt /\ rows[i].createdAt < rows[j].createdAt

ClaimCandidate(j, at) ==
  /\ Claimable(j, at)
  /\ \A i \in Jobs : Claimable(i, at) => ~Earlier(i, j)

Exhausted(j, at) ==
  /\ rows[j].status = "Running"
  /\ rows[j].expiresAt <= at
  /\ rows[j].attempts >= MaxAttempts

WorkerAt(w, pc) == worker' = [worker EXCEPT ![w].pc = pc, ![w].at = now]

StartPoll(w) ==
  /\ worker[w].pc = "idle"
  /\ WorkerAt(w, "claiming")
  /\ UNCHANGED <<now, rows, crashes, runs, defers>>

ClaimedRow(j, w, at) ==
  [rows[j] EXCEPT !.status = "Running", !.owner = w, !.expiresAt = at + LeaseTTL,
                  !.token = @ + 1, !.attempts = @ + 1]

FailedRow(j) == [rows[j] EXCEPT !.status = "Failed", !.owner = "none", !.expiresAt = 0]

(* One transaction: exhausted expired leases fail, then one job is claimed. *)
Claim(w, j) ==
  /\ worker[w].pc = "claiming"
  /\ ClaimCandidate(j, worker[w].at)
  /\ rows' = [i \in Jobs |-> IF i = j THEN ClaimedRow(j, w, worker[w].at)
                             ELSE IF Exhausted(i, worker[w].at) THEN FailedRow(i)
                             ELSE rows[i]]
  /\ worker' = [worker EXCEPT ![w] =
       [pc |-> "gating", at |-> worker[w].at, beats |-> 0, job |-> j,
        token |-> rows[j].token + 1, attempts |-> rows[j].attempts + 1]]
  /\ UNCHANGED <<now, crashes, runs, defers>>

(* Without a candidate the transaction returns ErrNoJobAvailable, which rolls *)
(* back the update of the exhausted leases as well.                           *)
ClaimNothing(w) ==
  /\ worker[w].pc = "claiming"
  /\ \A j \in Jobs : ~Claimable(j, worker[w].at)
  /\ worker' = [worker EXCEPT ![w] = NoLease]
  /\ UNCHANGED <<now, rows, crashes, runs, defers>>

-----------------------------------------------------------------------------
(* Updates under a lease *)

(* Mutant of HoldsLease: the owner and the token of the lease are not compared. *)
HoldsAnyLease(w, at) ==
  LET row == rows[worker[w].job] IN row.status = "Running" /\ row.expiresAt > at

HoldsLease(w, at) ==
  LET row == rows[worker[w].job] IN
  /\ row.status = "Running"
  /\ row.owner = w
  /\ row.token = worker[w].token
  /\ row.expiresAt > at

(* The statement commits, or matches no row and the stale lease ends the process. *)
Settle(w, row) ==
  /\ IF HoldsLease(w, worker[w].at)
     THEN /\ rows' = [rows EXCEPT ![worker[w].job] = row]
          /\ worker' = [worker EXCEPT ![w] = NoLease]
     ELSE /\ worker' = [worker EXCEPT ![w] = Down]
          /\ UNCHANGED rows
  /\ UNCHANGED <<now, crashes, runs>>

(* Mutant of Released: giving up a lease forgets the fencing token. *)
ReleasedWithToken(row, status) ==
  [row EXCEPT !.status = status, !.owner = "none", !.expiresAt = 0, !.token = 0]

Released(row, status) == [row EXCEPT !.status = status, !.owner = "none", !.expiresAt = 0]

(* The schedule gate answers "not before until", or is unavailable, which *)
(* defers by the retry delay. Defer reuses the clock read of the claim.   *)
DeferredRow(j, until) ==
  [Released(rows[j], "Pending") EXCEPT !.availableAt = until, !.attempts = @ - 1]

Defer(w, until) ==
  /\ worker[w].pc = "gating"
  /\ until > worker[w].at
  /\ defers[worker[w].job] < MaxDefers
  /\ Settle(w, DeferredRow(worker[w].job, until))
  /\ defers' = [defers EXCEPT ![worker[w].job] =
       IF HoldsLease(w, worker[w].at) THEN @ + 1 ELSE @]

GateFails(w) ==
  /\ worker[w].pc = "gating"
  /\ WorkerAt(w, "retrying")
  /\ UNCHANGED <<now, rows, crashes, runs, defers>>

StartExecution(w) ==
  /\ worker[w].pc = "gating"
  /\ worker' = [worker EXCEPT ![w].pc = "executing", ![w].at = 0]
  /\ runs' = [runs EXCEPT ![worker[w].job] = @ + 1]
  /\ UNCHANGED <<now, rows, crashes, defers>>

HeartbeatDue(w) ==
  /\ worker[w].pc = "executing"
  /\ worker[w].beats < MaxBeats
  /\ WorkerAt(w, "beating")
  /\ UNCHANGED <<now, rows, crashes, runs, defers>>

(* A renewed lease lasts as long as the claimed one. A stale one cancels the *)
(* execution, and the consumer still tries to record a retry.                *)
Heartbeat(w) ==
  /\ worker[w].pc = "beating"
  /\ IF HoldsLease(w, worker[w].at)
     THEN /\ rows' = [rows EXCEPT ![worker[w].job].expiresAt = worker[w].at + LeaseTTL]
          /\ worker' = [worker EXCEPT ![w].pc = "executing", ![w].at = 0,
                                              ![w].beats = @ + 1]
     ELSE /\ WorkerAt(w, "retrying")
          /\ UNCHANGED rows
  /\ UNCHANGED <<now, crashes, runs, defers>>

ExecutionReturns(w, ok) ==
  /\ worker[w].pc = "executing"
  /\ WorkerAt(w, IF ok THEN "succeeding" ELSE "retrying")
  /\ UNCHANGED <<now, rows, crashes, runs, defers>>

Succeed(w) ==
  /\ worker[w].pc = "succeeding"
  /\ Settle(w, Released(rows[worker[w].job], "Succeeded"))
  /\ UNCHANGED defers

(* Whether attempts are left is read from the lease copy, not from the row. *)
(* Mutant of RetriedRow: the last attempt is lost to an off-by-one. *)
RetriedOnceLess(w) ==
  [Released(rows[worker[w].job],
            IF worker[w].attempts + 1 >= MaxAttempts THEN "Failed" ELSE "Pending")
   EXCEPT !.availableAt = worker[w].at + RetryDelay]

RetriedRow(w) ==
  [Released(rows[worker[w].job],
            IF worker[w].attempts >= MaxAttempts THEN "Failed" ELSE "Pending")
   EXCEPT !.availableAt = worker[w].at + RetryDelay]

Retry(w) ==
  /\ worker[w].pc = "retrying"
  /\ Settle(w, RetriedRow(w))
  /\ UNCHANGED defers

-----------------------------------------------------------------------------
(* Processes and time *)

(* A crash, a failed database call or a shutdown during an execution. *)
Crash(w) ==
  /\ worker[w].pc # "down"
  /\ crashes < MaxCrashes
  /\ crashes' = crashes + 1
  /\ worker' = [worker EXCEPT ![w] = Down]
  /\ UNCHANGED <<now, rows, runs, defers>>

Restart(w) ==
  /\ worker[w].pc = "down"
  /\ worker' = [worker EXCEPT ![w] = NoLease]
  /\ UNCHANGED <<now, rows, crashes, runs, defers>>

(* Time that nothing waits for need not pass: once it is beyond every      *)
(* deadline, and beyond every lease that a call in flight may still write, *)
(* more of it changes no comparison.                                       *)
WritesLease(w) ==
  \/ worker[w].pc = "claiming" /\ \E j \in Jobs : Claimable(j, worker[w].at)
  \/ worker[w].pc \in Leased \ {"executing"} /\ HoldsLease(w, worker[w].at)

ClockMatters ==
  \/ \E j \in Jobs : rows[j].availableAt > now \/ rows[j].expiresAt > now
  \/ \E w \in Workers : WritesLease(w) /\ worker[w].at + LeaseTTL > now

Tick ==
  /\ now < MaxTime
  /\ ClockMatters
  /\ now' = now + 1
  /\ UNCHANGED <<rows, worker, crashes, runs, defers>>

Untils(t) == (t + 1)..(t + MaxWait) \cup {t + RetryDelay}

WorkerStep(w) ==
  \/ StartPoll(w)
  \/ \E j \in Jobs : Claim(w, j)
  \/ ClaimNothing(w)
  \/ \E until \in Untils(worker[w].at) : Defer(w, until)
  \/ GateFails(w)
  \/ StartExecution(w)
  \/ HeartbeatDue(w)
  \/ Heartbeat(w)
  \/ \E ok \in BOOLEAN : ExecutionReturns(w, ok)
  \/ Succeed(w)
  \/ Retry(w)
  \/ Restart(w)

Next ==
  \/ \E j \in Jobs : \E t \in now..(now + MaxWait) : Enqueue(j, t)
  \/ \E w \in Workers : WorkerStep(w)
  \/ \E w \in Workers : Crash(w)
  \/ Tick

Spec == Init /\ [][Next]_vars

(* Each process keeps running, is restarted when it exits, and time passes.  *)
FairSpec ==
  /\ Spec
  /\ \A w \in Workers : WF_vars(WorkerStep(w))
  /\ WF_vars(Tick)

-----------------------------------------------------------------------------
(* Properties *)

(* Every variable keeps its shape, and a consumer past its claim has a job. *)
TypeOK ==
  /\ now \in Nat
  /\ rows \in [Jobs -> Row]
  /\ worker \in [Workers -> WorkerState]
  /\ crashes \in Nat
  /\ runs \in [Jobs -> Nat]
  /\ defers \in [Jobs -> Nat]
  /\ \A w \in Workers : worker[w].pc \in Leased => worker[w].job \in Jobs

(* Two consumers never hold one job under the same fencing token, so a lease *)
(* that was taken over cannot be mistaken for the current one, even though   *)
(* both consumers may be executing the job at this moment.                   *)
LeaseExclusion ==
  \A v, w \in Workers :
    /\ v # w
    /\ worker[v].pc \in Leased /\ worker[w].pc \in Leased
    /\ worker[v].job = worker[w].job
    => worker[v].token # worker[w].token

(* A job starts at most max_attempts executions over its whole life: crashes, *)
(* takeovers and late deferrals of superseded consumers never give an attempt *)
(* back that an execution used.                                               *)
BoundedExecutions == \A j \in Jobs : runs[j] <= MaxAttempts

(* No step takes a lease away before it expires, and none rewrites the        *)
(* deadline of another consumer's lease: while the row's lease is live only   *)
(* its owner changes the row.                                                 *)
LiveLeaseIsKept ==
  [][\A j \in Jobs :
       rows[j].status = "Running" /\ rows[j].expiresAt > now /\ rows'[j] # rows[j]
       => /\ worker[rows[j].owner].job = j
          /\ worker[rows[j].owner].token = rows[j].token
          /\ worker'[rows[j].owner] # worker[rows[j].owner]]_vars

(* A job is given up only after max_attempts claims that were not deferred.   *)
FailedAfterAllAttempts ==
  \A j \in Jobs : rows[j].status = "Failed" =>
    rows[j].attempts = MaxAttempts /\ rows[j].token = MaxAttempts + defers[j]

(* The queue implements the ledger of grants: time, sampled clocks and leases *)
(* only decide when a grant is issued, never who may resolve a job.           *)
LedgerPhase(status) ==
  CASE status = "Absent" -> "absent"
    [] status = "Pending" -> "ready"
    [] status = "Running" -> "held"
    [] status = "Succeeded" -> "succeeded"
    [] status = "Failed" -> "failed"

Ledger == INSTANCE JobLedger WITH
  entry <- [j \in Jobs |-> [phase |-> LedgerPhase(rows[j].status),
                            grant |-> rows[j].token, tries |-> rows[j].attempts]],
  holding <- [w \in Workers |-> [job |-> worker[w].job, grant |-> worker[w].token]]

ImplementsLedger == Ledger!Spec

Resolved(j) == rows[j].status \in {"Succeeded", "Failed"}

(* A job is stranded when its last attempt's lease has expired.               *)
Stranded(j) == Exhausted(j, now)

(* Every accepted job is resolved in the end, or is left with the expired     *)
(* lease of its last attempt.                                                 *)
ResolvedOrStranded ==
  \A j \in Jobs : rows[j].status # "Absent" ~> Resolved(j) \/ Stranded(j)

(* Every accepted job is resolved in the end, as the recovery runbook expects *)
(* ("safe takeover followed by completion or an explicit Blocked or failed    *)
(* state").  The code does not ensure it: see ClaimNothing.                   *)
EveryJobResolves ==
  \A j \in Jobs : rows[j].status # "Absent" ~> Resolved(j)

==============================================================================
