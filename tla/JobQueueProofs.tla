---------------------------- MODULE JobQueueProofs ----------------------------
(***************************************************************************)
(* The lease and attempt invariants of JobQueue, for any number of jobs    *)
(* and consumers and any value of the durations and bounds.                *)
(***************************************************************************)
EXTENDS JobQueue, FiniteSetTheorems, TLAPS

(* Consumers between their claim of job j and the decision of the schedule. *)
Gating(j) == {w \in Workers : worker[w].pc = "gating" /\ worker[w].job = j}

(* Every claim takes a token and an attempt, and only a deferral gives the   *)
(* attempt back.                                                             *)
RowsCounted ==
  \A j \in Jobs :
    /\ rows[j].attempts <= MaxAttempts
    /\ rows[j].token = rows[j].attempts + defers[j]
    /\ rows[j].status = "Absent" => rows[j].token = 0
    /\ rows[j].status = "Running" => rows[j].attempts >= 1 /\ rows[j].owner \in Workers
    /\ rows[j].status = "Failed" => rows[j].attempts = MaxAttempts

(* A lease copy is never newer than its row, and equals it while current.    *)
LeasesKnown ==
  \A w \in Workers :
    /\ worker[w].at <= now
    /\ worker[w].pc \in Leased =>
         /\ worker[w].token <= rows[worker[w].job].token
         /\ rows[worker[w].job].status = "Running"
              /\ worker[w].token = rows[worker[w].job].token
            => /\ rows[worker[w].job].owner = w
               /\ worker[w].attempts = rows[worker[w].job].attempts

(* Executions started, and those that may still start, all have an attempt.  *)
ExecutionsCounted ==
  \A j \in Jobs : runs[j] + Cardinality(Gating(j)) <= rows[j].attempts

IInv ==
  /\ TypeOK
  /\ RowsCounted
  /\ LeasesKnown
  /\ LeaseExclusion
  /\ ExecutionsCounted

-----------------------------------------------------------------------------

(* The consumers that hold a job before its gate can be counted. *)
LEMMA GatingFinite ==
  ASSUME NEW j \in Jobs
  PROVE  IsFiniteSet(Gating(j)) /\ Cardinality(Gating(j)) \in Nat
<1>1. IsFiniteSet(Workers) /\ Gating(j) \in SUBSET Workers
  BY JobQueueAssumption DEF Gating
<1> QED  BY <1>1, FS_Subset, FS_CardinalityType

(* The empty queue satisfies the invariant. *)
LEMMA InitIInv == Init => IInv
<1> SUFFICES ASSUME Init PROVE IInv
  OBVIOUS
<1> USE DEF Init, AbsentRow, NoLease, NoJob
<1>1. TypeOK
  BY DEF TypeOK, Row, WorkerState, PCs, Leased
<1>2. RowsCounted
  BY JobQueueAssumption DEF RowsCounted
<1>3. LeasesKnown /\ LeaseExclusion
  BY DEF LeasesKnown, LeaseExclusion, Leased
<1>4. ExecutionsCounted
  <2>1. \A j \in Jobs : Gating(j) = {}
    BY DEF Gating
  <2> QED  BY <2>1, FS_EmptySet DEF ExecutionsCounted
<1> QED  BY <1>1, <1>2, <1>3, <1>4 DEF IInv

(* A consumer moves on, or drops its lease, without touching a row.          *)
LEMMA WorkerMoves ==
  ASSUME IInv, NEW w \in Workers, NEW x \in WorkerState,
         worker' = [worker EXCEPT ![w] = x],
         x.at <= now,
         x.pc \in Leased => /\ worker[w].pc \in Leased
                            /\ x.job = worker[w].job
                            /\ x.token = worker[w].token
                            /\ x.attempts = worker[w].attempts,
         x.pc = "gating" => worker[w].pc = "gating",
         UNCHANGED <<now, rows, runs, defers>>, crashes' \in Nat
  PROVE  IInv'
<1>1. TypeOK'
  BY DEF IInv, TypeOK
<1>2. RowsCounted'
  BY DEF IInv, RowsCounted
<1>3. LeasesKnown' /\ LeaseExclusion'
  BY DEF IInv, TypeOK, LeasesKnown, LeaseExclusion
<1>4. ASSUME NEW j \in Jobs
      PROVE  runs'[j] + Cardinality(Gating(j)') <= rows'[j].attempts
  <2>1. Gating(j)' \in SUBSET Gating(j)
    BY DEF IInv, TypeOK, Gating, Leased
  <2>2. Cardinality(Gating(j)') <= Cardinality(Gating(j)) /\ Cardinality(Gating(j)') \in Nat
    BY <2>1, GatingFinite, FS_Subset, FS_CardinalityType
  <2> QED  BY <2>2, GatingFinite DEF IInv, ExecutionsCounted, TypeOK, Row
<1> QED  BY <1>1, <1>2, <1>3, <1>4 DEF IInv, ExecutionsCounted

(* The holder of the current lease gives it up.                              *)
LEMMA HolderSettles ==
  ASSUME IInv, NEW w \in Workers, worker[w].pc \in Leased,
         HoldsLease(w, worker[w].at),
         NEW r \in Row,
         r.status \in {"Pending", "Succeeded", "Failed"},
         r.token = rows[worker[w].job].token,
         \/ /\ r.attempts = rows[worker[w].job].attempts
            /\ r.status = "Failed" => r.attempts = MaxAttempts
            /\ defers' = defers
         \/ /\ r.attempts = rows[worker[w].job].attempts - 1
            /\ r.status = "Pending" /\ worker[w].pc = "gating"
            /\ defers' = [defers EXCEPT ![worker[w].job] = @ + 1],
         rows' = [rows EXCEPT ![worker[w].job] = r],
         worker' = [worker EXCEPT ![w] = NoLease],
         UNCHANGED <<now, crashes, runs>>
  PROVE  IInv'
<1> DEFINE i == worker[w].job
<1>1. i \in Jobs /\ rows[i].status = "Running" /\ rows[i].token = worker[w].token
      /\ rows[i] \in Row /\ rows[i].attempts >= 1
  BY DEF IInv, TypeOK, HoldsLease, RowsCounted
<1>2. TypeOK'
  BY <1>1 DEF IInv, TypeOK, NoLease, WorkerState, PCs, NoJob, Leased
<1>3. RowsCounted'
  <2>1. rows'[i] = r /\ \A j \in Jobs \ {i} : rows'[j] = rows[j] /\ defers'[j] = defers[j]
    BY <1>1 DEF IInv, TypeOK
  <2>2. \/ r.attempts = rows[i].attempts /\ defers'[i] = defers[i]
        \/ r.attempts = rows[i].attempts - 1 /\ defers'[i] = defers[i] + 1
           /\ r.status = "Pending"
    BY <1>1 DEF IInv, TypeOK
  <2>3. /\ r.attempts <= MaxAttempts
        /\ r.token = r.attempts + defers'[i]
        /\ r.status = "Failed" => r.attempts = MaxAttempts
    BY <1>1, <2>2, JobQueueAssumption DEF IInv, TypeOK, RowsCounted, Row
  <2> QED  BY <2>1, <2>3 DEF IInv, RowsCounted
<1>4. LeasesKnown' /\ LeaseExclusion'
  BY <1>1 DEF IInv, TypeOK, LeasesKnown, LeaseExclusion, NoLease, Leased
<1>5. ASSUME NEW j \in Jobs
      PROVE  runs'[j] + Cardinality(Gating(j)') <= rows'[j].attempts
  <2>1. runs[j] + Cardinality(Gating(j)) <= rows[j].attempts /\ runs'[j] = runs[j]
        /\ runs[j] \in Nat /\ rows[j].attempts \in Nat
    BY DEF IInv, ExecutionsCounted, TypeOK, Row
  <2>2. Gating(j)' = Gating(j) \ {w}
    BY DEF IInv, TypeOK, Gating, NoLease
  <2>3. Cardinality(Gating(j)') = IF w \in Gating(j) THEN Cardinality(Gating(j)) - 1
                                  ELSE Cardinality(Gating(j))
    BY <2>2, GatingFinite, FS_RemoveElement
  <2>4. CASE j # i
    BY <2>1, <2>3, <2>4, <1>1, GatingFinite DEF IInv, TypeOK
  <2>5. CASE j = i
    <3>1. rows'[j] = r
      BY <2>5, <1>1 DEF IInv, TypeOK
    <3>2. CASE r.attempts = rows[i].attempts
      BY <2>1, <2>3, <2>5, <3>1, <3>2, GatingFinite
    <3>3. CASE r.attempts = rows[i].attempts - 1 /\ worker[w].pc = "gating"
      <4>1. w \in Gating(j)
        BY <2>5, <3>3 DEF Gating
      <4> QED  BY <2>1, <2>3, <2>5, <3>1, <3>3, <4>1, GatingFinite
    <3> QED  BY <3>2, <3>3
  <2> QED  BY <2>4, <2>5
<1> QED  BY <1>2, <1>3, <1>4, <1>5 DEF IInv, ExecutionsCounted

(* What a settling statement does: the holder's update, or a stale lease.    *)
LEMMA SettleIInv ==
  ASSUME IInv, NEW w \in Workers, worker[w].pc \in Leased,
         NEW r, Settle(w, r),
         HoldsLease(w, worker[w].at) =>
           /\ r \in Row
           /\ r.status \in {"Pending", "Succeeded", "Failed"}
           /\ r.token = rows[worker[w].job].token
           /\ \/ /\ r.attempts = rows[worker[w].job].attempts
                 /\ r.status = "Failed" => r.attempts = MaxAttempts
                 /\ defers' = defers
              \/ /\ r.attempts = rows[worker[w].job].attempts - 1
                 /\ r.status = "Pending" /\ worker[w].pc = "gating"
                 /\ defers' = [defers EXCEPT ![worker[w].job] = @ + 1],
         ~HoldsLease(w, worker[w].at) => defers' = defers
  PROVE  IInv'
<1>1. CASE HoldsLease(w, worker[w].at)
  <2>1. /\ rows' = [rows EXCEPT ![worker[w].job] = r]
        /\ worker' = [worker EXCEPT ![w] = NoLease]
        /\ UNCHANGED <<now, crashes, runs>>
    BY <1>1 DEF Settle
  <2> QED  BY <1>1, <2>1, HolderSettles
<1>2. CASE ~HoldsLease(w, worker[w].at)
  <2>1. /\ worker' = [worker EXCEPT ![w] = Down]
        /\ UNCHANGED <<now, rows, crashes, runs, defers>>
    BY <1>2 DEF Settle
  <2>2. Down \in WorkerState /\ Down.at <= now /\ Down.pc = "down"
    BY DEF IInv, TypeOK, Down, NoLease, WorkerState, PCs, NoJob
  <2> QED  BY <2>1, <2>2, WorkerMoves DEF IInv, TypeOK, Leased
<1> QED  BY <1>1, <1>2

(* Enqueue: a new row has no grant and no attempt. *)
LEMMA EnqueueIInv ==
  ASSUME IInv, NEW j \in Jobs, NEW t \in Nat, Enqueue(j, t)
  PROVE  IInv'
<1>1. rows[j].token = 0 /\ rows[j].attempts = 0 /\ defers[j] = 0
  BY DEF IInv, TypeOK, RowsCounted, Enqueue, Row
<1>2. \A k \in Jobs : /\ rows'[k].token = rows[k].token
                      /\ rows'[k].attempts = rows[k].attempts
                      /\ rows'[k] = rows[k] \/ (k = j /\ rows'[k].status = "Pending")
  BY <1>1 DEF Enqueue, IInv, TypeOK, AbsentRow
<1>3. TypeOK'
  BY DEF IInv, TypeOK, Enqueue, AbsentRow, Row
<1>4. RowsCounted'
  BY <1>2 DEF IInv, TypeOK, RowsCounted, Enqueue
<1>5. LeasesKnown' /\ LeaseExclusion'
  BY <1>2 DEF IInv, TypeOK, LeasesKnown, LeaseExclusion, Enqueue
<1>6. ASSUME NEW k \in Jobs
      PROVE  runs'[k] + Cardinality(Gating(k)') <= rows'[k].attempts
  <2>1. Gating(k)' = Gating(k) /\ runs' = runs
    BY DEF Enqueue, Gating
  <2> QED  BY <2>1, <1>2 DEF IInv, ExecutionsCounted
<1> QED  BY <1>3, <1>4, <1>5, <1>6 DEF IInv, ExecutionsCounted

(* The fields of a row that a claim has changed.                             *)
LEMMA ClaimedRowFields ==
  ASSUME NEW j, rows[j] \in Row, NEW w \in Workers, NEW t \in Nat
  PROVE  /\ ClaimedRow(j, w, t) \in Row
         /\ ClaimedRow(j, w, t).status = "Running"
         /\ ClaimedRow(j, w, t).owner = w
         /\ ClaimedRow(j, w, t).expiresAt = t + LeaseTTL
         /\ ClaimedRow(j, w, t).token = rows[j].token + 1
         /\ ClaimedRow(j, w, t).attempts = rows[j].attempts + 1
<1> DEFINE c == ClaimedRow(j, w, t)
<1>1. rows[j].token + 1 \in Nat /\ rows[j].attempts + 1 \in Nat /\ t + LeaseTTL \in Nat
  BY JobQueueAssumption DEF Row
<1>2. c.token = rows[j].token + 1 /\ c.attempts = rows[j].attempts + 1
  BY DEF ClaimedRow, Row
<1>3. c.status = "Running" /\ c.owner = w /\ c.expiresAt = t + LeaseTTL
  BY DEF ClaimedRow, Row
<1>4. c \in Row
  BY <1>1 DEF ClaimedRow, Row
<1> QED  BY <1>2, <1>3, <1>4

(* Writing a row off changes neither its token nor its attempts. *)
LEMMA FailedRowFields ==
  ASSUME NEW j, rows[j] \in Row
  PROVE  /\ FailedRow(j) \in Row
         /\ FailedRow(j).status = "Failed"
         /\ FailedRow(j).token = rows[j].token
         /\ FailedRow(j).attempts = rows[j].attempts
BY DEF FailedRow, Row

(* What a claim does to each row, with the case distinction resolved.        *)
LEMMA ClaimRows ==
  ASSUME IInv, NEW w \in Workers, NEW j \in Jobs, Claim(w, j)
  PROVE  /\ rows' \in [Jobs -> Row]
         /\ rows[j].attempts < MaxAttempts
         /\ rows[j].status \in {"Pending", "Running"}
         /\ rows'[j] = ClaimedRow(j, w, worker[w].at)
         /\ \A k \in Jobs \ {j} :
              \/ rows'[k] = rows[k]
              \/ Exhausted(k, worker[w].at) /\ rows'[k] = FailedRow(k)
<1>1. worker[w].at \in Nat /\ worker[w].at + LeaseTTL \in Nat
  BY JobQueueAssumption DEF IInv, TypeOK, WorkerState
<1>2. \A k \in Jobs : rows[k] \in Row /\ FailedRow(k) \in Row
  BY FailedRowFields DEF IInv, TypeOK
<1>3. ClaimedRow(j, w, worker[w].at) \in Row
  BY <1>1, <1>2, ClaimedRowFields DEF IInv, TypeOK, WorkerState
<1> QED  BY <1>2, <1>3 DEF Claim, ClaimCandidate, Claimable

(* Claim: the new grant has a token that no consumer has seen. *)
LEMMA ClaimIInv ==
  ASSUME IInv, NEW w \in Workers, NEW j \in Jobs, Claim(w, j)
  PROVE  IInv'
<1> DEFINE x == [pc |-> "gating", at |-> worker[w].at, beats |-> 0, job |-> j,
                 token |-> rows[j].token + 1, attempts |-> rows[j].attempts + 1]
<1>1. /\ worker' = [worker EXCEPT ![w] = x] /\ worker[w].pc = "claiming"
      /\ UNCHANGED <<now, crashes, runs, defers>>
  BY DEF Claim
<1>2. /\ rows'[j].status = "Running" /\ rows'[j].owner = w
      /\ rows'[j].token = rows[j].token + 1 /\ rows'[j].attempts = rows[j].attempts + 1
  <2>1. rows[j] \in Row /\ worker[w].at \in Nat
    BY DEF IInv, TypeOK, WorkerState
  <2> QED  BY <2>1, ClaimRows, ClaimedRowFields
<1>3. ASSUME NEW k \in Jobs, k # j
      PROVE  \/ rows'[k] = rows[k]
             \/ /\ rows'[k].status = "Failed"
                /\ rows'[k].token = rows[k].token
                /\ rows'[k].attempts = rows[k].attempts
                /\ rows[k].attempts >= MaxAttempts
  <2>1. \/ rows'[k] = rows[k]
        \/ Exhausted(k, worker[w].at) /\ rows'[k] = FailedRow(k)
    BY <1>3, ClaimRows
  <2>2. rows[k] \in Row
    BY DEF IInv, TypeOK
  <2> QED  BY <2>1, <2>2, FailedRowFields DEF Exhausted
<1>4. x \in WorkerState
  BY DEF IInv, TypeOK, WorkerState, PCs, Row
<1>5. TypeOK'
  BY <1>1, <1>4, ClaimRows DEF IInv, TypeOK
<1>6. RowsCounted'
  <2>1. \A k \in Jobs : rows[k].attempts \in Nat /\ rows[k].token \in Nat /\ defers[k] \in Nat
    BY DEF IInv, TypeOK, Row
  <2> QED  BY <1>1, <1>2, <1>3, <2>1, ClaimRows, JobQueueAssumption DEF IInv, RowsCounted
<1>7. LeasesKnown' /\ LeaseExclusion'
  <2>1. \A v \in Workers \ {w} : worker'[v] = worker[v]
    BY <1>1
  <2>2. worker'[w] = x
    BY <1>1 DEF IInv, TypeOK
  <2>3. ASSUME NEW v \in Workers, worker'[v].pc \in Leased, worker'[v].job = j, v # w
        PROVE  worker'[v].token <= rows[j].token /\ worker'[v].token \in Nat
    BY <2>1, <2>3 DEF IInv, LeasesKnown, TypeOK, WorkerState
  <2>4. rows[j].token \in Nat /\ \A k \in Jobs : rows[k].token \in Nat
    BY DEF IInv, TypeOK, Row
  <2>5. LeaseExclusion'
    BY <2>1, <2>2, <2>3, <2>4 DEF IInv, LeaseExclusion
  <2>6. ASSUME NEW v \in Workers
        PROVE  /\ worker'[v].at <= now'
               /\ worker'[v].pc \in Leased =>
                    /\ worker'[v].token <= rows'[worker'[v].job].token
                    /\ rows'[worker'[v].job].status = "Running"
                         /\ worker'[v].token = rows'[worker'[v].job].token
                       => /\ rows'[worker'[v].job].owner = v
                          /\ worker'[v].attempts = rows'[worker'[v].job].attempts
    <3>1. CASE v = w
      BY <3>1, <1>1, <1>2, <2>2, <2>4 DEF IInv, LeasesKnown
    <3>2. CASE v # w /\ worker[v].job = j
      BY <3>2, <1>1, <1>2, <2>1, <2>3, <2>4 DEF IInv, LeasesKnown
    <3>3. CASE v # w /\ worker[v].job # j
      BY <3>3, <1>1, <1>3, <2>1, <2>4 DEF IInv, LeasesKnown, TypeOK
    <3> QED  BY <3>1, <3>2, <3>3
  <2> QED  BY <2>5, <2>6 DEF LeasesKnown
<1>8. ASSUME NEW k \in Jobs
      PROVE  runs'[k] + Cardinality(Gating(k)') <= rows'[k].attempts
  <2>1. /\ runs[k] + Cardinality(Gating(k)) <= rows[k].attempts
        /\ runs'[k] = runs[k] /\ runs[k] \in Nat /\ rows[k].attempts \in Nat
    BY <1>1 DEF IInv, ExecutionsCounted, TypeOK, Row
  <2>2. CASE k = j
    <3>1. Gating(k)' = Gating(k) \cup {w} /\ w \notin Gating(k)
      BY <1>1, <2>2 DEF IInv, TypeOK, Gating
    <3>2. Cardinality(Gating(k)') = Cardinality(Gating(k)) + 1
      BY <3>1, GatingFinite, FS_AddElement
    <3> QED  BY <2>1, <2>2, <3>2, <1>2, GatingFinite
  <2>3. CASE k # j
    <3>1. Gating(k)' = Gating(k)
      BY <1>1, <2>3 DEF IInv, TypeOK, Gating
    <3> QED  BY <2>1, <3>1, <1>3, <2>3
  <2> QED  BY <2>2, <2>3
<1> QED  BY <1>5, <1>6, <1>7, <1>8 DEF IInv, ExecutionsCounted

(* StartExecution: the attempt of the claim turns into a run. *)
LEMMA StartExecutionIInv ==
  ASSUME IInv, NEW w \in Workers, StartExecution(w)
  PROVE  IInv'
<1> DEFINE i == worker[w].job
           x == [worker[w] EXCEPT !.pc = "executing", !.at = 0]
<1>1. /\ worker' = [worker EXCEPT ![w] = x] /\ worker[w].pc = "gating" /\ i \in Jobs
      /\ runs' = [runs EXCEPT ![i] = @ + 1]
      /\ UNCHANGED <<now, rows, crashes, defers>>
  BY DEF StartExecution, IInv, TypeOK, Leased, WorkerState
<1>2. x \in WorkerState
  BY DEF IInv, TypeOK, WorkerState, PCs
<1>3. TypeOK' /\ RowsCounted'
  BY <1>1, <1>2 DEF IInv, TypeOK, RowsCounted, WorkerState
<1>4. LeasesKnown' /\ LeaseExclusion'
  BY <1>1 DEF IInv, TypeOK, LeasesKnown, LeaseExclusion, WorkerState, Leased
<1>5. ASSUME NEW k \in Jobs
      PROVE  runs'[k] + Cardinality(Gating(k)') <= rows'[k].attempts
  <2>1. runs[k] + Cardinality(Gating(k)) <= rows[k].attempts /\ runs[k] \in Nat
        /\ rows[k].attempts \in Nat /\ rows'[k] = rows[k]
    BY <1>1 DEF IInv, ExecutionsCounted, TypeOK, Row
  <2>2. Gating(k)' = Gating(k) \ {w}
    BY <1>1 DEF IInv, TypeOK, Gating, WorkerState
  <2>3. Cardinality(Gating(k)') = IF w \in Gating(k) THEN Cardinality(Gating(k)) - 1
                                  ELSE Cardinality(Gating(k))
    BY <2>2, GatingFinite, FS_RemoveElement
  <2>4. CASE k = i
    <3>1. w \in Gating(k) /\ runs'[k] = runs[k] + 1
      BY <1>1, <2>4 DEF Gating, IInv, TypeOK
    <3> QED  BY <2>1, <2>3, <3>1, GatingFinite
  <2>5. CASE k # i
    <3>1. w \notin Gating(k) /\ runs'[k] = runs[k]
      BY <1>1, <2>5 DEF Gating, IInv, TypeOK
    <3> QED  BY <2>1, <2>3, <3>1
  <2> QED  BY <2>4, <2>5
<1> QED  BY <1>3, <1>4, <1>5 DEF IInv, ExecutionsCounted

(* Heartbeat: the deadline moves, the grant stays. *)
LEMMA HeartbeatIInv ==
  ASSUME IInv, NEW w \in Workers, Heartbeat(w)
  PROVE  IInv'
<1> DEFINE i == worker[w].job
<1>1. i \in Jobs /\ worker[w].pc = "beating" /\ worker[w].at \in Nat /\ worker[w] \in WorkerState
  BY DEF Heartbeat, IInv, TypeOK, Leased, WorkerState
<1>2. CASE HoldsLease(w, worker[w].at)
  <2> DEFINE x == [worker[w] EXCEPT !.pc = "executing", !.at = 0, !.beats = @ + 1]
             r == [rows[i] EXCEPT !.expiresAt = worker[w].at + LeaseTTL]
  <2>1. worker' = [worker EXCEPT ![w] = x] /\ rows' = [rows EXCEPT ![i] = r]
        /\ UNCHANGED <<now, crashes, runs, defers>>
    BY <1>2 DEF Heartbeat, IInv, TypeOK
  <2>2. x.pc = "executing" /\ x.at = 0 /\ x.job = i /\ x.token = worker[w].token
        /\ x.attempts = worker[w].attempts
    BY <1>1 DEF WorkerState
  <2>7. x \in WorkerState
    <3>1. worker[w].beats + 1 \in Nat
      BY <1>1 DEF WorkerState
    <3> QED  BY <1>1, <3>1 DEF WorkerState, PCs
  <2>3. r \in Row /\ r.status = rows[i].status /\ r.owner = rows[i].owner
        /\ r.token = rows[i].token /\ r.attempts = rows[i].attempts
    BY <1>1, JobQueueAssumption DEF IInv, TypeOK, Row
  <2>4. TypeOK' /\ RowsCounted'
    BY <1>1, <2>1, <2>2, <2>3, <2>7 DEF IInv, TypeOK, RowsCounted
  <2>5. LeasesKnown' /\ LeaseExclusion'
    BY <1>1, <2>1, <2>2, <2>3 DEF IInv, TypeOK, LeasesKnown, LeaseExclusion, Leased
  <2>6. ASSUME NEW k \in Jobs
        PROVE  runs'[k] + Cardinality(Gating(k)') <= rows'[k].attempts
    <3>1. Gating(k)' = Gating(k)
      BY <1>1, <2>1, <2>2 DEF Gating, IInv, TypeOK
    <3> QED  BY <2>1, <2>3, <3>1 DEF IInv, ExecutionsCounted, TypeOK
  <2> QED  BY <2>4, <2>5, <2>6 DEF IInv, ExecutionsCounted
<1>3. CASE ~HoldsLease(w, worker[w].at)
  <2> DEFINE x == [worker[w] EXCEPT !.pc = "retrying", !.at = now]
  <2>1. worker' = [worker EXCEPT ![w] = x] /\ UNCHANGED <<now, rows, crashes, runs, defers>>
    BY <1>3 DEF Heartbeat, WorkerAt, IInv, TypeOK
  <2>2. now \in Nat
    BY DEF IInv, TypeOK
  <2>3. x \in WorkerState /\ x.at <= now /\ x.pc = "retrying" /\ x.job = i
        /\ x.token = worker[w].token /\ x.attempts = worker[w].attempts
    <3>1. x.at = now /\ x.pc = "retrying" /\ x.job = i
          /\ x.token = worker[w].token /\ x.attempts = worker[w].attempts
      BY <1>1 DEF WorkerState
    <3>2. x \in WorkerState
      BY <1>1, <2>2 DEF WorkerState, PCs
    <3> QED  BY <2>2, <3>1, <3>2
  <2> QED  BY <1>1, <2>1, <2>3, WorkerMoves DEF Leased, IInv, TypeOK
<1> QED  BY <1>2, <1>3

(* Releasing a row keeps its token and attempts.                             *)
LEMMA ReleasedFields ==
  ASSUME NEW r \in Row, NEW s \in {"Pending", "Succeeded", "Failed"}
  PROVE  /\ Released(r, s) \in Row
         /\ Released(r, s).status = s
         /\ Released(r, s).token = r.token
         /\ Released(r, s).attempts = r.attempts
BY DEF Released, Row

(* Defer: an attempt is given back by the consumer that took it, before a run. *)
LEMMA DeferIInv ==
  ASSUME IInv, NEW w \in Workers, NEW until \in Nat, Defer(w, until)
  PROVE  IInv'
<1> DEFINE i == worker[w].job
           r == DeferredRow(i, until)
<1>1. worker[w].pc = "gating" /\ worker[w].pc \in Leased /\ i \in Jobs /\ Settle(w, r)
  BY DEF Defer, IInv, TypeOK, Leased
<1>2. defers' = IF HoldsLease(w, worker[w].at) THEN [defers EXCEPT ![i] = @ + 1] ELSE defers
  BY DEF Defer, IInv, TypeOK
<1>3. CASE HoldsLease(w, worker[w].at)
  <2>1. rows[i] \in Row /\ rows[i].attempts - 1 \in Nat
    BY <1>1, <1>3 DEF HoldsLease, IInv, TypeOK, RowsCounted, Row
  <2>2. /\ Released(rows[i], "Pending") \in Row
        /\ Released(rows[i], "Pending").status = "Pending"
        /\ Released(rows[i], "Pending").token = rows[i].token
        /\ Released(rows[i], "Pending").attempts = rows[i].attempts
    BY <2>1, ReleasedFields
  <2>3. /\ r \in Row /\ r.status = "Pending" /\ r.token = rows[i].token
        /\ r.attempts = rows[i].attempts - 1
    BY <2>1, <2>2 DEF DeferredRow, Row
  <2> QED  BY <1>1, <1>2, <1>3, <2>3, SettleIInv
<1>4. CASE ~HoldsLease(w, worker[w].at)
  BY <1>1, <1>2, <1>4, SettleIInv
<1> QED  BY <1>3, <1>4

(* Succeed: the row is released. *)
LEMMA SucceedIInv ==
  ASSUME IInv, NEW w \in Workers, Succeed(w)
  PROVE  IInv'
<1> DEFINE i == worker[w].job
           r == Released(rows[i], "Succeeded")
<1>1. worker[w].pc \in Leased /\ i \in Jobs /\ Settle(w, r) /\ defers' = defers
  BY DEF Succeed, IInv, TypeOK, Leased
<1>2. r \in Row /\ r.status = "Succeeded" /\ r.token = rows[i].token
      /\ r.attempts = rows[i].attempts
  BY <1>1, ReleasedFields DEF IInv, TypeOK
<1> QED  BY <1>1, <1>2, SettleIInv

(* Retry: the row is released, or failed with no attempt left. *)
LEMMA RetryIInv ==
  ASSUME IInv, NEW w \in Workers, Retry(w)
  PROVE  IInv'
<1> DEFINE i == worker[w].job
           s == IF worker[w].attempts >= MaxAttempts THEN "Failed" ELSE "Pending"
           r == RetriedRow(w)
<1>1. worker[w].pc \in Leased /\ i \in Jobs /\ Settle(w, r) /\ defers' = defers
  BY DEF Retry, IInv, TypeOK, Leased
<1>2. worker[w].at + RetryDelay \in Nat
  BY JobQueueAssumption DEF IInv, TypeOK, WorkerState
<1>3. /\ Released(rows[i], s) \in Row /\ Released(rows[i], s).status = s
      /\ Released(rows[i], s).token = rows[i].token
      /\ Released(rows[i], s).attempts = rows[i].attempts
  BY <1>1, ReleasedFields DEF IInv, TypeOK
<1>4. r \in Row /\ r.status = s /\ r.token = rows[i].token /\ r.attempts = rows[i].attempts
  BY <1>2, <1>3 DEF RetriedRow, Row
<1>5. ASSUME HoldsLease(w, worker[w].at), s = "Failed"
      PROVE  rows[i].attempts = MaxAttempts
  <2>1. rows[i].attempts = worker[w].attempts
    BY <1>1, <1>5 DEF HoldsLease, IInv, LeasesKnown
  <2>2. rows[i].attempts <= MaxAttempts /\ rows[i].attempts \in Nat
    BY <1>1 DEF IInv, TypeOK, RowsCounted, Row
  <2>3. worker[w].attempts >= MaxAttempts
    BY <1>5
  <2> QED  BY <2>1, <2>2, <2>3, JobQueueAssumption
<1> QED  BY <1>1, <1>4, <1>5, SettleIInv

-----------------------------------------------------------------------------

(* Every step keeps the invariant. *)
LEMMA NextIInv == IInv /\ [Next]_vars => IInv'
<1> SUFFICES ASSUME IInv, [Next]_vars PROVE IInv'
  OBVIOUS
<1>1. ASSUME NEW j \in Jobs, NEW t \in now..(now + MaxWait), Enqueue(j, t)
      PROVE  IInv'
  <2>1. t \in Nat
    BY JobQueueAssumption DEF IInv, TypeOK
  <2> QED  BY <1>1, <2>1, EnqueueIInv
<1>2. ASSUME NEW w \in Workers, WorkerStep(w)
      PROVE  IInv'
  <2>1. worker[w] \in WorkerState /\ now \in Nat /\ worker[w].at \in Nat /\ crashes \in Nat
        /\ worker[w].at <= now
    BY DEF IInv, TypeOK, WorkerState, LeasesKnown
  <2>2. NoLease \in WorkerState /\ NoLease.at <= now /\ NoLease.pc = "idle"
    BY <2>1 DEF NoLease, WorkerState, PCs, NoJob
  <2>3. ASSUME NEW pc \in PCs, WorkerAt(w, pc), UNCHANGED <<now, rows, crashes, runs, defers>>,
               pc # "gating", pc \in Leased => worker[w].pc \in Leased
        PROVE  IInv'
    <3> DEFINE x == [worker[w] EXCEPT !.pc = pc, !.at = now]
    <3>1. worker' = [worker EXCEPT ![w] = x]
      BY <2>3 DEF WorkerAt, IInv, TypeOK
    <3>2. x.pc = pc /\ x.at = now /\ x.job = worker[w].job
          /\ x.token = worker[w].token /\ x.attempts = worker[w].attempts
      BY <2>1 DEF WorkerState
    <3>3. x \in WorkerState
      BY <2>1 DEF WorkerState
    <3>4. /\ x.at <= now
          /\ x.pc \in Leased => /\ worker[w].pc \in Leased
                                /\ x.job = worker[w].job
                                /\ x.token = worker[w].token
                                /\ x.attempts = worker[w].attempts
          /\ x.pc = "gating" => worker[w].pc = "gating"
          /\ UNCHANGED <<now, rows, runs, defers>> /\ crashes' \in Nat
      BY <2>1, <2>3, <3>2
    <3> HIDE DEF x
    <3> QED  BY <3>1, <3>3, <3>4, WorkerMoves
  <2>4. CASE StartPoll(w)
    BY <2>3, <2>4 DEF StartPoll, PCs, Leased
  <2>5. CASE \E j \in Jobs : Claim(w, j)
    BY <2>5, ClaimIInv
  <2>6. CASE ClaimNothing(w)
    BY <2>1, <2>2, <2>6, WorkerMoves DEF ClaimNothing, Leased
  <2>7. CASE \E until \in Untils(worker[w].at) : Defer(w, until)
    <3>1. Untils(worker[w].at) \in SUBSET Nat
      BY <2>1, JobQueueAssumption DEF Untils
    <3> QED  BY <2>7, <3>1, DeferIInv
  <2>8. CASE GateFails(w)
    BY <2>3, <2>8 DEF GateFails, PCs, Leased
  <2>9. CASE StartExecution(w)
    BY <2>9, StartExecutionIInv
  <2>10. CASE HeartbeatDue(w)
    BY <2>3, <2>10 DEF HeartbeatDue, PCs, Leased
  <2>11. CASE Heartbeat(w)
    BY <2>11, HeartbeatIInv
  <2>12. CASE \E ok \in BOOLEAN : ExecutionReturns(w, ok)
    BY <2>3, <2>12 DEF ExecutionReturns, PCs, Leased
  <2>13. CASE Succeed(w)
    BY <2>13, SucceedIInv
  <2>14. CASE Retry(w)
    BY <2>14, RetryIInv
  <2>15. CASE Restart(w)
    BY <2>1, <2>2, <2>15, WorkerMoves DEF Restart, Leased
  <2> QED  BY <1>2, <2>4, <2>5, <2>6, <2>7, <2>8, <2>9, <2>10, <2>11, <2>12, <2>13, <2>14, <2>15
            DEF WorkerStep
<1>3. ASSUME NEW w \in Workers, Crash(w)
      PROVE  IInv'
  <2>1. Down \in WorkerState /\ Down.at <= now /\ Down.pc = "down"
    BY DEF IInv, TypeOK, Down, NoLease, WorkerState, PCs, NoJob
  <2>2. /\ worker' = [worker EXCEPT ![w] = Down]
        /\ UNCHANGED <<now, rows, runs, defers>> /\ crashes' \in Nat
    BY <1>3 DEF Crash, IInv, TypeOK
  <2> QED  BY <2>1, <2>2, WorkerMoves DEF Leased
<1>4. ASSUME Tick
      PROVE  IInv'
  <2>1. now' = now + 1 /\ UNCHANGED <<rows, worker, crashes, runs, defers>>
    BY <1>4 DEF Tick
  <2>2. TypeOK' /\ RowsCounted' /\ LeaseExclusion' /\ ExecutionsCounted'
    BY <2>1 DEF IInv, TypeOK, RowsCounted, LeaseExclusion, ExecutionsCounted, Gating
  <2>3. LeasesKnown'
    BY <2>1 DEF IInv, TypeOK, LeasesKnown, WorkerState
  <2> QED  BY <2>2, <2>3 DEF IInv
<1>5. CASE UNCHANGED vars
  BY <1>5 DEF vars, IInv, TypeOK, RowsCounted, LeasesKnown, LeaseExclusion, ExecutionsCounted, Gating
<1> QED  BY <1>1, <1>2, <1>3, <1>4, <1>5 DEF Next

(* The inductive invariant holds in every reachable state.                   *)
LEMMA Invariance == Spec => []IInv
BY InitIInv, NextIInv, PTL DEF Spec

(* Every variable keeps its shape: type correctness of the queue.            *)
THEOREM TypeCorrect == Spec => []TypeOK
<1>1. IInv => TypeOK
  BY DEF IInv
<1> QED  BY <1>1, Invariance, PTL

(* No two consumers hold one job under the same fencing token.               *)
THEOREM LeasesExclusive == Spec => []LeaseExclusion
<1>1. IInv => LeaseExclusion
  BY DEF IInv
<1> QED  BY <1>1, Invariance, PTL

(* A job never starts more than max_attempts executions.                     *)
THEOREM ExecutionsBounded == Spec => []BoundedExecutions
<1>1. IInv => BoundedExecutions
  <2> SUFFICES ASSUME IInv, NEW j \in Jobs PROVE runs[j] <= MaxAttempts
    BY DEF BoundedExecutions
  <2>1. /\ runs[j] \in Nat /\ rows[j].attempts \in Nat
        /\ runs[j] + Cardinality(Gating(j)) <= rows[j].attempts
        /\ rows[j].attempts <= MaxAttempts
    BY DEF IInv, TypeOK, Row, RowsCounted, ExecutionsCounted
  <2> QED  BY <2>1, GatingFinite, JobQueueAssumption
<1> QED  BY <1>1, Invariance, PTL

(* A failed job has spent every attempt on a claim that was not deferred.    *)
THEOREM FailedIsExhausted == Spec => []FailedAfterAllAttempts
<1>1. IInv => FailedAfterAllAttempts
  BY DEF IInv, RowsCounted, FailedAfterAllAttempts
<1> QED  BY <1>1, Invariance, PTL

-----------------------------------------------------------------------------
(* The holder of a live lease is the only one that changes its row.          *)

KeepsLiveLease ==
  \A j \in Jobs :
    rows[j].status = "Running" /\ rows[j].expiresAt > now /\ rows'[j] # rows[j]
    => /\ worker[rows[j].owner].job = j
       /\ worker[rows[j].owner].token = rows[j].token
       /\ worker'[rows[j].owner] # worker[rows[j].owner]

(* A row changed under a lease is the row of the lease, and its owner moved. *)
LEMMA HolderKeepsLease ==
  ASSUME IInv, NEW w \in Workers, worker[w].pc \in Leased, NEW r, NEW x,
         HoldsLease(w, worker[w].at),
         rows' = [rows EXCEPT ![worker[w].job] = r],
         worker' = [worker EXCEPT ![w] = x], x.pc # worker[w].pc
  PROVE  KeepsLiveLease
BY DEF KeepsLiveLease, IInv, TypeOK, HoldsLease

(* A settled row is the row of the consumer that settles it. *)
LEMMA SettleKeepsLease ==
  ASSUME IInv, NEW w \in Workers, worker[w].pc \in Leased, NEW r, Settle(w, r)
  PROVE  KeepsLiveLease
<1>1. CASE HoldsLease(w, worker[w].at)
  <2>1. /\ rows' = [rows EXCEPT ![worker[w].job] = r]
        /\ worker' = [worker EXCEPT ![w] = NoLease]
        /\ NoLease.pc # worker[w].pc
    BY <1>1 DEF Settle, NoLease, Leased
  <2> QED  BY <1>1, <2>1, HolderKeepsLease
<1>2. CASE ~HoldsLease(w, worker[w].at)
  BY <1>2 DEF Settle, KeepsLiveLease
<1> QED  BY <1>1, <1>2

(* No step touches the live lease of another consumer. *)
LEMMA StepKeepsLease == IInv /\ [Next]_vars => KeepsLiveLease
<1> SUFFICES ASSUME IInv, [Next]_vars, rows' # rows PROVE KeepsLiveLease
  BY DEF KeepsLiveLease
<1>1. ASSUME NEW j \in Jobs, NEW t, Enqueue(j, t)
      PROVE  KeepsLiveLease
  BY <1>1 DEF Enqueue, KeepsLiveLease, IInv, TypeOK
<1>2. ASSUME NEW w \in Workers, NEW j \in Jobs, Claim(w, j)
      PROVE  KeepsLiveLease
  <2>1. worker[w].at <= now /\ worker[w].at \in Nat /\ now \in Nat
    BY DEF IInv, TypeOK, LeasesKnown, WorkerState
  <2>2. \A k \in Jobs : rows[k].expiresAt \in Nat
    BY DEF IInv, TypeOK, Row
  <2>3. rows[j].status = "Running" => rows[j].expiresAt <= worker[w].at
    BY <1>2 DEF Claim, ClaimCandidate, Claimable
  <2>4. \A k \in Jobs \ {j} : rows'[k] # rows[k] => rows[k].expiresAt <= worker[w].at
    BY <1>2, ClaimRows DEF Exhausted
  <2> QED  BY <2>1, <2>2, <2>3, <2>4 DEF KeepsLiveLease
<1>3. ASSUME NEW w \in Workers, NEW until, Defer(w, until)
      PROVE  KeepsLiveLease
  BY <1>3, SettleKeepsLease DEF Defer, Leased
<1>4. ASSUME NEW w \in Workers, Succeed(w) \/ Retry(w)
      PROVE  KeepsLiveLease
  BY <1>4, SettleKeepsLease DEF Succeed, Retry, Leased
<1>5. ASSUME NEW w \in Workers, Heartbeat(w)
      PROVE  KeepsLiveLease
  <2> DEFINE i == worker[w].job
             x == [worker[w] EXCEPT !.pc = "executing", !.at = 0, !.beats = @ + 1]
             r == [rows[i] EXCEPT !.expiresAt = worker[w].at + LeaseTTL]
  <2>1. HoldsLease(w, worker[w].at)
    BY <1>5 DEF Heartbeat
  <2>2. worker[w].pc = "beating" /\ worker[w] \in WorkerState /\ i \in Jobs
    BY <1>5 DEF Heartbeat, IInv, TypeOK, Leased
  <2>3. worker' = [worker EXCEPT ![w] = x] /\ rows' = [rows EXCEPT ![i] = r]
    BY <1>5, <2>1, <2>2 DEF Heartbeat, IInv, TypeOK
  <2>4. x.pc # worker[w].pc
    BY <2>2 DEF WorkerState
  <2> QED  BY <2>1, <2>2, <2>3, <2>4, HolderKeepsLease DEF Leased
<1>6. \A w \in Workers :
        StartPoll(w) \/ ClaimNothing(w) \/ GateFails(w) \/ StartExecution(w) \/ HeartbeatDue(w)
        \/ (\E ok \in BOOLEAN : ExecutionReturns(w, ok)) \/ Restart(w) \/ Crash(w)
        => rows' = rows
  BY DEF StartPoll, ClaimNothing, GateFails, StartExecution, HeartbeatDue, ExecutionReturns,
         Restart, Crash
<1>7. (Tick \/ UNCHANGED vars) => rows' = rows
  BY DEF Tick, vars
<1> QED  BY <1>1, <1>2, <1>3, <1>4, <1>5, <1>6, <1>7 DEF Next, WorkerStep

(* No step takes a lease away before it expires.                             *)
THEOREM LiveLeasesKept == Spec => LiveLeaseIsKept
<1>1. IInv /\ [Next]_vars => [KeepsLiveLease]_vars
  BY StepKeepsLease
<1> QED  BY <1>1, Invariance, PTL DEF Spec, LiveLeaseIsKept, KeepsLiveLease

-----------------------------------------------------------------------------
(* The queue implements the ledger of grants.                                *)

(* A consumer without a lease remembers no job and no token.                 *)
NothingHeld ==
  \A w \in Workers : worker[w].pc \notin Leased => worker[w].job = NoJob /\ worker[w].token = 0

(* A consumer without a lease remembers no grant. *)
LEMMA NothingHeldInvariant == Spec => []NothingHeld
<1>1. Init => NothingHeld
  BY DEF Init, NoLease, NothingHeld
<1>2. IInv /\ NothingHeld /\ [Next]_vars => NothingHeld'
  <2> SUFFICES ASSUME IInv, NothingHeld, [Next]_vars PROVE NothingHeld'
    OBVIOUS
  <2> USE DEF NothingHeld, Leased
  <2>1. \A w \in Workers : worker[w] \in WorkerState
    BY DEF IInv, TypeOK
  <2>2. ASSUME NEW w \in Workers, NEW x, worker' = [worker EXCEPT ![w] = x],
               x.pc \notin Leased => x.job = NoJob /\ x.token = 0
        PROVE  NothingHeld'
    BY <2>2 DEF IInv, TypeOK
  <2>3. ASSUME NEW w \in Workers, NEW r, Settle(w, r)
        PROVE  NothingHeld'
    BY <2>2, <2>3 DEF Settle, NoLease, Down
  <2>4. ASSUME NEW w \in Workers, NEW pc, WorkerAt(w, pc),
               pc \in Leased \/ worker[w].pc \notin Leased
        PROVE  NothingHeld'
    BY <2>1, <2>4 DEF WorkerAt, WorkerState, IInv, TypeOK
  <2>5. ASSUME NEW w \in Workers, WorkerStep(w)
        PROVE  NothingHeld'
    <3>1. CASE StartPoll(w) \/ GateFails(w) \/ HeartbeatDue(w)
      BY <3>1, <2>4 DEF StartPoll, GateFails, HeartbeatDue
    <3>2. CASE \E ok \in BOOLEAN : ExecutionReturns(w, ok)
      BY <3>2, <2>4 DEF ExecutionReturns
    <3>3. CASE (\E until \in Untils(worker[w].at) : Defer(w, until)) \/ Succeed(w) \/ Retry(w)
      BY <3>3, <2>3 DEF Defer, Succeed, Retry
    <3>4. CASE ClaimNothing(w) \/ Restart(w)
      BY <3>4, <2>2 DEF ClaimNothing, Restart, NoLease
    <3>5. CASE \E j \in Jobs : Claim(w, j)
      BY <3>5, <2>2 DEF Claim
    <3>6. CASE StartExecution(w)
      BY <3>6, <2>1 DEF StartExecution, WorkerState, IInv, TypeOK
    <3>7. CASE Heartbeat(w)
      BY <3>7, <2>1, <2>4 DEF Heartbeat, WorkerState, IInv, TypeOK
    <3> QED  BY <2>5, <3>1, <3>2, <3>3, <3>4, <3>5, <3>6, <3>7 DEF WorkerStep
  <2>6. ASSUME NEW w \in Workers, Crash(w)
        PROVE  NothingHeld'
    BY <2>6, <2>2 DEF Crash, Down, NoLease
  <2>7. ASSUME worker' = worker PROVE NothingHeld'
    BY <2>7
  <2> QED  BY <2>5, <2>6, <2>7 DEF Next, Enqueue, Tick, vars
<1> QED  BY <1>1, <1>2, Invariance, PTL DEF Spec

(* The ledger's view of a row and of a consumer.                             *)
Entry(r) == [phase |-> LedgerPhase(r.status), grant |-> r.token, tries |-> r.attempts]
Held(x) == [job |-> x.job, grant |-> x.token]

Entries == [j \in Jobs |-> Entry(rows[j])]
Holdings == [w \in Workers |-> Held(worker[w])]

(* Steps that change neither view are invisible.                             *)
LEMMA LedgerStutter ==
  ASSUME IInv, NEW w \in Workers, NEW x,
         worker' = [worker EXCEPT ![w] = x],
         x.job = worker[w].job, x.token = worker[w].token,
         \A j \in Jobs : /\ rows'[j].status = rows[j].status
                         /\ rows'[j].token = rows[j].token
                         /\ rows'[j].attempts = rows[j].attempts
  PROVE  Entries' = Entries /\ Holdings' = Holdings
BY DEF Entries, Holdings, Entry, Held, IInv, TypeOK

(* The empty queue is the empty ledger. *)
LEMMA LedgerInit == Init => Ledger!Init
BY DEF Init, AbsentRow, NoLease, NoJob, Ledger!Init, Ledger!NoGrant, LedgerPhase

(* A status has one phase. *)
LEMMA LedgerPhases ==
  /\ LedgerPhase("Absent") = "absent" /\ LedgerPhase("Pending") = "ready"
  /\ LedgerPhase("Running") = "held" /\ LedgerPhase("Succeeded") = "succeeded"
  /\ LedgerPhase("Failed") = "failed"
BY DEF LedgerPhase

(* What a row says to the ledger. *)
LEMMA EntryFields ==
  ASSUME NEW r
  PROVE  /\ Entry(r).phase = LedgerPhase(r.status)
         /\ Entry(r).grant = r.token
         /\ Entry(r).tries = r.attempts
BY DEF Entry

(* A lease that matches the row is the ledger's current grant.               *)
LEMMA HolderIsCurrent ==
  ASSUME IInv, NEW w \in Workers, worker[w].pc \in Leased, HoldsLease(w, worker[w].at)
  PROVE  Ledger!Current(w, worker[w].job)
BY DEF Ledger!Current, HoldsLease, LedgerPhase, IInv, TypeOK

(* A stale lease is dropped; a crash drops whatever is held.                 *)
LEMMA DropForgets ==
  ASSUME IInv, NothingHeld, NEW w \in Workers, NEW x,
         worker' = [worker EXCEPT ![w] = x], x.job = NoJob, x.token = 0,
         rows' = rows
  PROVE  Ledger!Forget(w) \/ (Entries' = Entries /\ Holdings' = Holdings)
<1>1. Entries' = Entries
  BY DEF Entries, Entry
<1>2. Holdings' = [Holdings EXCEPT ![w] = Ledger!NoGrant]
  BY DEF Holdings, Held, Ledger!NoGrant, NoJob, IInv, TypeOK
<1>3. CASE Holdings[w] = Ledger!NoGrant
  BY <1>1, <1>2, <1>3 DEF Holdings
<1>4. CASE Holdings[w] # Ledger!NoGrant
  BY <1>1, <1>2, <1>4 DEF Ledger!Forget, Entries, Holdings, Entry, Held
<1> QED  BY <1>3, <1>4

(* The holder's update is the update of the ledger's entry.                  *)
LEMMA SettleResolves ==
  ASSUME IInv, NEW w \in Workers, worker[w].pc \in Leased,
         NEW j \in Jobs, worker[w].job = j, NEW r,
         HoldsLease(w, worker[w].at), Settle(w, r)
  PROVE  /\ Ledger!Current(w, j)
         /\ Entries' = [Entries EXCEPT ![j] = Entry(r)]
         /\ Holdings' = [Holdings EXCEPT ![w] = Ledger!NoGrant]
         /\ Entries[j] = Entry(rows[j])
<1>1. rows' = [rows EXCEPT ![j] = r] /\ worker' = [worker EXCEPT ![w] = NoLease]
  BY DEF Settle
<1>2. Entries' = [Entries EXCEPT ![j] = Entry(r)] /\ Entries[j] = Entry(rows[j])
  BY <1>1 DEF Entries, IInv, TypeOK
<1>3. Holdings' = [Holdings EXCEPT ![w] = Ledger!NoGrant]
  BY <1>1 DEF Holdings, Held, Ledger!NoGrant, NoLease, NoJob, IInv, TypeOK
<1> QED  BY <1>2, <1>3, HolderIsCurrent

(* A call under a stale lease forgets the grant and changes no row. *)
LEMMA StaleForgets ==
  ASSUME IInv, NothingHeld, NEW w \in Workers, NEW r,
         ~HoldsLease(w, worker[w].at), Settle(w, r)
  PROVE  Ledger!Forget(w) \/ (Entries' = Entries /\ Holdings' = Holdings)
<1>1. worker' = [worker EXCEPT ![w] = Down] /\ rows' = rows
  BY DEF Settle
<1>2. Down.job = NoJob /\ Down.token = 0
  BY DEF Down, NoLease
<1> QED  BY <1>1, <1>2, DropForgets

(* Defer returns the grant. *)
LEMMA DeferReturns ==
  ASSUME IInv, NothingHeld, NEW w \in Workers, NEW until \in Nat, Defer(w, until),
         NEW j \in Jobs, worker[w].job = j, HoldsLease(w, worker[w].at)
  PROVE  Ledger!Return(w, j)
<1> DEFINE r == DeferredRow(j, until)
<1>1. worker[w].pc \in Leased /\ Settle(w, r)
  BY DEF Defer, Leased
<1>2. Entry(r) = [phase |-> "ready", grant |-> rows[j].token, tries |-> rows[j].attempts - 1]
  <2>1. rows[j] \in Row
    BY DEF IInv, TypeOK
  <2>2. r.status = "Pending" /\ r.token = rows[j].token /\ r.attempts = rows[j].attempts - 1
    BY <2>1 DEF DeferredRow, Released, Row
  <2> HIDE DEF r
  <2>3. Entry(r) = [phase |-> "ready", grant |-> rows[j].token, tries |-> rows[j].attempts - 1]
    BY <2>2, LedgerPhases DEF Entry
  <2> QED  BY <2>3
<1> HIDE DEF r
<1>3. /\ Ledger!Current(w, j)
      /\ Entries' = [Entries EXCEPT ![j] = Entry(r)]
      /\ Holdings' = [Holdings EXCEPT ![w] = Ledger!NoGrant]
      /\ Entries[j] = Entry(rows[j])
  BY <1>1, SettleResolves
<1>4. Entries' = [Entries EXCEPT ![j] = [phase |-> "ready", grant |-> Entries[j].grant,
                                        tries |-> Entries[j].tries - 1]]
  BY <1>2, <1>3, EntryFields
<1> QED  BY <1>3, <1>4 DEF Ledger!Return, Ledger!Resolve, Entries, Holdings, Entry, Held

(* Succeed finishes the job. *)
LEMMA SucceedFinishes ==
  ASSUME IInv, NothingHeld, NEW w \in Workers, Succeed(w),
         NEW j \in Jobs, worker[w].job = j, HoldsLease(w, worker[w].at)
  PROVE  Ledger!Finish(w, j)
<1> DEFINE r == Released(rows[j], "Succeeded")
<1>1. worker[w].pc \in Leased /\ Settle(w, r)
  BY DEF Succeed, Leased
<1>2. Entry(r) = [Entry(rows[j]) EXCEPT !.phase = "succeeded"]
  <2>1. r.status = "Succeeded" /\ r.token = rows[j].token /\ r.attempts = rows[j].attempts
    BY ReleasedFields DEF IInv, TypeOK
  <2> HIDE DEF r
  <2> QED  BY <2>1, LedgerPhases DEF Entry
<1> HIDE DEF r
<1>3. /\ Ledger!Current(w, j)
      /\ Entries' = [Entries EXCEPT ![j] = Entry(r)]
      /\ Holdings' = [Holdings EXCEPT ![w] = Ledger!NoGrant]
      /\ Entries[j] = Entry(rows[j])
  BY <1>1, SettleResolves
<1>4. Entries' = [Entries EXCEPT ![j] = [Entries[j] EXCEPT !.phase = "succeeded"]]
  BY <1>2, <1>3
<1> QED  BY <1>3, <1>4 DEF Ledger!Finish, Ledger!Resolve, Entries, Holdings, Entry, Held

(* Retry gives the grant up. *)
LEMMA RetryGivesUp ==
  ASSUME IInv, NothingHeld, NEW w \in Workers, Retry(w),
         NEW j \in Jobs, worker[w].job = j, HoldsLease(w, worker[w].at)
  PROVE  Ledger!GiveUp(w, j)
<1> DEFINE r == RetriedRow(w)
           s == IF worker[w].attempts >= MaxAttempts THEN "Failed" ELSE "Pending"
           p == IF Entries[j].tries >= MaxAttempts THEN "failed" ELSE "ready"
<1>1. worker[w].pc \in Leased /\ Settle(w, r) /\ rows[j] \in Row
  BY DEF Retry, Leased, IInv, TypeOK
<1>2. r.status = s /\ r.token = rows[j].token /\ r.attempts = rows[j].attempts
  BY <1>1 DEF RetriedRow, Released, Row
<1>3. rows[j].attempts = worker[w].attempts /\ Entries[j].tries = rows[j].attempts
  BY <1>1, EntryFields DEF HoldsLease, IInv, LeasesKnown, Entries
<1>4. LedgerPhase(s) = p
  BY <1>3, LedgerPhases
<1> HIDE DEF r, s, p
<1>5. Entry(r) = [Entry(rows[j]) EXCEPT !.phase = p]
  BY <1>2, <1>4 DEF Entry
<1>6. /\ Ledger!Current(w, j)
      /\ Entries' = [Entries EXCEPT ![j] = Entry(r)]
      /\ Holdings' = [Holdings EXCEPT ![w] = Ledger!NoGrant]
      /\ Entries[j] = Entry(rows[j])
  BY <1>1, SettleResolves
<1>7. Entries' = [Entries EXCEPT ![j] = [Entries[j] EXCEPT !.phase = p]]
  BY <1>5, <1>6
<1> QED  BY <1>6, <1>7 DEF p, Ledger!GiveUp, Ledger!Resolve, Entries, Holdings, Entry, Held

(* Claim issues a grant and writes off exhausted jobs. *)
LEMMA ClaimIssues ==
  ASSUME IInv, NothingHeld, NEW w \in Workers, NEW j \in Jobs, Claim(w, j)
  PROVE  \E dead \in SUBSET Jobs : Ledger!Issue(w, j, dead)
<1> DEFINE dead == {k \in Jobs \ {j} : rows'[k] # rows[k]}
           grant == [job |-> j, grant |-> rows[j].token + 1]
           issued == [phase |-> "held", grant |-> rows[j].token + 1,
                      tries |-> rows[j].attempts + 1]
<1>1. Holdings[w] = Ledger!NoGrant /\ Holdings' = [Holdings EXCEPT ![w] = grant]
  BY DEF Claim, Holdings, Held, Ledger!NoGrant, NothingHeld, Leased, NoJob, IInv, TypeOK
<1>2. rows[j] \in Row /\ worker[w].at \in Nat
  BY DEF IInv, TypeOK, WorkerState
<1>3. Entry(rows'[j]) = issued
  BY <1>2, ClaimRows, ClaimedRowFields DEF Entry, LedgerPhase
<1>4. \A k \in dead : /\ rows[k].status = "Running" /\ rows[k].attempts >= MaxAttempts
                      /\ rows'[k].status = "Failed" /\ rows'[k].token = rows[k].token
                      /\ rows'[k].attempts = rows[k].attempts
  <2> SUFFICES ASSUME NEW k \in dead
               PROVE  /\ rows[k].status = "Running" /\ rows[k].attempts >= MaxAttempts
                      /\ rows'[k].status = "Failed" /\ rows'[k].token = rows[k].token
                      /\ rows'[k].attempts = rows[k].attempts
    OBVIOUS
  <2>1. Exhausted(k, worker[w].at) /\ rows'[k] = FailedRow(k) /\ rows[k] \in Row
    BY ClaimRows DEF IInv, TypeOK
  <2> QED  BY <2>1, FailedRowFields DEF Exhausted
<1>5. \A k \in Jobs : Entries[k] = Entry(rows[k]) /\ Entries'[k] = Entry(rows'[k])
  BY DEF Entries
<1>6. Entries' = [k \in Jobs |-> IF k = j THEN issued
                                ELSE IF k \in dead THEN [Entries[k] EXCEPT !.phase = "failed"]
                                ELSE Entries[k]]
  <2>1. \A k \in dead : Entry(rows'[k]) = [Entry(rows[k]) EXCEPT !.phase = "failed"]
    BY <1>4 DEF Entry, LedgerPhase
  <2>2. \A k \in Jobs : k # j /\ k \notin dead => Entry(rows'[k]) = Entry(rows[k])
    OBVIOUS
  <2> HIDE DEF dead, issued
  <2> QED  BY <1>3, <1>5, <2>1, <2>2 DEF Entries
<1>7. /\ Entries[j].phase \in {"ready", "held"} /\ Entries[j].tries < MaxAttempts
      /\ Entries[j].grant = rows[j].token /\ Entries[j].tries = rows[j].attempts
  <2>1. rows[j].status \in {"Pending", "Running"} /\ rows[j].attempts < MaxAttempts
    BY ClaimRows
  <2>2. Entries[j] = Entry(rows[j])
    BY <1>5
  <2>3. Entries[j].phase \in {"ready", "held"}
    BY <2>1, <2>2, EntryFields, LedgerPhases
  <2> QED  BY <2>1, <2>2, <2>3, EntryFields
<1>8. PICK d \in SUBSET Jobs : d = dead
  OBVIOUS
<1>9. ASSUME NEW k \in d
      PROVE  Entries[k].phase = "held" /\ Entries[k].tries >= MaxAttempts
  <2>1. Entries[k] = Entry(rows[k])
    BY <1>5, <1>8
  <2>2. rows[k].status = "Running" /\ rows[k].attempts >= MaxAttempts
    BY <1>4, <1>8
  <2> HIDE DEF dead
  <2> QED  BY <2>1, <2>2, EntryFields, LedgerPhases
<1> HIDE DEF dead
<1>10. Ledger!Issue(w, j, d)
  BY <1>1, <1>6, <1>7, <1>8, <1>9 DEF Ledger!Issue, Entries, Holdings, Entry, Held
<1> QED  BY <1>10

(* Enqueue accepts the job. *)
LEMMA EnqueueAccepts ==
  ASSUME IInv, NEW j \in Jobs, NEW t, Enqueue(j, t)
  PROVE  Ledger!Accept(j)
<1>1. rows[j].token = 0 /\ rows[j].attempts = 0 /\ rows[j].status = "Absent"
  BY DEF IInv, TypeOK, RowsCounted, Enqueue, Row
<1>2. Entry(rows'[j]) = [Entry(rows[j]) EXCEPT !.phase = "ready"]
  BY <1>1 DEF Entry, Enqueue, AbsentRow, LedgerPhase, IInv, TypeOK
<1>3. Entries' = [Entries EXCEPT ![j].phase = "ready"]
  <2>1. \A k \in Jobs \ {j} : rows'[k] = rows[k]
    BY DEF Enqueue, IInv, TypeOK
  <2> QED  BY <1>2, <2>1 DEF Entries
<1>4. Entries[j].phase = "absent"
  BY <1>1, EntryFields, LedgerPhases DEF Entries
<1> QED  BY <1>3, <1>4 DEF Ledger!Accept, Entries, Holdings, Entry, Held, Enqueue

(* Every step of the queue is a step of the ledger, or none. *)
LEMMA StepImplements ==
  IInv /\ NothingHeld /\ [Next]_vars => Ledger!Next \/ (Entries' = Entries /\ Holdings' = Holdings)
<1> DEFINE Unseen == Entries' = Entries /\ Holdings' = Holdings
<1> SUFFICES ASSUME IInv, NothingHeld, [Next]_vars PROVE Ledger!Next \/ Unseen
  OBVIOUS
<1>1. ASSUME NEW j \in Jobs, NEW t, Enqueue(j, t)
      PROVE  Ledger!Next
  BY <1>1, EnqueueAccepts DEF Ledger!Next
<1>2. ASSUME NEW w \in Workers, WorkerStep(w)
      PROVE  Ledger!Next \/ Unseen
  <2>1. worker[w] \in WorkerState /\ now \in Nat
    BY DEF IInv, TypeOK
  <2>2. ASSUME NEW pc, WorkerAt(w, pc), rows' = rows
        PROVE  Unseen
    <3> DEFINE x == [worker[w] EXCEPT !.pc = pc, !.at = now]
    <3>1. worker' = [worker EXCEPT ![w] = x]
      BY <2>2 DEF WorkerAt, IInv, TypeOK
    <3>2. x.job = worker[w].job /\ x.token = worker[w].token
      BY <2>1 DEF WorkerState
    <3> HIDE DEF x
    <3> QED  BY <2>2, <3>1, <3>2, LedgerStutter
  <2>3. CASE StartPoll(w) \/ GateFails(w) \/ HeartbeatDue(w)
    BY <2>2, <2>3 DEF StartPoll, GateFails, HeartbeatDue
  <2>4. CASE \E ok \in BOOLEAN : ExecutionReturns(w, ok)
    BY <2>2, <2>4 DEF ExecutionReturns
  <2>5. CASE \E j \in Jobs : Claim(w, j)
    BY <2>5, ClaimIssues DEF Ledger!Next
  <2>6. CASE ClaimNothing(w) \/ Restart(w)
    <3>1. worker' = [worker EXCEPT ![w] = NoLease] /\ rows' = rows
      BY <2>6 DEF ClaimNothing, Restart
    <3>2. NoLease.job = NoJob /\ NoLease.token = 0
      BY DEF NoLease
    <3> QED  BY <3>1, <3>2, DropForgets DEF Ledger!Next
  <2>7. CASE \E until \in Untils(worker[w].at) : Defer(w, until)
    <3>1. PICK until \in Untils(worker[w].at) : Defer(w, until)
      BY <2>7
    <3>2. until \in Nat
      BY <2>1, JobQueueAssumption DEF Untils, WorkerState
    <3>3. PICK j \in Jobs : j = worker[w].job
      BY <3>1 DEF Defer, IInv, TypeOK, Leased
    <3>4. CASE HoldsLease(w, worker[w].at)
      BY <3>1, <3>2, <3>3, <3>4, DeferReturns DEF Ledger!Next
    <3>5. CASE ~HoldsLease(w, worker[w].at)
      BY <3>1, <3>5, StaleForgets DEF Defer, Ledger!Next
    <3> QED  BY <3>4, <3>5
  <2>8. CASE Succeed(w)
    <3>1. PICK j \in Jobs : j = worker[w].job
      BY <2>8 DEF Succeed, IInv, TypeOK, Leased
    <3>2. CASE HoldsLease(w, worker[w].at)
      BY <2>8, <3>1, <3>2, SucceedFinishes DEF Ledger!Next
    <3>3. CASE ~HoldsLease(w, worker[w].at)
      BY <2>8, <3>3, StaleForgets DEF Succeed, Ledger!Next
    <3> QED  BY <3>2, <3>3
  <2>9. CASE Retry(w)
    <3>1. PICK j \in Jobs : j = worker[w].job
      BY <2>9 DEF Retry, IInv, TypeOK, Leased
    <3>2. CASE HoldsLease(w, worker[w].at)
      BY <2>9, <3>1, <3>2, RetryGivesUp DEF Ledger!Next
    <3>3. CASE ~HoldsLease(w, worker[w].at)
      BY <2>9, <3>3, StaleForgets DEF Retry, Ledger!Next
    <3> QED  BY <3>2, <3>3
  <2>10. CASE StartExecution(w)
    <3> DEFINE x == [worker[w] EXCEPT !.pc = "executing", !.at = 0]
    <3>1. worker' = [worker EXCEPT ![w] = x] /\ rows' = rows
      BY <2>10 DEF StartExecution, IInv, TypeOK
    <3>2. x.job = worker[w].job /\ x.token = worker[w].token
      BY <2>1 DEF WorkerState
    <3> HIDE DEF x
    <3> QED  BY <3>1, <3>2, LedgerStutter
  <2>11. CASE Heartbeat(w)
    <3>1. CASE HoldsLease(w, worker[w].at)
      <4> DEFINE x == [worker[w] EXCEPT !.pc = "executing", !.at = 0, !.beats = @ + 1]
                 r == [rows[worker[w].job] EXCEPT !.expiresAt = worker[w].at + LeaseTTL]
      <4>1. worker' = [worker EXCEPT ![w] = x] /\ rows' = [rows EXCEPT ![worker[w].job] = r]
        BY <2>11, <3>1 DEF Heartbeat, IInv, TypeOK, Leased
      <4>2. x.job = worker[w].job /\ x.token = worker[w].token
        BY <2>1 DEF WorkerState
      <4>3. worker[w].job \in Jobs /\ rows[worker[w].job] \in Row
        BY <2>11 DEF Heartbeat, IInv, TypeOK, Leased
      <4>4. /\ r.status = rows[worker[w].job].status /\ r.token = rows[worker[w].job].token
            /\ r.attempts = rows[worker[w].job].attempts
        BY <4>3 DEF Row
      <4> HIDE DEF x, r
      <4>5. \A j \in Jobs : /\ rows'[j].status = rows[j].status
                            /\ rows'[j].token = rows[j].token
                            /\ rows'[j].attempts = rows[j].attempts
        BY <4>1, <4>3, <4>4 DEF IInv, TypeOK
      <4> QED  BY <4>1, <4>2, <4>5, LedgerStutter
    <3>2. CASE ~HoldsLease(w, worker[w].at)
      BY <2>2, <2>11, <3>2 DEF Heartbeat
    <3> QED  BY <3>1, <3>2
  <2> QED  BY <1>2, <2>3, <2>4, <2>5, <2>6, <2>7, <2>8, <2>9, <2>10, <2>11 DEF WorkerStep
<1>3. ASSUME NEW w \in Workers, Crash(w)
      PROVE  Ledger!Next \/ Unseen
  <2>1. worker' = [worker EXCEPT ![w] = Down] /\ rows' = rows
    BY <1>3 DEF Crash
  <2>2. Down.job = NoJob /\ Down.token = 0
    BY DEF Down, NoLease
  <2> QED  BY <2>1, <2>2, DropForgets DEF Ledger!Next
<1>4. CASE Tick \/ UNCHANGED vars
  BY <1>4 DEF Tick, vars, Entries, Holdings
<1> QED  BY <1>1, <1>2, <1>3, <1>4 DEF Next

(* The queue implements the ledger of grants: whatever the clocks and the    *)
(* leases do, only the newest grant of a held job resolves it.               *)
THEOREM QueueImplementsLedger == Spec => ImplementsLedger
<1>1. IInv /\ NothingHeld /\ [Next]_vars => [Ledger!Next]_<<Entries, Holdings>>
  BY StepImplements
<1> QED  BY <1>1, LedgerInit, Invariance, NothingHeldInvariant, PTL
         DEF Spec, ImplementsLedger, Ledger!Spec, Entries, Holdings, Entry, Held
==============================================================================
