--------------------------- MODULE ApplicationProofs ---------------------------
(***************************************************************************)
(* An Application of Argo CD: the invariants of its operation locks, for   *)
(* any executions, Applications, runners, durations and bounds, and of its *)
(* way under management, for any administrators, keys and contents.        *)
(***************************************************************************)
EXTENDS ApplicationLocks, Onboarding, FiniteSetTheorems, TLAPS

(* Owner tokens are drawn once, and clocks are read before they are used.    *)
TokensDrawn ==
  /\ \A r \in Runners :
       /\ runner[r].at <= now
       /\ runner[r].pc # "idle" => runner[r].owner \in 1..owners
       /\ runner[r].pc = "acquiring" =>
            \A e \in Executions : newest[e] # runner[r].owner
  /\ \A q, r \in Runners :
       /\ q # r
       /\ runner[q].pc # "idle" /\ runner[r].pc # "idle"
       => runner[q].owner # runner[r].owner
  /\ \A e \in Executions : newest[e] <= owners

(* A row belongs to an execution that deploys its Application.               *)
RowsBelong ==
  \A a \in Apps :
    /\ locks[a].beat <= now
    /\ locks[a].exec # NoExecution => a \in Targets[locks[a].exec]
    /\ locks[a].exec = NoExecution => locks[a] = Unlocked

IInv ==
  /\ TypeOK
  /\ TokensDrawn
  /\ RowsBelong
  /\ UnexpiredSetIsWhole
  /\ OneOwnerPerExecution

-----------------------------------------------------------------------------

(* The state before the first step satisfies the invariant.                  *)
LEMMA InitIInv == Init => IInv
<1> SUFFICES ASSUME Init PROVE IInv
  OBVIOUS
<1> USE DEF Init, Idle, Unlocked, NoExecution
<1>1. TypeOK
  BY DEF TypeOK, LockRow, RunnerState, PCs
<1>2. TokensDrawn
  BY DEF TokensDrawn
<1>3. RowsBelong
  <2>1. \A a \in Apps : locks[a] = Unlocked /\ locks[a].beat = 0 /\ locks[a].exec = NoExecution
    OBVIOUS
  <2>2. now = 0
    OBVIOUS
  <2> QED  BY <2>1, <2>2, 0 <= 0 DEF RowsBelong
<1>4. UnexpiredSetIsWhole
  BY DEF UnexpiredSetIsWhole, Holds
<1>5. OneOwnerPerExecution
  BY DEF OneOwnerPerExecution
<1> QED  BY <1>1, <1>2, <1>3, <1>4, <1>5 DEF IInv

(* A runner that is not idle has an execution, whose Applications exist.     *)
LEMMA RunnerTargets ==
  ASSUME TypeOK, NEW r \in Runners, runner[r].pc # "idle"
  PROVE  /\ runner[r].exec \in Executions
         /\ Targets[runner[r].exec] \subseteq Apps
         /\ runner[r] \in RunnerState
BY ApplicationLocksAssumption DEF TypeOK

(* A runner that starts draws a token nobody has.                            *)
LEMMA StartAcquireIInv ==
  ASSUME IInv, NEW r \in Runners, NEW e \in Executions, StartAcquire(r, e)
  PROVE  IInv'
<1> USE DEF StartAcquire, IInv
<1> DEFINE x == [pc |-> "acquiring", exec |-> e, owner |-> owners + 1, at |-> now,
                 expires |-> 0, fence |-> Idle.fence]
<1>1. /\ x.pc = "acquiring" /\ x.exec = e /\ x.owner = owners + 1 /\ x.at = now
      /\ x \in RunnerState
  <2>1. now \in Nat /\ owners + 1 \in Nat
    BY DEF TypeOK
  <2>2. Idle.fence \in [Apps -> Nat]
    BY DEF Idle
  <2> QED  BY <2>1, <2>2 DEF RunnerState, PCs
<1>2. runner' = [runner EXCEPT ![r] = x] /\ owners' = owners + 1 /\ UNCHANGED <<now, locks, newest>>
  OBVIOUS
<1> HIDE DEF x, StartAcquire
<1>3. TypeOK'
  BY <1>1, <1>2 DEF TypeOK
<1>4. TokensDrawn'
  BY <1>1, <1>2 DEF TokensDrawn, TypeOK, RunnerState
<1>5. RowsBelong' /\ OneOwnerPerExecution'
  BY <1>2 DEF RowsBelong, OneOwnerPerExecution
<1>6. UnexpiredSetIsWhole'
  BY <1>1, <1>2 DEF UnexpiredSetIsWhole, Holds, TypeOK, Matches
<1> QED  BY <1>3, <1>4, <1>5, <1>6

(* A runner that leaves takes nothing with it.                               *)
LEMMA RunnerLeaves ==
  ASSUME IInv, NEW r \in Runners,
         runner' = [runner EXCEPT ![r] = Idle],
         UNCHANGED <<now, locks, owners, newest>>
  PROVE  IInv'
<1>1. Idle \in RunnerState /\ Idle.pc = "idle" /\ Idle.at = 0
  BY DEF Idle, RunnerState, PCs
<1> HIDE DEF Idle
<1>2. TypeOK'
  BY <1>1 DEF IInv, TypeOK
<1>3. TokensDrawn'
  BY <1>1 DEF IInv, TokensDrawn, TypeOK
<1>4. RowsBelong' /\ OneOwnerPerExecution'
  BY DEF IInv, RowsBelong, OneOwnerPerExecution
<1>5. UnexpiredSetIsWhole'
  BY <1>1 DEF IInv, UnexpiredSetIsWhole, Holds, TypeOK, Matches
<1> QED  BY <1>2, <1>3, <1>4, <1>5 DEF IInv

(* What a granted row and the runner's lock set are made of.                 *)
LEMMA GrantedFields ==
  ASSUME TypeOK, NEW a \in Apps, NEW e \in Executions, NEW o \in Nat, NEW t \in Nat
  PROVE  /\ GrantedToken(a, e, o) \in Nat
         /\ GrantedRow(a, e, o, t) \in LockRow
         /\ GrantedRow(a, e, o, t).exec = e
         /\ GrantedRow(a, e, o, t).owner = o
         /\ GrantedRow(a, e, o, t).token = GrantedToken(a, e, o)
         /\ GrantedRow(a, e, o, t).beat = t
<1>1. GrantedToken(a, e, o) \in Nat
  BY DEF TypeOK, LockRow, GrantedToken
<1> QED  BY <1>1 DEF GrantedRow, LockRow

(* A grant replaces no unexpired set, because its limit is a clock that was  *)
(* read before.                                                              *)
LEMMA AcquireIInv ==
  ASSUME IInv, NEW r \in Runners, Acquire(r)
  PROVE  IInv'
<1> DEFINE e == runner[r].exec
           o == runner[r].owner
           t == runner[r].at
<1>0. TypeOK /\ runner[r].pc = "acquiring"
  BY DEF IInv, Acquire
<1>1. e \in Executions /\ Targets[e] \subseteq Apps /\ o \in Nat /\ t \in Nat /\ t <= now
      /\ o \in 1..owners
  BY <1>0, RunnerTargets DEF IInv, TokensDrawn, RunnerState
<1>2. CASE ~ \A a \in Targets[e] : Grantable(a, e, t)
  BY <1>2, RunnerLeaves DEF Acquire
<1>3. CASE \A a \in Targets[e] : Grantable(a, e, t)
  <2> DEFINE fence == [a \in Apps |-> IF a \in Targets[e] THEN GrantedToken(a, e, o) ELSE 0]
             x == [pc |-> "working", exec |-> e, owner |-> o, at |-> 0,
                   expires |-> t + LockTTL, fence |-> fence]
  <2>1. /\ locks' = [a \in Apps |-> IF a \in Targets[e] THEN GrantedRow(a, e, o, t) ELSE locks[a]]
        /\ runner' = [runner EXCEPT ![r] = x]
        /\ newest' = [newest EXCEPT ![e] = o]
        /\ UNCHANGED <<now, owners>>
    BY <1>3 DEF Acquire
  <2>2. fence \in [Apps -> Nat]
    BY <1>0, <1>1, GrantedFields
  <2>3. x \in RunnerState
    BY <1>1, <2>2, ApplicationLocksAssumption DEF RunnerState, PCs
  <2>4. /\ x.pc = "working" /\ x.exec = e /\ x.owner = o /\ x.at = 0 /\ x.expires = t + LockTTL
        /\ \A a \in Targets[e] : x.fence[a] = GrantedToken(a, e, o)
    BY <1>1
  <2> HIDE DEF x, fence
  <2>5. TypeOK'
    BY <1>0, <1>1, <2>1, <2>3, <2>4, GrantedFields DEF TypeOK
  <2>6. TokensDrawn'
    BY <1>0, <1>1, <2>1, <2>4 DEF IInv, TypeOK, TokensDrawn, RunnerState
  <2>7. RowsBelong'
    <3> SUFFICES ASSUME NEW a \in Apps
                 PROVE  /\ locks'[a].beat <= now
                        /\ locks'[a].exec # NoExecution => a \in Targets[locks'[a].exec]
                        /\ locks'[a].exec = NoExecution => locks'[a] = Unlocked
      BY <2>1 DEF RowsBelong
    <3>1. CASE a \in Targets[e]
      <4>1. locks'[a].beat = t /\ locks'[a].exec = e
        BY <1>0, <1>1, <2>1, <3>1, GrantedFields
      <4> QED  BY <1>1, <3>1, <4>1, ApplicationLocksAssumption DEF NoExecution
    <3>2. CASE a \notin Targets[e]
      BY <2>1, <3>2 DEF IInv, RowsBelong
    <3> QED  BY <3>1, <3>2
  <2>8. OneOwnerPerExecution'
    <3>1. \A a \in Apps : locks[a].exec = e => a \in Targets[e]
      BY <1>1, ApplicationLocksAssumption DEF IInv, RowsBelong, NoExecution
    <3>2. \A a \in Targets[e] : /\ locks'[a].exec = e /\ locks'[a].owner = o
                                /\ locks'[a].beat = t
      BY <1>0, <1>1, <2>1, GrantedFields
    <3>3. \A a \in Apps \ Targets[e] : locks'[a] = locks[a] /\ locks[a].exec # e
      BY <2>1, <3>1
    <3> QED  BY <3>2, <3>3 DEF IInv, OneOwnerPerExecution
  <2>9. UnexpiredSetIsWhole'
    <3> SUFFICES ASSUME NEW q \in Runners, Holds(q)', runner'[q].expires > now',
                        NEW a \in Targets[runner'[q].exec]
                 PROVE  Matches(q, a)' /\ locks'[a].beat + LockTTL = runner'[q].expires
      BY DEF UnexpiredSetIsWhole
    <3>1. CASE q = r
      <4>1. runner'[q] = x /\ a \in Targets[e] /\ a \in Apps
        BY <1>0, <1>1, <2>1, <2>4, <3>1 DEF TypeOK
      <4> QED  BY <1>0, <1>1, <2>1, <2>4, <4>1, GrantedFields DEF Matches
    <3>2. CASE q # r
      <4>1. runner'[q] = runner[q] /\ runner[q].pc \in {"working", "beating"}
            /\ runner[q].owner = newest'[runner[q].exec]
        BY <1>0, <2>1, <3>2 DEF TypeOK, Holds
      <4>2. runner[q].exec \in Executions /\ Targets[runner[q].exec] \subseteq Apps
        BY <1>0, <4>1, RunnerTargets
      <4>3. runner[q].exec # e
        BY <1>0, <1>1, <2>1, <3>2, <4>1 DEF IInv, TypeOK, TokensDrawn
      <4>4. Holds(q) /\ runner[q].expires > now /\ a \in Apps
        BY <1>0, <1>1, <2>1, <4>1, <4>2, <4>3 DEF TypeOK, Holds
      <4>5. Matches(q, a) /\ locks[a].beat + LockTTL = runner[q].expires
        BY <4>1, <4>4 DEF IInv, UnexpiredSetIsWhole
      <4>6. a \notin Targets[e]
        <5> SUFFICES ASSUME a \in Targets[e] PROVE FALSE
          OBVIOUS
        <5>1. locks[a].exec = runner[q].exec /\ locks[a].beat \in Nat
          BY <1>0, <4>4, <4>5 DEF Matches, TypeOK, LockRow
        <5>2. locks[a] # Unlocked
          BY <4>2, <5>1, ApplicationLocksAssumption DEF Unlocked, NoExecution
        <5>3. locks[a].beat <= t - LockTTL
          BY <1>3, <4>3, <5>1, <5>2 DEF Grantable
        <5> QED  BY <1>0, <1>1, <4>4, <4>5, <5>1, <5>3, ApplicationLocksAssumption DEF TypeOK
      <4> QED  BY <2>1, <4>1, <4>4, <4>5, <4>6 DEF Matches
    <3> QED  BY <3>1, <3>2
  <2> QED  BY <2>5, <2>6, <2>7, <2>8, <2>9 DEF IInv
<1> QED  BY <1>2, <1>3

(* Only the runner that drew a token matches the rows that carry it.         *)
LEMMA MatchIsOwn ==
  ASSUME IInv, NEW q \in Runners, NEW r \in Runners, NEW a,
         runner[q].pc # "idle", runner[r].pc # "idle", Matches(q, a), Matches(r, a)
  PROVE  q = r
BY DEF IInv, TokensDrawn, Matches

(* A renewal extends the holder's own set, all of it.                        *)
LEMMA HeartbeatIInv ==
  ASSUME IInv, NEW r \in Runners, Heartbeat(r)
  PROVE  IInv'
<1> DEFINE e == runner[r].exec
           t == runner[r].at
<1>0. TypeOK /\ runner[r].pc = "beating"
  BY DEF IInv, Heartbeat
<1>1. e \in Executions /\ Targets[e] \subseteq Apps /\ t \in Nat /\ t <= now
  BY <1>0, RunnerTargets DEF IInv, TokensDrawn, RunnerState
<1>2. CASE ~Renewable(r)
  BY <1>2, RunnerLeaves DEF Heartbeat
<1>3. CASE Renewable(r)
  <2> DEFINE x == [runner[r] EXCEPT !.pc = "working", !.at = 0, !.expires = t + LockTTL]
  <2>1. /\ locks' = [a \in Apps |-> IF a \in Targets[e] THEN [locks[a] EXCEPT !.beat = t] ELSE locks[a]]
        /\ runner' = [runner EXCEPT ![r] = x]
        /\ UNCHANGED <<now, owners, newest>>
    BY <1>0, <1>3 DEF Heartbeat, TypeOK
  <2>2. /\ x \in RunnerState /\ x.pc = "working" /\ x.exec = e /\ x.owner = runner[r].owner
        /\ x.at = 0 /\ x.expires = t + LockTTL /\ x.fence = runner[r].fence
    <3>1. runner[r] \in RunnerState /\ t + LockTTL \in Nat
      BY <1>0, <1>1, ApplicationLocksAssumption DEF TypeOK
    <3> DEFINE y == [runner[r] EXCEPT !.pc = "working", !.at = 0]
    <3>2. /\ y \in RunnerState /\ y.pc = "working" /\ y.exec = e
          /\ y.owner = runner[r].owner /\ y.at = 0 /\ y.fence = runner[r].fence
      BY <3>1 DEF RunnerState, PCs
    <3>3. x = [y EXCEPT !.expires = t + LockTTL]
      OBVIOUS
    <3> HIDE DEF x, y
    <3> QED  BY <3>1, <3>2, <3>3 DEF RunnerState
  <2>3. \A a \in Targets[e] :
          /\ locks'[a] \in LockRow /\ locks'[a].exec = locks[a].exec
          /\ locks'[a].owner = locks[a].owner /\ locks'[a].token = locks[a].token
          /\ locks'[a].beat = t
    BY <1>0, <1>1, <2>1 DEF TypeOK, LockRow
  <2>4. \A a \in Apps \ Targets[e] : locks'[a] = locks[a]
    BY <2>1
  <2>5. locks' \in [Apps -> LockRow]
    BY <1>0, <2>1, <2>3, <2>4 DEF TypeOK
  <2>6. \A a \in Targets[e] : Matches(r, a)
    BY <1>3 DEF Renewable
  <2>7. runner'[r] = x /\ \A q \in Runners \ {r} : runner'[q] = runner[q]
    BY <1>0, <2>1 DEF TypeOK
  <2> HIDE DEF x
  <2>8. TypeOK'
    BY <1>0, <1>1, <2>1, <2>2, <2>5 DEF TypeOK
  <2>9. TokensDrawn'
    BY <1>0, <1>1, <2>1, <2>2, <2>7 DEF IInv, TypeOK, TokensDrawn
  <2>10. RowsBelong'
    <3> SUFFICES ASSUME NEW a \in Apps
                 PROVE  /\ locks'[a].beat <= now
                        /\ locks'[a].exec # NoExecution => a \in Targets[locks'[a].exec]
                        /\ locks'[a].exec = NoExecution => locks'[a] = Unlocked
      BY <2>1 DEF RowsBelong
    <3>1. CASE a \in Targets[e]
      BY <1>1, <2>3, <2>6, <3>1, ApplicationLocksAssumption DEF Matches, NoExecution
    <3>2. CASE a \notin Targets[e]
      BY <2>4, <3>2 DEF IInv, RowsBelong
    <3> QED  BY <3>1, <3>2
  <2>11. OneOwnerPerExecution'
    <3>1. \A a \in Targets[e] : locks'[a].exec = e /\ locks'[a].owner = runner[r].owner /\ locks'[a].beat = t
      BY <2>3, <2>6 DEF Matches
    <3>2. \A a \in Apps \ Targets[e] : locks'[a].exec # e
      BY <1>1, <2>4, ApplicationLocksAssumption DEF IInv, RowsBelong, NoExecution
    <3> QED  BY <2>4, <3>1, <3>2 DEF IInv, OneOwnerPerExecution
  <2>12. UnexpiredSetIsWhole'
    <3> SUFFICES ASSUME NEW q \in Runners, Holds(q)', runner'[q].expires > now',
                        NEW a \in Targets[runner'[q].exec]
                 PROVE  Matches(q, a)' /\ locks'[a].beat + LockTTL = runner'[q].expires
      BY DEF UnexpiredSetIsWhole
    <3>1. CASE q = r
      BY <2>2, <2>3, <2>6, <2>7, <3>1 DEF Matches
    <3>2. CASE q # r
      <4>1. runner'[q] = runner[q] /\ Holds(q) /\ runner[q].expires > now /\ runner[q].pc # "idle"
        BY <2>1, <2>7, <3>2 DEF Holds
      <4>2. Matches(q, a) /\ locks[a].beat + LockTTL = runner[q].expires /\ a \in Apps
        BY <1>0, <4>1, RunnerTargets DEF IInv, UnexpiredSetIsWhole
      <4>3. a \notin Targets[e]
        BY <1>0, <2>6, <3>2, <4>1, <4>2, MatchIsOwn
      <4> QED  BY <2>4, <4>1, <4>2, <4>3 DEF Matches
    <3> QED  BY <3>1, <3>2
  <2> QED  BY <2>8, <2>9, <2>10, <2>11, <2>12 DEF IInv
<1> QED  BY <1>2, <1>3

(* A runner that reads the clock for a heartbeat keeps its set.              *)
LEMMA StartHeartbeatIInv ==
  ASSUME IInv, NEW r \in Runners, StartHeartbeat(r)
  PROVE  IInv'
<1> DEFINE x == [runner[r] EXCEPT !.pc = "beating", !.at = now]
<1>1. TypeOK /\ runner[r].pc = "working" /\ runner[r] \in RunnerState /\ now \in Nat
  BY DEF IInv, StartHeartbeat, TypeOK
<1>2. runner' = [runner EXCEPT ![r] = x] /\ UNCHANGED <<now, locks, owners, newest>>
  BY <1>1 DEF StartHeartbeat, TypeOK
<1>3. /\ x \in RunnerState /\ x.pc = "beating" /\ x.exec = runner[r].exec
      /\ x.owner = runner[r].owner /\ x.at = now /\ x.expires = runner[r].expires
      /\ x.fence = runner[r].fence
  BY <1>1 DEF RunnerState, PCs
<1>4. runner'[r] = x /\ \A q \in Runners \ {r} : runner'[q] = runner[q]
  BY <1>1, <1>2 DEF TypeOK
<1> HIDE DEF x
<1>5. TypeOK'
  BY <1>1, <1>2, <1>3 DEF TypeOK
<1>6. TokensDrawn'
  BY <1>1, <1>2, <1>3, <1>4 DEF IInv, TokensDrawn
<1>7. RowsBelong' /\ OneOwnerPerExecution'
  BY <1>2 DEF IInv, RowsBelong, OneOwnerPerExecution
<1>8. UnexpiredSetIsWhole'
  BY <1>1, <1>2, <1>3, <1>4 DEF IInv, UnexpiredSetIsWhole, Holds, Matches
<1> QED  BY <1>5, <1>6, <1>7, <1>8 DEF IInv

(* Rows are deleted, and whoever held them is not the newest holder.         *)
LEMMA RowsDeleted ==
  ASSUME IInv, NEW A \in SUBSET Apps,
         locks' = [a \in Apps |-> IF a \in A THEN Unlocked ELSE locks[a]]
  PROVE  /\ locks' \in [Apps -> LockRow]
         /\ now' = now => RowsBelong'
         /\ OneOwnerPerExecution'
<1>1. Unlocked \in LockRow /\ Unlocked.exec = NoExecution /\ Unlocked.beat = 0
  BY DEF Unlocked, LockRow
<1>2. TypeOK
  BY DEF IInv
<1> HIDE DEF Unlocked
<1>3. locks' \in [Apps -> LockRow]
  BY <1>1, <1>2 DEF TypeOK
<1>4. ASSUME now' = now PROVE RowsBelong'
  BY <1>1, <1>2, <1>4 DEF IInv, RowsBelong, TypeOK
<1>5. OneOwnerPerExecution'
  <2> SUFFICES ASSUME NEW a \in Apps, NEW b \in Apps, locks'[a] # Unlocked,
                      locks'[a].exec = locks'[b].exec
               PROVE  locks'[a].owner = locks'[b].owner /\ locks'[a].beat = locks'[b].beat
    BY <1>1 DEF OneOwnerPerExecution, Unlocked
  <2>1. locks'[a] = locks[a] /\ locks[a].exec # NoExecution
    BY <1>2 DEF IInv, RowsBelong
  <2>2. locks'[b] = locks[b]
    BY <1>1, <2>1
  <2> QED  BY <2>1, <2>2 DEF IInv, OneOwnerPerExecution
<1> QED  BY <1>3, <1>4, <1>5

(* A release deletes no row of another holder.                               *)
LEMMA ReleaseIInv ==
  ASSUME IInv, NEW r \in Runners, Release(r)
  PROVE  IInv'
<1> DEFINE A == Targets[runner[r].exec]
<1>0. TypeOK /\ runner[r].pc = "working" /\ A \in SUBSET Apps
  BY RunnerTargets DEF IInv, Release
<1>1. CASE ~ \A a \in A : Matches(r, a)
  BY <1>1, RunnerLeaves DEF Release
<1>2. CASE \A a \in A : Matches(r, a)
  <2>1. /\ locks' = [a \in Apps |-> IF a \in A THEN Unlocked ELSE locks[a]]
        /\ runner' = [runner EXCEPT ![r] = Idle]
        /\ UNCHANGED <<now, owners, newest>>
    BY <1>2 DEF Release
  <2>2. Idle \in RunnerState /\ Idle.pc = "idle" /\ Idle.at = 0
    BY DEF Idle, RunnerState, PCs
  <2>3. locks' \in [Apps -> LockRow] /\ RowsBelong' /\ OneOwnerPerExecution'
    BY <1>0, <2>1, RowsDeleted
  <2> HIDE DEF Idle, A
  <2>4. TypeOK'
    BY <1>0, <2>1, <2>2, <2>3 DEF TypeOK
  <2>5. TokensDrawn'
    BY <1>0, <2>1, <2>2 DEF IInv, TypeOK, TokensDrawn
  <2>6. UnexpiredSetIsWhole'
    <3> SUFFICES ASSUME NEW q \in Runners, Holds(q)', runner'[q].expires > now',
                        NEW a \in Targets[runner'[q].exec]
                 PROVE  Matches(q, a)' /\ locks'[a].beat + LockTTL = runner'[q].expires
      BY DEF UnexpiredSetIsWhole
    <3>1. q # r /\ runner'[q] = runner[q] /\ Holds(q) /\ runner[q].expires > now
      BY <1>0, <2>1, <2>2 DEF TypeOK, Holds
    <3>2. Matches(q, a) /\ locks[a].beat + LockTTL = runner[q].expires /\ a \in Apps
      BY <1>0, <3>1, RunnerTargets DEF IInv, UnexpiredSetIsWhole, Holds
    <3>3. a \notin A
      BY <1>0, <1>2, <3>1, <3>2, MatchIsOwn DEF Holds
    <3> QED  BY <2>1, <3>1, <3>2, <3>3 DEF Matches
  <2> QED  BY <2>3, <2>4, <2>5, <2>6 DEF IInv
<1> QED  BY <1>1, <1>2

(* An operator's command touches only rows of its execution, whose holders   *)
(* are then no longer the newest.                                            *)
LEMMA OperatorKeepsSets ==
  ASSUME IInv, NEW e \in Executions,
         newest' = [newest EXCEPT ![e] = 0],
         UNCHANGED <<now, runner>>, owners' \in Nat, owners' >= owners,
         \A a \in Apps : locks[a].exec # e => locks'[a] = locks[a]
  PROVE  TokensDrawn' /\ UnexpiredSetIsWhole'
<1>0. TypeOK
  BY DEF IInv
<1>1. TokensDrawn'
  BY <1>0 DEF IInv, TypeOK, TokensDrawn, RunnerState
<1>2. UnexpiredSetIsWhole'
  <2> SUFFICES ASSUME NEW q \in Runners, Holds(q)', runner[q].expires > now,
                      NEW a \in Targets[runner[q].exec]
               PROVE  Matches(q, a)' /\ locks'[a].beat + LockTTL = runner'[q].expires
    BY DEF UnexpiredSetIsWhole
  <2>1. runner[q].pc \in {"working", "beating"} /\ runner[q].exec \in Executions
        /\ runner[q].owner = newest'[runner[q].exec] /\ runner[q].owner \in 1..owners
    BY <1>0, RunnerTargets DEF Holds, IInv, TokensDrawn
  <2>2. runner[q].exec # e
    BY <1>0, <2>1 DEF TypeOK
  <2>3. Holds(q)
    BY <1>0, <2>1, <2>2 DEF TypeOK, Holds
  <2>4. Matches(q, a) /\ locks[a].beat + LockTTL = runner[q].expires /\ a \in Apps
    BY <1>0, <2>1, <2>3, RunnerTargets DEF IInv, UnexpiredSetIsWhole
  <2> QED  BY <2>2, <2>4 DEF Matches
<1> QED  BY <1>1, <1>2

(* A retry moves the rows that are left, as one set, to an unused execution. *)
LEMMA HandOffIInv ==
  ASSUME IInv, NEW e \in Executions, NEW f \in Executions, NEW at \in 0..now, HandOff(e, f, at)
  PROVE  IInv'
<1>0. TypeOK
  BY DEF IInv
<1> DEFINE taken(a) == [exec |-> f, owner |-> owners + 1, token |-> locks[a].token + 1, beat |-> at]
<1>1. /\ locks' = [a \in Apps |-> IF a \in RowsOf(e) THEN taken(a) ELSE locks[a]]
      /\ owners' = owners + 1 /\ newest' = [newest EXCEPT ![e] = 0]
      /\ UNCHANGED <<now, runner>> /\ RowsOf(f) = {} /\ Targets[f] = Targets[e]
  BY DEF HandOff, Unused
<1>2. \A a \in Apps : /\ taken(a) \in LockRow /\ taken(a).exec = f
                      /\ taken(a).owner = owners + 1 /\ taken(a).beat = at
  BY <1>0 DEF TypeOK, LockRow
<1> HIDE DEF taken
<1>3. TokensDrawn' /\ UnexpiredSetIsWhole'
  <2>1. \A a \in Apps : locks[a].exec # e => locks'[a] = locks[a]
    BY <1>1 DEF RowsOf
  <2>2. owners' \in Nat /\ owners' >= owners
    BY <1>0, <1>1 DEF TypeOK
  <2> HIDE DEF IInv
  <2> QED  BY <1>1, <2>1, <2>2, OperatorKeepsSets
<1>4. TypeOK'
  BY <1>0, <1>1, <1>2 DEF TypeOK
<1>5. RowsBelong'
  BY <1>0, <1>1, <1>2, ApplicationLocksAssumption DEF IInv, TypeOK, RowsBelong, RowsOf, NoExecution
<1>6. OneOwnerPerExecution'
  <2>1. \A a \in Apps : a \in RowsOf(e) =>
           locks'[a].exec = f /\ locks'[a].owner = owners + 1 /\ locks'[a].beat = at
    BY <1>1, <1>2
  <2>2. \A a \in Apps : a \notin RowsOf(e) => locks'[a] = locks[a] /\ locks[a].exec # f
    BY <1>1 DEF RowsOf
  <2> QED  BY <2>1, <2>2 DEF IInv, OneOwnerPerExecution
<1> QED  BY <1>3, <1>4, <1>5, <1>6 DEF IInv

(* An unlock deletes the rows of one execution.                              *)
LEMMA UnlockIInv ==
  ASSUME IInv, NEW e \in Executions, Unlock(e)
  PROVE  IInv'
<1>0. TypeOK /\ RowsOf(e) \in SUBSET Apps
  BY DEF IInv, RowsOf
<1>1. locks' \in [Apps -> LockRow] /\ RowsBelong' /\ OneOwnerPerExecution'
  BY <1>0, RowsDeleted DEF Unlock
<1>2. TokensDrawn' /\ UnexpiredSetIsWhole'
  <2>1. \A a \in Apps : locks[a].exec # e => locks'[a] = locks[a]
    BY DEF Unlock, RowsOf
  <2>2. owners' \in Nat /\ owners' >= owners /\ newest' = [newest EXCEPT ![e] = 0]
        /\ UNCHANGED <<now, runner>>
    BY <1>0 DEF TypeOK, Unlock
  <2> QED  BY <2>1, <2>2, OperatorKeepsSets
<1>3. TypeOK'
  BY <1>0, <1>1 DEF Unlock, TypeOK
<1> QED  BY <1>1, <1>2, <1>3 DEF IInv

(* Time only expires sets.                                                   *)
LEMMA TickIInv ==
  ASSUME IInv, Tick
  PROVE  IInv'
<1>0. TypeOK /\ now' = now + 1 /\ UNCHANGED <<locks, runner, owners, newest>>
  BY DEF IInv, Tick
<1>1. TypeOK' /\ OneOwnerPerExecution'
  BY <1>0 DEF IInv, TypeOK, OneOwnerPerExecution
<1>2. TokensDrawn' /\ RowsBelong'
  BY <1>0 DEF IInv, TypeOK, TokensDrawn, RowsBelong, RunnerState, LockRow
<1>3. UnexpiredSetIsWhole'
  <2>1. \A r \in Runners : runner[r].expires \in Nat
    BY <1>0 DEF TypeOK, RunnerState
  <2> QED  BY <1>0, <2>1 DEF IInv, TypeOK, UnexpiredSetIsWhole, Holds, Matches
<1> QED  BY <1>1, <1>2, <1>3 DEF IInv

(* The invariant is inductive.                                               *)
LEMMA NextIInv == IInv /\ [Next]_vars => IInv'
<1> SUFFICES ASSUME IInv, [Next]_vars PROVE IInv'
  OBVIOUS
<1>1. ASSUME NEW r \in Runners, RunnerStep(r) PROVE IInv'
  <2>1. ASSUME NEW e \in Executions, StartAcquire(r, e) PROVE IInv'
    BY <2>1, StartAcquireIInv
  <2>2. CASE Acquire(r)
    BY <2>2, AcquireIInv
  <2>3. CASE StartHeartbeat(r)
    BY <2>3, StartHeartbeatIInv
  <2>4. CASE Heartbeat(r)
    BY <2>4, HeartbeatIInv
  <2>5. CASE Release(r)
    BY <2>5, ReleaseIInv
  <2>6. CASE Abandon(r)
    BY <2>6, RunnerLeaves DEF Abandon
  <2> QED  BY <1>1, <2>1, <2>2, <2>3, <2>4, <2>5, <2>6 DEF RunnerStep
<1>2. ASSUME NEW e \in Executions, NEW f \in Executions, NEW at \in 0..now, HandOff(e, f, at) PROVE IInv'
  BY <1>2, HandOffIInv
<1>3. ASSUME NEW e \in Executions, Unlock(e) PROVE IInv'
  BY <1>3, UnlockIInv
<1>4. CASE Tick
  BY <1>4, TickIInv
<1>5. CASE UNCHANGED vars
  BY <1>5 DEF vars, IInv, TypeOK, TokensDrawn, RowsBelong, UnexpiredSetIsWhole, Holds,
              Matches, OneOwnerPerExecution
<1> QED  BY <1>1, <1>2, <1>3, <1>4, <1>5 DEF Next

(* The invariant holds in every reachable state.                             *)
LEMMA Invariance == Spec => []IInv
BY InitIInv, NextIInv, PTL DEF Spec

-----------------------------------------------------------------------------

(* Every variable of the lock table keeps its shape.                         *)
THEOREM TypeCorrect == Spec => []TypeOK
BY Invariance, PTL DEF IInv

(* The newest lock set of an execution is intact until its holder would call *)
(* it expired.                                                               *)
THEOREM UnexpiredSetsAreWhole == Spec => []UnexpiredSetIsWhole
BY Invariance, PTL DEF IInv

(* Two executions never hold one Application on unexpired lock sets.         *)
THEOREM OneOperator == Spec => []OneOperatorPerApplication
<1>1. ASSUME IInv PROVE OneOperatorPerApplication
  <2> SUFFICES ASSUME NEW q \in Runners, NEW r \in Runners, Holds(q), Holds(r),
                      runner[q].expires > now, runner[r].expires > now,
                      NEW a \in Targets[runner[q].exec] \cap Targets[runner[r].exec]
               PROVE  runner[q].exec = runner[r].exec
    BY DEF OneOperatorPerApplication
  <2> QED  BY <1>1 DEF IInv, UnexpiredSetIsWhole, Matches
<1> QED  BY <1>1, Invariance, PTL

(* An execution never has rows of two acquisitions.                          *)
THEOREM OneOwner == Spec => []OneOwnerPerExecution
BY Invariance, PTL DEF IInv

KeepsUnexpiredRows ==
  \A a \in Apps :
    /\ locks[a] # Unlocked
    /\ locks[a].beat + LockTTL > now
    /\ locks'[a].exec # locks[a].exec
    => \/ newest'[locks[a].exec] = 0
       \/ \E r \in Runners : /\ runner[r].pc = "working" /\ runner'[r] = Idle
                             /\ Matches(r, a)

(* A takeover needs an expired row; every other step that removes a row is   *)
(* its holder's or an operator's.                                            *)
LEMMA StepKeepsRows == IInv /\ [Next]_vars => [KeepsUnexpiredRows]_vars
<1> SUFFICES ASSUME IInv, [Next]_vars PROVE KeepsUnexpiredRows
  OBVIOUS
<1>1. ASSUME IInv, [Next]_vars, NEW a \in Apps, locks[a] # Unlocked,
             locks[a].beat + LockTTL > now, locks'[a].exec # locks[a].exec
      PROVE  \/ newest'[locks[a].exec] = 0
             \/ \E r \in Runners : /\ runner[r].pc = "working" /\ runner'[r] = Idle
                                   /\ Matches(r, a)
  <2>0. TypeOK /\ locks[a].beat \in Nat
    BY <1>1 DEF IInv, TypeOK, LockRow
  <2>1. ASSUME NEW r \in Runners, Acquire(r) PROVE FALSE
    <3>1. /\ a \in Targets[runner[r].exec] /\ runner[r].pc = "acquiring"
          /\ Grantable(a, runner[r].exec, runner[r].at)
          /\ locks'[a] = GrantedRow(a, runner[r].exec, runner[r].owner, runner[r].at)
      BY <1>1, <2>1 DEF Acquire
    <3>2. locks[a].exec # runner[r].exec
      BY <1>1, <3>1 DEF GrantedRow
    <3>3. locks[a].beat <= runner[r].at - LockTTL
      BY <1>1, <3>1, <3>2 DEF Grantable
    <3>4. runner[r].at <= now /\ runner[r].at \in Nat
      BY <1>1, <2>0 DEF IInv, TokensDrawn, TypeOK, RunnerState
    <3> QED  BY <1>1, <2>0, <3>3, <3>4, ApplicationLocksAssumption DEF TypeOK
  <2>2. ASSUME NEW r \in Runners, Heartbeat(r) PROVE FALSE
    BY <1>1, <2>0, <2>2 DEF Heartbeat, TypeOK, LockRow
  <2>3. ASSUME NEW r \in Runners, Release(r)
        PROVE  runner[r].pc = "working" /\ runner'[r] = Idle /\ Matches(r, a)
    BY <1>1, <2>0, <2>3 DEF Release, TypeOK
  <2>4. ASSUME NEW e \in Executions, NEW f \in Executions, NEW at \in 0..now, HandOff(e, f, at)
        PROVE  newest'[locks[a].exec] = 0
    BY <1>1, <2>0, <2>4 DEF HandOff, RowsOf, TypeOK
  <2>5. ASSUME NEW e \in Executions, Unlock(e) PROVE newest'[locks[a].exec] = 0
    BY <1>1, <2>0, <2>5 DEF Unlock, RowsOf, TypeOK
  <2> QED  BY <1>1, <2>1, <2>2, <2>3, <2>4, <2>5
           DEF Next, RunnerStep, StartAcquire, StartHeartbeat, Abandon, Tick, vars
<1> QED  BY <1>1 DEF KeepsUnexpiredRows

(* An unexpired row leaves its execution only by its holder's release or by  *)
(* an operator.                                                              *)
THEOREM UnexpiredRowsAreKept == Spec => UnexpiredRowIsKept
BY StepKeepsRows, Invariance, PTL DEF Spec, UnexpiredRowIsKept, KeepsUnexpiredRows

-----------------------------------------------------------------------------
(* The table of rows and clocks implements the table of lapsing locks *)

(* No more owner tokens are drawn than there are owners in the abstraction. *)
OwnersIInv == IInv /\ owners <= MaxOwners

(* Every step keeps the tokens in bounds. *)
LEMMA NextOwnersIInv == OwnersIInv /\ [Next]_vars => OwnersIInv'
<1> SUFFICES ASSUME OwnersIInv, [Next]_vars PROVE owners' <= MaxOwners
  BY NextIInv DEF OwnersIInv
<1>1. owners \in Nat /\ MaxOwners \in Nat /\ owners <= MaxOwners
  BY ApplicationLocksAssumption DEF OwnersIInv, IInv, TypeOK
<1>2. ASSUME NEW r \in Runners, RunnerStep(r) PROVE owners' <= MaxOwners
  BY <1>1, <1>2 DEF RunnerStep, StartAcquire, Acquire, StartHeartbeat, Heartbeat, Release, Abandon
<1>3. ASSUME NEW e \in Executions, NEW f \in Executions, NEW at \in 0..now, HandOff(e, f, at)
      PROVE  owners' <= MaxOwners
  BY <1>1, <1>3 DEF HandOff
<1>4. ASSUME NEW e \in Executions, Unlock(e) PROVE owners' <= MaxOwners
  BY <1>1, <1>4 DEF Unlock
<1>5. CASE Tick \/ UNCHANGED vars
  BY <1>1, <1>5 DEF Tick, vars
<1> QED  BY <1>2, <1>3, <1>4, <1>5 DEF Next

(* A row is free in the abstraction when nobody has it. *)
LEMMA FreeRows ==
  ASSUME IInv, NEW a \in Apps
  PROVE  /\ locks[a] \in LockRow /\ locks[a].exec = "none" <=> locks[a] = Unlocked
         /\ Table!Free = [exec |-> Unlocked.exec, owner |-> Unlocked.owner]
         /\ [exec |-> locks[a].exec, owner |-> locks[a].owner] = Table!Free <=> locks[a] = Unlocked
         /\ a \in Lapsed <=> locks[a] # Unlocked /\ locks[a].beat + LockTTL <= now
<1>1. locks[a] \in LockRow /\ (locks[a].exec = "none" <=> locks[a] = Unlocked)
  BY DEF IInv, TypeOK, RowsBelong, Unlocked, NoExecution
<1>2. Table!Free = [exec |-> Unlocked.exec, owner |-> Unlocked.owner]
  BY DEF Table!Free, Unlocked, NoExecution
<1>3. [exec |-> locks[a].exec, owner |-> locks[a].owner] = Table!Free <=> locks[a] = Unlocked
  BY <1>1, <1>2 DEF Unlocked, NoExecution
<1> QED  BY <1>1, <1>2, <1>3 DEF Lapsed

(* What a statement does that gives rows: those it gives have one holder   *)
(* and one clock reading, the others stay.                                 *)
Given(A, e, o, at) ==
  /\ locks' \in [Apps -> LockRow] /\ now' = now
  /\ \A a \in Apps :
       IF a \in A THEN locks'[a].exec = e /\ locks'[a].owner = o /\ locks'[a].beat = at
       ELSE locks'[a] = locks[a]

(* Rows that are given are refreshed in the abstraction, unless they are   *)
(* late.                                                                   *)
LEMMA GivenRefreshes ==
  ASSUME IInv, NEW A \in SUBSET Apps, NEW e \in Executions, NEW o \in Nat, NEW at \in Nat, Given(A, e, o, at)
  PROVE  Table!Refresh(A)
<1>1. now \in Nat /\ LockTTL \in Nat
  BY ApplicationLocksAssumption DEF IInv, TypeOK
<1>2. \A a \in A : locks'[a] # Unlocked
  BY ApplicationLocksAssumption DEF Given, Unlocked, NoExecution
<1>4. \A a \in Apps : a \in Lapsed' <=> locks'[a] # Unlocked /\ locks'[a].beat + LockTTL <= now
  BY DEF Lapsed, Given
<1>5. \A a \in Apps : a \in Lapsed <=> locks[a] # Unlocked /\ locks[a].beat + LockTTL <= now
  BY DEF Lapsed
<1>6. \A a \in A : a \in Lapsed' <=> at + LockTTL <= now
  BY <1>2, <1>4 DEF Given
<1>7. \A a \in Apps \ A : a \in Lapsed' <=> a \in Lapsed
  BY <1>4, <1>5 DEF Given
<1>8. Lapsed \subseteq Apps /\ Lapsed' \subseteq Apps
  BY DEF Lapsed
<1>9. CASE at + LockTTL <= now
  <2>1. Lapsed' = (Lapsed \ A) \cup A
    BY <1>6, <1>7, <1>8, <1>9
  <2> QED  BY <2>1 DEF Table!Refresh
<1>10. CASE ~(at + LockTTL <= now)
  <2>1. Lapsed' = (Lapsed \ A) \cup {}
    BY <1>6, <1>7, <1>8, <1>10
  <2> QED  BY <2>1 DEF Table!Refresh
<1> QED  BY <1>9, <1>10

(* Rows that are deleted are given back in the abstraction. *)
LEMMA DeletedAreDropped ==
  ASSUME IInv, NEW A \in SUBSET Apps, now' = now,
         locks' = [a \in Apps |-> IF a \in A THEN Unlocked ELSE locks[a]]
  PROVE  Table!Give(A, Table!Free) /\ Lapsed' = Lapsed \ A
<1>1. Table!Free = [exec |-> Unlocked.exec, owner |-> Unlocked.owner]
  BY DEF Table!Free, Unlocked, NoExecution
<1>2. Table!Give(A, Table!Free)
  BY <1>1 DEF Table!Give
<1>3. Lapsed' = Lapsed \ A
  BY DEF Lapsed
<1> QED  BY <1>2, <1>3

(* Nothing changes in the abstraction. *)
TableStays == UNCHANGED <<[a \in Apps |-> [exec |-> locks[a].exec, owner |-> locks[a].owner]], Lapsed>>

(* An acquisition takes all locks of its execution, or none. *)
LEMMA AcquireTakes ==
  ASSUME OwnersIInv, NEW r \in Runners, Acquire(r)
  PROVE  TableStays \/ \E e \in Executions, o \in 1..MaxOwners : Table!Take(e, o)
<1>0. PICK e \in Executions, o \in Nat, at \in Nat :
             e = runner[r].exec /\ o = runner[r].owner /\ at = runner[r].at
  BY DEF OwnersIInv, IInv, TypeOK, RunnerState, Acquire
<1>1. /\ e \in Executions /\ Targets[e] \in SUBSET Apps /\ runner[r] \in RunnerState
      /\ o \in 1..owners /\ at \in Nat /\ at <= now /\ o \in Nat /\ owners \in Nat /\ owners <= MaxOwners
      /\ now \in Nat /\ LockTTL \in Nat /\ locks \in [Apps -> LockRow] /\ MaxOwners \in Nat
  BY <1>0, ApplicationLocksAssumption DEF OwnersIInv, IInv, TypeOK, TokensDrawn, RunnerState, Acquire
<1>2. o \in 1..MaxOwners
  BY <1>1
<1>3. CASE \A a \in Targets[e] : Grantable(a, e, at)
  <2>1. /\ now' = now
        /\ locks' = [a \in Apps |-> IF a \in Targets[e] THEN GrantedRow(a, e, o, at) ELSE locks[a]]
    BY <1>0, <1>3 DEF Acquire
  <2>2. \A a \in Apps : GrantedRow(a, e, o, at) \in LockRow /\ GrantedRow(a, e, o, at).exec = e
                        /\ GrantedRow(a, e, o, at).owner = o /\ GrantedRow(a, e, o, at).beat = at
    BY <1>1 DEF GrantedRow, GrantedToken, LockRow
  <2>3. Given(Targets[e], e, o, at)
    BY <1>1, <2>1, <2>2 DEF Given
  <2>4. Table!Give(Targets[e], [exec |-> e, owner |-> o])
    <3> QED  BY <1>1, <2>3 DEF Given, Table!Give
  <2>7. Table!Refresh(Targets[e])
    <3>1. IInv  BY DEF OwnersIInv
    <3> QED  BY <1>1, <2>3, <3>1, GivenRefreshes
  <2>5. ASSUME NEW a \in Targets[e]
        PROVE  \/ [exec |-> locks[a].exec, owner |-> locks[a].owner] = Table!Free
               \/ locks[a].exec = e \/ a \in Lapsed
    <3>1. a \in Apps /\ locks[a].beat \in Nat
      BY <1>1 DEF LockRow
    <3>2. locks[a] = Unlocked \/ locks[a].exec = e \/ locks[a].beat <= at - LockTTL
      BY <1>3 DEF Grantable
    <3>3. locks[a].beat <= at - LockTTL => locks[a].beat + LockTTL <= now
      BY <1>1, <3>1
    <3> QED  BY <3>1, <3>2, <3>3, FreeRows DEF OwnersIInv
  <2>6. Table!Takeable(e)
    BY <1>1, <2>5 DEF Table!Takeable
  <2>8. Table!Take(e, o)
    <3> QED  BY <2>4, <2>6, <2>7, Zenon DEF Table!Take
  <2> QED  BY <1>1, <1>2, <2>8
<1>4. CASE ~\A a \in Targets[e] : Grantable(a, e, at)
  BY <1>0, <1>4 DEF Acquire, TableStays, Lapsed
<1> QED  BY <1>3, <1>4

(* A holder whose rows match owns all locks of its execution. *)
LEMMA MatchingOwnsAll ==
  ASSUME OwnersIInv, NEW r \in Runners, runner[r].pc # "idle", \A a \in Targets[runner[r].exec] : Matches(r, a)
  PROVE  /\ runner[r].exec \in Executions /\ runner[r].owner \in 1..MaxOwners
         /\ Targets[runner[r].exec] \in SUBSET Apps
         /\ Table!OwnsAll(runner[r].exec, runner[r].owner)
<1>1. /\ runner[r].exec \in Executions /\ Targets[runner[r].exec] \in SUBSET Apps
      /\ runner[r].owner \in 1..owners /\ owners \in Nat /\ owners <= MaxOwners /\ MaxOwners \in Nat
  BY ApplicationLocksAssumption DEF OwnersIInv, IInv, TypeOK, TokensDrawn
<1>2. Table!OwnsAll(runner[r].exec, runner[r].owner)
  BY <1>1 DEF Table!OwnsAll, Matches
<1> QED  BY <1>1, <1>2

(* A heartbeat renews all locks of its execution, or none. *)
LEMMA HeartbeatRenews ==
  ASSUME OwnersIInv, NEW r \in Runners, Heartbeat(r)
  PROVE  TableStays \/ \E e \in Executions, o \in 1..MaxOwners : Table!Renew(e, o)
<1> DEFINE e == runner[r].exec
           o == runner[r].owner
           at == runner[r].at
<1>1. locks \in [Apps -> LockRow] /\ at \in Nat /\ o \in Nat
  BY DEF OwnersIInv, IInv, TypeOK, RunnerState
<1>2. CASE Renewable(r)
  <2>1. \A a \in Targets[e] : Matches(r, a)
    BY <1>2 DEF Renewable
  <2>2. e \in Executions /\ o \in 1..MaxOwners /\ Targets[e] \in SUBSET Apps /\ Table!OwnsAll(e, o)
    BY <2>1, MatchingOwnsAll DEF Heartbeat
  <2>3. /\ now' = now
        /\ locks' = [a \in Apps |-> IF a \in Targets[e] THEN [locks[a] EXCEPT !.beat = at] ELSE locks[a]]
    BY <1>2 DEF Heartbeat
  <2>4. Given(Targets[e], e, o, at)
    BY <1>1, <2>1, <2>2, <2>3 DEF Given, LockRow, Matches
  <2>5. Table!Refresh(Targets[e])
    BY <1>1, <2>2, <2>4, GivenRefreshes DEF OwnersIInv
  <2>6. \A a \in Apps : locks'[a].exec = locks[a].exec /\ locks'[a].owner = locks[a].owner
    BY <1>1, <2>3 DEF LockRow
  <2>7. UNCHANGED [a \in Apps |-> [exec |-> locks[a].exec, owner |-> locks[a].owner]]
    BY <2>6
  <2> QED  BY <2>2, <2>5, <2>7 DEF Table!Renew
<1>3. CASE ~Renewable(r)
  BY <1>3 DEF Heartbeat, TableStays, Lapsed
<1> QED  BY <1>2, <1>3

(* A release gives all locks of its execution back, or none. *)
LEMMA ReleaseDrops ==
  ASSUME OwnersIInv, NEW r \in Runners, Release(r)
  PROVE  TableStays \/ \E e \in Executions, o \in 1..MaxOwners : Table!Drop(e, o)
<1>1. CASE \A a \in Targets[runner[r].exec] : Matches(r, a)
  <2>1. /\ runner[r].exec \in Executions /\ runner[r].owner \in 1..MaxOwners
        /\ Targets[runner[r].exec] \in SUBSET Apps /\ Table!OwnsAll(runner[r].exec, runner[r].owner)
    BY <1>1, MatchingOwnsAll DEF Release
  <2>2. /\ now' = now
        /\ locks' = [a \in Apps |-> IF a \in Targets[runner[r].exec] THEN Unlocked ELSE locks[a]]
    BY <1>1 DEF Release
  <2>3. Table!Give(Targets[runner[r].exec], Table!Free) /\ Lapsed' = Lapsed \ Targets[runner[r].exec]
    BY <2>1, <2>2, DeletedAreDropped DEF OwnersIInv
  <2> QED  BY <2>1, <2>3 DEF Table!Drop
<1>2. CASE ~\A a \in Targets[runner[r].exec] : Matches(r, a)
  BY <1>2 DEF Release, TableStays, Lapsed
<1> QED  BY <1>1, <1>2

(* An operator's hand-over and unlocking are the abstraction's. *)
LEMMA OperatorMoves ==
  ASSUME OwnersIInv, NEW e \in Executions
  PROVE  /\ \A f \in Executions, at \in 0..now :
              HandOff(e, f, at) => \E o \in 1..MaxOwners : Table!HandOff(e, f, o)
         /\ Unlock(e) => Table!Unlock(e)
<1>1. /\ locks \in [Apps -> LockRow] /\ owners \in Nat /\ MaxOwners \in Nat /\ now \in Nat
      /\ LockTTL \in Nat \ {0} /\ Targets[e] \in SUBSET Apps /\ RowsOf(e) \in SUBSET Apps
  BY ApplicationLocksAssumption DEF OwnersIInv, IInv, TypeOK, RowsOf
<1>2. Table!HeldBy(e) = RowsOf(e)
  BY DEF Table!HeldBy, RowsOf
<1>3. ASSUME NEW f \in Executions, NEW at \in 0..now, HandOff(e, f, at)
      PROVE  \E o \in 1..MaxOwners : Table!HandOff(e, f, o)
  <2>1. /\ owners + 1 \in 1..MaxOwners /\ owners + 1 \in Nat /\ now' = now
        /\ locks' = [a \in Apps |->
             IF a \in RowsOf(e)
             THEN [exec |-> f, owner |-> owners + 1, token |-> locks[a].token + 1, beat |-> at]
             ELSE locks[a]]
    BY <1>1, <1>3 DEF HandOff
  <2>2. Given(RowsOf(e), f, owners + 1, at)
    BY <1>1, <2>1 DEF Given, LockRow
  <2>3. Table!Give(RowsOf(e), [exec |-> f, owner |-> owners + 1])
    <3> QED  BY <1>1, <2>1, <2>2 DEF Given, Table!Give
  <2>4. Table!Refresh(RowsOf(e))
    BY <1>1, <2>1, <2>2, GivenRefreshes DEF OwnersIInv
  <2>5. Table!HandOff(e, f, owners + 1)
    BY <1>2, <2>3, <2>4 DEF Table!HandOff
  <2> QED  BY <2>1, <2>5
<1>4. ASSUME Unlock(e) PROVE Table!Unlock(e)
  <2>1. RowsOf(e) = Targets[e]
    BY <1>1, <1>4, ApplicationLocksAssumption DEF Unlock, RowsOf, OwnersIInv, IInv, RowsBelong, NoExecution
  <2>2. now' = now /\ locks' = [a \in Apps |-> IF a \in Targets[e] THEN Unlocked ELSE locks[a]]
    BY <1>4, <2>1 DEF Unlock
  <2>3. Table!Give(Targets[e], Table!Free) /\ Lapsed' = Lapsed \ Targets[e]
    BY <1>1, <2>2, DeletedAreDropped DEF OwnersIInv
  <2>4. \A a \in Targets[e] : locks[a].exec = e /\ a \in Apps
    BY <1>1, <1>4 DEF Unlock
  <2> QED  BY <2>3, <2>4 DEF Table!Unlock
<1> QED  BY <1>3, <1>4

(* Time lets locks lapse, and takes none. *)
LEMMA TickLapses ==
  ASSUME OwnersIInv, Tick
  PROVE  Table!Lapse
<1>1. now \in Nat /\ now' = now + 1 /\ LockTTL \in Nat /\ locks' = locks /\ locks \in [Apps -> LockRow]
  BY ApplicationLocksAssumption DEF OwnersIInv, IInv, TypeOK, Tick
<1>2. \A a \in Apps : locks[a].beat \in Nat
  BY <1>1 DEF LockRow
<1>3. Lapsed \subseteq Lapsed'
  BY <1>1, <1>2 DEF Lapsed
<1>4. \A a \in Lapsed' : a \in Apps /\ [exec |-> locks[a].exec, owner |-> locks[a].owner] # Table!Free
  BY <1>1, FreeRows DEF Lapsed, OwnersIInv
<1> QED  BY <1>1, <1>3, <1>4 DEF Table!Lapse

(* ImplementsTable: rows, tokens and clocks give what the table promises   *)
(* without them: an execution has all of its Applications or none of them, *)
(* and only a lapsed lock is taken over (Acquire, Heartbeat, Release,      *)
(* HandOff and Unlock, each one transaction).                              *)
THEOREM RowsImplementTable == Spec => ImplementsTable
<1>1. Init => Table!Init
  BY DEF Init, Table!Init, Table!Free, Lapsed, Unlocked, NoExecution
<1>2. OwnersIInv /\ [Next]_vars =>
        [Table!Next]_<<[a \in Apps |-> [exec |-> locks[a].exec, owner |-> locks[a].owner]], Lapsed>>
  <2> SUFFICES ASSUME OwnersIInv, [Next]_vars PROVE Table!Next \/ TableStays
    BY DEF TableStays
  <2>1. ASSUME NEW r \in Runners, RunnerStep(r) PROVE Table!Next \/ TableStays
    <3>1. CASE Acquire(r)
      BY <3>1, AcquireTakes DEF Table!Next
    <3>2. CASE Heartbeat(r)
      BY <3>2, HeartbeatRenews DEF Table!Next
    <3>3. CASE Release(r)
      BY <3>3, ReleaseDrops DEF Table!Next
    <3>4. ASSUME now' = now, locks' = locks PROVE TableStays
      BY <3>4 DEF TableStays, Lapsed
    <3> QED  BY <2>1, <3>1, <3>2, <3>3, <3>4 DEF RunnerStep, StartAcquire, StartHeartbeat, Abandon
  <2>2. ASSUME NEW e \in Executions, NEW f \in Executions, NEW at \in 0..now, HandOff(e, f, at) PROVE Table!Next
    BY <2>2, OperatorMoves DEF Table!Next
  <2>3. ASSUME NEW e \in Executions, Unlock(e) PROVE Table!Next
    BY <2>3, OperatorMoves DEF Table!Next
  <2>4. CASE Tick
    BY <2>4, TickLapses DEF Table!Next
  <2>5. CASE UNCHANGED vars
    BY <2>5 DEF vars, TableStays, Lapsed
  <2> QED  BY <2>1, <2>2, <2>3, <2>4, <2>5 DEF Next
<1>3. Init => OwnersIInv
  BY InitIInv, ApplicationLocksAssumption DEF OwnersIInv, Init
<1> QED  BY <1>1, <1>2, <1>3, NextOwnersIInv, PTL DEF Spec, ImplementsTable, Table!Spec

-----------------------------------------------------------------------------
(* Onboarding: the shapes of everything *)

RowStatuses == {"none", "AwaitingConfirmation", "ValidationFailed", "Applying", "Managed", "ConfigurationDrift"}

Tasks ==
  [step : {"none", "validating", "passing", "rejecting", "beginning", "checking", "disabling", "reading",
           "failing", "marking"},
   kind : {"none", "dry run", "confirm", "recovery"}, key : Keys \cup {Nowhere},
   mapping : Contents \cup {Nowhere}, present : BOOLEAN]

(* A task has the mapping of the Application as it is, which is set once.  *)
TaskOK(x) ==
  /\ x.step # "none" => x.mapping = mapping /\ mapping # Nowhere
  /\ x.kind = "confirm" => x.key \in Keys
  /\ x.step = "beginning" => x.kind = "confirm"

OnboardingTypeOK ==
  /\ argo \in Observation /\ listed \subseteq Observation
  /\ candidate \in [status : {"never", "present", "missing"}, content : Contents]
  /\ knows \subseteq Clients /\ current \subseteq Participants
  /\ mapping \in Contents \cup {Nowhere}
  /\ row \in [status : RowStatuses, failed : BOOLEAN]
  /\ command \in [Keys -> {"unused", "Accepted", "Completed"}]
  /\ task \in [Participants -> Tasks]
  /\ left \in [clients : SUBSET Clients, requests : Nat, edits : Nat]
  /\ noted \in BOOLEAN

(* Before there is a mapping there is no row. *)
TasksIInv ==
  /\ row.status # "none" => mapping # Nowhere
  /\ \A p \in Participants : TaskOK(task[p])

(* What a request or the recovery does to its task: it begins with the     *)
(* mapping as it is, goes on, or ends.                                     *)
TaskBegins(p) ==
  \E kind \in {"dry run", "confirm", "recovery"}, key \in Keys \cup {Nowhere}, step \in {"validating", "checking"} :
    /\ kind = "confirm" => key \in Keys
    /\ mapping # Nowhere
    /\ Loaded(p, kind, key, step)

TaskGoesOn(p) ==
  \E step \in {"passing", "rejecting", "beginning", "checking", "disabling", "reading", "failing", "marking"} :
    /\ Step(p) # "none" /\ (step = "beginning" => task[p].kind = "confirm")
    /\ Goto(p, step)

TaskMoves(p) == TaskBegins(p) \/ TaskGoesOn(p) \/ Finish(p)

(* A task that moves stays well formed. *)
LEMMA TaskStays ==
  ASSUME OnboardingTypeOK, TasksIInv, NEW p \in Participants, TaskMoves(p), mapping' = mapping
  PROVE  /\ task' \in [Participants -> Tasks]
         /\ \A q \in Participants : TaskOK(task[q])'
<1>1. /\ task \in [Participants -> Tasks] /\ mapping \in Contents \cup {Nowhere}
      /\ \A q \in Participants : TaskOK(task[q])
  BY DEF OnboardingTypeOK, TasksIInv
<1>2. CASE TaskBegins(p)
  <2>1. PICK kind \in {"dry run", "confirm", "recovery"}, key \in Keys \cup {Nowhere},
             step \in {"validating", "checking"} :
          /\ kind = "confirm" => key \in Keys
          /\ mapping # Nowhere
          /\ Loaded(p, kind, key, step)
    BY <1>2 DEF TaskBegins
  <2> DEFINE x == [step |-> step, kind |-> kind, key |-> key, mapping |-> mapping,
                   present |-> candidate.status = "present"]
  <2>2. task' = [task EXCEPT ![p] = x]
    BY <2>1 DEF Loaded
  <2>3. (candidate.status = "present") \in BOOLEAN
    OBVIOUS
  <2>4. x \in Tasks /\ x.mapping = mapping /\ x.kind = kind /\ x.key = key /\ x.step = step
    BY <1>1, <2>3 DEF Tasks
  <2> HIDE DEF x
  <2> QED  BY <1>1, <2>1, <2>2, <2>4 DEF TaskOK
<1>3. CASE TaskGoesOn(p)
  <2>1. PICK step \in {"passing", "rejecting", "beginning", "checking", "disabling", "reading", "failing", "marking"} :
          /\ Step(p) # "none" /\ (step = "beginning" => task[p].kind = "confirm")
          /\ task' = [task EXCEPT ![p].step = step]
    BY <1>3 DEF TaskGoesOn, Goto
  <2> QED  BY <1>1, <2>1 DEF TaskOK, Tasks, Step
<1>4. CASE Finish(p)
  <2>1. NoTask \in Tasks /\ NoTask.step = "none" /\ NoTask.kind = "none"
    BY DEF NoTask, Tasks
  <2> QED  BY <1>1, <1>4, <2>1 DEF Finish, TaskOK
<1> QED  BY <1>2, <1>3, <1>4 DEF TaskMoves

(* What a request or the recovery does. *)
OnboardingActs(p) ==
  \/ OpenQueue(p) \/ Assign(p) \/ OpenPage(p) \/ DryRun(p) \/ Validate(p) \/ SaveValidation(p)
  \/ BeginApplying(p) \/ Check(p) \/ DisableAutomatedSync(p) \/ ReadBack(p) \/ Stumble(p)
  \/ MarkManaged(p) \/ RecordOperationError(p) \/ Interrupt(p)
  \/ \E k \in Keys : Confirm(p, k)
  \/ ListApplying /\ p = Worker

(* A step is somebody's, a pass's or a change in Argo CD.  What the        *)
(* recovery does, a request may do too.                                    *)
LEMMA OnboardingCases ==
  ASSUME [OnboardingNext]_onboardingVars
  PROVE  \/ UNCHANGED onboardingVars
         \/ ListApplications \/ Reconcile \/ AbandonPass \/ Edit
         \/ \E p \in Participants : OnboardingActs(p)
BY Zenon DEF OnboardingNext, Recovers, OnboardingActs, Participants

(* The task of whoever acts moves, or nothing of it does; only an          *)
(* assignment changes the mapping, and it is the first.                    *)
LEMMA TasksMove ==
  ASSUME OnboardingTypeOK, TasksIInv, NEW p \in Participants, OnboardingActs(p)
  PROVE  \/ TaskMoves(p) /\ mapping' = mapping
         \/ OpenQueue(p) \/ OpenPage(p) \/ Assign(p)
<1>1. task[p] \in Tasks /\ TaskOK(task[p]) /\ (row.status = "Applying" => mapping # Nowhere)
  BY DEF OnboardingTypeOK, TasksIInv
<1>2. CASE DryRun(p)
  BY <1>2 DEF DryRun, TaskMoves, TaskBegins
<1>3. ASSUME NEW k \in Keys, Confirm(p, k)
      PROVE  TaskMoves(p) /\ mapping' = mapping
  BY <1>3 DEF Confirm, TaskMoves, TaskBegins
<1>4. CASE ListApplying /\ p = Worker
  BY <1>1, <1>4 DEF ListApplying, Recoverable, TaskMoves, TaskBegins
<1>5. CASE Validate(p)
  BY <1>5, Zenon DEF Validate, TaskMoves, TaskGoesOn, Discovery
<1>6. CASE BeginApplying(p) \/ SaveValidation(p) \/ MarkManaged(p) \/ RecordOperationError(p) \/ Interrupt(p)
  BY <1>6 DEF BeginApplying, SaveValidation, MarkManaged, RecordOperationError, Interrupt, TaskMoves, TaskGoesOn
<1>7. CASE Check(p) \/ DisableAutomatedSync(p) \/ ReadBack(p) \/ Stumble(p)
  BY <1>7 DEF Check, DisableAutomatedSync, ReadBack, Stumble, TaskMoves, TaskGoesOn
<1> QED  BY <1>2, <1>3, <1>4, <1>5, <1>6, <1>7 DEF OnboardingActs

(* Every step keeps tasks and rows with the mapping. *)
LEMMA TasksStay ==
  ASSUME OnboardingTypeOK, TasksIInv, [OnboardingNext]_onboardingVars
  PROVE  task' \in [Participants -> Tasks] /\ TasksIInv'
<1>1. task \in [Participants -> Tasks]
  BY DEF OnboardingTypeOK
<1>2. CASE UNCHANGED onboardingVars
  BY <1>1, <1>2 DEF onboardingVars, TasksIInv, TaskOK
<1>3. CASE ListApplications \/ AbandonPass \/ Edit
  BY <1>1, <1>3 DEF ListApplications, AbandonPass, Edit, TasksIInv, TaskOK, Discovery
<1>4. CASE Reconcile
  <2>1. UNCHANGED <<task, mapping>> /\ (row'.status # "none" => row.status # "none")
    BY <1>4 DEF Reconcile, OnboardingTypeOK
  <2> QED  BY <1>1, <2>1 DEF TasksIInv, TaskOK
<1>5. ASSUME NEW p \in Participants, OnboardingActs(p)
      PROVE  task' \in [Participants -> Tasks] /\ TasksIInv'
  <2>1. CASE OpenQueue(p) \/ OpenPage(p)
    BY <1>1, <2>1 DEF OpenQueue, OpenPage, TasksIInv, TaskOK, Discovery
  <2>2. CASE Assign(p)
    <3>1. /\ UNCHANGED <<task, row>> /\ mapping = Nowhere
          /\ \A q \in Participants : task[q].step = "none"
      BY <2>2 DEF Assign, TasksIInv, TaskOK
    <3>2. row.status = "none"
      BY <3>1 DEF TasksIInv
    <3> QED  BY <1>1, <3>1, <3>2 DEF TasksIInv, TaskOK
  <2>3. CASE TaskMoves(p) /\ mapping' = mapping
    <3>1. row'.status # "none" => mapping # Nowhere
      <4>1. row.status # "none" => mapping # Nowhere
        BY DEF TasksIInv
      <4>2. Step(p) # "none" => mapping # Nowhere
        BY DEF TasksIInv, TaskOK, Step
      <4>3. Step(p) # "none" \/ row' = row
        BY <1>5 DEF OnboardingActs, OpenQueue, Assign, OpenPage, DryRun, Validate, SaveValidation,
                    BeginApplying, Check, DisableAutomatedSync, ReadBack, Stumble, MarkManaged,
                    RecordOperationError, Interrupt, Confirm, ListApplying
      <4> QED  BY <4>1, <4>2, <4>3
    <3> QED  BY <2>3, <3>1, TaskStays DEF TasksIInv
  <2> QED  BY <1>5, <2>1, <2>2, <2>3, TasksMove
<1> QED  BY <1>2, <1>3, <1>4, <1>5, OnboardingCases

(* Every step keeps Argo CD, the list, the candidate and the mapping. *)
LEMMA ObservationTypes ==
  ASSUME OnboardingTypeOK, [OnboardingNext]_onboardingVars
  PROVE  /\ argo' \in Observation /\ listed' \subseteq Observation
         /\ candidate' \in [status : {"never", "present", "missing"}, content : Contents]
         /\ mapping' \in Contents \cup {Nowhere} /\ knows' \subseteq Clients
<1>1. /\ argo \in Observation /\ listed \subseteq Observation
      /\ candidate \in [status : {"never", "present", "missing"}, content : Contents]
      /\ mapping \in Contents \cup {Nowhere} /\ knows \subseteq Clients
      /\ left \in [clients : SUBSET Clients, requests : Nat, edits : Nat]
  BY DEF OnboardingTypeOK
<1>2. CASE UNCHANGED onboardingVars
  BY <1>1, <1>2 DEF onboardingVars
<1>3. CASE ListApplications \/ AbandonPass \/ Edit
  BY <1>1, <1>3 DEF ListApplications, AbandonPass, Edit, Discovery
<1>4. CASE Reconcile
  <2>1. PICK o \in Observation :
          /\ candidate' = IF IsCandidate(o) THEN [status |-> "present", content |-> o.content]
                          ELSE IF candidate.status = "present" THEN [candidate EXCEPT !.status = "missing"]
                          ELSE candidate
          /\ knows' = IF IsCandidate(o) \/ candidate.status = "present" THEN {} ELSE knows
          /\ listed' = {} /\ UNCHANGED <<argo, mapping>>
    BY <1>1, <1>4 DEF Reconcile
  <2>2. o.content \in Contents
    BY DEF Observation
  <2>3. candidate' \in [status : {"never", "present", "missing"}, content : Contents]
    BY <1>1, <2>1, <2>2
  <2>4. knows' \subseteq Clients
    BY <1>1, <2>1
  <2> QED  BY <1>1, <2>1, <2>3, <2>4
<1>5. ASSUME NEW p \in Participants, OnboardingActs(p)
      PROVE  /\ argo' \in Observation /\ listed' \subseteq Observation
             /\ candidate' \in [status : {"never", "present", "missing"}, content : Contents]
             /\ mapping' \in Contents \cup {Nowhere} /\ knows' \subseteq Clients
  <2>1. CASE DisableAutomatedSync(p) \/ Stumble(p)
    <3>1. [argo EXCEPT !.auto = FALSE] \in Observation
      BY <1>1 DEF Observation
    <3> QED  BY <1>1, <2>1, <3>1 DEF DisableAutomatedSync, Stumble, Discovery
  <2>2. CASE OpenQueue(p)
    BY <1>1, <2>2 DEF OpenQueue
  <2>3. CASE Assign(p)
    BY <1>1, <2>3 DEF Assign
  <2>4. CASE OpenPage(p) \/ DryRun(p) \/ Validate(p) \/ SaveValidation(p) \/ BeginApplying(p)
    BY <1>1, <2>4 DEF OpenPage, DryRun, Validate, SaveValidation, BeginApplying, Discovery
  <2>5. CASE Check(p) \/ ReadBack(p) \/ MarkManaged(p) \/ RecordOperationError(p) \/ Interrupt(p)
    BY <1>1, <2>5 DEF Check, ReadBack, MarkManaged, RecordOperationError, Interrupt, Discovery
  <2>6. ASSUME NEW k \in Keys, Confirm(p, k) PROVE UNCHANGED <<argo, Discovery, mapping, listed>>
    BY <2>6 DEF Confirm
  <2>7. CASE ListApplying
    BY <1>1, <2>7 DEF ListApplying, Discovery
  <2> QED  BY <1>1, <1>5, <2>1, <2>2, <2>3, <2>4, <2>5, <2>6, <2>7 DEF OnboardingActs, Discovery
<1> QED  BY <1>2, <1>3, <1>4, <1>5, OnboardingCases

(* Every step keeps rows, commands, budgets and notes. *)
LEMMA RowsAndCommandTypes ==
  ASSUME OnboardingTypeOK, TasksIInv, [OnboardingNext]_onboardingVars
  PROVE  /\ row' \in [status : RowStatuses, failed : BOOLEAN] /\ current' \subseteq Participants
         /\ command' \in [Keys -> {"unused", "Accepted", "Completed"}]
         /\ left' \in [clients : SUBSET Clients, requests : Nat, edits : Nat]
         /\ noted' \in BOOLEAN
<1> DEFINE Right == /\ row' \in [status : RowStatuses, failed : BOOLEAN] /\ current' \subseteq Participants
                    /\ command' \in [Keys -> {"unused", "Accepted", "Completed"}]
                    /\ left' \in [clients : SUBSET Clients, requests : Nat, edits : Nat]
                    /\ noted' \in BOOLEAN
<1>1. /\ row \in [status : RowStatuses, failed : BOOLEAN] /\ current \subseteq Participants
      /\ command \in [Keys -> {"unused", "Accepted", "Completed"}]
      /\ left \in [clients : SUBSET Clients, requests : Nat, edits : Nat]
      /\ noted \in BOOLEAN /\ Worker \in Participants
  BY DEF OnboardingTypeOK, Participants
<1>2. \A status, o : Note(status, o) \in BOOLEAN /\ (noted \/ Note(status, o)) \in BOOLEAN
  BY Zenon DEF Note, Proper, Fits
<1>3. CASE UNCHANGED onboardingVars
  BY <1>1, <1>3 DEF onboardingVars
<1>4. CASE ListApplications \/ AbandonPass
  BY <1>1, <1>4 DEF ListApplications, AbandonPass
<1>5. CASE Edit
  <2>1. left' \in [clients : SUBSET Clients, requests : Nat, edits : Nat]
    BY <1>1, <1>5 DEF Edit
  <2>2. noted' \in BOOLEAN
    BY <1>2, <1>5, Zenon DEF Edit
  <2> QED  BY <1>1, <1>5, <2>1, <2>2 DEF Edit
<1>6. CASE Reconcile
  BY <1>1, <1>6 DEF Reconcile, RowStatuses
<1>7. ASSUME NEW p \in Participants, OnboardingActs(p) PROVE Right
  <2> DEFINE Row == row' \in [status : RowStatuses, failed : BOOLEAN] /\ current' \subseteq Participants
  <2>11. \A s \in {"AwaitingConfirmation", "ValidationFailed", "Applying", "Managed"} :
            [status |-> s, failed |-> FALSE] \in [status : RowStatuses, failed : BOOLEAN]
    BY DEF RowStatuses
  <2>10. Count(p) => left' \in [clients : SUBSET Clients, requests : Nat, edits : Nat]
    BY <1>1 DEF Count
  <2>1. CASE OpenQueue(p) \/ Assign(p) \/ Validate(p) \/ Check(p) \/ ReadBack(p) \/ Interrupt(p)
    BY <1>1, <2>1 DEF OpenQueue, Assign, Validate, Check, ReadBack, Interrupt
  <2>2. CASE OpenPage(p) \/ ListApplying
    BY <1>1, <1>7, <2>2 DEF OpenPage, ListApplying
  <2>3. CASE DryRun(p)
    BY <1>1, <2>10, <2>3 DEF DryRun
  <2>4. ASSUME NEW k \in Keys, Confirm(p, k) PROVE Right
    BY <1>1, <2>10, <2>4 DEF Confirm
  <2>5. CASE SaveValidation(p)
    <3>1. Row
      <4>1. CASE MaySave
        <5>1. PICK s \in {"AwaitingConfirmation", "ValidationFailed"} : row' = [status |-> s, failed |-> FALSE]
          BY <2>5, <4>1 DEF SaveValidation
        <5>2. current' \subseteq {p}
          BY <2>5, <4>1 DEF SaveValidation
        <5> QED  BY <1>7, <2>11, <5>1, <5>2
      <4>2. CASE ~MaySave
        BY <1>1, <2>5, <4>2 DEF SaveValidation
      <4> QED  BY <4>1, <4>2
    <3> QED  BY <1>1, <2>5, <3>1 DEF SaveValidation
  <2>6. CASE RecordOperationError(p)
    BY <1>1, <2>6 DEF RecordOperationError, RowStatuses
  <2>7. CASE BeginApplying(p)
    <3>1. noted' \in BOOLEAN
      BY <1>1, <1>2, <2>7, Zenon DEF BeginApplying
    <3>2. command' \in [Keys -> {"unused", "Accepted", "Completed"}]
      BY <1>1, <2>7 DEF BeginApplying
    <3>3. Row
      <4>1. CASE command[task[p].key] = "unused" /\ row.status = "AwaitingConfirmation" /\ p \in current
        <5>1. row' = [status |-> "Applying", failed |-> FALSE] /\ current' = {p}
          BY <2>7, <4>1 DEF BeginApplying
        <5> QED  BY <1>7, <2>11, <5>1
      <4>2. CASE ~(command[task[p].key] = "unused" /\ row.status = "AwaitingConfirmation" /\ p \in current)
        BY <1>1, <2>7, <4>2 DEF BeginApplying
      <4> QED  BY <4>1, <4>2
    <3>4. left' = left
      BY <2>7 DEF BeginApplying
    <3> QED  BY <1>1, <3>1, <3>2, <3>3, <3>4
  <2>8. CASE MarkManaged(p)
    <3>1. noted' \in BOOLEAN
      BY <1>1, <1>2, <2>8, Zenon DEF MarkManaged
    <3>2. command' \in [Keys -> {"unused", "Accepted", "Completed"}]
      BY <1>1, <2>8 DEF MarkManaged
    <3>3. Row
      BY <1>1, <1>7, <2>11, <2>8 DEF MarkManaged
    <3>4. left' = left
      BY <2>8 DEF MarkManaged
    <3> QED  BY <1>1, <3>1, <3>2, <3>3, <3>4
  <2>9. CASE DisableAutomatedSync(p) \/ Stumble(p)
    <3>1. noted' \in BOOLEAN
      BY <1>1, <1>2, <2>9, Zenon DEF DisableAutomatedSync, Stumble
    <3> QED  BY <1>1, <2>9, <3>1 DEF DisableAutomatedSync, Stumble
  <2> QED  BY <1>7, <2>1, <2>2, <2>3, <2>4, <2>5, <2>6, <2>7, <2>8, <2>9 DEF OnboardingActs
<1> QED  BY <1>3, <1>4, <1>5, <1>6, <1>7, OnboardingCases

(* The initial state is well formed. *)
LEMMA OnboardingStarts == OnboardingInit => OnboardingTypeOK /\ TasksIInv
<1> SUFFICES ASSUME OnboardingInit PROVE OnboardingTypeOK /\ TasksIInv
  OBVIOUS
<1>1. argo \in Observation /\ left \in [clients : SUBSET Clients, requests : Nat, edits : Nat]
  BY OnboardingAssumption DEF OnboardingInit
<1>2. Missing.content \in Contents
  <2>1. argo.content \in Contents
    BY <1>1 DEF Observation
  <2>2. (CHOOSE x \in Contents : TRUE) \in Contents
    BY <2>1
  <2> QED  BY <2>2 DEF Missing
<1>3. NoTask \in Tasks /\ TaskOK(NoTask)
  BY DEF NoTask, Tasks, TaskOK
<1>4. row \in [status : RowStatuses, failed : BOOLEAN]
  BY DEF OnboardingInit, RowStatuses
<1>5. candidate \in [status : {"never", "present", "missing"}, content : Contents]
  BY <1>2 DEF OnboardingInit
<1> QED  BY <1>1, <1>3, <1>4, <1>5 DEF OnboardingInit, OnboardingTypeOK, TasksIInv

(* Every step keeps everything well formed. *)
LEMMA OnboardingStays ==
  OnboardingTypeOK /\ TasksIInv /\ [OnboardingNext]_onboardingVars => OnboardingTypeOK' /\ TasksIInv'
<1> SUFFICES ASSUME OnboardingTypeOK, TasksIInv, [OnboardingNext]_onboardingVars
             PROVE  OnboardingTypeOK' /\ TasksIInv'
  OBVIOUS
<1> QED  BY TasksStay, ObservationTypes, RowsAndCommandTypes DEF OnboardingTypeOK

(* Every variable of onboarding keeps its shape, and whoever is at work on *)
(* the Application has its mapping, which is never another one (LoadTarget *)
(* reads it, Assign sets it once).                                         *)
THEOREM OnboardingTypeCorrect == OnboardingSpec => [](OnboardingTypeOK /\ TasksIInv)
BY OnboardingStarts, OnboardingStays, PTL DEF OnboardingSpec

-----------------------------------------------------------------------------
(* Onboarding: the command and the row *)

AcceptedKeys == {k \in Keys : command[k] = "Accepted"}

(* There is one accepted command exactly while a confirmation is applied. *)
AcceptedIInv ==
  IF row.status = "Applying" THEN \E k \in Keys : AcceptedKeys = {k} ELSE AcceptedKeys = {}

(* Every step keeps the command and the row together. *)
LEMMA AcceptedStays ==
  OnboardingTypeOK /\ TasksIInv /\ AcceptedIInv /\ [OnboardingNext]_onboardingVars => AcceptedIInv'
<1> SUFFICES ASSUME OnboardingTypeOK, TasksIInv, AcceptedIInv, [OnboardingNext]_onboardingVars
             PROVE  AcceptedIInv'
  OBVIOUS
<1> USE DEF AcceptedIInv, AcceptedKeys
<1>1. /\ command \in [Keys -> {"unused", "Accepted", "Completed"}]
      /\ row \in [status : RowStatuses, failed : BOOLEAN]
  BY DEF OnboardingTypeOK
<1>2. ASSUME UNCHANGED command, (row'.status = "Applying") <=> (row.status = "Applying") PROVE AcceptedIInv'
  BY <1>2
<1>3. CASE UNCHANGED onboardingVars
  BY <1>2, <1>3 DEF onboardingVars
<1>4. CASE ListApplications \/ AbandonPass \/ Edit
  BY <1>2, <1>4 DEF ListApplications, AbandonPass, Edit
<1>5. CASE Reconcile
  <2>1. UNCHANGED command /\ ((row'.status = "Applying") <=> (row.status = "Applying"))
    BY <1>1, <1>5 DEF Reconcile
  <2> QED  BY <1>2, <2>1
<1>6. ASSUME NEW p \in Participants, OnboardingActs(p) PROVE AcceptedIInv'
  <2>1. CASE BeginApplying(p)
    <3> DEFINE key == task[p].key
    <3>1. key \in Keys
      BY <2>1 DEF BeginApplying, Step, TasksIInv, TaskOK
    <3>2. CASE command[key] = "unused" /\ row.status = "AwaitingConfirmation" /\ p \in current
      <4>1. command' = [command EXCEPT ![key] = "Accepted"] /\ row'.status = "Applying" /\ AcceptedKeys = {}
        BY <2>1, <3>2 DEF BeginApplying
      <4>2. AcceptedKeys' = {key}
        BY <1>1, <3>1, <4>1
      <4> QED  BY <3>1, <4>1, <4>2
    <3>3. CASE ~(command[key] = "unused" /\ row.status = "AwaitingConfirmation" /\ p \in current)
      BY <1>2, <2>1, <3>3 DEF BeginApplying
    <3> QED  BY <3>2, <3>3
  <2>2. CASE MarkManaged(p)
    <3>1. CASE Applies(p)
      <4>1. /\ row'.status = "Managed"
            /\ command' = [k \in Keys |-> IF command[k] = "Accepted" THEN "Completed" ELSE command[k]]
        BY <2>2, <3>1 DEF MarkManaged
      <4>2. AcceptedKeys' = {}
        BY <1>1, <4>1
      <4> QED  BY <4>1, <4>2
    <3>2. CASE ~Applies(p)
      BY <1>2, <2>2, <3>2 DEF MarkManaged
    <3> QED  BY <3>1, <3>2
  <2>3. CASE SaveValidation(p)
    <3>1. UNCHANGED command /\ ((row'.status = "Applying") <=> (row.status = "Applying"))
      BY <2>3 DEF SaveValidation, MaySave
    <3> QED  BY <1>2, <3>1
  <2>4. CASE RecordOperationError(p)
    <3>1. UNCHANGED command /\ row'.status = row.status
      BY <1>1, <2>4 DEF RecordOperationError
    <3> QED  BY <1>2, <3>1
  <2>5. CASE OpenQueue(p) \/ Assign(p) \/ OpenPage(p) \/ DryRun(p) \/ Validate(p) \/ Check(p)
             \/ DisableAutomatedSync(p) \/ ReadBack(p) \/ Stumble(p) \/ Interrupt(p) \/ ListApplying
    BY <1>2, <2>5 DEF OpenQueue, Assign, OpenPage, DryRun, Validate, Check, DisableAutomatedSync, ReadBack, Stumble,
                      Interrupt, ListApplying
  <2>6. ASSUME NEW k \in Keys, Confirm(p, k) PROVE UNCHANGED <<row, command>>
    BY <2>6 DEF Confirm
  <2> QED  BY <1>2, <1>6, <2>1, <2>2, <2>3, <2>4, <2>5, <2>6 DEF OnboardingActs
<1> QED  BY <1>3, <1>4, <1>5, <1>6, OnboardingCases

(* AcceptedIsApplying: while a confirmation is applied its caller, and no  *)
(* other, has a command to ask for (BeginApplyingIdempotent, MarkManaged,  *)
(* SaveValidation, which must not undo a confirmation).                    *)
THEOREM OneCommandPerConfirmation == OnboardingSpec => []AcceptedIsApplying
<1>1. OnboardingInit => AcceptedIInv
  BY DEF OnboardingInit, AcceptedIInv, AcceptedKeys
<1>2. AcceptedIInv => AcceptedIsApplying
  <2> SUFFICES ASSUME AcceptedIInv PROVE AcceptedIsApplying
    OBVIOUS
  <2>1. ASSUME NEW k \in Keys, AcceptedKeys = {k} PROVE Cardinality(AcceptedKeys) = 1
    BY <2>1, FS_Singleton
  <2> QED  BY <2>1 DEF AcceptedIInv, AcceptedIsApplying, AcceptedKeys
<1> QED  BY <1>1, <1>2, AcceptedStays, OnboardingStarts, OnboardingStays, PTL DEF OnboardingSpec

-----------------------------------------------------------------------------
(* Onboarding: what may be called managed *)

(* While a confirmation is applied it is noted when the Application is     *)
(* proper, and whoever is about to finish the confirmation that is applied *)
(* saw it so.                                                              *)
NotedIInv ==
  row.status = "Applying" =>
    /\ Proper(argo) => noted
    /\ \A p \in Participants : Step(p) = "marking" /\ p \in current => noted

(* As long as a confirmation is applied the mapping stays, what was noted  *)
(* stays noted, and no change of the Application goes unnoted.             *)
LEMMA NotesGrow ==
  ASSUME OnboardingTypeOK, TasksIInv, NotedIInv, [OnboardingNext]_onboardingVars,
         row.status = "Applying", row'.status = "Applying"
  PROVE  mapping' = mapping /\ (noted => noted') /\ (Proper(argo)' => noted')
<1>1. /\ mapping # Nowhere /\ (Proper(argo) => noted) /\ Note(row.status, argo') = Proper(argo')
  BY DEF TasksIInv, NotedIInv, Note
<1>2. ASSUME mapping' = mapping
      PROVE  Proper(argo)' <=> Proper(argo')
  BY <1>2 DEF Proper, Fits
<1>3. ASSUME UNCHANGED <<argo, mapping, noted>>
      PROVE  mapping' = mapping /\ (noted => noted') /\ (Proper(argo)' => noted')
  BY <1>1, <1>2, <1>3
<1>4. ASSUME mapping' = mapping, noted' = (noted \/ Note(row.status, argo'))
      PROVE  mapping' = mapping /\ (noted => noted') /\ (Proper(argo)' => noted')
  <2>1. noted' <=> (noted \/ Proper(argo'))
    BY <1>1, <1>4, Zenon
  <2> QED  BY <1>2, <1>4, <2>1
<1>5. CASE UNCHANGED onboardingVars
  BY <1>3, <1>5 DEF onboardingVars
<1>6. CASE ListApplications \/ Reconcile \/ AbandonPass
  BY <1>3, <1>6 DEF ListApplications, Reconcile, AbandonPass
<1>7. CASE Edit
  BY <1>4, <1>7 DEF Edit
<1>8. ASSUME NEW p \in Participants, OnboardingActs(p)
      PROVE  mapping' = mapping /\ (noted => noted') /\ (Proper(argo)' => noted')
  <2>1. CASE DisableAutomatedSync(p)
    BY <1>4, <2>1 DEF DisableAutomatedSync
  <2>2. CASE Stumble(p)
    BY <1>3, <1>4, <2>2 DEF Stumble
  <2>3. ~Assign(p)
    BY <1>1 DEF Assign
  <2>4. CASE BeginApplying(p) \/ MarkManaged(p)
    <3>1. UNCHANGED <<argo, mapping, noted>>
      BY <2>4 DEF BeginApplying, MarkManaged
    <3> QED  BY <1>3, <3>1
  <2>5. CASE OpenQueue(p) \/ OpenPage(p) \/ DryRun(p) \/ Validate(p) \/ SaveValidation(p) \/ Check(p)
             \/ ReadBack(p) \/ RecordOperationError(p) \/ Interrupt(p) \/ ListApplying
    BY <1>3, <2>5 DEF OpenQueue, OpenPage, DryRun, Validate, SaveValidation, Check, ReadBack, RecordOperationError,
                      Interrupt, ListApplying
  <2>6. ASSUME NEW k \in Keys, Confirm(p, k) PROVE UNCHANGED <<argo, mapping, noted>>
    BY <2>6 DEF Confirm
  <2> QED  BY <1>3, <1>8, <2>1, <2>2, <2>3, <2>4, <2>5, <2>6 DEF OnboardingActs
<1> QED  BY <1>5, <1>6, <1>7, <1>8, OnboardingCases

(* Only who read the Application back without a finding comes to finish;   *)
(* and nobody about to finish learns of a row that changed since.          *)
LEMMA FinishersReadBack ==
  ASSUME OnboardingTypeOK, TasksIInv, [OnboardingNext]_onboardingVars,
         NEW q \in Participants, task'[q].step = "marking", q \in current'
  PROVE  /\ Step(q) = "marking" \/ Proper(argo)
         /\ q \in current
<1>1. task \in [Participants -> Tasks] /\ TaskOK(task[q])
  BY DEF OnboardingTypeOK, TasksIInv
<1>2. CASE UNCHANGED <<task, current>>
  BY <1>2 DEF Step
<1>3. CASE ListApplications \/ Reconcile \/ AbandonPass \/ Edit
  BY <1>3 DEF ListApplications, Reconcile, AbandonPass, Edit, Step
<1>4. ASSUME NEW p \in Participants, OnboardingActs(p)
      PROVE  (Step(q) = "marking" \/ Proper(argo)) /\ q \in current
  <2> USE DEF Step
  <2>1. CASE Finish(p) /\ current' \subseteq current \cup {p}
    <3>1. p # q
      BY <1>1, <2>1 DEF Finish, NoTask
    <3> QED  BY <1>1, <2>1, <3>1 DEF Finish
  <2>2. CASE ReadBack(p)
    <3>1. current' = current
      BY <2>2 DEF ReadBack
    <3>2. CASE p = q
      <4>1. Proper(argo)
        BY <1>1, <2>2, <3>2 DEF ReadBack, FitsTask, Fits, Proper, TaskOK
      <4> QED  BY <3>1, <4>1
    <3>3. CASE p # q
      BY <1>1, <2>2, <3>1, <3>3 DEF ReadBack, Goto
    <3> QED  BY <3>2, <3>3
  <2>3. ASSUME NEW step, step # "marking", Goto(p, step), current' \subseteq current \cup {p}
        PROVE  (Step(q) = "marking" \/ Proper(argo)) /\ q \in current
    <3>1. p # q
      BY <1>1, <2>3 DEF Goto, Tasks
    <3> QED  BY <1>1, <2>3, <3>1 DEF Goto
  <2>4. ASSUME NEW kind, NEW key, NEW step, step # "marking", Loaded(p, kind, key, step),
               current' \subseteq current \cup {p}
        PROVE  (Step(q) = "marking" \/ Proper(argo)) /\ q \in current
    <3>1. p # q
      BY <1>1, <2>4 DEF Loaded
    <3> QED  BY <1>1, <2>4, <3>1 DEF Loaded
  <2>5. CASE OpenQueue(p) \/ Assign(p)
    BY <1>2, <2>5 DEF OpenQueue, Assign
  <2>6. CASE OpenPage(p)
    BY <2>6 DEF OpenPage
  <2>7. CASE SaveValidation(p) \/ MarkManaged(p) \/ RecordOperationError(p) \/ Interrupt(p)
    <3>1. Finish(p) /\ current' \subseteq current \cup {p}
      BY <2>7 DEF SaveValidation, MarkManaged, RecordOperationError, Interrupt
    <3> QED  BY <2>1, <3>1
  <2>8. CASE Validate(p)
    BY <2>3, <2>8 DEF Validate
  <2>9. CASE Check(p) \/ DisableAutomatedSync(p) \/ Stumble(p)
    BY <2>3, <2>9 DEF Check, DisableAutomatedSync, Stumble
  <2>10. CASE BeginApplying(p)
    <3>1. current' \subseteq current \cup {p} /\ (Goto(p, "checking") \/ Finish(p))
      BY <2>10 DEF BeginApplying
    <3> QED  BY <2>1, <2>3, <3>1
  <2>11. CASE DryRun(p)
    BY <2>4, <2>11 DEF DryRun
  <2>12. ASSUME NEW k \in Keys, Confirm(p, k)
         PROVE  (Step(q) = "marking" \/ Proper(argo)) /\ q \in current
    BY <2>4, <2>12 DEF Confirm
  <2>13. CASE ListApplying /\ p = Worker
    BY <2>4, <2>13 DEF ListApplying
  <2> QED  BY <1>4, <2>2, <2>5, <2>6, <2>7, <2>8, <2>9, <2>10, <2>11, <2>12, <2>13 DEF OnboardingActs
<1> QED  BY <1>2, <1>3, <1>4, OnboardingCases DEF onboardingVars

(* Whose confirmation begins is the only one to know of it. *)
LEMMA ConfirmationBegins ==
  ASSUME OnboardingTypeOK, [OnboardingNext]_onboardingVars, row.status # "Applying", row'.status = "Applying"
  PROVE  /\ UNCHANGED <<argo, mapping>> /\ (Proper(argo) => noted')
         /\ \E p \in Participants : current' = {p} /\ task'[p].step = "checking"
<1>1. row \in [status : RowStatuses, failed : BOOLEAN] /\ task \in [Participants -> Tasks]
  BY DEF OnboardingTypeOK
<1>2. ~(ListApplications \/ Reconcile \/ AbandonPass \/ Edit \/ UNCHANGED onboardingVars)
  BY <1>1 DEF ListApplications, Reconcile, AbandonPass, Edit, onboardingVars
<1>3. PICK p \in Participants : OnboardingActs(p)
  BY <1>2, OnboardingCases
<1>4. ~(OpenQueue(p) \/ Assign(p) \/ OpenPage(p) \/ DryRun(p) \/ Validate(p) \/ Check(p) \/ DisableAutomatedSync(p)
        \/ ReadBack(p) \/ Stumble(p) \/ Interrupt(p) \/ ListApplying \/ \E k \in Keys : Confirm(p, k))
  BY DEF OpenQueue, Assign, OpenPage, DryRun, Validate, Check, DisableAutomatedSync, ReadBack, Stumble, Interrupt,
         ListApplying, Confirm
<1>5. ~(SaveValidation(p) \/ MarkManaged(p) \/ RecordOperationError(p))
  BY <1>1 DEF SaveValidation, MarkManaged, RecordOperationError
<1>6. BeginApplying(p)
  BY <1>3, <1>4, <1>5 DEF OnboardingActs
<1>7. /\ current' = {p} /\ noted' = Note("Applying", argo) /\ Goto(p, "checking") /\ UNCHANGED <<argo, mapping>>
  BY <1>6 DEF BeginApplying, Discovery
<1>8. task'[p].step = "checking"
  BY <1>1, <1>7 DEF Goto, Tasks
<1>9. Proper(argo) => noted'
  BY <1>7, Zenon DEF Note
<1> QED  BY <1>7, <1>8, <1>9

(* Every step keeps the notes right. *)
LEMMA NotedStays ==
  OnboardingTypeOK /\ TasksIInv /\ NotedIInv /\ [OnboardingNext]_onboardingVars => NotedIInv'
<1> SUFFICES ASSUME OnboardingTypeOK, TasksIInv, NotedIInv, [OnboardingNext]_onboardingVars,
                    row'.status = "Applying"
             PROVE  /\ Proper(argo)' => noted'
                    /\ \A q \in Participants : task'[q].step = "marking" /\ q \in current' => noted'
  BY DEF NotedIInv, Step
<1>1. CASE row.status = "Applying"
  <2>1. mapping' = mapping /\ (noted => noted') /\ (Proper(argo)' => noted')
    BY <1>1, NotesGrow
  <2>2. ASSUME NEW q \in Participants, task'[q].step = "marking", q \in current'
        PROVE  noted'
    <3>1. (Step(q) = "marking" \/ Proper(argo)) /\ q \in current
      BY <2>2, FinishersReadBack
    <3> QED  BY <1>1, <2>1, <3>1 DEF NotedIInv
  <2> QED  BY <2>1, <2>2
<1>2. CASE row.status # "Applying"
  <2>1. /\ UNCHANGED <<argo, mapping>> /\ (Proper(argo) => noted')
        /\ \E p \in Participants : current' = {p} /\ task'[p].step = "checking"
    BY <1>2, ConfirmationBegins
  <2>2. Proper(argo)' => noted'
    BY <2>1 DEF Proper, Fits
  <2> QED  BY <2>1, <2>2
<1> QED  BY <1>1, <1>2

(* ManagedWasProper: whoever says that an Application is managed, the      *)
(* request or the recovery, after whatever interruptions and edits: it was *)
(* as confirmed and without automated sync at some time since the          *)
(* confirmation (finishApplying, RecoverApplying, MarkManaged).            *)
THEOREM ManagedIsTrue == OnboardingSpec => ManagedWasProper
<1>1. OnboardingTypeOK /\ TasksIInv /\ NotedIInv /\ [OnboardingNext]_onboardingVars =>
        [row.status # "Managed" /\ row'.status = "Managed" => noted]_onboardingVars
  <2> SUFFICES ASSUME OnboardingTypeOK, TasksIInv, NotedIInv, [OnboardingNext]_onboardingVars,
                      row.status # "Managed", row'.status = "Managed"
               PROVE  noted
    OBVIOUS
  <2>1. row \in [status : RowStatuses, failed : BOOLEAN]
    BY DEF OnboardingTypeOK
  <2>2. ~(ListApplications \/ Reconcile \/ AbandonPass \/ Edit \/ UNCHANGED onboardingVars)
    BY <2>1 DEF ListApplications, Reconcile, AbandonPass, Edit, onboardingVars
  <2>3. PICK p \in Participants : OnboardingActs(p)
    BY <2>2, OnboardingCases
  <2>4. ~(OpenQueue(p) \/ Assign(p) \/ OpenPage(p) \/ DryRun(p) \/ Validate(p) \/ Check(p)
          \/ DisableAutomatedSync(p) \/ ReadBack(p) \/ Stumble(p) \/ Interrupt(p) \/ ListApplying
          \/ \E k \in Keys : Confirm(p, k))
    BY DEF OpenQueue, Assign, OpenPage, DryRun, Validate, Check, DisableAutomatedSync, ReadBack, Stumble, Interrupt,
           ListApplying, Confirm
  <2>5. ~(SaveValidation(p) \/ BeginApplying(p) \/ RecordOperationError(p))
    BY <2>1 DEF SaveValidation, BeginApplying, RecordOperationError
  <2>6. MarkManaged(p)
    BY <2>3, <2>4, <2>5 DEF OnboardingActs
  <2>7. Step(p) = "marking" /\ Applies(p)
    BY <2>6 DEF MarkManaged
  <2> QED  BY <2>7 DEF NotedIInv, Applies
<1>2. OnboardingInit => NotedIInv
  BY DEF OnboardingInit, NotedIInv
<1> QED  BY <1>1, <1>2, NotedStays, OnboardingStarts, OnboardingStays, PTL DEF OnboardingSpec, ManagedWasProper

==============================================================================
