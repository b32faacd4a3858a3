--------------------------- MODULE ApplicationLocks ---------------------------
(***************************************************************************)
(* The operation locks that keep two deployment executions from operating  *)
(* one Application.  deployment_application_locks has a row per locked     *)
(* Application; a runner (one delivery of a deployment job) acquires the   *)
(* rows of all its execution's Applications under a fresh owner token,     *)
(* renews them while the plan runs, and gives them back or leaves them.    *)
(*                                                                         *)
(* Each call reads the clock (`at') before its transaction, which locks    *)
(* every row it matches and is therefore atomic.                           *)
(***************************************************************************)
EXTENDS Integers

CONSTANTS
  Apps,         \* Applications
  Executions,   \* deployment executions
  Runners,      \* deliveries of deployment jobs, each an executor call
  Targets,      \* Targets[e]: the Applications of execution e
  LockTTL,      \* Application lock lease duration
  MaxOwners,    \* bound on the owner tokens drawn
  MaxTime       \* bound on the clock

ASSUME ApplicationLocksAssumption ==
  /\ Targets \in [Executions -> (SUBSET Apps) \ {{}}]
  /\ "none" \notin Executions
  /\ LockTTL \in Nat \ {0}
  /\ MaxOwners \in Nat
  /\ MaxTime \in Nat

VARIABLES
  now,      \* wall clock
  locks,    \* locks[a]: the row of Application a, or Unlocked
  runner,   \* runner[r]: program counter, sampled time and lock set of runner r
  owners,   \* owner tokens drawn so far
  newest    \* history: owner token of the newest acquisition of an execution,
            \* 0 before the first and after an operator took its locks away

vars == <<now, locks, runner, owners, newest>>

NoExecution == "none"

LockRow == [exec: Executions \cup {NoExecution}, owner: Nat, token: Nat, beat: Nat]

Unlocked == [exec |-> NoExecution, owner |-> 0, token |-> 0, beat |-> 0]

PCs == {"idle", "acquiring", "working", "beating"}

(* fence[a]: the fencing token of the runner's lease of Application a *)
RunnerState == [pc: PCs, exec: Executions \cup {NoExecution}, owner: Nat, at: Nat,
                expires: Nat, fence: [Apps -> Nat]]

Idle == [pc |-> "idle", exec |-> NoExecution, owner |-> 0, at |-> 0,
         expires |-> 0, fence |-> [a \in Apps |-> 0]]

Init ==
  /\ now = 0
  /\ locks = [a \in Apps |-> Unlocked]
  /\ runner = [r \in Runners |-> Idle]
  /\ owners = 0
  /\ newest = [e \in Executions |-> 0]

-----------------------------------------------------------------------------
(* Acquire *)

StartAcquire(r, e) ==
  /\ runner[r].pc = "idle"
  /\ owners < MaxOwners
  /\ owners' = owners + 1
  /\ runner' = [runner EXCEPT ![r] =
       [pc |-> "acquiring", exec |-> e, owner |-> owners + 1, at |-> now,
        expires |-> 0, fence |-> Idle.fence]]
  /\ UNCHANGED <<now, locks, newest>>

(* Mutant of Grantable: a lease is taken over one instant too early. *)
GrantableEarly(a, e, at) ==
  \/ locks[a] = Unlocked
  \/ locks[a].exec = e
  \/ locks[a].beat <= at - LockTTL + 1

Grantable(a, e, at) ==
  \/ locks[a] = Unlocked
  \/ locks[a].exec = e
  \/ locks[a].beat <= at - LockTTL

GrantedToken(a, e, o) ==
  IF locks[a].exec = e /\ locks[a].owner = o THEN locks[a].token ELSE locks[a].token + 1

GrantedRow(a, e, o, at) == [exec |-> e, owner |-> o, token |-> GrantedToken(a, e, o), beat |-> at]

(* All rows are granted, or ErrApplicationLocked rolls the transaction back. *)
Acquire(r) ==
  LET e == runner[r].exec
      o == runner[r].owner
      at == runner[r].at
  IN /\ runner[r].pc = "acquiring"
     /\ IF \A a \in Targets[e] : Grantable(a, e, at)
        THEN /\ locks' = [a \in Apps |->
                  IF a \in Targets[e] THEN GrantedRow(a, e, o, at) ELSE locks[a]]
             /\ runner' = [runner EXCEPT ![r] =
                  [pc |-> "working", exec |-> e, owner |-> o, at |-> 0,
                   expires |-> at + LockTTL,
                   fence |-> [a \in Apps |->
                     IF a \in Targets[e] THEN GrantedToken(a, e, o) ELSE 0]]]
             /\ newest' = [newest EXCEPT ![e] = o]
        ELSE /\ runner' = [runner EXCEPT ![r] = Idle]
             /\ UNCHANGED <<locks, newest>>
     /\ UNCHANGED <<now, owners>>

-----------------------------------------------------------------------------
(* Heartbeat and release *)

(* Mutant of Matches: the lease is recognised by its execution alone. *)
MatchesExecution(r, a) == locks[a].exec = runner[r].exec

Matches(r, a) ==
  /\ locks[a].exec = runner[r].exec
  /\ locks[a].owner = runner[r].owner
  /\ locks[a].token = runner[r].fence[a]

StartHeartbeat(r) ==
  /\ runner[r].pc = "working"
  /\ runner' = [runner EXCEPT ![r].pc = "beating", ![r].at = now]
  /\ UNCHANGED <<now, locks, owners, newest>>

(* The whole set is renewed or nothing is. *)
Renewable(r) ==
  LET at == runner[r].at IN
  /\ at < runner[r].expires
  /\ \A a \in Targets[runner[r].exec] : Matches(r, a) /\ locks[a].beat > at - LockTTL

(* A heartbeat that fails ends the execution of the plan. *)
Heartbeat(r) ==
  /\ runner[r].pc = "beating"
  /\ IF Renewable(r)
     THEN /\ locks' = [a \in Apps |->
               IF a \in Targets[runner[r].exec]
               THEN [locks[a] EXCEPT !.beat = runner[r].at] ELSE locks[a]]
          /\ runner' = [runner EXCEPT ![r].pc = "working", ![r].at = 0,
                                      ![r].expires = runner[r].at + LockTTL]
     ELSE /\ runner' = [runner EXCEPT ![r] = Idle]
          /\ UNCHANGED locks
  /\ UNCHANGED <<now, owners, newest>>

(* The caller ignores the error of a release that matches too few rows. *)
Release(r) ==
  /\ runner[r].pc = "working"
  /\ locks' = IF \A a \in Targets[runner[r].exec] : Matches(r, a)
              THEN [a \in Apps |-> IF a \in Targets[runner[r].exec] THEN Unlocked ELSE locks[a]]
              ELSE locks
  /\ runner' = [runner EXCEPT ![r] = Idle]
  /\ UNCHANGED <<now, owners, newest>>

(* The execution ends without releasing (Partial Failed, an infrastructure *)
(* error), or the process dies.                                            *)
Abandon(r) ==
  /\ runner[r].pc # "idle"
  /\ runner' = [runner EXCEPT ![r] = Idle]
  /\ UNCHANGED <<now, locks, owners, newest>>

-----------------------------------------------------------------------------
(* The operator's commands, whatever runners are still at work *)

RowsOf(e) == {a \in Apps : locks[a].exec = e}

Unused(f) == /\ newest[f] = 0
             /\ RowsOf(f) = {}
             /\ \A r \in Runners : runner[r].exec # f

(* Retry creates execution f and hands it the rows that e still has.  It   *)
(* read the clock before its transaction, however long ago: the rows may   *)
(* have lapsed by the time they are handed over.                           *)
HandOff(e, f, at) ==
  /\ owners < MaxOwners
  /\ Unused(f) /\ Targets[f] = Targets[e] /\ e # f
  /\ owners' = owners + 1
  /\ locks' = [a \in Apps |->
       IF a \in RowsOf(e)
       THEN [exec |-> f, owner |-> owners + 1, token |-> locks[a].token + 1, beat |-> at]
       ELSE locks[a]]
  /\ newest' = [newest EXCEPT ![e] = 0]
  /\ UNCHANGED <<now, runner>>

(* Unlock deletes the rows of e, and fails unless e has kept all of them. *)
Unlock(e) ==
  /\ \A a \in Targets[e] : locks[a].exec = e
  /\ locks' = [a \in Apps |-> IF a \in RowsOf(e) THEN Unlocked ELSE locks[a]]
  /\ newest' = [newest EXCEPT ![e] = 0]
  /\ UNCHANGED <<now, runner, owners>>

-----------------------------------------------------------------------------

(* More time changes no comparison once every deadline has passed. *)
ClockMatters ==
  \/ \E a \in Apps : locks[a].beat + LockTTL > now /\ locks[a] # Unlocked
  \/ \E r \in Runners : runner[r].pc # "idle"
                        /\ (runner[r].at + LockTTL > now \/ runner[r].expires > now)

Tick ==
  /\ now < MaxTime
  /\ ClockMatters
  /\ now' = now + 1
  /\ UNCHANGED <<locks, runner, owners, newest>>

RunnerStep(r) ==
  \/ \E e \in Executions : StartAcquire(r, e)
  \/ Acquire(r)
  \/ StartHeartbeat(r)
  \/ Heartbeat(r)
  \/ Release(r)
  \/ Abandon(r)

Next ==
  \/ \E r \in Runners : RunnerStep(r)
  \/ \E e, f \in Executions, at \in 0..now : HandOff(e, f, at)
  \/ \E e \in Executions : Unlock(e)
  \/ Tick

Spec == Init /\ [][Next]_vars

-----------------------------------------------------------------------------
(* Properties *)

(* Every variable keeps its shape, and a runner past its start has an        *)
(* execution.                                                                *)
TypeOK ==
  /\ now \in Nat
  /\ locks \in [Apps -> LockRow]
  /\ runner \in [Runners -> RunnerState]
  /\ owners \in Nat
  /\ newest \in [Executions -> Nat]
  /\ \A r \in Runners : runner[r].pc # "idle" => runner[r].exec \in Executions

(* The runner believes it holds a lock set, which nothing has replaced. *)
Holds(r) ==
  /\ runner[r].pc \in {"working", "beating"}
  /\ runner[r].owner = newest[runner[r].exec]

(* While the newest lock set of an execution has not expired by its holder's  *)
(* own reckoning, every one of its rows is still there, under the fencing     *)
(* token the holder knows.                                                    *)
UnexpiredSetIsWhole ==
  \A r \in Runners :
    Holds(r) /\ runner[r].expires > now =>
      \A a \in Targets[runner[r].exec] :
        Matches(r, a) /\ locks[a].beat + LockTTL = runner[r].expires

(* Two executions never operate one Application on unexpired locks.           *)
OneOperatorPerApplication ==
  \A q, r \in Runners :
    /\ Holds(q) /\ Holds(r)
    /\ runner[q].expires > now /\ runner[r].expires > now
    /\ runner[q].exec # runner[r].exec
    => Targets[runner[q].exec] \cap Targets[runner[r].exec] = {}

(* A lock set is renewed or replaced as a whole: an execution never has rows  *)
(* of two acquisitions.                                                       *)
OneOwnerPerExecution ==
  \A a, b \in Apps :
    /\ locks[a] # Unlocked
    /\ locks[a].exec = locks[b].exec
    => locks[a].owner = locks[b].owner /\ locks[a].beat = locks[b].beat

(* An unexpired row is taken from its execution by nobody but a runner of     *)
(* that execution that releases it, or an operator.                           *)
UnexpiredRowIsKept ==
  [][\A a \in Apps :
       /\ locks[a] # Unlocked
       /\ locks[a].beat + LockTTL > now
       /\ locks'[a].exec # locks[a].exec
       => \/ newest'[locks[a].exec] = 0
          \/ \E r \in Runners : /\ runner[r].pc = "working" /\ runner'[r] = Idle
                                /\ Matches(r, a)]_vars

(* The table of rows and clocks implements the table of lapsing locks.        *)
Lapsed == {a \in Apps : locks[a] # Unlocked /\ locks[a].beat + LockTTL <= now}

Table == INSTANCE OperationLocks WITH
  Owners <- 1..MaxOwners,
  lock <- [a \in Apps |-> [exec |-> locks[a].exec, owner |-> locks[a].owner]],
  lapsed <- Lapsed

ImplementsTable == Table!Spec

==============================================================================
