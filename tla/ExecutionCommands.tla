--------------------------- MODULE ExecutionCommands ---------------------------
(***************************************************************************)
(* The commands on a deployment that went wrong: an operator retries       *)
(* failed Applications, terminates an attempt, or gives its locks free.    *)
(* A command is a request with a key: it is sent again when its answer was *)
(* lost, and answered from the record of the first.  It is decided on a    *)
(* snapshot and written in a transaction of its own, while the worker and  *)
(* other commands go on.                                                   *)
(*                                                                         *)
(* One version with its attempts.  The workflow offers every command, and  *)
(* of the worker only the start and the end of an attempt matter here; a   *)
(* version that a candidate supersedes is the matter of ReleaseWorkflow,   *)
(* and the operations of Argo CD that of DeploymentExecution.              *)
(***************************************************************************)
EXTENDS Integers, Sequences

CONSTANTS
  Commanders,    \* operators and their requests
  CommandKeys,   \* idempotency keys
  Applications,
  MaxAttempts,   \* bounds the attempts
  MaxOrders      \* bounds the requests

ASSUME ExecutionCommandsAssumption ==
  Applications # {} /\ MaxAttempts \in Nat \ {0} /\ MaxOrders \in Nat

VARIABLES
  attempts,   \* attempts[a]: the status of attempt a, its lock version and its nodes
  instance,   \* the lock version of the workflow instance
  holder,     \* the attempt that the rows of the locks name, 0 for none
  orders,     \* the commands on record
  issued,     \* how many requests there were
  issuing,    \* issuing[c]: the request of c and the snapshot it is decided on
  confirmed   \* requests that were accepted, with the attempt their sender was told

commandVars == <<attempts, instance, holder, orders, issued, issuing, confirmed>>

Attempt(nodes) == [status |-> "Preflight", lock |-> 1, nodes |-> nodes]

NoOrder == [step |-> "none", order |-> {}, snapshot |-> {}]

ExecutionCommandsInit ==
  /\ attempts = <<Attempt([x \in Applications |-> "Waiting"])>>
  /\ instance = 1
  /\ holder = 0
  /\ orders = {}
  /\ issued = 0
  /\ issuing = [c \in Commanders |-> NoOrder]
  /\ confirmed = {}

Latest == Len(attempts)

NodesAt(a, s) == {x \in Applications : attempts[a].nodes[x] = s}

Closed(s) == s \in {"Failed", "PartialFailed"}

-----------------------------------------------------------------------------
(* The worker *)

StartAttempt ==
  /\ attempts[Latest].status = "Preflight"
  /\ attempts' = [attempts EXCEPT ![Latest].status = "Running"]
  /\ holder' = Latest
  /\ UNCHANGED <<instance, orders, issued, issuing, confirmed>>

Outcome(nodes) ==
  LET succeeded == {x \in Applications : nodes[x] = "Succeeded"}
  IN IF succeeded = Applications THEN "Succeeded" ELSE IF succeeded = {} THEN "Failed" ELSE "PartialFailed"

(* What is still to be done succeeds, fails, or waits for what has failed. *)
CompleteAttempt ==
  /\ attempts[Latest].status = "Running"
  /\ \E end \in [NodesAt(Latest, "Waiting") -> {"Succeeded", "Failed", "Skipped"}] :
       LET nodes == [x \in Applications |-> IF x \in DOMAIN end THEN end[x] ELSE attempts[Latest].nodes[x]]
       IN /\ (\E x \in DOMAIN end : end[x] = "Skipped") => \E x \in DOMAIN end : end[x] = "Failed"
          /\ attempts' = [attempts EXCEPT ![Latest] = [status |-> Outcome(nodes), lock |-> @.lock + 1, nodes |-> nodes]]
          /\ holder' = IF Outcome(nodes) = "PartialFailed" THEN holder ELSE 0
  /\ instance' = instance + 1
  /\ UNCHANGED <<orders, issued, issuing, confirmed>>

(* Nobody renews the locks of an attempt that has ended: they lapse, and another version takes them. *)
LoseLocksToOthers ==
  /\ holder # 0 /\ attempts[holder].status \in {"PartialFailed", "Terminated"}
  /\ holder' = 0
  /\ UNCHANGED <<attempts, instance, orders, issued, issuing, confirmed>>

-----------------------------------------------------------------------------
(* A request *)

Proceed(c, step, snapshot) ==
  issuing' = [issuing EXCEPT ![c] = [step |-> step, order |-> issuing[c].order, snapshot |-> snapshot]]

(* What a page that shows the latest attempt asks for. *)
Issue(c, kind, key, selected) ==
  /\ issuing[c].step = "none" /\ issued < MaxOrders
  /\ selected \subseteq NodesAt(Latest, "Failed")
  /\ kind = "Retry" <=> selected # {}
  /\ issuing' = [issuing EXCEPT ![c] =
       [step |-> "sent", snapshot |-> {},
        order |-> [kind |-> kind, key |-> key, expected |-> attempts[Latest].lock, selected |-> selected, seen |-> Latest]]]
  /\ issued' = issued + 1
  /\ UNCHANGED <<attempts, instance, holder, orders, confirmed>>

LoadLatest(c) ==
  /\ issuing[c].step = "sent"
  /\ Proceed(c, "loaded", [attempt |-> Latest, lock |-> attempts[Latest].lock, status |-> attempts[Latest].status,
                         failed |-> NodesAt(Latest, "Failed"), instance |-> instance])
  /\ UNCHANGED <<attempts, instance, holder, orders, issued, confirmed>>

TurnAway(c) == issuing' = [issuing EXCEPT ![c] = NoOrder] /\ UNCHANGED confirmed

(* The sender is told, or the answer is lost and the request is sent again. *)
Accept(c, attempt) ==
  \/ /\ confirmed' = confirmed \cup {[order |-> issuing[c].order, told |-> attempt]}
     /\ issuing' = [issuing EXCEPT ![c] = NoOrder]
  \/ Proceed(c, "sent", {}) /\ UNCHANGED confirmed

(* A record is found by the kind and the key of a command, whoever gave it. *)
Recorded(order) == {o \in orders : o.order.kind = order.kind /\ o.order.key = order.key}

(* Mutant of SameContent: what the command asks for is not compared. *)
AnyContent(first, second) == TRUE

(* The fingerprint; it does not cover the attempt. *)
SameContent(first, second) == first.expected = second.expected /\ first.selected = second.selected

(* Whether the snapshot permits the command. *)
Valid(order, snapshot) ==
  /\ snapshot.lock = order.expected
  /\ CASE order.kind = "Retry" -> Closed(snapshot.status) /\ order.selected \subseteq snapshot.failed
       [] order.kind = "Terminate" -> snapshot.status \in {"Running", "PartialFailed"}
       [] OTHER -> snapshot.status = "Terminated"

LookUp(c) ==
  LET order == issuing[c].order
  IN /\ issuing[c].step = "loaded"
     /\ IF Recorded(order) # {}
          THEN \E o \in Recorded(order) : IF SameContent(o.order, order) THEN Accept(c, o.result) ELSE TurnAway(c)
          ELSE IF Valid(order, issuing[c].snapshot)
                 THEN Proceed(c, "carrying", issuing[c].snapshot) /\ UNCHANGED confirmed
                 ELSE TurnAway(c)
     /\ UNCHANGED <<attempts, instance, holder, orders, issued>>

(* Forbidden, cancelled, Argo CD does not stop an operation, or its state *)
(* is not the one that was entered.                                       *)
Fail(c) ==
  /\ issuing[c].step # "none"
  /\ TurnAway(c)
  /\ UNCHANGED <<attempts, instance, holder, orders, issued>>

-----------------------------------------------------------------------------
(* The transactions: each locks the row of the attempt of its snapshot *)

Carried(c) == issuing[c].snapshot.attempt

InTransaction(c, kind) == issuing[c].step = "carrying" /\ issuing[c].order.kind = kind

(* The lock version of the attempt, and a record with this key there is none. *)
Unchanged(c) == attempts[Carried(c)].lock = issuing[c].order.expected /\ Recorded(issuing[c].order) = {}

SameInstance(c) == instance = issuing[c].snapshot.instance

Record(c, attempt) ==
  /\ orders' = orders \cup {[order |-> issuing[c].order, attempt |-> Carried(c), result |-> attempt]}
  /\ Accept(c, attempt)
  /\ UNCHANGED issued

Undo(c) == TurnAway(c) /\ UNCHANGED <<attempts, instance, holder, orders, issued>>

RetriedNode(s, chosen) == IF s = "Succeeded" THEN s ELSE IF chosen /\ s = "Failed" THEN "Waiting" ELSE "Skipped"

(* An attempt more; the one before is fenced, its locks are handed over.   *)
CarryOutRetry(c) ==
  LET a == Carried(c)
      chosen == issuing[c].order.selected
      nodes == [x \in Applications |-> RetriedNode(attempts[a].nodes[x], x \in chosen)]
  IN /\ InTransaction(c, "Retry") /\ Latest < MaxAttempts
     /\ IF /\ Unchanged(c) /\ SameInstance(c)
           /\ a = Latest /\ Closed(attempts[Latest].status)
        THEN /\ attempts' = Append([attempts EXCEPT ![a].lock = @ + 1], Attempt(nodes))
             /\ instance' = instance + 1
             /\ holder' = IF holder = a THEN a + 1 ELSE holder
             /\ Record(c, a + 1)
        ELSE Undo(c)

CarryOutTerminate(c) ==
  LET a == Carried(c)
  IN /\ InTransaction(c, "Terminate")
     /\ IF /\ Unchanged(c) /\ SameInstance(c)
           /\ attempts[a].status \in {"Running", "PartialFailed"}
        THEN /\ attempts' = [attempts EXCEPT ![a] =
                  [status |-> "Terminated", lock |-> @.lock + 1,
                   nodes |-> [x \in Applications |-> IF @.nodes[x] = "Waiting" THEN "Terminated" ELSE @.nodes[x]]]]
             /\ instance' = instance + 1
             /\ Record(c, a)
             /\ UNCHANGED holder
        ELSE Undo(c)

(* As many rows have to go as there are nodes. *)
CarryOutUnlock(c) ==
  LET a == Carried(c)
  IN /\ InTransaction(c, "Unlock")
     /\ IF Unchanged(c) /\ attempts[a].status = "Terminated" /\ holder = a
        THEN /\ attempts' = [attempts EXCEPT ![a].lock = @ + 1]
             /\ holder' = 0
             /\ Record(c, a)
             /\ UNCHANGED instance
        ELSE Undo(c)

-----------------------------------------------------------------------------

ExecutionCommandsNext ==
  \/ StartAttempt \/ CompleteAttempt \/ LoseLocksToOthers
  \/ \E c \in Commanders :
       \/ \E kind \in {"Retry", "Terminate", "Unlock"}, key \in CommandKeys, selected \in SUBSET Applications :
            Issue(c, kind, key, selected)
       \/ LoadLatest(c) \/ LookUp(c) \/ Fail(c)
       \/ CarryOutRetry(c) \/ CarryOutTerminate(c) \/ CarryOutUnlock(c)

-----------------------------------------------------------------------------
(* Properties *)

On(a, kinds) == {o \in orders : o.attempt = a /\ o.order.kind \in kinds}

(* Commands are exact, however they race and whatever is sent again under  *)
(* a key: each attempt is ended by one command at most, a retry or a       *)
(* termination, and unlocked once, after its termination; each attempt but *)
(* the first is the work of one retry, of the one before it; who was told  *)
(* of an acceptance finds what was asked for on record, with the attempt   *)
(* it made; and locks, as long as they are the version's, are the latest's.*)
CommandsAreExact ==
  /\ \A a \in 1 .. Latest :
       /\ \A o, p \in On(a, {"Retry", "Terminate"}) : o = p
       /\ \A o, p \in On(a, {"Unlock"}) : o = p /\ On(a, {"Terminate"}) # {}
       /\ a > 1 => \E o \in On(a - 1, {"Retry"}) : o.result = a
  /\ \A t \in confirmed : \E o \in orders :
       /\ o.order.kind = t.order.kind /\ o.order.key = t.order.key /\ o.result = t.told
       /\ o.order.expected = t.order.expected /\ o.order.selected = t.order.selected
  /\ holder \in {0, Latest}

(* A command is carried out on the attempt its page showed.  It does not   *)
(* hold: every attempt counts its lock versions from one, and the attempt  *)
(* that a late request finds may have come to the number it expects.       *)
AttemptWasSeen == \A o \in orders : o.attempt = o.order.seen

(* What has failed can be tried again.  It does not hold: what one retry   *)
(* did not select is skipped, and what is skipped is never selected.       *)
RetryStaysPossible == Closed(attempts[Latest].status) => NodesAt(Latest, "Failed") # {}

=============================================================================
