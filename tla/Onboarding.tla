------------------------------- MODULE Onboarding -------------------------------
(***************************************************************************)
(* How one Application of Argo CD comes under management and stays there:  *)
(* the worker discovers it, an administrator assigns it to a production    *)
(* environment, validates it and confirms, the command takes automated     *)
(* sync away in Argo CD and reads the result back, and later passes of the *)
(* worker look for drift.  A confirmation interrupted between the database *)
(* and Argo CD is taken up again by the recovery of the worker.            *)
(*                                                                         *)
(* A step is one transaction or one call of Argo CD.  Applications do not  *)
(* share state, so one stands for all.  Versions of rows are only compared *)
(* for equality with the row: instead of numbers the model keeps the set   *)
(* of those who know the present one, which every change of the row        *)
(* empties.  There is one worker, as the deployment requires.              *)
(***************************************************************************)
EXTENDS Integers, FiniteSets

CONSTANTS
  Contents,   \* what a source mapping, project and destination can be
  Nowhere,    \* no mapping: the Application is not assigned
  AtFirst,    \* what the Application may be when it is first seen
  Clients,    \* administrators with a page of their own
  Keys,       \* idempotency keys of confirmations
  Worker,     \* the recovery of the worker
  Budgets     \* bounds on a behaviour: its clients, their dry runs and
              \* confirmations, and the changes others make in Argo CD

(* What Argo CD shows of the Application. *)
Observation == [here : BOOLEAN, labelled : BOOLEAN, auto : BOOLEAN, content : Contents]

ASSUME OnboardingAssumption ==
  /\ Nowhere \notin Contents /\ Worker \notin Clients
  /\ AtFirst \subseteq Observation
  /\ Budgets \subseteq [clients : SUBSET Clients, requests : Nat, edits : Nat]

VARIABLES
  argo,       \* the Application in Argo CD
  candidate,  \* the row of the discovery
  knows,      \* who knows the version of the candidate row
  mapping,    \* the mapping of the catalog Application
  row,        \* the onboarding row
  current,    \* who knows the version of the onboarding row
  command,    \* command[k]: the idempotency record of a key
  task,       \* task[p]: what a client's request or the recovery is doing
  listed,     \* the list that a pass of the reconciliation has read
  left,       \* what is left of the budget
  noted       \* for the properties: see Note

onboardingVars == <<argo, candidate, knows, mapping, row, current, command, task, listed, left, noted>>

-----------------------------------------------------------------------------
(* Observations *)

Gone(o) == ~o.here

IsCandidate(o) == o.here /\ o.labelled

(* What validation finds nothing against. *)
Fits(o, m, present) == present /\ o.here /\ o.labelled /\ o.content = m

(* Mutant of Drifts: an Application that left the list is kept as it was. *)
DriftsIfListed(o, m) == ~Gone(o) /\ (~o.labelled \/ o.auto \/ o.content # m)

(* What drift detection finds something against. *)
Drifts(o, m) == Gone(o) \/ ~o.labelled \/ o.auto \/ o.content # m

Participants == Clients \cup {Worker}

NoTask == [step |-> "none", kind |-> "none", key |-> Nowhere, mapping |-> Nowhere, present |-> FALSE]

Step(p) == task[p].step

Missing == [here |-> FALSE, labelled |-> FALSE, auto |-> FALSE, content |-> CHOOSE x \in Contents : TRUE]

OnboardingInit ==
  /\ argo \in AtFirst
  /\ candidate = [status |-> "never", content |-> Missing.content]
  /\ knows = {}
  /\ mapping = Nowhere
  /\ row = [status |-> "none", failed |-> FALSE]
  /\ current = {}
  /\ command = [k \in Keys |-> "unused"]
  /\ task = [p \in Participants |-> NoTask]
  /\ listed = {}
  /\ left \in Budgets
  /\ noted = FALSE

Discovery == <<candidate, knows>>

Goto(p, step) == task' = [task EXCEPT ![p].step = step]

Finish(p) == task' = [task EXCEPT ![p] = NoTask]

Count(c) == c \in left.clients /\ left.requests > 0 /\ left' = [left EXCEPT !.requests = @ - 1]

(* As it was confirmed, without automated sync. *)
Proper(o) == Fits(o, mapping, TRUE) /\ ~o.auto

(* Not in the code: while a confirmation is applied, whether the           *)
(* Application was proper at any time since; once it is managed, whether   *)
(* it was not at any time since.                                           *)
Note(status, o) == IF status = "Managed" THEN ~Proper(o) ELSE Proper(o)

-----------------------------------------------------------------------------
(* Discovery *)

(* A pass reads the list of Applications... *)
ListApplications ==
  /\ listed = {}
  /\ listed' = {argo}
  /\ UNCHANGED <<argo, Discovery, mapping, row, current, command, task, left, noted>>

(* ...and records it in one transaction, which also replaces the snapshot  *)
(* of the tracked Application and looks for drift in it.                   *)
Reconcile ==
  \E o \in listed :
    /\ candidate' = IF IsCandidate(o) THEN [status |-> "present", content |-> o.content]
                    ELSE IF candidate.status = "present" THEN [candidate EXCEPT !.status = "missing"]
                    ELSE candidate
    /\ knows' = IF IsCandidate(o) \/ candidate.status = "present" THEN {} ELSE knows
    /\ IF row.status = "Managed" /\ Drifts(o, mapping)
       THEN row' = [row EXCEPT !.status = "ConfigurationDrift"] /\ current' = {}
       ELSE UNCHANGED <<row, current>>
    /\ listed' = {}
    /\ UNCHANGED <<argo, mapping, command, task, left, noted>>

(* Reading or writing fails, or the worker restarts. *)
AbandonPass ==
  /\ listed # {}
  /\ listed' = {}
  /\ UNCHANGED <<argo, Discovery, mapping, row, current, command, task, left, noted>>

(* An administrator's page shows the candidate. *)
OpenQueue(c) ==
  /\ c \in left.clients /\ mapping = Nowhere /\ candidate.status = "present" /\ c \notin knows
  /\ knows' = knows \cup {c}
  /\ UNCHANGED <<argo, candidate, mapping, row, current, command, task, listed, left, noted>>

(* The mapping is taken from the candidate row that the page showed. *)
Assign(c) ==
  /\ c \in knows /\ mapping = Nowhere /\ candidate.status = "present"
  /\ mapping' = candidate.content /\ knows' = {}
  /\ UNCHANGED <<argo, candidate, row, current, command, task, listed, left, noted>>

-----------------------------------------------------------------------------
(* Validation and confirmation *)

OpenPage(c) ==
  /\ c \in left.clients /\ row.status # "none" /\ Step(c) = "none" /\ c \notin current
  /\ current' = current \cup {c}
  /\ UNCHANGED <<argo, Discovery, mapping, row, command, task, listed, left, noted>>

(* The target as a request or the recovery loads it. *)
Loaded(p, kind, key, step) ==
  task' = [task EXCEPT ![p] = [step |-> step, kind |-> kind, key |-> key, mapping |-> mapping,
                               present |-> candidate.status = "present"]]

DryRun(c) ==
  /\ Count(c)
  /\ Step(c) = "none" /\ mapping # Nowhere
  /\ Loaded(c, "dry run", Nowhere, "validating")
  /\ UNCHANGED <<argo, Discovery, mapping, row, current, command, listed, noted>>

Confirm(c, k) ==
  /\ Count(c)
  /\ Step(c) = "none" /\ mapping # Nowhere
  /\ Loaded(c, "confirm", k, "validating")
  /\ UNCHANGED <<argo, Discovery, mapping, row, current, command, listed, noted>>

FitsTask(p) == Fits(argo, task[p].mapping, task[p].present)

(* A read of the Application and of the permission to change it; either    *)
(* may fail, which is an issue like any other.                             *)
Validate(c) ==
  /\ Step(c) = "validating"
  /\ \/ FitsTask(c) /\ Goto(c, IF task[c].kind = "confirm" THEN "beginning" ELSE "passing")
     \/ Goto(c, "rejecting")
  /\ UNCHANGED <<argo, Discovery, mapping, row, current, command, listed, left, noted>>

(* Mutant of MaySave: a validation overwrites a confirmation under way. *)
MaySaveUnlessManaged == row.status # "Managed"

MaySave == row.status \notin {"Applying", "Managed"}

(* The result of a validation; a confirmation that finds issues saves them too. *)
SaveValidation(c) ==
  /\ Step(c) \in {"passing", "rejecting"}
  /\ IF MaySave
     THEN /\ row' = [status |-> IF Step(c) = "passing" THEN "AwaitingConfirmation" ELSE "ValidationFailed",
                     failed |-> FALSE]
          /\ current' = IF task[c].kind = "confirm" THEN {} ELSE {c}
     ELSE UNCHANGED <<row, current>>
  /\ Finish(c)
  /\ UNCHANGED <<argo, Discovery, mapping, command, listed, left, noted>>

(* The key is reserved and the intent recorded in one transaction; a key   *)
(* that was used before starts nothing.                                    *)
BeginApplying(c) ==
  /\ Step(c) = "beginning"
  /\ IF command[task[c].key] = "unused" /\ row.status = "AwaitingConfirmation" /\ c \in current
     THEN /\ command' = [command EXCEPT ![task[c].key] = "Accepted"]
          /\ row' = [status |-> "Applying", failed |-> FALSE]
          /\ current' = {c}
          /\ noted' = Note("Applying", argo)
          /\ Goto(c, "checking")
     ELSE Finish(c) /\ UNCHANGED <<command, row, current, noted>>
  /\ UNCHANGED <<argo, Discovery, mapping, listed, left>>

-----------------------------------------------------------------------------
(* Applying, by the request or by the recovery *)

(* Mutant of Recoverable: an operation that failed once is given up. *)
RecoverableOnce == row.status = "Applying" /\ ~row.failed

Recoverable == row.status = "Applying"

ListApplying ==
  /\ Step(Worker) = "none" /\ Recoverable
  /\ Loaded(Worker, "recovery", Nowhere, "checking")
  /\ current' = current \cup {Worker}
  /\ UNCHANGED <<argo, Discovery, mapping, row, command, listed, left, noted>>

Check(p) ==
  /\ Step(p) = "checking"
  /\ FitsTask(p)
  /\ Goto(p, IF argo.auto THEN "disabling" ELSE "reading")
  /\ UNCHANGED <<argo, Discovery, mapping, row, current, command, listed, left, noted>>

DisableAutomatedSync(p) ==
  /\ Step(p) = "disabling" /\ argo.here
  /\ argo' = [argo EXCEPT !.auto = FALSE]
  /\ noted' = (noted \/ Note(row.status, argo'))
  /\ Goto(p, "reading")
  /\ UNCHANGED <<Discovery, mapping, row, current, command, listed, left>>

(* Mutant of ReadBack: the patch is believed. *)
ReadNothingBack(p) ==
  /\ Step(p) = "reading"
  /\ Goto(p, "marking")
  /\ UNCHANGED <<argo, Discovery, mapping, row, current, command, listed, left, noted>>

ReadBack(p) ==
  /\ Step(p) = "reading"
  /\ FitsTask(p) /\ ~argo.auto
  /\ Goto(p, "marking")
  /\ UNCHANGED <<argo, Discovery, mapping, row, current, command, listed, left, noted>>

(* What was found is not as confirmed, or a call failed, though the        *)
(* automated sync may be off all the same.                                 *)
Stumble(p) ==
  /\ Step(p) \in {"checking", "disabling", "reading"}
  /\ \/ UNCHANGED <<argo, noted>>
     \/ /\ Step(p) = "disabling" /\ argo.here
        /\ argo' = [argo EXCEPT !.auto = FALSE]
        /\ noted' = (noted \/ Note(row.status, argo'))
  /\ Goto(p, "failing")
  /\ UNCHANGED <<Discovery, mapping, row, current, command, listed, left>>

Applies(p) == row.status = "Applying" /\ p \in current

(* Every accepted confirmation of the Application is completed with it. *)
MarkManaged(p) ==
  /\ Step(p) = "marking"
  /\ IF Applies(p)
     THEN /\ row' = [status |-> "Managed", failed |-> FALSE]
          /\ current' = {p} \ {Worker}
          /\ command' = [k \in Keys |-> IF command[k] = "Accepted" THEN "Completed" ELSE command[k]]
          /\ noted' = Note("Managed", argo)
     ELSE UNCHANGED <<row, current, command, noted>>
  /\ Finish(p)
  /\ UNCHANGED <<argo, Discovery, mapping, listed, left>>

RecordOperationError(p) ==
  /\ Step(p) = "failing"
  /\ IF Applies(p)
     THEN row' = [row EXCEPT !.failed = TRUE] /\ current' = {}
     ELSE UNCHANGED <<row, current>>
  /\ Finish(p)
  /\ UNCHANGED <<argo, Discovery, mapping, command, listed, left, noted>>

(* The process dies, the connection is lost or a write fails. *)
Interrupt(p) ==
  /\ Step(p) # "none"
  /\ Finish(p)
  /\ UNCHANGED <<argo, Discovery, mapping, row, current, command, listed, left, noted>>

(* Others change the Application, delete it or create it again. *)
Edit ==
  /\ left.edits > 0 /\ left' = [left EXCEPT !.edits = @ - 1]
  /\ argo' \in {o \in Observation : o.here \/ o = Missing} \ {argo}
  /\ noted' = (noted \/ Note(row.status, argo'))
  /\ UNCHANGED <<Discovery, mapping, row, current, command, task, listed>>

-----------------------------------------------------------------------------

Recovers ==
  \/ Check(Worker) \/ DisableAutomatedSync(Worker) \/ ReadBack(Worker) \/ MarkManaged(Worker)
  \/ Stumble(Worker) \/ RecordOperationError(Worker) \/ Interrupt(Worker)

OnboardingNext ==
  \/ ListApplications \/ Reconcile \/ AbandonPass \/ ListApplying \/ Recovers \/ Edit
  \/ \E c \in Clients :
       \/ OpenQueue(c) \/ Assign(c) \/ OpenPage(c) \/ DryRun(c) \/ Validate(c) \/ SaveValidation(c)
       \/ BeginApplying(c) \/ Check(c) \/ DisableAutomatedSync(c) \/ ReadBack(c) \/ Stumble(c)
       \/ MarkManaged(c) \/ RecordOperationError(c) \/ Interrupt(c)
       \/ \E k \in Keys : Confirm(c, k)

OnboardingSpec == OnboardingInit /\ [][OnboardingNext]_onboardingVars

(* The worker's loops go on for ever, and neither Argo CD nor the database *)
(* fails every time.                                                       *)
Fairness ==
  /\ WF_onboardingVars(ListApplications) /\ SF_onboardingVars(Reconcile)
  /\ WF_onboardingVars(ListApplying) /\ WF_onboardingVars(Recovers)
  /\ SF_onboardingVars(Check(Worker)) /\ SF_onboardingVars(DisableAutomatedSync(Worker))
  /\ SF_onboardingVars(ReadBack(Worker)) /\ SF_onboardingVars(MarkManaged(Worker))

LiveSpec == OnboardingSpec /\ Fairness

-----------------------------------------------------------------------------
(* Properties *)

(* The two tables agree: exactly while a confirmation is applied there is  *)
(* one accepted command, whose caller polls for its result.                *)
AcceptedIsApplying ==
  LET Accepted == {k \in Keys : command[k] = "Accepted"}
  IN IF row.status = "Applying" THEN Cardinality(Accepted) = 1 ELSE Accepted = {}

(* Managed is only said of an Application that was as confirmed, without   *)
(* automated sync, at some time after its confirmation: whoever finishes   *)
(* it, after however many interruptions, and whatever others edit.         *)
ManagedWasProper ==
  [][row.status # "Managed" /\ row'.status = "Managed" => noted]_onboardingVars

(* A managed Application that has drifted and stays so is found. *)
DriftIsFound == ~<>[](row.status = "Managed" /\ ~Proper(argo))

(* A confirmed Application that comes to be as it was confirmed, apart     *)
(* from automated sync, becomes managed, though requests and passes die.   *)
ConfirmationIsFinished ==
  []<>~Fits(argo, mapping, TRUE) \/ []<>(row.status # "Applying")

(* The documented way into drift: the Application has drifted since it was *)
(* managed.  It does not hold: a pass that listed the Applications before  *)
(* automated sync was taken away records its list after the confirmation.  *)
DriftIsReal ==
  [][row.status = "Managed" /\ row'.status = "ConfigurationDrift" => noted]_onboardingVars

=============================================================================
