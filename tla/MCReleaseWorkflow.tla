--------------------------- MODULE MCReleaseWorkflow ---------------------------
EXTENDS ReleaseWorkflow

Edge(from, to, trigger, permission, fact, values) ==
  [from |-> from, to |-> to, trigger |-> trigger, permission |-> permission,
   conditions |-> IF values = {} THEN {} ELSE {[fact |-> fact, values |-> values]}]

Policy(type, required, self, users, roles) ==
  [type |-> type, required |-> required, self |-> self, users |-> users, roles |-> roles]

TheMembers == [leads |-> {"ann"}, devs |-> {"bob", "eve"}]

Deploying ==
  {Edge("deploy", "done", "DeploymentResult", "run", "deployment.status", {"Succeeded"}),
   Edge("deploy", "failed", "DeploymentResult", "run", "deployment.status", {"Failed", "PartialFailed"}),
   Edge("failed", "deploy", "Manual", "retry", "deployment.status", {"Failed", "PartialFailed"}),
   Edge("failed", "done", "Manual", "terminate", "deployment.status", {"PartialFailed"}),
   Edge("deploy", "done", "Manual", "terminate", "deployment.status", {"Running"}),
   Edge("failed", "done", "Manual", "close", "", {})}

(* One review by two of three, which may be given up. *)
OneReview ==
  [initial |-> "review",
   type |-> [review |-> "Review", deploy |-> "Deployment", failed |-> "ManualAction", done |-> "Terminal"],
   policy |-> [review |-> Policy("MinimumApprovals", 2, FALSE, {"ann"}, {"devs"})],
   edges |-> Deploying \cup
     {Edge("review", "deploy", "ReviewSatisfied", "run", "review.status", {"Approved"}),
      Edge("review", "done", "Manual", "close", "review.status", {"Rejected", "Pending"})}]

(* Two reviews in turn; the second, and the deployment until it begins, may
   be called back. *)
TwoStages ==
  [initial |-> "first",
   type |-> [draft |-> "ManualAction", first |-> "Review", second |-> "Review",
             deploy |-> "Deployment", failed |-> "ManualAction", done |-> "Terminal"],
   policy |-> [first |-> Policy("RoleMinimumOne", 1, FALSE, {}, {"leads", "devs"}),
               second |-> Policy("AllApprovers", 1, TRUE, {"ann"}, {})],
   edges |-> Deploying \cup
     {Edge("draft", "first", "Manual", "submit", "", {}),
      Edge("first", "second", "ReviewSatisfied", "run", "review.status", {"Approved"}),
      Edge("second", "deploy", "ReviewSatisfied", "run", "review.status", {"Approved"}),
      Edge("second", "draft", "Manual", "submit", "", {}),
      Edge("deploy", "draft", "Manual", "submit", "", {})}]

(* A deployment without a review, whose partial failure leads nowhere. *)
Gap ==
  [initial |-> "deploy",
   type |-> [deploy |-> "Deployment", done |-> "Terminal"],
   policy |-> [state \in {} |-> {}],
   edges |-> {Edge("deploy", "done", "DeploymentResult", "run", "deployment.status", {"Succeeded", "Failed"})}]

AllDocuments == {OneReview, TwoStages}
GapDocument == {Gap}

AskedAssignments == {[users |-> {"bob"}, roles |-> {}]}
==============================================================================
