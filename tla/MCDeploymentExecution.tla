------------------------- MODULE MCDeploymentExecution -------------------------
EXTENDS DeploymentExecution, TLC

ChainPlan == [order |-> [n \in Nodes |-> 0], maxParallel |-> 0,
              edges |-> {[from |-> 1, to |-> 2, condition |-> "UpstreamSucceeded"]}]

FlatPlan == [ChainPlan EXCEPT !.edges = {}]

EitherPlan == {ChainPlan, FlatPlan}

OnlyChain == {ChainPlan}

OnlyFlat == {FlatPlan}

(* A single attempt, on two Applications. *)
AttemptsOfBatch == {"a1"}
VersionOfBatch == [x \in AttemptsOfBatch |-> "a"]
RetryOfBatch == [x \in AttemptsOfBatch |-> "none"]
TargetsOfBatch == [x \in AttemptsOfBatch |-> {1, 2}]

(* A single attempt, on one Application. *)
AttemptsOfSimple == AttemptsOfBatch
VersionOfSimple == VersionOfBatch
RetryOfSimple == RetryOfBatch
TargetsOfSimple == [x \in AttemptsOfBatch |-> {1}]

(* Two versions that have Application 1 in common. *)
AttemptsOfTwo == {"a1", "a2", "b1"}
VersionOfTwo == [a1 |-> "a", a2 |-> "a", b1 |-> "b"]
RetryOfTwo == [a1 |-> "a2", a2 |-> "none", b1 |-> "none"]
TargetsOfTwo == [a1 |-> {1, 2}, a2 |-> {1, 2}, b1 |-> {1}]

==============================================================================
