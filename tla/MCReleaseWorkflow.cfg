CONSTANTS
  LastVersion = 2
  Users = {"ann", "bob", "eve"}
  Creator = "eve"
  Roles = {"leads", "devs"}
  Members <- TheMembers
  Documents <- AllDocuments
  Assignments <- AskedAssignments
  Clients = {"c1", "c2"}
  Worker = "worker"
  MaxLock = 5
SPECIFICATION FairSpec
INVARIANTS DecisionsDecide OpenReviewIsCurrent
PROPERTIES JobsAreApproved ApprovedMovesOn
\* a request whose workflow has ended stops
CHECK_DEADLOCK FALSE
