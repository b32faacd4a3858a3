CONSTANTS
  LastVersion = 2
  Users = {"ann", "bob", "eve"}
  Creator = "eve"
  Roles = {"leads", "devs"}
  Members <- TheMembers
  Documents <- GapDocument
  Assignments <- AskedAssignments
  Clients = {"c1"}
  Worker = "worker"
  MaxLock = 4
SPECIFICATION FairSpec
PROPERTIES ResultIsRecorded
\* a request whose versions have ended stops
CHECK_DEADLOCK FALSE
