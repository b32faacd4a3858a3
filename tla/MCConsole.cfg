CONSTANTS
  Nodes = {1, 2, 3, 4}
  Graphs <- EveryGraph
  Authors = {"ann", "bob"}
  MaxVersions = 3
  MaxBindings = 2
  Operators = {"ann", "bob"}
  Organizations = {"main", "other"}
  DefaultOrganization = "main"
  Projects = {"p1", "p2"}
  MaxRevision = 3
  Planners = {"ann", "bob"}
  Keys = {"k1", "k2"}
  Documents = {"d1", "d2"}
  MaxPolicies = 2
  WeekMinutes = 3
  SearchLimit = 8
  Questions <- EveryQuestion
  Commanders = {"ann", "bob"}
  CommandKeys = {"k1", "k2"}
  Applications = {1, 2}
  MaxAttempts = 3
  MaxOrders = 2
  Users = {"ann"}
  Events = {1, 2, 3}
  Kinds <- TheKinds
  AnswerRows = 1
  Retention = 2
  MaxTime = 3
  Workloads <- TheWorkloads
  Rows = {1, 2, 3}
  Groups = {"a", "b"}
  Filters = {{"a"}, {"a", "b"}}
  PageRows = 1
  MaxPlace = 2
  Scopes <- TheScopes
  EventScopes <- TheEventScopes
  Unresolved = Unresolved
  GrantSets <- TheGrantSets
  MaxChanges = 2
  Resources = {1, 2, 3}
  Pods = {1}
  Secrets = {2}
  Trees <- TheTrees
  NoLabels = {0}
  MaxNodes = 2
  MaxEdges = 1
SPECIFICATION ConsoleSpec
INVARIANTS VerdictIsRight NoOrphans AcceptedWasStored FirstAllowedMinute CommandsAreExact HeardOnce PagesShowAll DisclosedWasAllowed AnswersAreHonest
PROPERTIES LifecycleGoesForward EventsReachTheirRecipients
\* the parts end, or their bounds stop them
CHECK_DEADLOCK FALSE
