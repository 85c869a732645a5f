CONSTANTS
  p1 = p1
  p2 = p2
  p3 = p3
  g1 = g1
  g2 = g2
  g3 = g3
  Providers <- MCProviders
  Rank <- MCRank
  Pages <- MCPages
  DomainOf <- MCDomainOf
  Answers <- MCAnswers
  Filters = {"site"}
  FirstRound = 2
  CallLimits = {1, 3}
  GlobalConcurrency = 1
  MaxRetries = 2
  Timeout = 2
  Deadline = 4
  MinRemaining = 2
  RetryAfter = {1}
  MaxJitter = 0
  MinUseful = 2
  TargetUseful = 2
  MinDomains = 1
  TargetDomains = 2
  DiversityFloor = 2
  Horizon = 5
SPECIFICATION FairSpec
INVARIANTS
  TypeOK
  EveryAttemptAccounted
  TasksEndByDeadline
  OneCoverageException
  SuccessIsWhole
PROPERTIES
  Terminates
  ImplementsDispatch
