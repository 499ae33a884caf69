SPECIFICATION FairSpec
CONSTANTS
  r1 = r1
  r2 = r2
  r3 = r3
  Requests = {r1, r2, r3}
  Bodies = {FALSE}
  Deployments <- MCDeployments
  MaxCrashes = 1
  MaxConns = 7
  MaxSid = 20
  None = None
INVARIANTS UniqueSessions OneSessionPerRing VerdictIsOwn HealthyEngineAnswers
PROPERTIES EverySessionEnds
