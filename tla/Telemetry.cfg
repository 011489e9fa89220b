SPECIFICATION PartsSpec
CONSTANTS
  n1 = n1
  LiveNodes = {n1}
  LiveAgents = {n1}
  LiveViews = {v1}
  WholeAgents = {n1}
  SoonDegraded = 1
  SoonOffline = 1
  Nodes = {n1, n2}
  Agents = {n1, n2}
  Views = {}
  Online = 2
  Degraded = 3
  Skew = 0
  InOrder = FALSE
  Failures = TRUE
  None = None
  Interval = 1
  MaxAge = 3
  Prompt = TRUE
INVARIANTS LiveIsTrue StatementsAgree SteadyAndHonest
PROPERTIES ShutdownGoesOffline
