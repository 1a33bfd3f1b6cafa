SPECIFICATION Spec
CONSTANTS
  a = a  b = b  c = c  job = job  n1 = n1  n2 = n2  ep = ep  other = other
  p1 = p1  p2 = p2  p3 = p3  r1 = r1  r2 = r2  r3 = r3  g1 = g1
  NoNode = NoNode  NoEndpoint = NoEndpoint  NoTask = NoTask  NoId = NoId
  NoRequest = NoRequest  Unlocked = Unlocked  Monitor = Monitor
  Endpoint = {ep}
  Registrar = {g1}
  MaxIndex = 8
  MaxRetries = 3
  Job = {job}
  Node = {n1}
  Announcements <- Announce1
  Request = {r1, r2, r3}
  Thread = {p1, p2, p3}
  Task = {a, b, c}
  Needs <- JoinNeeds
  EndpointOf <- JoinEndpoints
  Policy <- JoinAlways
  ValidTimeout = {a, b, c}
  JobTasks <- JoinJob
  NeedsOutputs = {}
  Executions <- ReportsTwice
  MaxSubmits = 1
  MaxAnnounces = 2
  MaxSendErrors = 1
  MaxHangups = 0
  MaxDispatches = 2
  Monitored = FALSE
SYMMETRY Symmetric
INVARIANTS DomainManagerTypeOK InDegreesMatch SentOncePerCause WaitingTaskHasRecruiter
PROPERTIES DependencyOrder
