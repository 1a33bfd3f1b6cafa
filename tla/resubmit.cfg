SPECIFICATION Spec
CONSTANTS
  a = a  b = b  c = c  job = job  n1 = n1  n2 = n2  ep = ep  other = other
  p1 = p1  p2 = p2  p3 = p3  r1 = r1  r2 = r2  r3 = r3  g1 = g1
  NoNode = NoNode  NoEndpoint = NoEndpoint  NoTask = NoTask  NoId = NoId
  NoRequest = NoRequest  Unlocked = Unlocked  Monitor = Monitor
  Endpoint = {ep}
  Registrar = {g1}
  MaxIndex = 8
  MaxRetries = 3
  Job = {job}
  Node = {n1}
  Announcements <- Announce1
  Request = {r1, r2}
  Thread = {p1, p2, p3}
  Task = {a, b}
  Needs <- ChainNeeds
  EndpointOf <- ChainEndpoints
  Policy <- ChainAlways
  ValidTimeout = {a, b}
  JobTasks <- ChainJob
  NeedsOutputs = {b}
  Executions <- MayFail
  MaxSubmits = 2
  MaxAnnounces = 1
  MaxSendErrors = 0
  MaxHangups = 1
  MaxDispatches = 2
  Monitored = FALSE
SYMMETRY Symmetric
INVARIANTS ReadyTaskTracked
