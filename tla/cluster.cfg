CONSTANTS
  Caller = {loop, c1}
  Topic = {u1}
  NoTopic = NoTopic
  EventBuffer = 1
  MaxRetries = 1
  MaxNews = 1
  MaxArrivals = 2
  User = {u1, u2}
  NoUser = NoUser
  Loop = loop
  Plan <- MCPlan
  UpdateBuffer = 0
  u1 = u1  u2 = u2  c1 = c1
SPECIFICATION ClusterSpec
INVARIANTS ClusterTypeOK ReturnedIsServed UpdatesInOrder OneAttemptAtATime
PROPERTY CallsReturn
CHECK_DEADLOCK FALSE
