SPECIFICATION NodesFairSpec
CONSTANTS
  n1 = n1  n2 = n2  refine = refine  store = store
  r1 = r1  r2 = r2  r3 = r3  g1 = g1  g2 = g2
  NoNode = NoNode  NoEndpoint = NoEndpoint
  Node <- MCNode
  Endpoint <- OneEndpoint
  Announcements <- OneEndpointAnnouncements
  Registrar = {g1, g2}
  Request = {r1, r2, r3}
  MaxIndex = 1
PROPERTIES WaitersServed
