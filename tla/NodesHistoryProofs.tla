------------------------- MODULE NodesHistoryProofs -------------------------
(***************************************************************************)
(* Theorems about what the registry does over time: turns, and the fate of *)
(* the capabilities of a first announcement.                               *)
(***************************************************************************)
EXTENDS NodesHistory, NodesManagementProofs

HistoryTypeOK ==
  /\ picked \in [Endpoint -> Seq(Node)]
  /\ first \in [Node -> SUBSET Endpoint]

\* The history variables watch the registry and change nothing in it.
LEMMA HistoryStep == [HNext]_hvars => [NodesNext]_nodesVars
BY DEF HNext, hvars, NodesNext, nodesVars, HRegisterNode, HAddKey, HFindNode

-----------------------------------------------------------------------------
(* Turns                                                                   *)

\* Numbers below n that are apart by less than n have different remainders.
LEMMA SameRemainder ==
  ASSUME NEW a \in Nat, NEW b \in Nat, NEW n \in Nat \ {0}, a < b,
         a % n = b % n
  PROVE  b - a >= n
<1>1. /\ a = n * (a \div n) + (a % n)
      /\ b = n * (b \div n) + (b % n)
      /\ a \div n \in Int /\ b \div n \in Int
  OBVIOUS
<1> DEFINE p == a \div n
           q == b \div n
<1>2. n * q - n * p = b - a /\ p \in Int /\ q \in Int
  BY <1>1
<1> HIDE DEF p, q
<1>3. n * (q - p) = b - a
  BY <1>2
<1>4. q - p >= 1
  <2>1. ASSUME q - p <= 0 PROVE FALSE
    <3>1. n * (q - p) <= 0
      BY <2>1, <1>2
    <3> QED BY <3>1, <1>3
  <2> QED BY <2>1, <1>2
<1>5. n * (q - p) >= n
  BY <1>4, <1>2
<1> QED BY <1>3, <1>5

\* The i-th of the picks since the rotation of e grew was made with the
\* cursor at this place: every pick has moved it by one.
PickedAt(e, i) == node_indices[e] - Len(picked[e]) + i - 1

PicksInTurn ==
  \A e \in Endpoint :
    /\ Len(picked[e]) <= node_indices[e]
    /\ \A i \in DOMAIN picked[e] :
         /\ capabilities[e] # <<>>
         /\ picked[e][i] = capabilities[e][(PickedAt(e, i) % Len(capabilities[e])) + 1]

\* Two turns of one node are at one place of the rotation, since nobody is in
\* it twice, so the cursor went all the way round between them.
LEMMA TurnsAreBalanced ==
  NodesTypeOK /\ HistoryTypeOK /\ RotationSound /\ PicksInTurn => RoundRobinFair
<1> SUFFICES ASSUME NodesTypeOK, HistoryTypeOK, RotationSound, PicksInTurn,
                    NEW e \in Endpoint,
                    NEW i \in DOMAIN picked[e], NEW j \in DOMAIN picked[e],
                    i < j, picked[e][i] = picked[e][j]
             PROVE  j - i >= Len(capabilities[e])
  BY DEF RoundRobinFair
<1> DEFINE c == capabilities[e]
           n == Len(c)
           a == PickedAt(e, i)
           b == PickedAt(e, j)
<1>1. /\ c \in Seq(Node) /\ c # <<>> /\ IsInjective(c)
      /\ c[(a % n) + 1] = c[(b % n) + 1]
  BY DEF NodesTypeOK, RotationSound, PicksInTurn
<1>2. n \in Nat \ {0} /\ DOMAIN c = 1 .. n
  BY <1>1, EmptySeq, LenProperties
<1>3. /\ i \in Nat \ {0} /\ j \in Nat \ {0}
      /\ Len(picked[e]) \in Nat /\ node_indices[e] \in Nat
      /\ Len(picked[e]) <= node_indices[e]
  BY LenProperties DEF NodesTypeOK, HistoryTypeOK, PicksInTurn
<1>4. a \in Nat /\ b \in Nat /\ a < b /\ b - a = j - i
  BY <1>3 DEF PickedAt
<1> HIDE DEF n, a, b
<1>5. (a % n) + 1 \in DOMAIN c /\ (b % n) + 1 \in DOMAIN c /\ a % n \in Nat /\ b % n \in Nat
  BY <1>2, <1>4
<1>6. a % n = b % n
  BY <1>1, <1>5 DEF IsInjective
<1>7. b - a >= n
  BY <1>2, <1>4, <1>6, SameRemainder
<1> QED BY <1>4, <1>7 DEF n

\* find_key takes the node at the cursor and moves it by one.
LEMMA FindNodeInTurn ==
  ASSUME NodesTypeOK, HistoryTypeOK, RotationSound, PicksInTurn,
         NEW e \in Endpoint, NEW n \in Node \cup {NoNode}, HFindNode(e, n)
  PROVE  HistoryTypeOK' /\ PicksInTurn'
<1>1. n = FoundNode(e) /\ capabilities' = capabilities /\ first' = first
  BY DEF HFindNode, FindNode
<1>2. CASE n = NoNode
  BY <1>1, <1>2 DEF HFindNode, FindNode, HistoryTypeOK, PicksInTurn, PickedAt
<1>3. CASE n # NoNode
  <2> DEFINE c == capabilities[e]
             l == Len(picked[e])
  <2>1. /\ c # <<>> /\ n \in Node
        /\ n = c[(node_indices[e] % Len(c)) + 1]
    BY <1>1, <1>3 DEF FoundNode
  <2>2. /\ picked' = [picked EXCEPT ![e] = Append(@, n)]
        /\ node_indices' = [node_indices EXCEPT ![e] = @ + 1]
    BY <1>3 DEF HFindNode, FindNode
  <2>3. /\ l \in Nat /\ node_indices[e] \in Nat /\ picked[e] \in Seq(Node)
        /\ picked'[e] \in Seq(Node) /\ Len(picked'[e]) = l + 1
        /\ DOMAIN picked'[e] = 1 .. (l + 1) /\ DOMAIN picked[e] = 1 .. l
        /\ picked'[e][l + 1] = n
        /\ \A i \in 1 .. l : picked'[e][i] = picked[e][i]
        /\ node_indices'[e] = node_indices[e] + 1
    BY <2>1, <2>2, AppendProperties, LenProperties DEF NodesTypeOK, HistoryTypeOK
  <2>4. \A f \in Endpoint \ {e} :
          picked'[f] = picked[f] /\ node_indices'[f] = node_indices[f]
    BY <2>2 DEF NodesTypeOK, HistoryTypeOK
  <2>5. ASSUME NEW i \in DOMAIN picked'[e]
        PROVE  picked'[e][i] = c[(PickedAt(e, i)' % Len(c)) + 1]
    <3>1. CASE i = l + 1
      <4>1. PickedAt(e, i)' = (node_indices[e] + 1) - (l + 1) + (l + 1) - 1
        BY <2>3, <3>1 DEF PickedAt
      <4>2. \A x, y \in Nat : (x + 1) - (y + 1) + (y + 1) - 1 = x
        OBVIOUS
      <4>3. PickedAt(e, i)' = node_indices[e]
        BY <2>3, <4>1, <4>2
      <4> QED BY <2>1, <2>3, <3>1, <4>3
    <3>2. CASE i \in 1 .. l
      <4>1. PickedAt(e, i)' = PickedAt(e, i)
        BY <2>3, <3>2 DEF PickedAt
      <4> QED BY <2>3, <3>2, <4>1 DEF PicksInTurn
    <3> QED BY <2>3, <3>1, <3>2
  <2>6. HistoryTypeOK'
    BY <1>1, <2>2, <2>3 DEF HistoryTypeOK
  <2>7. PicksInTurn'
    <3>1. ASSUME NEW f \in Endpoint
          PROVE  /\ Len(picked'[f]) <= node_indices'[f]
                 /\ \A i \in DOMAIN picked'[f] :
                      /\ capabilities'[f] # <<>>
                      /\ picked'[f][i] =
                           capabilities'[f][(PickedAt(f, i)' % Len(capabilities'[f])) + 1]
      <4>1. CASE f = e
        <5>1. \A i \in DOMAIN picked'[e] :
                picked'[e][i] = c[(PickedAt(e, i)' % Len(c)) + 1]
          BY <2>5
        <5>2. Len(picked'[e]) <= node_indices'[e]
          BY <2>3 DEF PicksInTurn
        <5> QED BY <1>1, <2>1, <4>1, <5>1, <5>2
      <4>2. CASE f # e
        BY <1>1, <2>4, <4>2 DEF PicksInTurn, PickedAt
      <4> QED BY <4>1, <4>2
    <3> QED BY <3>1 DEF PicksInTurn
  <2> QED BY <2>6, <2>7
<1> QED BY <1>2, <1>3

\* A rotation that grows starts its turns anew.
LEMMA AddKeyInTurn ==
  ASSUME NodesTypeOK, HistoryTypeOK, FirstRegistrationOwns, PicksInTurn,
         NEW g \in Registrar, HAddKey(g)
  PROVE  HistoryTypeOK' /\ PicksInTurn'
<1> DEFINE e == CurrentCapability(g)
<1>1. e \in Endpoint
  BY NextCapabilityCall DEF HAddKey, AddKey
<1>2. /\ node_indices' = node_indices /\ first' = first
      /\ picked' = [picked EXCEPT ![e] = <<>>]
      /\ \A f \in Endpoint \ {e} : capabilities'[f] = capabilities[f]
  BY DEF HAddKey, AddKey, NodesTypeOK
<1> HIDE DEF e
<1>3. HistoryTypeOK'
  BY <1>1, <1>2 DEF HistoryTypeOK
<1>4. ASSUME NEW f \in Endpoint
      PROVE  /\ Len(picked'[f]) <= node_indices'[f]
             /\ \A i \in DOMAIN picked'[f] :
                  /\ capabilities'[f] # <<>>
                  /\ picked'[f][i] =
                       capabilities'[f][(PickedAt(f, i)' % Len(capabilities'[f])) + 1]
  <2>1. CASE f = e
    <3>1. picked'[f] = <<>> /\ node_indices'[f] \in Nat
      BY <1>2, <2>1 DEF HistoryTypeOK, NodesTypeOK
    <3> QED BY <3>1
  <2>2. CASE f # e
    BY <1>2, <2>2 DEF PicksInTurn, PickedAt, HistoryTypeOK
  <2> QED BY <2>1, <2>2
<1> QED BY <1>3, <1>4 DEF PicksInTurn

\* Every other step leaves the turns as they are.
LEMMA OtherStepInTurn ==
  ASSUME HistoryTypeOK, PicksInTurn,
         UNCHANGED <<capabilities, node_indices, picked>>, HistoryTypeOK'
  PROVE  PicksInTurn'
BY DEF PicksInTurn, PickedAt

-----------------------------------------------------------------------------
(* The fate of a first announcement                                        *)

InRotation(n, e) == n \in ToSet(capabilities[e])
Spent(n, e) == \E r \in Request : channel[r].node = n /\ channel[r].endpoint = e
InProgress(n, e) ==
  \E g \in Registrar : /\ registering[g].node = n
                       /\ ~registering[g].exists
                       /\ e \in ToSet(registering[g].left)

Accounted(n, e) == InRotation(n, e) \/ Spent(n, e) \/ InProgress(n, e)

FirstIsRegistered == \A n \in Node : first[n] # {} => n \in nodes

\* The node that a request was answered with stays in its channel: only an
\* unused channel is opened, only one without an answer gets a node.
LEMMA SpentStays ==
  ASSUME NodesTypeOK, QueueInv, [HNext]_hvars,
         NEW n \in Node, NEW e \in Endpoint, Spent(n, e)
  PROVE  Spent(n, e)'
<1>1. PICK r \in Request : channel[r].node = n /\ channel[r].endpoint = e
  BY DEF Spent
<1>2. channel[r].node # NoNode /\ channel[r].state \notin {"unused", "open"}
  BY <1>1, NoNodeAssumption DEF QueueInv, ChannelsSound
<1>3. channel'[r].node = n /\ channel'[r].endpoint = e
  <2>1. ASSUME NEW g \in Registrar, ServeRequest(g)
        PROVE  channel'[r] = channel[r]
    <3> DEFINE q == Head(requests[CurrentCapability(g)])
    <3>1. channel[q].state = "open" /\ q # r
      BY <1>2, <2>1 DEF ServeRequest, HasLiveRequest
    <3>2. \A v : channel' = [channel EXCEPT ![q] = v] => channel'[r] = channel[r]
      BY <3>1 DEF NodesTypeOK
    <3> QED BY <2>1, <3>2 DEF ServeRequest
  <2>2. ASSUME NEW s \in Request, NEW f \in Endpoint, RequestNode(s, f)
        PROVE  channel'[r] = channel[r]
    <3>1. s # r
      BY <1>2, <2>2 DEF RequestNode
    <3> QED BY <2>2, <3>1 DEF RequestNode, NodesTypeOK
  <2>3. ASSUME NEW s \in Request, TakeNode(s) \/ DropReceivers({s})
        PROVE  channel'[r].node = channel[r].node /\ channel'[r].endpoint = channel[r].endpoint
    <3>1. channel[r] \in Channel
      BY DEF NodesTypeOK
    <3>2. \/ channel'[r] = channel[r]
          \/ channel'[r] = [channel[r] EXCEPT !.state = "taken"]
          \/ channel'[r] = [channel[r] EXCEPT !.state = "closed"]
      BY <2>3 DEF TakeNode, DropReceivers, NodesTypeOK
    <3> QED BY <3>1, <3>2 DEF Channel
  <2>4. CASE channel' = channel
    BY <1>1, <2>4
  <2> QED
    BY <1>1, <2>1, <2>2, <2>3, <2>4 DEF HNext, HRegisterNode, RegisterNode,
       HAddKey, AddKey, HFindNode, FindNode, NoRequestor, hvars
<1> QED BY <1>3 DEF Spent

\* Nothing leaves a rotation.
LEMMA RotationStays ==
  ASSUME NodesTypeOK, FirstRegistrationOwns, [HNext]_hvars,
         NEW n \in Node, NEW e \in Endpoint, InRotation(n, e)
  PROVE  InRotation(n, e)'
<1>1. CASE capabilities' = capabilities
  BY <1>1 DEF InRotation
<1>2. ASSUME NEW g \in Registrar, AddKey(g)
      PROVE  InRotation(n, e)'
  <2> DEFINE f == CurrentCapability(g)
             m == registering[g].node
  <2>1. f \in Endpoint /\ m \in Node
    BY <1>2, NextCapabilityCall DEF AddKey, NodesTypeOK
  <2>2. capabilities' = [capabilities EXCEPT ![f] = Append(@, m)]
    BY <1>2 DEF AddKey
  <2> HIDE DEF f, m
  <2>3. PICK i \in DOMAIN capabilities[e] : capabilities[e][i] = n
    BY DEF InRotation, ToSet
  <2>4. CASE e = f
    <3>1. capabilities[e] \in Seq(Node) /\ capabilities'[e] = Append(capabilities[e], m)
      BY <2>1, <2>2, <2>4 DEF NodesTypeOK
    <3>2. i \in DOMAIN capabilities'[e] /\ capabilities'[e][i] = n
      BY <2>1, <2>3, <3>1, AppendProperties, LenProperties
    <3> QED BY <3>2 DEF InRotation, ToSet
  <2>5. CASE e # f
    BY <2>1, <2>2, <2>3, <2>5 DEF InRotation, NodesTypeOK
  <2> QED BY <2>4, <2>5
<1> QED
  BY <1>1, <1>2 DEF HNext, HRegisterNode, RegisterNode, HAddKey, HFindNode, FindNode,
     ServeRequest, NoRequestor, RequestNode, TakeNode, DropReceivers, hvars

\* A call that still has the capability to handle keeps it, puts the node in
\* the rotation, or spends it on the request that waits.
LEMMA InProgressGoesOn ==
  ASSUME RotationInv, QueueInv, [HNext]_hvars,
         NEW n \in Node, NEW e \in Endpoint, InProgress(n, e)
  PROVE  Accounted(n, e)'
<1> USE DEF RotationInv
<1>1. PICK g \in Registrar : /\ registering[g].node = n /\ ~registering[g].exists
                             /\ e \in ToSet(registering[g].left)
  BY DEF InProgress
<1>2. /\ registering[g].left \in Seq(Endpoint) /\ registering[g].left # <<>>
  <2>1. registering[g].left \in Seq(Endpoint)
    BY DEF NodesTypeOK, Registration
  <2>2. DOMAIN registering[g].left # {}
    BY <1>1 DEF ToSet
  <2> QED BY <2>1, <2>2, EmptySeq
<1>3. ASSUME registering'[g].node = n, ~registering'[g].exists,
             registering'[g].left = registering[g].left
      PROVE  InProgress(n, e)'
  BY <1>1, <1>3 DEF InProgress
<1>4. ASSUME NextCapability(g), CurrentCapability(g) # e
      PROVE  InProgress(n, e)'
  <2> DEFINE s == registering[g].left
  <2>1. registering'[g] = [node |-> n, left |-> Tail(s), exists |-> FALSE, adding |-> FALSE]
    <3>1. registering[g].exists = FALSE
      BY <1>1 DEF NodesTypeOK, Registration
    <3> QED BY <1>1, <1>4, <3>1 DEF NextCapability, NodesTypeOK
  <2>2. PICK i \in DOMAIN s : s[i] = e
    BY <1>1 DEF ToSet
  <2>3. i # 1
    BY <1>2, <1>4, <2>2, SeqHeadTail DEF CurrentCapability
  <2>4. i - 1 \in DOMAIN Tail(s) /\ Tail(s)[i - 1] = e
    <3>1. /\ Len(s) \in Nat /\ DOMAIN s = 1 .. Len(s) /\ DOMAIN Tail(s) = 1 .. (Len(s) - 1)
          /\ \A k \in DOMAIN Tail(s) : Tail(s)[k] = s[k + 1]
      BY <1>2, SeqHeadTail
    <3> HIDE DEF s
    <3>2. i \in 1 .. Len(s)
      BY <2>2, <3>1
    <3>3. PICK k \in 1 .. (Len(s) - 1) : k = i - 1 /\ k + 1 = i
      BY <2>3, <3>1, <3>2
    <3>4. k \in DOMAIN Tail(s) /\ Tail(s)[k] = s[k + 1]
      BY <3>1
    <3> QED BY <2>2, <3>3, <3>4
  <2> QED BY <2>1, <2>4 DEF InProgress, ToSet
<1>5. ASSUME NEW h \in Registrar, h # g,
             \A k \in Registrar \ {h} : registering'[k] = registering[k]
      PROVE  InProgress(n, e)'
  BY <1>1, <1>3, <1>5
<1>6. ASSUME NEW h \in Registrar
      PROVE  /\ NextCapability(h) => \A k \in Registrar \ {h} : registering'[k] = registering[k]
             /\ registering' = [registering EXCEPT ![h].adding = TRUE] =>
                  \A k \in Registrar \ {h} : registering'[k] = registering[k]
  BY DEF NextCapability, NodesTypeOK
<1>7. ASSUME NEW h \in Registrar, NEW a \in Announcements, RegisterNode(h, a)
      PROVE  Accounted(n, e)'
  <2>1. h # g /\ \A k \in Registrar \ {h} : registering'[k] = registering[k]
    BY <1>2, <1>7 DEF RegisterNode, NodesTypeOK
  <2> QED BY <1>5, <2>1 DEF Accounted
<1>8. ASSUME NEW h \in Registrar, ServeRequest(h)
      PROVE  Accounted(n, e)'
  <2> DEFINE r == Head(requests[e])
  <2>1. CASE h # g
    BY <1>5, <1>6, <1>8, <2>1 DEF ServeRequest, Accounted
  <2>2. CASE h = g /\ CurrentCapability(g) # e
    BY <1>4, <1>8, <2>2 DEF ServeRequest, Accounted
  <2>3. CASE h = g /\ CurrentCapability(g) = e
    <3>1. /\ requests[e] # <<>> /\ requests[e] \in Seq(Request)
          /\ channel' = [channel EXCEPT ![r] =
               [state |-> "sent", endpoint |-> @.endpoint, node |-> n]]
      BY <1>1, <1>8, <2>3 DEF ServeRequest, HasLiveRequest, NodesTypeOK
    <3>2. r \in Request /\ 1 \in DOMAIN requests[e] /\ requests[e][1] = r
      BY <3>1, SeqHeadTail
    <3>3. channel[r].endpoint = e
      BY <3>2 DEF QueueInv, Unanswered
    <3> HIDE DEF r
    <3>4. channel'[r].node = n /\ channel'[r].endpoint = e
      BY <3>1, <3>2, <3>3 DEF NodesTypeOK
    <3> QED BY <3>2, <3>4 DEF Accounted, Spent
  <2> QED BY <2>1, <2>2, <2>3
<1>9. ASSUME NEW h \in Registrar, NoRequestor(h)
      PROVE  Accounted(n, e)'
  <2>1. CASE h # g
    BY <1>5, <1>6, <1>9, <2>1 DEF NoRequestor, Accounted
  <2>2. CASE h = g
    <3>1. registering' = [registering EXCEPT ![g].adding = TRUE]
      BY <1>1, <1>9, <2>2 DEF NoRequestor
    <3>2. /\ registering'[g].node = registering[g].node
          /\ registering'[g].exists = registering[g].exists
          /\ registering'[g].left = registering[g].left
      BY <3>1 DEF NodesTypeOK, Registration
    <3> QED BY <1>1, <1>3, <3>2 DEF Accounted
  <2> QED BY <2>1, <2>2
<1>10. ASSUME NEW h \in Registrar, AddKey(h)
       PROVE  Accounted(n, e)'
  <2>1. CASE h # g
    BY <1>5, <1>6, <1>10, <2>1 DEF AddKey, Accounted
  <2>2. CASE h = g /\ CurrentCapability(g) # e
    BY <1>4, <1>10, <2>2 DEF AddKey, Accounted
  <2>3. CASE h = g /\ CurrentCapability(g) = e
    <3>1. capabilities[e] \in Seq(Node) /\ capabilities'[e] = Append(capabilities[e], n)
      BY <1>1, <1>10, <2>3 DEF AddKey, NodesTypeOK
    <3>2. Len(capabilities[e]) + 1 \in DOMAIN capabilities'[e]
          /\ capabilities'[e][Len(capabilities[e]) + 1] = n
      BY <3>1, AppendProperties, LenProperties
    <3> QED BY <3>2 DEF Accounted, InRotation, ToSet
  <2> QED BY <2>1, <2>2, <2>3
<1>11. CASE registering' = registering
  BY <1>1, <1>3, <1>11 DEF Accounted
<1> QED
  BY <1>7, <1>8, <1>9, <1>10, <1>11 DEF HNext, HRegisterNode, HAddKey, HFindNode,
     FindNode, RequestNode, TakeNode, DropReceivers, hvars

-----------------------------------------------------------------------------
HistoryInv ==
  /\ RotationInv /\ QueueInv
  /\ HistoryTypeOK /\ PicksInTurn
  /\ FirstAnnouncementAccounted /\ FirstIsRegistered

LEMMA AccountedIs ==
  FirstAnnouncementAccounted <=> \A n \in Node : \A e \in first[n] : Accounted(n, e)
BY DEF FirstAnnouncementAccounted, Accounted, InRotation, Spent, InProgress

LEMMA HistoryInit == HInit => HistoryInv
<1> SUFFICES ASSUME HInit PROVE HistoryInv
  OBVIOUS
<1>1. RotationInv /\ QueueInv
  BY RotationInit, QueueInit DEF HInit
<1>2. HistoryTypeOK
  BY DEF HInit, HistoryTypeOK
<1>3. ASSUME NEW e \in Endpoint
      PROVE  Len(picked[e]) <= node_indices[e] /\ DOMAIN picked[e] = {}
  BY DEF HInit, NodesInit
<1>4. PicksInTurn
  BY <1>3 DEF PicksInTurn
<1>5. FirstAnnouncementAccounted /\ FirstIsRegistered
  BY DEF HInit, FirstAnnouncementAccounted, FirstIsRegistered
<1> QED BY <1>1, <1>2, <1>4, <1>5 DEF HistoryInv

\* The announcement that registers a node is accounted for because its call
\* has just begun; what was accounted for before stays so.
LEMMA RegisterNodeAccounted ==
  ASSUME HistoryInv, NEW g \in Registrar, NEW a \in Announcements, HRegisterNode(g, a)
  PROVE  HistoryTypeOK' /\ FirstAnnouncementAccounted' /\ FirstIsRegistered'
<1> USE DEF HistoryInv, RotationInv
<1>1. a.id \in Node /\ a.capabilities \in Seq(Endpoint)
  BY AnnouncementsAssumption
<1>2. ToSet(a.capabilities) \subseteq Endpoint
  BY <1>1, ElementOfSeq, LenProperties DEF ToSet
<1>3. /\ picked' = picked /\ nodes' = nodes \cup {a.id}
      /\ first' = IF a.id \in nodes THEN first
                  ELSE [first EXCEPT ![a.id] = ToSet(a.capabilities)]
      /\ registering' = [registering EXCEPT ![g] =
           [node |-> a.id, left |-> a.capabilities, exists |-> a.id \in nodes,
            adding |-> FALSE]]
  BY DEF HRegisterNode, RegisterNode
<1>4. HistoryTypeOK' /\ FirstIsRegistered'
  BY <1>1, <1>2, <1>3 DEF HistoryTypeOK, FirstIsRegistered
<1>5. ASSUME NEW n \in Node, NEW e \in first'[n]
      PROVE  Accounted(n, e)'
  <2>1. CASE e \in first[n]
    <3>1. Accounted(n, e) /\ e \in Endpoint
      BY <2>1, AccountedIs DEF HistoryTypeOK
    <3>2. [HNext]_hvars
      BY DEF HNext
    <3> QED
      BY <3>1, <3>2, SpentStays, RotationStays, InProgressGoesOn DEF Accounted
  <2>2. CASE e \notin first[n]
    <3>1. n = a.id /\ a.id \notin nodes /\ e \in ToSet(a.capabilities)
      BY <1>1, <1>3, <2>2 DEF HistoryTypeOK
    <3>2. /\ registering'[g].node = n /\ ~registering'[g].exists
          /\ registering'[g].left = a.capabilities
      BY <1>3, <3>1 DEF NodesTypeOK
    <3> QED BY <3>1, <3>2 DEF Accounted, InProgress
  <2> QED BY <2>1, <2>2
<1>6. FirstAnnouncementAccounted'
  BY <1>5 DEF FirstAnnouncementAccounted, Accounted, InRotation, Spent, InProgress
<1> QED BY <1>4, <1>6

LEMMA HistoryInvStep == HistoryInv /\ [HNext]_hvars => HistoryInv'
<1> SUFFICES ASSUME HistoryInv, [HNext]_hvars PROVE HistoryInv'
  OBVIOUS
<1> USE DEF HistoryInv
<1>1. [NodesNext]_nodesVars
  BY HistoryStep
<1>2. RotationInv' /\ QueueInv'
  BY <1>1, RotationStep, QueueStep
<1>3. ASSUME NEW g \in Registrar, NEW a \in Announcements, HRegisterNode(g, a)
      PROVE  HistoryInv'
  <2>1. HistoryTypeOK' /\ FirstAnnouncementAccounted' /\ FirstIsRegistered'
    BY <1>3, RegisterNodeAccounted
  <2>2. PicksInTurn'
    BY <1>3, <2>1, OtherStepInTurn DEF HRegisterNode, RegisterNode
  <2> QED BY <1>2, <2>1, <2>2
<1>4. ASSUME first' = first, nodes' = nodes
      PROVE  FirstAnnouncementAccounted' /\ FirstIsRegistered'
  <2>1. ASSUME NEW n \in Node, NEW e \in first[n]
        PROVE  Accounted(n, e)'
    <3>1. Accounted(n, e) /\ e \in Endpoint
      BY AccountedIs DEF HistoryTypeOK
    <3> QED
      BY <3>1, SpentStays, RotationStays, InProgressGoesOn DEF Accounted, RotationInv
  <2>2. FirstAnnouncementAccounted'
    BY <1>4, <2>1 DEF FirstAnnouncementAccounted, Accounted, InRotation, Spent, InProgress
  <2> QED BY <1>4, <2>2 DEF FirstIsRegistered
<1>5. ASSUME UNCHANGED <<picked, first, nodes, capabilities, node_indices>>
      PROVE  HistoryInv'
  <2>1. HistoryTypeOK'
    BY <1>5 DEF HistoryTypeOK
  <2> QED BY <1>2, <1>4, <1>5, <2>1, OtherStepInTurn
<1>6. ASSUME NEW g \in Registrar, HAddKey(g)
      PROVE  HistoryInv'
  BY <1>2, <1>4, <1>6, AddKeyInTurn DEF RotationInv, HAddKey, AddKey
<1>7. ASSUME NEW e \in Endpoint, NEW n \in Node \cup {NoNode}, HFindNode(e, n)
      PROVE  HistoryInv'
  BY <1>2, <1>4, <1>7, FindNodeInTurn DEF RotationInv, HFindNode, FindNode
<1> QED
  BY <1>3, <1>5, <1>6, <1>7 DEF HNext, ServeRequest, NoRequestor, RequestNode,
     TakeNode, DropReceivers, Unrecorded, hvars

\* The load balancer gives every node of a rotation its turn before anybody
\* has a second one, whatever is registered and picked at the same time.
THEOREM TurnsAreFair == HSpec => []RoundRobinFair
<1>1. HistoryInv => RoundRobinFair
  BY TurnsAreBalanced DEF HistoryInv, RotationInv
<1> QED BY <1>1, HistoryInit, HistoryInvStep, PTL DEF HSpec

\* No capability of the announcement that registered a node is lost between
\* the three mutexes of register_node.
THEOREM NothingAnnouncedIsLost == HSpec => []FirstAnnouncementAccounted
<1>1. HistoryInv => FirstAnnouncementAccounted
  BY DEF HistoryInv
<1> QED BY <1>1, HistoryInit, HistoryInvStep, PTL DEF HSpec
=============================================================================
