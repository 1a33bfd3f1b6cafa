----------------------- MODULE NodesManagementProofs -----------------------
(***************************************************************************)
(* Theorems about NodesManagement for any nodes, endpoints, announcements, *)
(* registrars and requests.                                                *)
(***************************************************************************)
EXTENDS NodesManagement, SequenceTheorems, TLAPS

-----------------------------------------------------------------------------
\* What Head and Tail of a non-empty sequence are.
LEMMA SeqHeadTail ==
  ASSUME NEW S, NEW s \in Seq(S), s # <<>>
  PROVE  /\ Head(s) \in S
         /\ Tail(s) \in Seq(S)
         /\ Len(s) \in Nat /\ Len(s) > 0
         /\ 1 \in DOMAIN s /\ Head(s) = s[1]
         /\ Len(Tail(s)) = Len(s) - 1
         /\ DOMAIN Tail(s) = 1 .. (Len(s) - 1)
         /\ DOMAIN s = 1 .. Len(s)
         /\ \A i \in DOMAIN Tail(s) : i + 1 \in DOMAIN s /\ Tail(s)[i] = s[i + 1]
<1>1. Len(s) \in Nat /\ DOMAIN s = 1 .. Len(s) /\ Len(s) > 0
  BY EmptySeq, LenProperties
<1>2. Head(s) \in S /\ Head(s) = s[1] /\ Tail(s) \in Seq(S) /\ Len(Tail(s)) = Len(s) - 1
  BY HeadTailProperties
<1>3. \A i \in 1 .. Len(Tail(s)) : Tail(s)[i] = s[i + 1]
  BY HeadTailProperties
<1> QED BY <1>1, <1>2, <1>3, LenProperties

\* NodesManagement's variables keep their types: in particular only ids of
\* nodes are in a rotation and only requests are in a queue.
LEMMA NodesTypeInit == NodesInit => NodesTypeOK
BY DEF NodesInit, NodesTypeOK, Channel, ChannelState, Registration

\* Every step keeps the types: one case per action of the registry.
LEMMA NodesTypeStep == NodesTypeOK /\ [NodesNext]_nodesVars => NodesTypeOK'
<1> SUFFICES ASSUME NodesTypeOK, [NodesNext]_nodesVars PROVE NodesTypeOK'
  OBVIOUS
<1> USE DEF NodesTypeOK
<1>1. ASSUME NEW g \in Registrar, NEW a \in Announcements, RegisterNode(g, a)
      PROVE  NodesTypeOK'
  <2>1. a.id \in Node /\ a.capabilities \in Seq(Endpoint)
    BY AnnouncementsAssumption
  <2> QED BY <1>1, <2>1 DEF RegisterNode, Registration
<1>2. ASSUME NEW g \in Registrar, registering[g].left # <<>>
      PROVE  /\ CurrentCapability(g) \in Endpoint
             /\ registering[g].node \in Node
             /\ NextCapability(g) =>
                  /\ registering' \in [Registrar -> Registration]
                  /\ \A h \in Registrar : registering'[h].left # <<>> => registering'[h].node \in Node
  <2> DEFINE c == registering[g]
  <2>1. c \in Registration /\ c.node \in Node
    BY <1>2
  <2>2. c.left \in Seq(Endpoint)
    BY <2>1 DEF Registration
  <2>3. Head(c.left) \in Endpoint /\ Tail(c.left) \in Seq(Endpoint)
    BY <1>2, <2>2, SeqHeadTail
  <2>4. ASSUME NextCapability(g)
        PROVE  /\ registering' \in [Registrar -> Registration]
               /\ \A h \in Registrar : registering'[h].left # <<>> => registering'[h].node \in Node
    <3> DEFINE d == [node |-> c.node, left |-> Tail(c.left), exists |-> c.exists, adding |-> FALSE]
    <3>1. d \in Registration /\ d.node \in Node
      BY <2>1, <2>3 DEF Registration
    <3>2. registering' = [registering EXCEPT ![g] = d]
      BY <2>4 DEF NextCapability
    <3> HIDE DEF d
    <3> QED BY <3>1, <3>2
  <2> QED BY <1>2, <2>1, <2>3, <2>4 DEF CurrentCapability
<1>3. ASSUME NEW g \in Registrar, ServeRequest(g)
      PROVE  NodesTypeOK'
  <2> DEFINE e == CurrentCapability(g)
             r == Head(requests[e])
  <2>1. registering[g].left # <<>> /\ e \in Endpoint /\ NextCapability(g)
    BY <1>2, <1>3 DEF ServeRequest
  <2>2. /\ registering' \in [Registrar -> Registration]
        /\ \A h \in Registrar : registering'[h].left # <<>> => registering'[h].node \in Node
    BY <1>2, <2>1
  <2>3. requests[e] # <<>> /\ requests[e] \in Seq(Request)
    BY <1>3, <2>1 DEF ServeRequest, HasLiveRequest
  <2>4. r \in Request /\ Tail(requests[e]) \in Seq(Request)
    BY <2>3, SeqHeadTail
  <2>5. requests' = [requests EXCEPT ![e] = Tail(@)]
    BY <1>3 DEF ServeRequest
  <2>6. channel' = [channel EXCEPT ![r] =
          [state |-> "sent", endpoint |-> @.endpoint, node |-> registering[g].node]]
    BY <1>3 DEF ServeRequest
  <2>7. requests' \in [Endpoint -> Seq(Request)]
    BY <2>1, <2>4, <2>5
  <2>8. registering[g].node \in Node \cup {NoNode} /\ channel[r] \in Channel
    BY <2>4 DEF Registration
  <2>9. channel' \in [Request -> Channel]
    BY <2>4, <2>6, <2>8 DEF Channel, ChannelState
  <2> QED BY <1>3, <2>2, <2>7, <2>9 DEF ServeRequest
<1>4. ASSUME NEW g \in Registrar, NoRequestor(g)
      PROVE  NodesTypeOK'
  <2> DEFINE e == CurrentCapability(g)
  <2>1. registering[g].left # <<>> /\ e \in Endpoint
    BY <1>2, <1>4 DEF NoRequestor
  <2>2. /\ registering' \in [Registrar -> Registration]
        /\ \A h \in Registrar : registering'[h].left # <<>> => registering'[h].node \in Node
    <3>1. CASE registering[g].exists
      BY <1>2, <1>4, <2>1, <3>1 DEF NoRequestor
    <3>2. CASE ~registering[g].exists
      <4>1. registering' = [registering EXCEPT ![g].adding = TRUE]
        BY <1>4, <3>2 DEF NoRequestor
      <4> QED BY <4>1 DEF Registration
    <3> QED BY <3>1, <3>2
  <2>3. requests[e] # <<>> => Tail(requests[e]) \in Seq(Request)
    BY <2>1, SeqHeadTail
  <2>4. requests' \in [Endpoint -> Seq(Request)]
    BY <1>4, <2>1, <2>3 DEF NoRequestor
  <2> QED BY <1>4, <2>2, <2>4 DEF NoRequestor
<1>5. ASSUME NEW g \in Registrar, AddKey(g)
      PROVE  NodesTypeOK'
  <2> DEFINE e == CurrentCapability(g)
  <2>1. e \in Endpoint /\ registering[g].node \in Node /\ NextCapability(g)
    BY <1>2, <1>5 DEF AddKey
  <2>2. capabilities' = [capabilities EXCEPT ![e] = Append(@, registering[g].node)]
    BY <1>5 DEF AddKey
  <2>3. Append(capabilities[e], registering[g].node) \in Seq(Node)
    BY <2>1, AppendProperties
  <2>4. capabilities' \in [Endpoint -> Seq(Node)]
    BY <2>1, <2>2, <2>3
  <2> QED BY <1>2, <1>5, <2>1, <2>4 DEF AddKey
<1>6. ASSUME NEW e \in Endpoint, NEW n \in Node \cup {NoNode}, FindNode(e, n)
      PROVE  NodesTypeOK'
  BY <1>6 DEF FindNode
<1>7. ASSUME NEW r \in Request, NEW e \in Endpoint, RequestNode(r, e)
      PROVE  NodesTypeOK'
  <2>1. Append(requests[e], r) \in Seq(Request)
    BY AppendProperties
  <2>2. requests' \in [Endpoint -> Seq(Request)]
    BY <1>7, <2>1 DEF RequestNode
  <2>3. channel' \in [Request -> Channel]
    <3>1. channel[r] \in Channel
      OBVIOUS
    <3>2. [channel[r] EXCEPT !.state = "open", !.endpoint = e] \in Channel
      BY <3>1 DEF Channel, ChannelState
    <3>3. channel' = [channel EXCEPT ![r] = [@ EXCEPT !.state = "open", !.endpoint = e]]
      BY <1>7, Zenon DEF RequestNode
    <3> QED BY <3>2, <3>3
  <2> QED BY <1>7, <2>2, <2>3 DEF RequestNode
<1>8. ASSUME NEW r \in Request, TakeNode(r) \/ DropReceivers({r})
      PROVE  NodesTypeOK'
  <2>1. \A q \in Request : [channel[q] EXCEPT !.state = "closed"] \in Channel
    BY DEF Channel, ChannelState
  <2>2. DropReceivers({r}) => channel' \in [Request -> Channel]
    BY <2>1 DEF DropReceivers
  <2>3. ASSUME TakeNode(r) PROVE channel' \in [Request -> Channel]
    <3>1. [channel[r] EXCEPT !.state = "taken"] \in Channel
      BY DEF Channel, ChannelState
    <3> QED BY <2>3, <3>1 DEF TakeNode
  <2> QED BY <1>8, <2>2, <2>3 DEF TakeNode, DropReceivers
<1>9. CASE UNCHANGED nodesVars
  BY <1>9 DEF nodesVars
<1> QED
  BY <1>1, <1>3, <1>4, <1>5, <1>6, <1>7, <1>8, <1>9 DEF NodesNext

\* Type correctness, the fact every other proof starts from.
THEOREM NodesTypeCorrect == NodesSpec => []NodesTypeOK
<1>1. NodesInit => NodesTypeOK
  BY NodesTypeInit
<1>2. NodesTypeOK /\ [NodesNext]_nodesVars => NodesTypeOK'
  BY NodesTypeStep
<1> QED BY <1>1, <1>2, PTL DEF NodesSpec

-----------------------------------------------------------------------------
\* The inductive invariant behind RotationSound: which registrations may
\* still add which node to which rotation.
RotationInv == NodesTypeOK /\ RotationSound /\ FirstRegistrationOwns

\* Dropping the first element of a sequence without repetitions.
LEMMA TailDistinct ==
  ASSUME NEW S, NEW s \in Seq(S), s # <<>>, IsInjective(s)
  PROVE  /\ IsInjective(Tail(s))
         /\ \A i \in DOMAIN Tail(s) :
              /\ Tail(s)[i] \in S
              /\ Tail(s)[i] # Head(s)
              /\ \E k \in DOMAIN s : Tail(s)[i] = s[k]
<1>1. /\ Tail(s) \in Seq(S) /\ Head(s) = s[1] /\ 1 \in DOMAIN s
      /\ Len(s) \in Nat /\ DOMAIN s = 1 .. Len(s) /\ DOMAIN Tail(s) = 1 .. (Len(s) - 1)
      /\ \A i \in DOMAIN Tail(s) : i + 1 \in DOMAIN s /\ Tail(s)[i] = s[i + 1]
  BY SeqHeadTail
<1>2. ASSUME NEW i \in DOMAIN Tail(s), NEW j \in DOMAIN Tail(s), Tail(s)[i] = Tail(s)[j]
      PROVE  i = j
  <2>1. s[i + 1] = s[j + 1] /\ i + 1 \in DOMAIN s /\ j + 1 \in DOMAIN s
    BY <1>1, <1>2
  <2>2. i + 1 = j + 1
    BY <2>1 DEF IsInjective
  <2> QED BY <1>1, <2>2
<1>3. ASSUME NEW i \in DOMAIN Tail(s)
      PROVE  Tail(s)[i] \in S /\ Tail(s)[i] # Head(s)
  <2>1. i + 1 \in DOMAIN s /\ Tail(s)[i] = s[i + 1] /\ i + 1 # 1
    BY <1>1
  <2>2. s[i + 1] \in S
    BY <2>1, <1>1, ElementOfSeq
  <2> QED BY <1>1, <2>1, <2>2 DEF IsInjective
<1> QED BY <1>1, <1>2, <1>3 DEF IsInjective

\* Appending a new element to a sequence without repetitions.
LEMMA AppendDistinct ==
  ASSUME NEW S, NEW s \in Seq(S), NEW x \in S, IsInjective(s),
         \A j \in DOMAIN s : s[j] # x,
         NEW t, t = Append(s, x)
  PROVE  /\ IsInjective(t)
         /\ \A i \in DOMAIN t : t[i] = x \/ \E j \in DOMAIN s : t[i] = s[j]
<1>1. /\ Len(s) \in Nat /\ DOMAIN s = 1 .. Len(s)
      /\ DOMAIN t = 1 .. (Len(s) + 1)
      /\ \A i \in 1 .. Len(s) : t[i] = s[i]
      /\ t[Len(s) + 1] = x
  BY AppendProperties, LenProperties
<1>2. \A i \in DOMAIN t :
        \/ i \in DOMAIN s /\ t[i] = s[i]
        \/ i = Len(s) + 1 /\ t[i] = x
  BY <1>1
<1>3. ASSUME NEW i \in DOMAIN t, NEW j \in DOMAIN t, t[i] = t[j]
      PROVE  i = j
  BY <1>2, <1>3 DEF IsInjective
<1>4. IsInjective(t)
  BY <1>3 DEF IsInjective
<1>5. \A i \in DOMAIN t : t[i] = x \/ \E j \in DOMAIN s : t[i] = s[j]
  BY <1>2
<1> QED BY <1>4, <1>5

\* What is left of a call after one capability is what was left before it,
\* without that capability.
LEMMA NextCapabilityCall ==
  ASSUME NodesTypeOK, FirstRegistrationOwns,
         NEW g \in Registrar, registering[g].left # <<>>, NextCapability(g)
  PROVE  /\ CurrentCapability(g) \in Endpoint
         /\ \E k \in DOMAIN registering[g].left :
              CurrentCapability(g) = registering[g].left[k]
         /\ registering'[g].node = registering[g].node
         /\ registering'[g].exists = registering[g].exists
         /\ registering'[g].adding = FALSE
         /\ IsInjective(registering'[g].left)
         /\ \A i \in DOMAIN registering'[g].left :
              /\ registering'[g].left[i] \in Endpoint
              /\ registering'[g].left[i] # CurrentCapability(g)
              /\ \E k \in DOMAIN registering[g].left :
                   registering'[g].left[i] = registering[g].left[k]
         /\ \A h \in Registrar \ {g} : registering'[h] = registering[h]
<1> DEFINE s == registering[g].left
<1>1. s \in Seq(Endpoint) /\ s # <<>> /\ IsInjective(s)
  BY DEF NodesTypeOK, Registration, FirstRegistrationOwns, RegistrationSound
<1>2. /\ registering'[g] = [node |-> registering[g].node, left |-> Tail(s),
                            exists |-> registering[g].exists, adding |-> FALSE]
      /\ \A h \in Registrar \ {g} : registering'[h] = registering[h]
  BY DEF NextCapability, NodesTypeOK
<1>3. Head(s) \in Endpoint /\ 1 \in DOMAIN s /\ Head(s) = s[1]
  BY <1>1, SeqHeadTail
<1>4. /\ IsInjective(Tail(s))
      /\ \A i \in DOMAIN Tail(s) :
           /\ Tail(s)[i] \in Endpoint
           /\ Tail(s)[i] # Head(s)
           /\ \E k \in DOMAIN s : Tail(s)[i] = s[k]
  <2> HIDE DEF s
  <2> QED BY <1>1, TailDistinct
<1> QED BY <1>2, <1>3, <1>4 DEF CurrentCapability

\* Ending a capability keeps what is known of the running calls, as long as
\* no rotation gets the node of a call for a capability it still has.
LEMMA NextCapabilityOwns ==
  ASSUME NodesTypeOK, FirstRegistrationOwns,
         NEW g \in Registrar, registering[g].left # <<>>, NextCapability(g),
         nodes' = nodes,
         \A h \in Registrar : \A i \in DOMAIN registering'[h].left :
           Adds(h)' => \A j \in DOMAIN capabilities'[registering'[h].left[i]] :
             capabilities'[registering'[h].left[i]][j] # registering'[h].node
  PROVE  FirstRegistrationOwns'
<1>a. /\ registering'[g].node = registering[g].node
      /\ registering'[g].exists = registering[g].exists
      /\ \A i \in DOMAIN registering'[g].left :
           \E k \in DOMAIN registering[g].left :
             registering'[g].left[i] = registering[g].left[k]
      /\ IsInjective(registering'[g].left)
      /\ registering'[g].adding = FALSE
      /\ \A h \in Registrar \ {g} : registering'[h] = registering[h]
  BY NextCapabilityCall
<1>b. ASSUME NEW h \in Registrar
      PROVE  /\ registering'[h].node = registering[h].node
             /\ registering'[h].exists = registering[h].exists
             /\ \A i \in DOMAIN registering'[h].left :
                  \E k \in DOMAIN registering[h].left :
                    registering'[h].left[i] = registering[h].left[k]
             /\ registering'[h].left # <<>> => registering[h].left # <<>>
  <2>1. CASE h = g
    BY <1>a, <2>1, Zenon
  <2>2. CASE h # g
    <3>1. registering'[h] = registering[h]
      BY <1>a, <2>2, Zenon
    <3> QED BY <3>1, Zenon
  <2> QED BY <2>1, <2>2, Zenon
<1>1. \A h \in Registrar :
        /\ registering'[h].node = registering[h].node
        /\ registering'[h].exists = registering[h].exists
        /\ \A i \in DOMAIN registering'[h].left :
             \E k \in DOMAIN registering[h].left :
               registering'[h].left[i] = registering[h].left[k]
        /\ registering'[h].left # <<>> => registering[h].left # <<>>
  BY <1>b, Zenon
<1>2. \A h \in Registrar : Adds(h)' => Adds(h)
  BY <1>1 DEF Adds
<1>3. ASSUME NEW h \in Registrar, registering'[h].left # <<>>
      PROVE  RegistrationSound(h)'
  <2>1. RegistrationSound(h)
    BY <1>1, <1>3 DEF FirstRegistrationOwns
  <2>2. IsInjective(registering'[h].left) /\ (registering'[h].adding => ~registering'[h].exists)
    <3>1. CASE h = g
      BY <1>a, <3>1
    <3>2. CASE h # g
      <4>1. registering'[h] = registering[h]
        BY <1>a, <3>2, Zenon
      <4> QED BY <2>1, <4>1 DEF RegistrationSound
    <3> QED BY <3>1, <3>2, Zenon
  <2>3. \A i \in DOMAIN registering'[h].left :
          registering'[h].node \in Announcers(registering'[h].left[i])
    BY <1>1, <2>1 DEF RegistrationSound
  <2> QED BY <1>1, <2>1, <2>2, <2>3 DEF RegistrationSound, Announcers
<1>4. ASSUME NEW h \in Registrar, NEW k \in Registrar \ {h}, Adds(h)', Adds(k)'
      PROVE  registering'[k].node # registering'[h].node
  BY <1>1, <1>2, <1>4 DEF FirstRegistrationOwns
<1> QED BY <1>3, <1>4 DEF FirstRegistrationOwns

\* add_key: the node is new to the rotation, because it is the node of a
\* first registration that has not handled this capability before.
LEMMA AddKeyInv ==
  ASSUME RotationInv, NEW g \in Registrar, AddKey(g)
  PROVE  RotationSound' /\ FirstRegistrationOwns'
<1> DEFINE e == CurrentCapability(g)
           n == registering[g].node
<1> USE DEF RotationInv
<1>1. registering[g].left # <<>> /\ NextCapability(g) /\ nodes' = nodes
  BY DEF AddKey
<1>2. e \in Endpoint /\ n \in Node
  BY <1>1, NextCapabilityCall DEF NodesTypeOK
<1>3. /\ capabilities[e] \in Seq(Node)
      /\ capabilities'[e] = Append(capabilities[e], n)
      /\ \A f \in Endpoint \ {e} : capabilities'[f] = capabilities[f]
  BY <1>2 DEF AddKey, NodesTypeOK
<1>4. Adds(g) /\ RegistrationSound(g)
  BY <1>1 DEF AddKey, Adds, FirstRegistrationOwns, RegistrationSound
<1>5. n \in nodes \cap Announcers(e) /\ \A j \in DOMAIN capabilities[e] : capabilities[e][j] # n
  <2>1. PICK k \in DOMAIN registering[g].left : e = registering[g].left[k]
    BY <1>1, NextCapabilityCall
  <2>2. n \in nodes /\ n \in Announcers(registering[g].left[k])
    BY <1>4 DEF RegistrationSound
  <2>3. \A j \in DOMAIN capabilities[registering[g].left[k]] :
          capabilities[registering[g].left[k]][j] # n
    BY <1>4 DEF FirstRegistrationOwns
  <2> QED BY <2>1, <2>2, <2>3
<1>6. /\ IsInjective(capabilities'[e])
      /\ \A i \in DOMAIN capabilities'[e] :
           \/ capabilities'[e][i] = n
           \/ \E j \in DOMAIN capabilities[e] : capabilities'[e][i] = capabilities[e][j]
  <2>1. IsInjective(capabilities[e])
    BY <1>2 DEF RotationSound
  <2> HIDE DEF e, n
  <2>2. n \in Node /\ capabilities[e] \in Seq(Node) /\ \A j \in DOMAIN capabilities[e] : capabilities[e][j] # n
    BY <1>2, <1>3, <1>5
  <2> QED BY <1>3, <2>1, <2>2, AppendDistinct DEF IsInjective
<1>7. RotationSound'
  <2>1. ASSUME NEW f \in Endpoint
        PROVE  /\ \A i \in DOMAIN capabilities'[f] :
                    capabilities'[f][i] \in nodes' \cap Announcers(f)
               /\ IsInjective(capabilities'[f])
    <3>1. CASE f = e
      BY <1>1, <1>5, <1>6, <3>1 DEF RotationSound
    <3>2. CASE f # e
      BY <1>1, <1>3, <3>2 DEF RotationSound
    <3> QED BY <3>1, <3>2
  <2> QED BY <2>1 DEF RotationSound, Announcers
<1>8. ASSUME NEW h \in Registrar, NEW i \in DOMAIN registering'[h].left, Adds(h)'
      PROVE  \A j \in DOMAIN capabilities'[registering'[h].left[i]] :
               capabilities'[registering'[h].left[i]][j] # registering'[h].node
  <2> DEFINE f == registering'[h].left[i]
  <2>1. CASE h = g
    <3>1. f \in Endpoint /\ f # e /\ registering'[g].node = n
      BY <1>1, <2>1, NextCapabilityCall
    <3>2. PICK k \in DOMAIN registering[g].left : f = registering[g].left[k]
      BY <1>1, <2>1, NextCapabilityCall
    <3>3. \A j \in DOMAIN capabilities[registering[g].left[k]] :
            capabilities[registering[g].left[k]][j] # n
      BY <1>4 DEF FirstRegistrationOwns
    <3> QED BY <1>3, <2>1, <3>1, <3>2, <3>3
  <2>2. CASE h # g
    <3>1. registering'[h] = registering[h] /\ Adds(h)
      BY <1>1, <1>8, <2>2, NextCapabilityCall DEF Adds
    <3>2. registering[h].node # n
      BY <1>4, <2>2, <3>1 DEF FirstRegistrationOwns
    <3>3. \A j \in DOMAIN capabilities[f] : capabilities[f][j] # registering[h].node
      BY <3>1 DEF FirstRegistrationOwns
    <3>4. f \in Endpoint
      <4>1. registering[h].left \in Seq(Endpoint)
        BY DEF NodesTypeOK, Registration
      <4> QED BY <3>1, <4>1, ElementOfSeq, LenProperties
    <3>5. CASE f = e
      BY <1>6, <3>1, <3>2, <3>3, <3>5
    <3>6. CASE f # e
      BY <1>3, <3>1, <3>3, <3>4, <3>6
    <3> QED BY <3>5, <3>6
  <2> QED BY <2>1, <2>2
<1> QED BY <1>1, <1>7, <1>8, NextCapabilityOwns

\* register_node's first step: the mutex around nodes.insert decides which of
\* several calls for a node is the first.
LEMMA RegisterNodeInv ==
  ASSUME RotationInv, NEW g \in Registrar, NEW a \in Announcements, RegisterNode(g, a)
  PROVE  RotationSound' /\ FirstRegistrationOwns'
<1> USE DEF RotationInv
<1>1. /\ nodes' = nodes \cup {a.id} /\ capabilities' = capabilities
      /\ registering[g].left = <<>>
      /\ registering'[g] = [node |-> a.id, left |-> a.capabilities,
                            exists |-> a.id \in nodes, adding |-> FALSE]
      /\ \A h \in Registrar \ {g} : registering'[h] = registering[h]
  BY DEF RegisterNode, NodesTypeOK
<1>2. /\ a.capabilities \in Seq(Endpoint) /\ IsInjective(a.capabilities)
      /\ \A i \in DOMAIN a.capabilities :
           a.capabilities[i] \in Endpoint /\ a.id \in Announcers(a.capabilities[i])
  <2>1. a.capabilities \in Seq(Endpoint) /\ IsInjective(a.capabilities)
    BY AnnouncementsAssumption
  <2> QED BY <2>1, ElementOfSeq, LenProperties DEF Announcers
<1>3. RotationSound'
  BY <1>1 DEF RotationSound, Announcers
<1>4. Adds(g)' => a.id \notin nodes
  <2>1. registering'[g].exists = (a.id \in nodes)
    BY <1>1
  <2> QED BY <2>1, Zenon DEF Adds
<1>5. ASSUME NEW h \in Registrar, registering'[h].left # <<>>
      PROVE  RegistrationSound(h)'
  <2>1. CASE h = g
    BY <1>1, <1>2, <2>1 DEF RegistrationSound, Announcers
  <2>2. CASE h # g
    BY <1>1, <1>5, <2>2 DEF FirstRegistrationOwns, RegistrationSound, Announcers
  <2> QED BY <2>1, <2>2
<1>6. ASSUME NEW h \in Registrar, Adds(h)'
      PROVE  /\ \A i \in DOMAIN registering'[h].left :
                  \A j \in DOMAIN capabilities'[registering'[h].left[i]] :
                    capabilities'[registering'[h].left[i]][j] # registering'[h].node
             /\ \A k \in Registrar \ {h} :
                  Adds(k)' => registering'[k].node # registering'[h].node
  <2>1. \A k \in Registrar \ {g} : Adds(k)' => Adds(k) /\ registering[k].node \in nodes
    BY <1>1 DEF Adds, FirstRegistrationOwns, RegistrationSound
  <2>2. CASE h = g
    <3>1. a.id \notin nodes
      BY <1>6, <1>4, <2>2
    <3>2. \A f \in Endpoint : \A j \in DOMAIN capabilities[f] : capabilities[f][j] # a.id
      BY <3>1 DEF RotationSound
    <3> QED BY <1>1, <1>2, <2>1, <2>2, <3>1, <3>2
  <2>3. CASE h # g
    <3>1. Adds(g)' => registering'[g].node \notin nodes
      BY <1>1, <1>4
    <3>2. Adds(h) /\ registering[h].node \in nodes /\ registering'[h] = registering[h]
      BY <1>1, <1>6, <2>1, <2>3
    <3>3. \A k \in Registrar \ {h, g} : Adds(k)' => registering'[k].node # registering'[h].node
      BY <1>1, <2>1, <3>2 DEF FirstRegistrationOwns
    <3>4. \A i \in DOMAIN registering[h].left :
            \A j \in DOMAIN capabilities[registering[h].left[i]] :
              capabilities[registering[h].left[i]][j] # registering[h].node
      BY <3>2 DEF FirstRegistrationOwns
    <3> QED BY <1>1, <3>1, <3>2, <3>3, <3>4
  <2> QED BY <2>2, <2>3
<1> QED BY <1>3, <1>5, <1>6 DEF FirstRegistrationOwns

\* Rotations are empty and no call runs when NodesManagement::new returns.
LEMMA RotationInit == NodesInit => RotationInv
<1> SUFFICES ASSUME NodesInit PROVE RotationInv
  OBVIOUS
<1>1. NodesTypeOK
  BY NodesTypeInit
<1>2. \A e \in Endpoint : DOMAIN capabilities[e] = {}
  <2>1. \A e \in Endpoint : capabilities[e] = <<>>
    BY DEF NodesInit
  <2> QED BY <2>1
<1>3. RotationSound
  BY <1>2 DEF RotationSound, IsInjective
<1>4. FirstRegistrationOwns
  BY DEF NodesInit, FirstRegistrationOwns, Adds
<1> QED BY <1>1, <1>3, <1>4 DEF RotationInv

\* Every step keeps the invariant: the steps of register_node by the lemmas
\* above, the others because they leave what it is about alone.
LEMMA RotationStep == RotationInv /\ [NodesNext]_nodesVars => RotationInv'
<1> SUFFICES ASSUME RotationInv, [NodesNext]_nodesVars PROVE RotationInv'
  OBVIOUS
<1>1. NodesTypeOK'
  BY NodesTypeStep DEF RotationInv
<1>2. ASSUME NEW g \in Registrar, registering[g].left # <<>>, NextCapability(g),
             UNCHANGED <<nodes, capabilities>>
      PROVE  RotationSound' /\ FirstRegistrationOwns'
  <2>1. RotationSound'
    BY <1>2 DEF RotationInv, RotationSound, Announcers
  <2>2. ASSUME NEW h \in Registrar, NEW i \in DOMAIN registering'[h].left, Adds(h)'
        PROVE  \A j \in DOMAIN capabilities'[registering'[h].left[i]] :
                 capabilities'[registering'[h].left[i]][j] # registering'[h].node
    <3>1. PICK k \in DOMAIN registering[h].left :
            registering'[h].left[i] = registering[h].left[k]
      BY <1>2, NextCapabilityCall DEF RotationInv
    <3>2. Adds(h) /\ registering'[h].node = registering[h].node
      BY <1>2, <2>2, NextCapabilityCall DEF Adds, RotationInv
    <3> QED BY <1>2, <3>1, <3>2 DEF RotationInv, FirstRegistrationOwns
  <2> QED BY <1>2, <2>1, <2>2, NextCapabilityOwns DEF RotationInv
<1>3. ASSUME UNCHANGED <<nodes, capabilities, registering>>
      PROVE  RotationSound' /\ FirstRegistrationOwns'
  BY <1>3 DEF RotationInv, RotationSound, FirstRegistrationOwns, RegistrationSound,
              Adds, Announcers
<1>4. ASSUME NEW g \in Registrar, NEW a \in Announcements, RegisterNode(g, a)
      PROVE  RotationSound' /\ FirstRegistrationOwns'
  BY <1>4, RegisterNodeInv
<1>5. ASSUME NEW g \in Registrar, ServeRequest(g)
      PROVE  RotationSound' /\ FirstRegistrationOwns'
  BY <1>2, <1>5 DEF ServeRequest
<1>6. ASSUME NEW g \in Registrar, NoRequestor(g)
      PROVE  RotationSound' /\ FirstRegistrationOwns'
  <2>1. CASE registering[g].exists
    BY <1>2, <1>6, <2>1 DEF NoRequestor
  <2>2. CASE ~registering[g].exists
    <3>1. /\ registering' = [registering EXCEPT ![g].adding = TRUE]
          /\ nodes' = nodes /\ capabilities' = capabilities
      BY <1>6, <2>2 DEF NoRequestor
    <3>2. \A h \in Registrar : /\ registering'[h].node = registering[h].node
                               /\ registering'[h].left = registering[h].left
                               /\ registering'[h].exists = registering[h].exists
                               /\ h # g => registering'[h] = registering[h]
      BY <3>1 DEF RotationInv, NodesTypeOK, Registration
    <3>3. \A h \in Registrar : Adds(h)' <=> Adds(h)
      BY <3>2 DEF Adds
    <3>4. \A h \in Registrar : RegistrationSound(h) => RegistrationSound(h)'
      BY <2>2, <3>1, <3>2 DEF RegistrationSound, Announcers
    <3>5. FirstRegistrationOwns'
      BY <3>1, <3>2, <3>3, <3>4 DEF RotationInv, FirstRegistrationOwns
    <3>6. RotationSound'
      BY <3>1 DEF RotationInv, RotationSound, Announcers
    <3> QED BY <3>5, <3>6
  <2> QED BY <2>1, <2>2
<1>7. ASSUME NEW g \in Registrar, AddKey(g)
      PROVE  RotationSound' /\ FirstRegistrationOwns'
  BY <1>7, AddKeyInv
<1>8. ASSUME \/ \E e \in Endpoint, n \in Node \cup {NoNode} : FindNode(e, n)
             \/ \E r \in Request, e \in Endpoint : RequestNode(r, e)
             \/ \E r \in Request : TakeNode(r)
             \/ \E r \in Request : DropReceivers({r})
             \/ UNCHANGED nodesVars
      PROVE  RotationSound' /\ FirstRegistrationOwns'
  BY <1>3, <1>8 DEF FindNode, RequestNode, TakeNode, DropReceivers, nodesVars
<1> QED
  BY <1>1, <1>4, <1>5, <1>6, <1>7, <1>8 DEF NodesNext, RotationInv

\* However many announcements are handled at once, a node is in the rotation
\* of an endpoint it announced at most once, and no rotation holds a node
\* that find_key would not find among the registered ones.
THEOREM RotationIsSound == NodesSpec => []RotationSound
<1>1. RotationInv => RotationSound
  BY DEF RotationInv
<1> QED BY <1>1, RotationInit, RotationStep, PTL DEF NodesSpec

\* The call that first stored a node is the only one to add it anywhere.
THEOREM FirstRegistrationIsOwner == NodesSpec => []FirstRegistrationOwns
<1>1. RotationInv => FirstRegistrationOwns
  BY DEF RotationInv
<1> QED BY <1>1, RotationInit, RotationStep, PTL DEF NodesSpec

\* find_key's nodes.get(node_id) never misses: find_node returns None exactly
\* when the endpoint has no rotation.
LEMMA FoundNodeValue ==
  ASSUME NodesTypeOK, RotationSound, NEW e \in Endpoint
  PROVE  /\ FoundNode(e) = NoNode <=> capabilities[e] = <<>>
         /\ FoundNode(e) # NoNode => FoundNode(e) \in nodes \cap Announcers(e)
<1> DEFINE s == capabilities[e]
           k == (node_indices[e] % Len(s)) + 1
<1>1. s \in Seq(Node) /\ node_indices[e] \in Nat /\ NoNode \notin Node
  BY NoNodeAssumption DEF NodesTypeOK
<1>2. CASE s = <<>>
  BY <1>2 DEF FoundNode
<1>3. CASE s # <<>>
  <2>1. Len(s) \in Nat \ {0} /\ DOMAIN s = 1 .. Len(s)
    BY <1>1, <1>3, EmptySeq, LenProperties
  <2>2. k \in DOMAIN s
    BY <1>1, <2>1
  <2>3. s[k] \in nodes \cap Announcers(e) /\ s[k] \in Node
    BY <2>2, <1>1, <2>1, ElementOfSeq DEF RotationSound
  <2> QED BY <1>1, <1>3, <2>3 DEF FoundNode
<1> QED BY <1>2, <1>3

-----------------------------------------------------------------------------
\* What RequestsQueuedOnce rests on besides the invariant above: an open
\* channel has an endpoint, and one without an answer has no node.
ChannelsSound ==
  \A r \in Request :
    /\ channel[r].state = "open" => channel[r].endpoint \in Endpoint
    /\ channel[r].state \in {"unused", "open"} => channel[r].node = NoNode

\* The three parts of RequestsQueuedOnce that are about one request.
Waits(r) ==
  channel[r].state = "open" =>
    \E i \in DOMAIN requests[channel[r].endpoint] :
       requests[channel[r].endpoint][i] = r

OnePlace(r) ==
  \A e \in Endpoint : \A i, j \in DOMAIN requests[e] :
    requests[e][i] = r /\ requests[e][j] = r => i = j

Unanswered(r) ==
  \A e \in Endpoint : \A i \in DOMAIN requests[e] :
    requests[e][i] = r =>
      /\ channel[r].state \in {"open", "closed"}
      /\ channel[r].endpoint = e
      /\ channel[r].node = NoNode

Answer(r) ==
  channel[r].node # NoNode =>
    channel[r].node \in nodes \cap Announcers(channel[r].endpoint)

QueueInv ==
  /\ ChannelsSound
  /\ \A r \in Request : Waits(r) /\ OnePlace(r) /\ Unanswered(r) /\ Answer(r)

\* QueueInv is a strengthening of RequestsQueuedOnce.
LEMMA QueueInvImplies == QueueInv => RequestsQueuedOnce
BY DEF QueueInv, RequestsQueuedOnce, Waits, OnePlace, Unanswered, Answer

\* No queue has an entry when NodesManagement::new returns.
LEMMA QueueInit == NodesInit => QueueInv
<1> SUFFICES ASSUME NodesInit PROVE QueueInv
  OBVIOUS
<1>1. \A e \in Endpoint : DOMAIN requests[e] = {}
  <2>1. \A e \in Endpoint : requests[e] = <<>>
    BY DEF NodesInit
  <2> QED BY <2>1
<1>2. \A r \in Request : channel[r].state = "unused" /\ channel[r].node = NoNode
  BY DEF NodesInit
<1>3. ASSUME NEW r \in Request
      PROVE  Waits(r) /\ OnePlace(r) /\ Unanswered(r) /\ Answer(r)
  BY <1>1, <1>2 DEF Waits, OnePlace, Unanswered, Answer
<1> QED BY <1>2, <1>3 DEF QueueInv, ChannelsSound

\* Steps that leave queues and channels alone: there may be more nodes.
LEMMA QueueKept ==
  ASSUME QueueInv, UNCHANGED <<requests, channel>>, nodes \subseteq nodes'
  PROVE  QueueInv'
BY DEF QueueInv, ChannelsSound, Waits, OnePlace, Unanswered, Answer, Announcers

\* The sender at the head of a queue is taken out: it was dead, or it is
\* answered now with a node that announced the endpoint.
LEMMA QueuePopped ==
  ASSUME NodesTypeOK, QueueInv, NEW e \in Endpoint, requests[e] # <<>>,
         NEW r0, r0 = Head(requests[e]),
         requests' = [requests EXCEPT ![e] = Tail(@)],
         nodes' = nodes,
         \A r \in Request \ {r0} : channel'[r] = channel[r],
         channel'[r0].state \notin {"unused", "open"},
         channel'[r0].node # NoNode =>
           channel'[r0].node \in nodes \cap Announcers(channel'[r0].endpoint)
  PROVE  QueueInv'
<1>1. /\ r0 \in Request /\ 1 \in DOMAIN requests[e] /\ requests[e][1] = r0
      /\ DOMAIN requests[e] = 1 .. Len(requests[e]) /\ Len(requests[e]) \in Nat
      /\ DOMAIN Tail(requests[e]) = 1 .. (Len(requests[e]) - 1)
      /\ \A i \in DOMAIN Tail(requests[e]) :
           i + 1 \in DOMAIN requests[e] /\ Tail(requests[e])[i] = requests[e][i + 1]
  BY SeqHeadTail DEF NodesTypeOK
<1>2. /\ requests'[e] = Tail(requests[e])
      /\ \A f \in Endpoint \ {e} : requests'[f] = requests[f]
  BY DEF NodesTypeOK
<1>3. OnePlace(r0) /\ Unanswered(r0)
  BY <1>1 DEF QueueInv
<1>4. \A i \in DOMAIN requests'[e] :
        /\ i \in Nat
        /\ i + 1 \in DOMAIN requests[e] /\ i + 1 # 1
        /\ requests'[e][i] = requests[e][i + 1]
  <2> SUFFICES ASSUME NEW i \in DOMAIN Tail(requests[e])
               PROVE  /\ i \in Nat
                      /\ i + 1 \in DOMAIN requests[e] /\ i + 1 # 1
                      /\ Tail(requests[e])[i] = requests[e][i + 1]
    BY <1>2, Zenon
  <2>1. i \in 1 .. (Len(requests[e]) - 1)
    BY <1>1, Zenon
  <2>2. i \in Nat /\ i + 1 # 1
    BY <1>1, <2>1
  <2> QED BY <1>1, <2>2, Zenon
<1>5. \A f \in Endpoint : \A i \in DOMAIN requests'[f] : requests'[f][i] # r0
  <2>1. \A i \in DOMAIN requests'[e] : requests'[e][i] # r0
    BY <1>1, <1>3, <1>4 DEF OnePlace
  <2>2. \A f \in Endpoint \ {e} : \A i \in DOMAIN requests'[f] : requests'[f][i] # r0
    BY <1>1, <1>2, <1>3 DEF Unanswered
  <2> QED BY <2>1, <2>2
<1>6. ChannelsSound'
  BY <1>1 DEF QueueInv, ChannelsSound
<1>7. ASSUME NEW r \in Request, r # r0
      PROVE  Waits(r)' /\ OnePlace(r)' /\ Unanswered(r)' /\ Answer(r)'
  <2>1. channel'[r] = channel[r] /\ Waits(r) /\ OnePlace(r) /\ Unanswered(r) /\ Answer(r)
    BY <1>7 DEF QueueInv
  <2>2. Waits(r)'
    <3>1. SUFFICES ASSUME channel[r].state = "open"
                   PROVE  \E i \in DOMAIN requests'[channel[r].endpoint] :
                            requests'[channel[r].endpoint][i] = r
      BY <2>1 DEF Waits
    <3>2. PICK i \in DOMAIN requests[channel[r].endpoint] :
            requests[channel[r].endpoint][i] = r
      BY <2>1, <3>1 DEF Waits
    <3>3. channel[r].endpoint \in Endpoint
      BY <3>1 DEF QueueInv, ChannelsSound
    <3>4. CASE channel[r].endpoint = e
      <4>1. i \in Nat /\ i # 1 /\ i - 1 \in DOMAIN requests'[e]
        BY <1>1, <1>2, <1>7, <3>2, <3>4
      <4>2. requests'[e][i - 1] = requests[e][(i - 1) + 1]
        BY <1>4, <4>1, Zenon
      <4>3. (i - 1) + 1 = i
        BY <4>1
      <4> QED BY <3>2, <3>4, <4>1, <4>2, <4>3
    <3>5. CASE channel[r].endpoint # e
      BY <1>2, <3>2, <3>3, <3>5
    <3> QED BY <3>4, <3>5
  <2>3. OnePlace(r)'
    <3>1. \A i, j \in DOMAIN requests'[e] :
            requests'[e][i] = r /\ requests'[e][j] = r => i = j
      <4>1. ASSUME NEW i \in DOMAIN requests'[e], NEW j \in DOMAIN requests'[e],
                   requests'[e][i] = r, requests'[e][j] = r
            PROVE  i = j
        <5>1. i + 1 = j + 1
          BY <1>4, <2>1, <4>1 DEF OnePlace
        <5> QED BY <1>4, <5>1
      <4> QED BY <4>1
    <3>2. \A f \in Endpoint \ {e} : \A i, j \in DOMAIN requests'[f] :
            requests'[f][i] = r /\ requests'[f][j] = r => i = j
      BY <1>2, <2>1 DEF OnePlace
    <3> QED BY <3>1, <3>2 DEF OnePlace
  <2>4. Unanswered(r)'
    <3>1. \A f \in Endpoint : \A i \in DOMAIN requests'[f] :
            \E k \in DOMAIN requests[f] : requests'[f][i] = requests[f][k]
      BY <1>2, <1>4
    <3> QED BY <2>1, <3>1 DEF Unanswered
  <2>5. Answer(r)'
    BY <2>1 DEF Answer, Announcers
  <2> QED BY <2>2, <2>3, <2>4, <2>5
<1>8. Waits(r0)' /\ OnePlace(r0)' /\ Unanswered(r0)' /\ Answer(r0)'
  BY <1>5 DEF Waits, OnePlace, Unanswered, Answer, Announcers
<1> QED BY <1>6, <1>7, <1>8 DEF QueueInv

\* An announcement answers the oldest request with its own node.
LEMMA ServeRequestQueue ==
  ASSUME RotationInv, QueueInv, NEW g \in Registrar, ServeRequest(g)
  PROVE  QueueInv'
<1> DEFINE e == CurrentCapability(g)
           r0 == Head(requests[e])
           n == registering[g].node
<1>1. /\ registering[g].left # <<>> /\ nodes' = nodes
      /\ requests[e] # <<>> /\ channel[r0].state = "open"
      /\ requests' = [requests EXCEPT ![e] = Tail(@)]
      /\ channel' = [channel EXCEPT ![r0] =
           [state |-> "sent", endpoint |-> @.endpoint, node |-> n]]
  BY DEF ServeRequest, HasLiveRequest
<1>2. e \in Endpoint /\ \E k \in DOMAIN registering[g].left : e = registering[g].left[k]
  BY <1>1, SeqHeadTail, ElementOfSeq DEF CurrentCapability, RotationInv, NodesTypeOK, Registration
<1>3. n \in nodes \cap Announcers(e)
  <2>1. RegistrationSound(g)
    BY <1>1 DEF RotationInv, FirstRegistrationOwns
  <2> QED BY <1>2, <2>1 DEF RegistrationSound
<1>4. r0 \in Request /\ 1 \in DOMAIN requests[e] /\ requests[e][1] = r0
  BY <1>1, <1>2, SeqHeadTail DEF RotationInv, NodesTypeOK
<1>5. channel[r0].endpoint = e
  BY <1>2, <1>4 DEF QueueInv, Unanswered
<1>6. /\ channel'[r0].state = "sent" /\ channel'[r0].node = n /\ channel'[r0].endpoint = e
      /\ \A r \in Request \ {r0} : channel'[r] = channel[r]
  BY <1>1, <1>4, <1>5 DEF RotationInv, NodesTypeOK
<1> HIDE DEF e, n
<1> QED BY <1>1, <1>2, <1>3, <1>6, QueuePopped DEF RotationInv

\* A dead sender at the head of the queue is dropped.
LEMMA NoRequestorQueue ==
  ASSUME RotationInv, QueueInv, NEW g \in Registrar, NoRequestor(g)
  PROVE  QueueInv'
<1> DEFINE e == CurrentCapability(g)
           r0 == Head(requests[e])
<1>1. /\ registering[g].left # <<>> /\ nodes' = nodes /\ channel' = channel
      /\ requests[e] = <<>> \/ channel[r0].state # "open"
      /\ requests' = [requests EXCEPT ![e] = IF @ = <<>> THEN @ ELSE Tail(@)]
  BY DEF NoRequestor, HasLiveRequest
<1>2. e \in Endpoint
  BY <1>1, SeqHeadTail DEF CurrentCapability, RotationInv, NodesTypeOK, Registration
<1>3. CASE requests[e] = <<>>
  <2>1. requests' = requests
    BY <1>1, <1>2, <1>3 DEF RotationInv, NodesTypeOK
  <2> QED BY <1>1, <2>1, QueueKept
<1>4. CASE requests[e] # <<>>
  <2>1. r0 \in Request /\ 1 \in DOMAIN requests[e] /\ requests[e][1] = r0
    BY <1>2, <1>4, SeqHeadTail DEF RotationInv, NodesTypeOK
  <2>2. channel[r0].state = "closed" /\ Answer(r0)
    BY <1>1, <1>2, <1>4, <2>1 DEF QueueInv, Unanswered
  <2>3. requests' = [requests EXCEPT ![e] = Tail(@)]
    BY <1>1, <1>2, <1>4
  <2> HIDE DEF e
  <2> QED BY <1>1, <1>2, <1>4, <2>2, <2>3, QueuePopped DEF RotationInv, Answer
<1> QED BY <1>3, <1>4

\* A new request goes to the end of the queue of its endpoint, and was in
\* none before.
LEMMA RequestNodeQueue ==
  ASSUME NodesTypeOK, QueueInv, NEW r \in Request, NEW e \in Endpoint, RequestNode(r, e)
  PROVE  QueueInv'
<1>1. /\ channel[r].state = "unused" /\ nodes' = nodes
      /\ channel' = [channel EXCEPT ![r].state = "open", ![r].endpoint = e]
      /\ requests' = [requests EXCEPT ![e] = Append(@, r)]
  BY DEF RequestNode
<1>2. /\ channel'[r].state = "open" /\ channel'[r].endpoint = e
      /\ channel'[r].node = channel[r].node
      /\ \A q \in Request \ {r} : channel'[q] = channel[q]
  BY <1>1 DEF NodesTypeOK, Channel
<1>3. /\ requests'[e] = Append(requests[e], r) /\ requests[e] \in Seq(Request)
      /\ \A f \in Endpoint \ {e} : requests'[f] = requests[f]
  BY <1>1 DEF NodesTypeOK
<1>4. /\ Len(requests[e]) \in Nat /\ DOMAIN requests[e] = 1 .. Len(requests[e])
      /\ DOMAIN requests'[e] = 1 .. (Len(requests[e]) + 1)
      /\ \A i \in 1 .. Len(requests[e]) : requests'[e][i] = requests[e][i]
      /\ requests'[e][Len(requests[e]) + 1] = r
  BY <1>3, AppendProperties, LenProperties
<1>5. channel[r].node = NoNode /\ \A f \in Endpoint : \A i \in DOMAIN requests[f] : requests[f][i] # r
  BY <1>1 DEF QueueInv, ChannelsSound, Unanswered
<1>6. \A f \in Endpoint : \A i \in DOMAIN requests'[f] :
        \/ i \in DOMAIN requests[f] /\ requests'[f][i] = requests[f][i]
        \/ f = e /\ i = Len(requests[e]) + 1 /\ requests'[f][i] = r
  BY <1>3, <1>4
<1>7. \A f \in Endpoint : \A i \in DOMAIN requests[f] :
        i \in DOMAIN requests'[f] /\ requests'[f][i] = requests[f][i]
  BY <1>3, <1>4
<1>8. ChannelsSound'
  BY <1>2, <1>5 DEF QueueInv, ChannelsSound
<1>9. ASSUME NEW q \in Request \ {r}
      PROVE  Waits(q)' /\ OnePlace(q)' /\ Unanswered(q)' /\ Answer(q)'
  <2>1. /\ channel'[q] = channel[q] /\ Waits(q) /\ OnePlace(q) /\ Unanswered(q) /\ Answer(q)
        /\ channel[q].state = "open" => channel[q].endpoint \in Endpoint
    BY <1>2 DEF QueueInv, ChannelsSound
  <2>2. \A f \in Endpoint : \A i \in DOMAIN requests'[f] :
          requests'[f][i] = q => i \in DOMAIN requests[f] /\ requests[f][i] = q
    BY <1>6
  <2>3. Waits(q)'
    BY <1>7, <2>1 DEF Waits
  <2>4. OnePlace(q)' /\ Unanswered(q)'
    BY <2>1, <2>2 DEF OnePlace, Unanswered
  <2>5. Answer(q)'
    BY <1>1, <2>1 DEF Answer, Announcers
  <2> QED BY <2>3, <2>4, <2>5
<1>10. Waits(r)' /\ OnePlace(r)' /\ Unanswered(r)' /\ Answer(r)'
  <2>1. \A f \in Endpoint : \A i \in DOMAIN requests'[f] :
          requests'[f][i] = r => f = e /\ i = Len(requests[e]) + 1
    BY <1>5, <1>6
  <2>2. Waits(r)'
    BY <1>2, <1>4 DEF Waits
  <2> QED BY <1>2, <1>5, <2>1, <2>2 DEF OnePlace, Unanswered, Answer
<1> QED BY <1>8, <1>9, <1>10 DEF QueueInv

\* A receiver takes its node, or is dropped.
LEMMA ReceiverQueue ==
  ASSUME NodesTypeOK, QueueInv, NEW r \in Request, TakeNode(r) \/ DropReceivers({r})
  PROVE  QueueInv'
<1>1. /\ nodes' = nodes /\ requests' = requests
      /\ \A q \in Request : /\ channel'[q].endpoint = channel[q].endpoint
                            /\ channel'[q].node = channel[q].node
                            /\ \/ channel'[q].state = channel[q].state
                               \/ channel[q].state = "sent" /\ channel'[q].state = "taken"
                               \/ /\ channel[q].state \in {"open", "sent"}
                                  /\ channel'[q].state = "closed"
  <2>1. CASE TakeNode(r)
    BY <2>1 DEF TakeNode, NodesTypeOK, Channel
  <2>2. CASE DropReceivers({r})
    BY <2>2 DEF DropReceivers, NodesTypeOK, Channel
  <2> QED BY <2>1, <2>2
<1>2. ChannelsSound'
  BY <1>1 DEF QueueInv, ChannelsSound
<1>3. ASSUME NEW q \in Request
      PROVE  Waits(q)' /\ OnePlace(q)' /\ Unanswered(q)' /\ Answer(q)'
  <2>1. Waits(q) /\ OnePlace(q) /\ Unanswered(q) /\ Answer(q)
    BY DEF QueueInv
  <2> QED BY <1>1, <2>1 DEF Waits, OnePlace, Unanswered, Answer, Announcers
<1> QED BY <1>2, <1>3 DEF QueueInv

\* Every step keeps the invariant about the queues.
LEMMA QueueStep == RotationInv /\ QueueInv /\ [NodesNext]_nodesVars => QueueInv'
<1> SUFFICES ASSUME RotationInv, QueueInv, [NodesNext]_nodesVars PROVE QueueInv'
  OBVIOUS
<1>1. CASE \E g \in Registrar, a \in Announcements : RegisterNode(g, a)
  BY <1>1, QueueKept DEF RegisterNode
<1>2. ASSUME NEW g \in Registrar, ServeRequest(g) PROVE QueueInv'
  BY <1>2, ServeRequestQueue
<1>3. ASSUME NEW g \in Registrar, NoRequestor(g) PROVE QueueInv'
  BY <1>3, NoRequestorQueue
<1>4. CASE \/ \E g \in Registrar : AddKey(g)
           \/ \E e \in Endpoint, n \in Node \cup {NoNode} : FindNode(e, n)
           \/ UNCHANGED nodesVars
  BY <1>4, QueueKept DEF AddKey, FindNode, nodesVars
<1>5. ASSUME NEW r \in Request, NEW e \in Endpoint, RequestNode(r, e) PROVE QueueInv'
  BY <1>5, RequestNodeQueue DEF RotationInv
<1>6. ASSUME NEW r \in Request, TakeNode(r) \/ DropReceivers({r}) PROVE QueueInv'
  BY <1>6, ReceiverQueue DEF RotationInv
<1> QED BY <1>1, <1>2, <1>3, <1>4, <1>5, <1>6 DEF NodesNext

\* A request waits in exactly one place until it is answered, and then in
\* none, whatever announcements, requests and aborts interleave; the node it
\* gets is registered and announced the endpoint.
THEOREM RequestsAreQueuedOnce == NodesSpec => []RequestsQueuedOnce
BY QueueInvImplies, RotationInit, RotationStep, QueueInit, QueueStep, PTL DEF NodesSpec
=============================================================================
