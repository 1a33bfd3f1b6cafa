-------------------------- MODULE NodesManagement --------------------------
(***************************************************************************)
(* The node registry of the domain manager,                                *)
(* core/examples/domain-manager/src/nodes_management.rs: the nodes that    *)
(* have announced themselves, the round-robin load balancer that picks one *)
(* for an endpoint, and the queues of requests that wait for one.          *)
(*                                                                         *)
(* register_node runs in a thread of its own for each announcement and     *)
(* takes its three mutexes one after the other, so it is three kinds of    *)
(* steps here.  find_node and request_node hold what they need throughout  *)
(* and are one step each.  A oneshot channel is the record channel[r].     *)
(***************************************************************************)
EXTENDS Naturals, Sequences, Functions

CONSTANTS
  Node,           \* node (peer) identifiers
  Endpoint,       \* capabilities, which are stream protocol names
  Announcements,  \* the values of Event::NewNodeRegistered that may arrive
  Registrar,      \* threads that run register_node
  Request,        \* oneshot channels made by request_node
  NoNode,         \* None in place of a node
  NoEndpoint,     \* the endpoint of a channel that was not made yet
  MaxIndex        \* bound on the cursor of an endpoint (usize in the code)

\* An announcement lists the protocols of an identify message, each once.
ASSUME AnnouncementsAssumption ==
  /\ Announcements \subseteq [id : Node, capabilities : Seq(Endpoint)]
  /\ \A a \in Announcements : IsInjective(a.capabilities)
ASSUME NoNodeAssumption == NoNode \notin Node /\ NoEndpoint \notin Endpoint
ASSUME MaxIndexAssumption == MaxIndex \in Nat

VARIABLES
  nodes,         \* ids of the registered nodes
  capabilities,  \* endpoint -> ids in rotation, <<>> where the map has no key
  node_indices,  \* endpoint -> cursor of the rotation
  requests,      \* endpoint -> queue of senders, <<>> where there is no key
  channel,       \* request -> its oneshot channel
  registering    \* registrar -> the register_node call it runs

nodesVars == <<nodes, capabilities, node_indices, requests, channel, registering>>

-----------------------------------------------------------------------------
\* left: capabilities still to be handled (the call is over when there are
\* none); adding: the requests lock is released, add_key comes next.
Registration == [node : Node \cup {NoNode}, left : Seq(Endpoint),
                 exists : BOOLEAN, adding : BOOLEAN]

\* "closed": the receiver was dropped, with the node if one had been sent.
ChannelState == {"unused", "open", "sent", "taken", "closed"}
Channel == [state : ChannelState, endpoint : Endpoint \cup {NoEndpoint},
            node : Node \cup {NoNode}]

NodesTypeOK ==
  /\ nodes \in SUBSET Node
  /\ capabilities \in [Endpoint -> Seq(Node)]
  /\ node_indices \in [Endpoint -> Nat]
  /\ requests \in [Endpoint -> Seq(Request)]
  /\ channel \in [Request -> Channel]
  /\ registering \in [Registrar -> Registration]
  /\ \A g \in Registrar : registering[g].left # <<>> => registering[g].node \in Node

NodesInit ==
  /\ nodes = {}
  /\ capabilities = [e \in Endpoint |-> <<>>]
  /\ node_indices = [e \in Endpoint |-> 0]
  /\ requests = [e \in Endpoint |-> <<>>]
  /\ channel = [r \in Request |->
                  [state |-> "unused", endpoint |-> NoEndpoint, node |-> NoNode]]
  /\ registering = [g \in Registrar |->
                  [node |-> NoNode, left |-> <<>>, exists |-> FALSE, adding |-> FALSE]]

-----------------------------------------------------------------------------
\* Mutant: `exists' is looked up in the rotation, not decided by the insert.
RegisterNodeByRotation(g, a) ==
  /\ registering[g].left = <<>>
  /\ registering' = [registering EXCEPT ![g] =
       [node |-> a.id, left |-> a.capabilities, adding |-> FALSE,
        exists |-> \E e \in Endpoint : a.id \in Range(capabilities[e])]]
  /\ nodes' = nodes \cup {a.id}
  /\ UNCHANGED <<capabilities, node_indices, requests, channel>>

\* register_node up to drop(nodes): the node is stored, exists remembers
\* whether it was stored before.
RegisterNode(g, a) ==
  /\ registering[g].left = <<>>
  /\ registering' = [registering EXCEPT ![g] =
       [node |-> a.id, left |-> a.capabilities, exists |-> a.id \in nodes,
        adding |-> FALSE]]
  /\ nodes' = nodes \cup {a.id}
  /\ UNCHANGED <<capabilities, node_indices, requests, channel>>

CurrentCapability(g) == Head(registering[g].left)

NextCapability(g) ==
  registering' = [registering EXCEPT ![g] =
    [node |-> @.node, left |-> Tail(@.left), exists |-> @.exists, adding |-> FALSE]]

HasLiveRequest(e) ==
  requests[e] # <<>> /\ channel[Head(requests[e])].state = "open"

\* Mutant: the request is looked at, not taken from the queue.
ServeRequestPeeks(g) ==
  /\ registering[g].left # <<>>
  /\ ~registering[g].adding
  /\ LET e == CurrentCapability(g)
         r == Head(requests[e])
     IN  /\ HasLiveRequest(e)
         /\ channel' = [channel EXCEPT ![r] =
              [state |-> "sent", endpoint |-> @.endpoint, node |-> registering[g].node]]
  /\ NextCapability(g)
  /\ UNCHANGED <<nodes, capabilities, node_indices, requests>>

\* The oldest request gets the node, and `continue` skips add_key.
ServeRequest(g) ==
  /\ registering[g].left # <<>>
  /\ ~registering[g].adding
  /\ LET e == CurrentCapability(g)
         r == Head(requests[e])
     IN  /\ HasLiveRequest(e)
         /\ requests' = [requests EXCEPT ![e] = Tail(@)]
         /\ channel' = [channel EXCEPT ![r] =
              [state |-> "sent", endpoint |-> @.endpoint, node |-> registering[g].node]]
  /\ NextCapability(g)
  /\ UNCHANGED <<nodes, capabilities, node_indices>>

\* Mutant: a dead request stays at the head of the queue.
NoRequestorPeeks(g) ==
  /\ registering[g].left # <<>>
  /\ ~registering[g].adding
  /\ ~HasLiveRequest(CurrentCapability(g))
  /\ IF registering[g].exists
     THEN NextCapability(g)
     ELSE registering' = [registering EXCEPT ![g].adding = TRUE]
  /\ UNCHANGED <<nodes, capabilities, node_indices, requests, channel>>

\* Mutant: `continue' also when the request that was popped is dead.
NoRequestorContinues(g) ==
  /\ registering[g].left # <<>>
  /\ ~registering[g].adding
  /\ LET e == CurrentCapability(g)
     IN  /\ ~HasLiveRequest(e)
         /\ requests' = [requests EXCEPT ![e] = IF @ = <<>> THEN @ ELSE Tail(@)]
         /\ IF registering[g].exists \/ requests[e] # <<>>
            THEN NextCapability(g)
            ELSE registering' = [registering EXCEPT ![g].adding = TRUE]
  /\ UNCHANGED <<nodes, capabilities, node_indices, channel>>

\* Nobody waits, or the one request that is popped has lost its receiver.
NoRequestor(g) ==
  /\ registering[g].left # <<>>
  /\ ~registering[g].adding
  /\ LET e == CurrentCapability(g)
     IN  /\ ~HasLiveRequest(e)
         /\ requests' = [requests EXCEPT ![e] = IF @ = <<>> THEN @ ELSE Tail(@)]
  /\ IF registering[g].exists
     THEN NextCapability(g)
     ELSE registering' = [registering EXCEPT ![g].adding = TRUE]
  /\ UNCHANGED <<nodes, capabilities, node_indices, channel>>

\* RoundRobin::add_key under the load balancer's lock.  The cursor of an
\* endpoint is created as 0, which it is since Init.
AddKey(g) ==
  /\ registering[g].left # <<>>
  /\ registering[g].adding
  /\ capabilities' = [capabilities EXCEPT
       ![CurrentCapability(g)] = Append(@, registering[g].node)]
  /\ NextCapability(g)
  /\ UNCHANGED <<nodes, node_indices, requests, channel>>

-----------------------------------------------------------------------------
\* RoundRobin::find_key: what it returns and where it leaves the cursor.
FoundNode(e) ==
  IF capabilities[e] = <<>> THEN NoNode
  ELSE LET n == capabilities[e][(node_indices[e] % Len(capabilities[e])) + 1]
       IN  IF n \in nodes THEN n ELSE NoNode

\* Mutant: the cursor stays.
FindNodeStays(e, n) ==
  /\ n = FoundNode(e)
  /\ node_indices[e] < MaxIndex
  /\ UNCHANGED nodesVars

FindNode(e, n) ==
  /\ n = FoundNode(e)
  /\ node_indices[e] < MaxIndex
  /\ node_indices' = IF n = NoNode THEN node_indices
                     ELSE [node_indices EXCEPT ![e] = @ + 1]
  /\ UNCHANGED <<nodes, capabilities, requests, channel, registering>>

RequestNode(r, e) ==
  /\ channel[r].state = "unused"
  /\ channel' = [channel EXCEPT ![r].state = "open", ![r].endpoint = e]
  /\ requests' = [requests EXCEPT ![e] = Append(@, r)]
  /\ UNCHANGED <<nodes, capabilities, node_indices, registering>>

\* rx.await returns in the thread that made the request.
TakeNode(r) ==
  /\ channel[r].state = "sent"
  /\ channel' = [channel EXCEPT ![r].state = "taken"]
  /\ UNCHANGED <<nodes, capabilities, node_indices, requests, registering>>

\* Waiting threads are aborted: their receivers are dropped, the senders stay
\* in the queues.
DropReceivers(R) ==
  /\ channel' = [r \in Request |->
       IF r \in R /\ channel[r].state \in {"open", "sent"}
       THEN [channel[r] EXCEPT !.state = "closed"] ELSE channel[r]]
  /\ UNCHANGED <<nodes, capabilities, node_indices, requests, registering>>

RegisterStep(g) == ServeRequest(g) \/ NoRequestor(g) \/ AddKey(g)

NodesNext ==
  \/ \E g \in Registrar, a \in Announcements : RegisterNode(g, a)
  \/ \E g \in Registrar : ServeRequest(g)
  \/ \E g \in Registrar : NoRequestor(g)
  \/ \E g \in Registrar : AddKey(g)
  \/ \E e \in Endpoint, n \in Node \cup {NoNode} : FindNode(e, n)
  \/ \E r \in Request, e \in Endpoint : RequestNode(r, e)
  \/ \E r \in Request : TakeNode(r)
  \/ \E r \in Request : DropReceivers({r})

NodesSpec == NodesInit /\ [][NodesNext]_nodesVars

\* The runtime keeps polling a spawned thread until it ends.  Nothing makes
\* nodes announce themselves, callers ask, or requestors give up.
NodesFairSpec ==
  NodesSpec /\ \A g \in Registrar : WF_nodesVars(RegisterStep(g))

-----------------------------------------------------------------------------
\* The nodes that may ever announce an endpoint.
Announcers(e) ==
  {a.id : a \in {b \in Announcements : \E i \in DOMAIN b.capabilities : b.capabilities[i] = e}}

\* A rotation holds registered nodes that announced its endpoint, each of
\* them once, even when one node's announcements are handled concurrently.
\* find_key relies on it: nodes.get never misses, and no node has two turns.
RotationSound ==
  \A e \in Endpoint :
    /\ \A i \in DOMAIN capabilities[e] :
         capabilities[e][i] \in nodes \cap Announcers(e)
    /\ IsInjective(capabilities[e])

Adds(g) == registering[g].left # <<>> /\ ~registering[g].exists

\* What a running call may rely on.
RegistrationSound(g) ==
  /\ registering[g].node \in nodes
  /\ IsInjective(registering[g].left)
  /\ \A i \in DOMAIN registering[g].left :
       registering[g].node \in Announcers(registering[g].left[i])
  /\ registering[g].adding => ~registering[g].exists

\* The call whose nodes.insert was the first for its node is the only one
\* that will put the node in a rotation, and has not done so for what it
\* still has to handle.  It is what makes RotationSound inductive.
FirstRegistrationOwns ==
  \A g \in Registrar :
    /\ registering[g].left # <<>> => RegistrationSound(g)
    /\ Adds(g) =>
         /\ \A i \in DOMAIN registering[g].left :
              \A j \in DOMAIN capabilities[registering[g].left[i]] :
                capabilities[registering[g].left[i]][j] # registering[g].node
         /\ \A h \in Registrar \ {g} :
              Adds(h) => registering[h].node # registering[g].node

\* A request is in the queue of its endpoint, once, as long as it was not
\* answered; a request that was answered is in no queue, so no second node
\* is spent on it, and the node it got announced the endpoint.
RequestsQueuedOnce ==
  \A r \in Request :
    /\ channel[r].state = "open" =>
         \E i \in DOMAIN requests[channel[r].endpoint] :
            requests[channel[r].endpoint][i] = r
    /\ \A e \in Endpoint : \A i, j \in DOMAIN requests[e] :
         requests[e][i] = r /\ requests[e][j] = r => i = j
    /\ \A e \in Endpoint : \A i \in DOMAIN requests[e] :
         requests[e][i] = r =>
           /\ channel[r].state \in {"open", "closed"}
           /\ channel[r].endpoint = e
           /\ channel[r].node = NoNode
    /\ channel[r].node # NoNode =>
         channel[r].node \in nodes \cap Announcers(channel[r].endpoint)

\* A registration of a node with capability e is about to look at the queue.
Offering(e) == \E g \in Registrar :
  /\ registering[g].left # <<>> /\ ~registering[g].adding
  /\ CurrentCapability(g) = e

\* A request whose requestor keeps waiting is answered if nodes with the
\* capability keep announcing themselves: dead requests ahead of it and
\* announcements that come in twice only delay it.
WaitersServed ==
  \A e \in Endpoint : ([]<>Offering(e)) =>
    \A r \in Request :
      (channel[r].state = "open" /\ channel[r].endpoint = e)
        ~> (channel[r].state # "open")
=============================================================================
