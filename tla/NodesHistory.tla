--------------------------- MODULE NodesHistory ---------------------------
(***************************************************************************)
(* NodesManagement with two history variables, which the code does not     *)
(* have, for the properties that relate a state to the steps before it.    *)
(***************************************************************************)
EXTENDS NodesManagement, SequencesExt

VARIABLES
  picked,  \* endpoint -> nodes find_node returned since the rotation grew
  first    \* node -> endpoints of the announcement that registered it first

hvars == <<nodes, capabilities, node_indices, requests, channel, registering, picked, first>>

HInit ==
  /\ NodesInit
  /\ picked = [e \in Endpoint |-> <<>>]
  /\ first = [n \in Node |-> {}]

Unrecorded == UNCHANGED <<picked, first>>

HRegisterNode(g, a) ==
  /\ RegisterNode(g, a)
  /\ first' = IF a.id \in nodes THEN first
              ELSE [first EXCEPT ![a.id] = ToSet(a.capabilities)]
  /\ UNCHANGED picked

HAddKey(g) ==
  /\ AddKey(g)
  /\ picked' = [picked EXCEPT ![CurrentCapability(g)] = <<>>]
  /\ UNCHANGED first

HFindNode(e, n) ==
  /\ FindNode(e, n)
  /\ picked' = IF n = NoNode THEN picked ELSE [picked EXCEPT ![e] = Append(@, n)]
  /\ UNCHANGED first

HNext ==
  \/ \E g \in Registrar, a \in Announcements : HRegisterNode(g, a)
  \/ \E g \in Registrar : HAddKey(g)
  \/ \E e \in Endpoint, n \in Node \cup {NoNode} : HFindNode(e, n)
  \/ \E g \in Registrar : ServeRequest(g) /\ Unrecorded
  \/ \E g \in Registrar : NoRequestor(g) /\ Unrecorded
  \/ \E r \in Request, e \in Endpoint : RequestNode(r, e) /\ Unrecorded
  \/ \E r \in Request : TakeNode(r) /\ Unrecorded
  \/ \E r \in Request : DropReceivers({r}) /\ Unrecorded

HSpec == HInit /\ [][HNext]_hvars

\* While the rotation of an endpoint does not grow, the picks are balanced:
\* a node has its next turn only after every other node had one, whatever
\* registrations and picks for other endpoints run at the same time.
RoundRobinFair ==
  \A e \in Endpoint : \A i, j \in DOMAIN picked[e] :
    i < j /\ picked[e][i] = picked[e][j] => j - i >= Len(capabilities[e])

\* A capability of the announcement that registered a node is not forgotten:
\* the node is in the rotation, or it was spent on a request for that
\* endpoint (which is why it is not in the rotation), or a registration
\* still has the capability to handle.
FirstAnnouncementAccounted ==
  \A n \in Node : \A e \in first[n] :
    \/ n \in ToSet(capabilities[e])
    \/ \E r \in Request : channel[r].node = n /\ channel[r].endpoint = e
    \/ \E g \in Registrar : /\ registering[g].node = n
                            /\ ~registering[g].exists
                            /\ e \in ToSet(registering[g].left)
=============================================================================
