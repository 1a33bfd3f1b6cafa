------------------------- MODULE MCNodesManagement -------------------------
(***************************************************************************)
(* Values for small instances of NodesManagement: two nodes and two        *)
(* endpoints, one node announcing first one and then both of its           *)
(* capabilities, or both nodes announcing the same endpoint.               *)
(***************************************************************************)
EXTENDS NodesManagement, TLC

CONSTANTS n1, n2, refine, store, r1, r2, r3, g1, g2

MCNode == {n1, n2}
MCEndpoint == {refine, store}
MCAnnouncements ==
  {[id |-> n1, capabilities |-> <<refine>>],
   [id |-> n1, capabilities |-> <<refine, store>>],
   [id |-> n2, capabilities |-> <<refine>>]}
OneEndpoint == {refine}
OneEndpointAnnouncements ==
  {[id |-> n, capabilities |-> <<refine>>] : n \in MCNode}

\* Registrars are interchangeable, and so are channels.
Symmetric == Permutations(Registrar) \cup Permutations(Request)
=============================================================================
