-------------------------- MODULE MCDomainCluster ---------------------------
EXTENDS DomainCluster

CONSTANTS u1, u2, c1

MCPlan == [c \in {c1} |-> <<{"handler"}, {"handler", "publish"}, {"send", "timed"}>>]
=============================================================================
