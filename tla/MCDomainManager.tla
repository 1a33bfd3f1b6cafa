-------------------------- MODULE MCDomainManager --------------------------
(***************************************************************************)
(* Small instances of DomainManager.                                       *)
(***************************************************************************)
EXTENDS DomainManager, TLC

CONSTANTS a, b, c, job, n1, n2, ep, other, p1, p2, p3, r1, r2, r3, g1

\* A job of one task, of a task and one that needs it, and of two tasks and
\* one that needs both.

ChainNeeds == (a :> {}) @@ (b :> {a})
ChainEndpoints == (a :> ep) @@ (b :> ep)
ChainAlways == (a :> "ALWAYS") @@ (b :> "ALWAYS")
ChainJob == (job :> <<a, b>>)
PairNeeds == (a :> {}) @@ (b :> {})

JoinNeeds == (a :> {}) @@ (b :> {}) @@ (c :> {a, b})
JoinEndpoints == (a :> ep) @@ (b :> ep) @@ (c :> ep)
JoinAlways == (a :> "ALWAYS") @@ (b :> "ALWAYS") @@ (c :> "ALWAYS")
JoinJob == (job :> <<a, b, c>>)

Announce1 == {[id |-> n1, capabilities |-> <<ep>>]}
Announce2 == {[id |-> n, capabilities |-> <<ep>>] : n \in {n1, n2}}

\* What executions report: success, success reported twice (the second report
\* need not arrive), starting first, failure, and a wish to be retried.
Succeeds == {<<"DONE">>}
ReportsTwice == {<<"DONE", "DONE">>}
StartsAndSucceeds == {<<"STARTED", "DONE">>}
MayFail == {<<"DONE">>, <<"FAILED">>}
MayRetry == {<<"STARTED", "DONE">>, <<"RETRY">>, <<"FAILED">>}

Symmetric == Permutations(Thread) \cup Permutations(Request)
=============================================================================
