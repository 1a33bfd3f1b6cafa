------------------------------ MODULE TaskDag ------------------------------
(***************************************************************************)
(* What a job promises whoever writes its task list (`needs', "List of     *)
(* dependent task names" in task.proto): a task is sent to a node only     *)
(* when every task it needs was completed, and a task completes only after *)
(* it was sent.                                                            *)
(***************************************************************************)
CONSTANTS Task, Needs

VARIABLES
  sent,      \* tasks that were sent to a node
  finished   \* tasks whose completion was accepted

Init == sent = {} /\ finished = {}

Send(t) ==
  /\ Needs[t] \subseteq finished
  /\ sent' = sent \cup {t}
  /\ UNCHANGED finished

Finish(t) ==
  /\ t \in sent
  /\ finished' = finished \cup {t}
  /\ UNCHANGED sent

Next == \E t \in Task : Send(t) \/ Finish(t)

Spec == Init /\ [][Next]_<<sent, finished>>
=============================================================================
