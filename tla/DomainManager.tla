--------------------------- MODULE DomainManager ---------------------------
(***************************************************************************)
(* The domain manager, core/examples/domain-manager/src/main.rs: the       *)
(* select! loop of start, the threads it spawns for submitted jobs         *)
(* (accept_job), for reports that arrive over pubsub (update_task), for    *)
(* announcements of nodes (register_node) and for tasks to run (run_task), *)
(* over TasksManagement and NodesManagement.                               *)
(*                                                                         *)
(* Outside of the manager: clients submit jobs, nodes announce themselves, *)
(* and a node that was given a task executes it and reports.  Reports      *)
(* arrive in the order they were sent, but each is handled by a thread of  *)
(* its own.                                                                *)
(***************************************************************************)
EXTENDS TasksManagement, SequencesExt

CONSTANTS
  Job,            \* job ids
  JobTasks,       \* job -> the tasks of its request, in order
  NeedsOutputs,   \* tasks whose input is built from the dependencies' outputs
  Executions,     \* the sequences of statuses an execution may report
  MaxSubmits,     \* bound: job submissions
  MaxAnnounces,   \* bound: announcements handled
  MaxSendErrors,  \* bound: handshakes and publications that fail
  MaxHangups,     \* bound: clients that are gone when the response is written
  MaxDispatches,  \* bound: times a task is sent to a node
  Monitored       \* whether monitor streams arrive

ASSUME JobsAssumption == JobTasks \in [Job -> Seq(Task)]
\* A task's id begins with its job's, which is a hash of the request.
ASSUME IdsAssumption ==
  \A i, j \in Job : i # j => ToSet(JobTasks[i]) \cap ToSet(JobTasks[j]) = {}
ASSUME ExecutionsAssumption == Executions \subseteq Seq(Status) \ {<<>>}
\* Nodes report how far they are (in this repository STARTED, DONE or FAILED);
\* that a task waits for one is written by the manager only.
ASSUME ReportsAssumption ==
  \A e \in Executions : \A i \in DOMAIN e : e[i] # "WAITING_FOR_RESOURCE"

VARIABLES
  main,         \* where the select! loop is
  thread,       \* thread -> what it was spawned for
  executing,    \* task -> for each time it was sent, where and the reports to come
  spent,        \* how much of each bound was used
  dispatches,   \* history: task -> times it was sent to a node
  retried,      \* history: task -> times retry_task or a RETRY report queued it
  completed,    \* history: tasks whose DONE report was accepted
  lost          \* history: tasks that a step below is known to drop

loopVars == <<main, thread, executing, spent>>
historyVars == <<dispatches, retried, completed, lost>>
vars == <<nodesVars, tasksVars, loopVars, historyVars>>

-----------------------------------------------------------------------------
\* at: how far the thread's own function is; accepted: the vector `tasks' of
\* accept_job; snapshot, inputs: run_task's clone and the dependencies whose
\* output it still has to read.
ThreadState ==
  [kind : {"idle", "accept", "update", "run"},
   at : {"calling", "respond", "reject", "inputs", "failing"},
   job : Job \cup {NoId}, index : Nat, accepted : Seq(Task), task : Task \cup {NoId},
   snapshot : TaskHandler \cup {NoTask}, inputs : SUBSET Task]

Idle == [kind |-> "idle", at |-> "calling", job |-> NoId, index |-> 0,
         accepted |-> <<>>, task |-> NoId, snapshot |-> NoTask, inputs |-> {}]

DomainManagerTypeOK ==
  /\ NodesTypeOK /\ TasksTypeOK
  /\ main \in {"select", "sleep"}
  /\ thread \in [Thread -> ThreadState]
  /\ executing \in [Task -> Seq([node : Node, left : Seq(Status) \ {<<>>}])]
  /\ spent \in [{"submits", "announces", "errors", "hangups"} -> Nat]
  /\ dispatches \in [Task -> Nat] /\ retried \in [Task -> Nat]
  /\ completed \subseteq Task /\ lost \subseteq Task

Init ==
  /\ NodesInit /\ TasksInit
  /\ main = "select"
  /\ thread = [p \in Thread |-> Idle]
  /\ executing = [t \in Task |-> <<>>]
  /\ spent = [submits |-> 0, announces |-> 0, errors |-> 0, hangups |-> 0]
  /\ dispatches = [t \in Task |-> 0]
  /\ retried = [t \in Task |-> 0]
  /\ completed = {}
  /\ lost = {}

-----------------------------------------------------------------------------
\* select! has another branch ready: the future of get_next_task is dropped,
\* and with it an id it has popped and not returned.
AnotherBranch ==
  /\ main = "select"
  /\ CancelNextTask
  /\ lost' = lost \cup ({popped} \ {NoId})

Spawn(p, state, c) ==
  /\ thread[p] = Idle
  /\ thread' = [thread EXCEPT ![p] = state]
  /\ call' = [call EXCEPT ![p] = c]

Ends(p) == thread' = [thread EXCEPT ![p] = Idle] /\ call' = [call EXCEPT ![p] = NoCall]

\* A job stream: accept_job reads the request and validates its first task.
JobArrives(p, j) ==
  /\ AnotherBranch
  /\ spent.submits < MaxSubmits
  /\ spent' = [spent EXCEPT !.submits = @ + 1]
  /\ IF JobTasks[j] = <<>>
     THEN Spawn(p, [Idle EXCEPT !.kind = "accept", !.at = "respond", !.job = j], NoCall)
     ELSE Spawn(p, [Idle EXCEPT !.kind = "accept", !.job = j, !.index = 1],
                ValidateCall(JobTasks[j][1]))
  /\ UNCHANGED <<tasks, task_queue, tasksLock, recruiter, main, executing>>
  /\ UNCHANGED <<dispatches, retried, completed>> /\ UNCHANGED nodesVars

\* A node announces itself.
NodeAnnounced(g, a) ==
  /\ AnotherBranch
  /\ spent.announces < MaxAnnounces
  /\ spent' = [spent EXCEPT !.announces = @ + 1]
  /\ RegisterNode(g, a)
  /\ UNCHANGED <<tasks, task_queue, tasksLock, recruiter, call, main, thread, executing>>
  /\ UNCHANGED <<dispatches, retried, completed>>

\* What an execution publishes: the task as it was sent, with a status and,
\* when it is done or has failed, an output.
ExecutionReport(n, s) ==
  [status |-> s, receiver |-> n,
   output |-> IF s = "DONE" THEN "result" ELSE IF s = "FAILED" THEN "error" ELSE "none"]

\* The next report of one of the task's executions.
ReportArrives(p, t, i) ==
  /\ AnotherBranch
  /\ i \in DOMAIN executing[t]
  /\ LET e == executing[t][i]
     IN  /\ executing' = [executing EXCEPT ![t] =
              IF Len(e.left) = 1 THEN RemoveAt(@, i) ELSE [@ EXCEPT ![i].left = Tail(e.left)]]
         /\ Spawn(p, [Idle EXCEPT !.kind = "update"],
                  UpdateCall(t, ExecutionReport(e.node, Head(e.left))))
  /\ UNCHANGED <<tasks, task_queue, tasksLock, recruiter, main, spent>>
  /\ UNCHANGED <<dispatches, retried, completed>> /\ UNCHANGED nodesVars

\* Anything else select! waits for, such as a report of an unknown task.
OtherEvent ==
  /\ popped # NoId
  /\ AnotherBranch
  /\ UNCHANGED <<tasks, task_queue, tasksLock, recruiter, call, loopVars>>
  /\ UNCHANGED <<dispatches, retried, completed>> /\ UNCHANGED nodesVars

\* get_next_task: it starts with the queue, and may have to wait after that.
PopTask ==
  /\ main = "select"
  /\ PopNextTask
  /\ UNCHANGED <<loopVars, historyVars>>

\* It returned a task: run_task gets the clone.  It returned None, because the
\* task is gone or there was none: the loop sleeps.
RunNextTask(p) ==
  LET t == popped
  IN  /\ main = "select"
      /\ TakeNextTask
      /\ IF Present(t)
         THEN /\ Spawn(p, [Idle EXCEPT !.kind = "run", !.at = "inputs", !.task = t,
                             !.snapshot = tasks[t],
                             !.inputs = IF t \in NeedsOutputs THEN DOMAIN tasks[t].deps
                                        ELSE {}], NoCall)
              /\ UNCHANGED main
         ELSE main' = "sleep" /\ UNCHANGED <<thread, call>>
      /\ UNCHANGED <<executing, spent, historyVars>>

NothingToRun ==
  /\ main = "select" /\ QueueFree /\ task_queue = <<>>
  /\ main' = "sleep"
  /\ UNCHANGED <<nodesVars, tasksVars, thread, executing, spent, historyVars>>

WakeUp ==
  /\ main = "sleep" /\ main' = "select"
  /\ UNCHANGED <<nodesVars, tasksVars, thread, executing, spent, historyVars>>

-----------------------------------------------------------------------------
\* accept_job.  After each validate_task: the next task, or the response.
Accepting(p) == thread[p].kind = "accept"

AcceptNext(p) ==
  LET th   == thread[p]
      list == JobTasks[th.job]
      acc  == IF call[p].ready THEN Append(th.accepted, list[th.index]) ELSE th.accepted
  IN  /\ Accepting(p) /\ th.at = "calling" /\ At(p, "returned")
      /\ IF ~call[p].ok
           THEN /\ thread' = [thread EXCEPT ![p].at = "reject"]
                /\ call' = [call EXCEPT ![p] = NoCall]
         ELSE IF th.index = Len(list)
           THEN /\ thread' = [thread EXCEPT ![p].at = "respond", ![p].accepted = acc]
                /\ call' = [call EXCEPT ![p] = NoCall]
         ELSE /\ thread' = [thread EXCEPT ![p].index = @ + 1, ![p].accepted = acc]
              /\ call' = [call EXCEPT ![p] = ValidateCall(list[th.index + 1])]
      /\ UNCHANGED <<tasks, task_queue, popped, tasksLock, recruiter>>
      /\ UNCHANGED <<main, executing, spent, historyVars>> /\ UNCHANGED nodesVars

\* The response is written, then the tasks are queued.
AcceptJob(p) ==
  /\ Accepting(p) /\ thread[p].at = "respond"
  /\ PushTasks(thread[p].accepted)
  /\ Ends(p)
  /\ UNCHANGED <<main, executing, spent, historyVars>>

\* The response is written, then what the job has in the table is removed.
RejectJob(p) ==
  /\ Accepting(p) /\ thread[p].at = "reject"
  /\ RemoveJob(ToSet(JobTasks[thread[p].job]))
  /\ Ends(p)
  /\ UNCHANGED <<main, executing, spent, historyVars>>

\* Writing the response fails: expect() ends the thread there.
ClientHangsUp(p) ==
  /\ Accepting(p) /\ thread[p].at \in {"respond", "reject"}
  /\ spent.hangups < MaxHangups
  /\ spent' = [spent EXCEPT !.hangups = @ + 1]
  /\ Ends(p)
  /\ lost' = lost \cup ToSet(thread[p].accepted)
  /\ UNCHANGED <<tasks, task_queue, popped, tasksLock, recruiter, main, executing>>
  /\ UNCHANGED <<dispatches, retried, completed>> /\ UNCHANGED nodesVars

\* unwrap() of a task that was removed meanwhile ends accept_job's thread.
AcceptPanics(p) ==
  /\ At(p, "panicked")
  /\ Ends(p)
  /\ lost' = lost \cup ToSet(thread[p].accepted)
  /\ UNCHANGED <<tasks, task_queue, popped, tasksLock, recruiter, main, executing, spent>>
  /\ UNCHANGED <<dispatches, retried, completed>> /\ UNCHANGED nodesVars

\* The thread of a report ends with update_task.
UpdateEnds(p) ==
  /\ thread[p].kind = "update" /\ At(p, "returned")
  /\ Ends(p)
  /\ UNCHANGED <<tasks, task_queue, popped, tasksLock, recruiter>>
  /\ UNCHANGED <<main, executing, spent, historyVars>> /\ UNCHANGED nodesVars

-----------------------------------------------------------------------------
\* run_task, on the clone that get_next_task made.  The input of a task that
\* takes its dependencies' outputs is collected one get_task at a time; a
\* dependency that the clone has as not completed, or whose task or output is
\* not there (any more), ends the thread.
Running(p, at) == thread[p].kind = "run" /\ thread[p].at = at

CollectInput(p, d) ==
  LET collected == /\ thread[p].snapshot.deps[d]
                   /\ Present(d) /\ tasks[d].output # "none"
  IN  /\ Running(p, "inputs")
      /\ d \in thread[p].inputs
      /\ TasksFree
      /\ IF collected
         THEN /\ thread' = [thread EXCEPT ![p].inputs = @ \ {d}]
              /\ UNCHANGED <<call, lost>>
         ELSE Ends(p) /\ lost' = lost \cup {thread[p].task}
      /\ UNCHANGED <<tasks, task_queue, popped, tasksLock, recruiter>>
      /\ UNCHANGED <<main, executing, spent, dispatches, retried, completed>>
      /\ UNCHANGED nodesVars

ReadyToSend(p) == Running(p, "inputs") /\ thread[p].inputs = {}

\* receiver.unwrap() of a clone without receiver.
NoReceiver(p) ==
  /\ ReadyToSend(p) /\ thread[p].snapshot.receiver = NoNode
  /\ Ends(p)
  /\ lost' = lost \cup {thread[p].task}
  /\ UNCHANGED <<tasks, task_queue, popped, tasksLock, recruiter>>
  /\ UNCHANGED <<main, executing, spent, dispatches, retried, completed>>
  /\ UNCHANGED nodesVars

\* The handshake, or the publication on the job's topic, succeeded: the node
\* starts, and the clone's task is written back as PENDING.
SendTask(p) ==
  LET t == thread[p].task
      n == thread[p].snapshot.receiver
  IN  /\ ReadyToSend(p) /\ n # NoNode
      /\ dispatches[t] < MaxDispatches
      /\ dispatches' = [dispatches EXCEPT ![t] = @ + 1]
      /\ \E reports \in Executions :
           executing' = [executing EXCEPT ![t] = Append(@, [node |-> n, left |-> reports])]
      /\ thread' = [thread EXCEPT ![p] = [Idle EXCEPT !.kind = "run"]]
      /\ call' = [call EXCEPT ![p] = UpdateCall(t,
           [status |-> "PENDING", receiver |-> n, output |-> thread[p].snapshot.output])]
      /\ UNCHANGED <<tasks, task_queue, popped, tasksLock, recruiter, main, spent>>
      /\ UNCHANGED <<retried, completed, lost>> /\ UNCHANGED nodesVars

\* It failed: the task is written back as FAILED and then retried.
SendFails(p) ==
  LET t == thread[p].task
      n == thread[p].snapshot.receiver
  IN  /\ ReadyToSend(p) /\ n # NoNode
      /\ spent.errors < MaxSendErrors
      /\ spent' = [spent EXCEPT !.errors = @ + 1]
      /\ thread' = [thread EXCEPT ![p] =
           [Idle EXCEPT !.kind = "run", !.at = "failing", !.task = t]]
      /\ call' = [call EXCEPT ![p] = UpdateCall(t,
           [status |-> "FAILED", receiver |-> n, output |-> "error"])]
      /\ UNCHANGED <<tasks, task_queue, popped, tasksLock, recruiter, main, executing>>
      /\ UNCHANGED historyVars /\ UNCHANGED nodesVars

\* update_task returned in run_task: it is over, or retry_task follows.
RunContinues(p) ==
  /\ thread[p].kind = "run" /\ At(p, "returned")
  /\ IF thread[p].at = "failing"
     THEN /\ thread' = [thread EXCEPT ![p].at = "calling"]
          /\ call' = [call EXCEPT ![p] = RetryCall(thread[p].task)]
     ELSE Ends(p)
  /\ UNCHANGED <<tasks, task_queue, popped, tasksLock, recruiter>>
  /\ UNCHANGED <<main, executing, spent, historyVars>> /\ UNCHANGED nodesVars

-----------------------------------------------------------------------------
\* Steps inside the two components, with the history they make.

\* What the Done transition leaves behind: its task, when a report or
\* run_task's late PENDING replaced the DONE before it looked, and tasks that
\* need this one and are not in the table yet, which count it as not done.
Forgotten(p) ==
  IF At(p, "done") /\ Present(TheTask(p)) /\ call'[p].pc # "notify" THEN {TheTask(p)}
  ELSE IF At(p, "notify") THEN {h \in Task : TheTask(p) \in Needs[h] /\ ~Present(h)}
  ELSE {}

InCall(p) ==
  /\ CallStep(p)
  /\ completed' = IF At(p, "done") /\ call'[p].pc = "notify"
                  THEN completed \cup {TheTask(p)} ELSE completed
  /\ retried' = IF At(p, "retryPush") THEN [retried EXCEPT ![TheTask(p)] = @ + 1]
                ELSE retried
  /\ lost' = lost \cup Forgotten(p)
  /\ UNCHANGED <<loopVars, dispatches>>

InRecruiter(r) == RecruiterStep(r) /\ UNCHANGED <<loopVars, historyVars>>

InRegistration(g) == RegisterStep(g) /\ UNCHANGED <<tasksVars, loopVars, historyVars>>

MonitorJob ==
  /\ Monitored
  /\ MonitorTasks \/ MonitorEnds
  /\ UNCHANGED <<loopVars, historyVars>>

ThreadStep(p) ==
  \/ InCall(p)
  \/ AcceptNext(p) \/ AcceptJob(p) \/ RejectJob(p) \/ AcceptPanics(p)
  \/ UpdateEnds(p)
  \/ \E d \in Task : CollectInput(p, d)
  \/ NoReceiver(p) \/ SendTask(p) \/ RunContinues(p)

LoopStep == PopTask \/ (\E p \in Thread : RunNextTask(p)) \/ NothingToRun \/ WakeUp

Arrival ==
  \/ \E p \in Thread, j \in Job : JobArrives(p, j)
  \/ \E g \in Registrar, a \in Announcements : NodeAnnounced(g, a)
  \/ OtherEvent

Next ==
  \/ LoopStep
  \/ Arrival
  \/ \E p \in Thread : ThreadStep(p) \/ SendFails(p) \/ ClientHangsUp(p)
  \/ \E p \in Thread, t \in Task : \E i \in DOMAIN executing[t] : ReportArrives(p, t, i)
  \/ \E r \in Request : InRecruiter(r)
  \/ \E g \in Registrar : InRegistration(g)
  \/ MonitorJob

Spec == Init /\ [][Next]_vars

\* A thread that is spawned runs until it ends.  A mutex of tokio is granted
\* in the order it was asked for, so a thread that finds one free again and
\* again gets it: strong fairness.  Nodes that were given a task report, and
\* select! (which polls its branches in random order) does not pass over a
\* report for ever.  No event is promised otherwise.
FairSpec ==
  /\ Spec
  /\ SF_vars(LoopStep)
  /\ \A p \in Thread : SF_vars(ThreadStep(p))
  /\ \A r \in Request : SF_vars(InRecruiter(r))
  /\ \A g \in Registrar : WF_vars(InRegistration(g))
  /\ \A t \in Task : SF_vars(\E p \in Thread : \E i \in DOMAIN executing[t] :
                                ReportArrives(p, t, i))

-----------------------------------------------------------------------------
\* Tasks are sent in the order of their needs, across every interleaving of
\* submissions, recruitments, retries and repeated reports.
Dag == INSTANCE TaskDag WITH
         sent <- {t \in Task : dispatches[t] > 0}, finished <- completed
DependencyOrder == Dag!Spec

\* Where an id is between being found ready and being sent to a node.
Accepted(t) == \E p \in Thread :
  /\ Accepting(p)
  /\ \/ t \in ToSet(thread[p].accepted)
     \/ /\ At(p, "returned") /\ call[p].ok /\ call[p].ready
        /\ t = JobTasks[thread[p].job][thread[p].index]
BeingPushed(t) ==
  \/ \E p \in Thread : At(p, "notifyPush") /\ call[p].pushing = t
  \/ \E r \in Request : recruiter[r].pc = "pushing" /\ recruiter[r].task = t
Queued(t) == t \in ToSet(task_queue) \/ popped = t
BeingRun(t) == \E p \in Thread : thread[p].kind = "run" /\
                 t \in {thread[p].task, call[p].task}

\* A task that is ready and was never sent is not forgotten: it is on its way
\* from validate_task, the Done loop or a recruiter to the queue, in the
\* queue, with the loop, or with run_task.  The only way to lose it is one of
\* the steps that `lost' records: select! cancelling get_next_task between
\* its two locks, run_task giving up, or accept_job dying.
ReadyTaskTracked ==
  \A t \in Task \ lost :
    Present(t) /\ tasks[t].status = "WAITING_FOR_RESOURCE" /\ Ready(tasks[t])
      => Accepted(t) \/ BeingPushed(t) \/ Queued(t) \/ BeingRun(t)

\* One job was submitted so far, if any, and none names a task twice.  (Of two
\* calls of validate_task that miss a task in the table, each recruits for it and
\* inserts a handler, the second over the first.)
OneSubmission == spent.submits <= 1 /\ \A j \in Job : IsInjective(JobTasks[j])

\* A task of a job submitted once that waits for a node has a thread that waits
\* for one, unless that thread came before the handler was in the table and
\* panicked.
WaitingTaskHasRecruiter ==
  OneSubmission =>
  \A t \in Task :
    /\ Present(t) /\ tasks[t].status = "WAITING_FOR_RESOURCE"
    /\ tasks[t].in_degrees = 0 /\ tasks[t].receiver = NoNode
    => \E r \in Request : /\ recruiter[r].task = t
                          /\ recruiter[r].pc \in {"spawned", "waiting", "panicked"}

\* A job that is submitted once sends a task to a node once, and once more
\* for each time it was queued to be retried: validate_task, recruiters and
\* the Done loop do not queue a task twice between them.
SentOncePerCause ==
  OneSubmission => \A t \in Task : dispatches[t] <= 1 + retried[t]

\* Jobs that can only be rejected, because the timeout of one of their tasks
\* does not parse, leave no handler when their threads have ended: in whatever
\* order two submissions insert, replace and remove the same tasks while nodes
\* are recruited for them and those that were ready too early run.  A job that
\* was submitted once, and names no task twice, leaves no thread that waits
\* for a node either (what is inserted again replaces the handle of the first).
RejectedJobLeavesNothing ==
  /\ \A j \in Job : ~(ToSet(JobTasks[j]) \subseteq ValidTimeout)
  /\ \A p \in Thread : ~Accepting(p)
  /\ spent.hangups = 0
  => /\ \A t \in Task : ~Present(t)
     /\ OneSubmission =>
          \A r \in Request : recruiter[r].pc \in {"unused", "ended", "aborted", "panicked"}

\* get_next_task keeps the queue and waits for `tasks', and a thread that
\* keeps `tasks' waits for the queue: nothing moves until an event arrives.
Embraced == popped # NoId /\ tasksLock \in Thread \cup Request

\* The recruiter of a task waits for an announcement, and none is handled.
WaitsForNode(t) ==
  /\ \A g \in Registrar : registering[g].left = <<>>
  /\ \E r \in Request : recruiter[r].task = t /\ recruiter[r].pc = "waiting"
                        /\ channel[r].state = "open"

\* A job that is accepted is executed to its end.  What may stop one of its
\* tasks is what this lists and no other order of events: a dependency that
\* does not complete, no node announcing itself, a recruiter that panicked,
\* the embrace of the two mutexes, and the steps `lost' records.
JobSettles ==
  <>[]\A t \in Task : Present(t) =>
        \/ t \in completed \cup lost
        \/ ~(Needs[t] \subseteq completed)
        \/ WaitsForNode(t)
        \/ \E r \in Request : recruiter[r].task = t /\ recruiter[r].pc = "panicked"
        \/ Embraced

=============================================================================
