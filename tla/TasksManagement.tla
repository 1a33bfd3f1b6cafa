-------------------------- MODULE TasksManagement --------------------------
(***************************************************************************)
(* The task table of the domain manager,                                   *)
(* core/examples/domain-manager/src/tasks_management.rs, on top of the     *)
(* node registry: validate_task, update_task, retry_task, remove_job,      *)
(* push_tasks, get_next_task, the task state machine, and the threads that *)
(* recruit_node spawns to wait for a node.                                 *)
(*                                                                         *)
(* Two tokio mutexes matter: `tasks' and `task_queue'.  What the code does *)
(* between two waits for them is one step.  tasksLock names the thread     *)
(* that keeps `tasks' while it waits for something else; a step that takes *)
(* and releases it at once only needs it to be free.  Only get_next_task   *)
(* keeps `task_queue' while it waits.  call[p] is the method of this       *)
(* module that thread p is executing.                                      *)
(***************************************************************************)
EXTENDS NodesManagement, FiniteSets

CONSTANTS
  Task,          \* task ids, job_id-name
  Needs,         \* task -> the tasks its request names under `needs'
  EndpointOf,    \* task -> endpoint of its capability filters
  Policy,        \* task -> recruitment policy
  ValidTimeout,  \* tasks whose timeout parses
  MaxRetries,    \* max_retries
  Thread,        \* threads of the manager that call this module
  NoTask, NoId, NoRequest, Unlocked, Monitor

ASSUME TaskConstantsAssumption ==
  /\ Needs \in [Task -> SUBSET Task]
  /\ \A t \in Task : IsFiniteSet(Needs[t])
  /\ EndpointOf \in [Task -> Endpoint]
  /\ Policy \in [Task -> {"ALWAYS", "IF_NOT_PRESENT", "NEVER", "FAIL"}]
  /\ ValidTimeout \subseteq Task
  /\ MaxRetries \in Nat
ASSUME NullsAssumption ==
  /\ NoId \notin Task /\ NoRequest \notin Request
  /\ {Unlocked, Monitor} \cap (Thread \cup Request) = {} /\ Unlocked # Monitor
  /\ Thread \cap Request = {}

VARIABLES
  tasks,       \* task -> its handler, NoTask when the map has no such key
  task_queue,  \* ids of tasks to run
  popped,      \* id get_next_task popped; it keeps task_queue locked meanwhile
  tasksLock,   \* who keeps the tasks mutex across a wait
  recruiter,   \* request -> the thread spawned to wait for it
  call         \* thread -> the method it is in

tasksVars == <<tasks, task_queue, popped, tasksLock, recruiter, call>>

-----------------------------------------------------------------------------
Status == {"PENDING", "STARTED", "DONE", "FAILED", "WAITING_FOR_RESOURCE",
           "RETRY", "PROCESSING"}

\* request: the recruiter whose handle is in node_request.
TaskHandler ==
  [status : Status, receiver : Node \cup {NoNode},
   output : {"none", "result", "error"},
   deps : UNION {[D -> BOOLEAN] : D \in SUBSET Task},
   in_degrees : Nat, retries : Nat, request : Request \cup {NoRequest}]

\* NoTask stands for a key the map does not have.
ASSUME NoTaskAssumption == NoTask \notin TaskHandler

\* The fields of a Task message that update_task copies into the handler.
Report == [status : Status, receiver : Node \cup {NoNode},
           output : {"none", "result", "error"}]

CallPoint == {"free", "validate", "add", "retry", "retryPush", "clone", "deps",
              "recruit", "insert", "update", "fail", "done", "notify",
              "notifyPush", "stuck", "returned", "panicked"}

\* th: handler under construction, or of a dependent to be pushed; after: what
\* follows a retry; msg: the report of update_task; todo: dependents to
\* notify; ok, ready: the result.
Call == [pc : CallPoint, task : Task \cup {NoId}, th : TaskHandler \cup {NoTask},
         after : {"clone", "returned"}, msg : Report \cup {NoTask},
         todo : SUBSET Task, pushing : Task \cup {NoId},
         ok : BOOLEAN, ready : BOOLEAN]

Recruiter == [pc : {"unused", "spawned", "waiting", "pushing", "ended",
                    "aborted", "panicked"},
              task : Task \cup {NoId}]

TasksTypeOK ==
  /\ tasks \in [Task -> TaskHandler \cup {NoTask}]
  /\ task_queue \in Seq(Task)
  /\ popped \in Task \cup {NoId}
  /\ tasksLock \in Thread \cup Request \cup {Unlocked, Monitor}
  /\ recruiter \in [Request -> Recruiter]
  /\ call \in [Thread -> Call]

NoCall == [pc |-> "free", task |-> NoId, th |-> NoTask, after |-> "returned",
           msg |-> NoTask, todo |-> {}, pushing |-> NoId, ok |-> FALSE, ready |-> FALSE]

TasksInit ==
  /\ tasks = [t \in Task |-> NoTask]
  /\ task_queue = <<>>
  /\ popped = NoId
  /\ tasksLock = Unlocked
  /\ recruiter = [r \in Request |-> [pc |-> "unused", task |-> NoId]]
  /\ call = [p \in Thread |-> NoCall]

-----------------------------------------------------------------------------
\* Calls.  A caller puts one of these into call[p] and reads the result there.
ValidateCall(t)  == [NoCall EXCEPT !.pc = "validate", !.task = t]
UpdateCall(t, m) == [NoCall EXCEPT !.pc = "update", !.task = t, !.msg = m]
RetryCall(t)     == [NoCall EXCEPT !.pc = "retry", !.task = t]

At(p, pc) == call[p].pc = pc
TheTask(p) == call[p].task
TasksFree == tasksLock = Unlocked
QueueFree == popped = NoId
Present(t) == tasks[t] # NoTask

Goto(p, pc) == call' = [call EXCEPT ![p].pc = pc]
Build(p, pc, th) == call' = [call EXCEPT ![p].pc = pc, ![p].th = th]
Return(p, ok, ready) ==
  call' = [call EXCEPT ![p] = [NoCall EXCEPT !.pc = "returned", !.ok = ok, !.ready = ready]]

Push(t) == task_queue' = Append(task_queue, t)

\* Mutant: a task without node counts as ready.
ReadyWithoutNode(th) == th.in_degrees = 0

Ready(th) == th.in_degrees = 0 /\ th.receiver # NoNode

NewHandler ==
  [status |-> "WAITING_FOR_RESOURCE", receiver |-> NoNode, output |-> "none",
   deps |-> [d \in {} |-> FALSE], in_degrees |-> 0, retries |-> 0,
   request |-> NoRequest]

FailedHandler(th) == [th EXCEPT !.status = "FAILED", !.output = "error", !.request = NoRequest]

\* TaskHandler::failed takes the recruiter out of node_request and aborts it,
\* which has no effect on one that has ended.
AbortRecruiters(R) ==
  /\ recruiter' = [r \in Request |->
       IF r \in R /\ recruiter[r].pc \in {"spawned", "waiting"}
       THEN [recruiter[r] EXCEPT !.pc = "aborted"] ELSE recruiter[r]]
  /\ DropReceivers(R)

-----------------------------------------------------------------------------
\* recruit_node: a registered node, an error under the FAIL policy, or a new
\* thread that waits for one.  (A handler with the FAIL policy never has a
\* recruiter, so failed() aborts nothing here.)
Recruitments(t, th) ==
  LET n == FoundNode(EndpointOf[t])
  IN  IF n # NoNode
        THEN {[th |-> [th EXCEPT !.receiver = n], spawned |-> NoRequest, ok |-> TRUE]}
      ELSE IF Policy[t] = "FAIL"
        THEN {[th |-> FailedHandler(th), spawned |-> NoRequest, ok |-> FALSE]}
      ELSE {[th |-> [th EXCEPT !.receiver = NoNode, !.request = r],
             spawned |-> r, ok |-> TRUE] :
             r \in {q \in Request : recruiter[q].pc = "unused"}}

\* Mutant: the thread is not spawned.
RecruitNodeLazily(t, outcome) ==
  /\ FindNode(EndpointOf[t], FoundNode(EndpointOf[t]))
  /\ UNCHANGED recruiter

RecruitNode(t, outcome) ==
  /\ FindNode(EndpointOf[t], FoundNode(EndpointOf[t]))
  /\ recruiter' = IF outcome.spawned = NoRequest THEN recruiter
                  ELSE [recruiter EXCEPT ![outcome.spawned] = [pc |-> "spawned", task |-> t]]

\* The spawned thread: request_node, then rx.await.
RecruiterRequest(r) ==
  /\ recruiter[r].pc = "spawned"
  /\ RequestNode(r, EndpointOf[recruiter[r].task])
  /\ recruiter' = [recruiter EXCEPT ![r].pc = "waiting"]
  /\ UNCHANGED <<tasks, task_queue, popped, tasksLock, call>>

\* With the node and the tasks mutex: expect("Task not found") may panic.
\* resource_recruited takes the handle out of whatever handler is there.
RecruiterResume(r) ==
  LET t == recruiter[r].task
  IN  /\ recruiter[r].pc = "waiting"
      /\ TasksFree
      /\ TakeNode(r)
      /\ IF Present(t)
         THEN /\ tasks' = [tasks EXCEPT ![t].receiver = channel[r].node,
                                        ![t].request = NoRequest]
              /\ tasksLock' = r
              /\ recruiter' = [recruiter EXCEPT ![r].pc = "pushing"]
         ELSE /\ recruiter' = [recruiter EXCEPT ![r].pc = "panicked"]
              /\ UNCHANGED <<tasks, tasksLock>>
      /\ UNCHANGED <<task_queue, popped, call>>

\* It still holds the tasks mutex while it waits for the queue.
RecruiterPush(r) ==
  /\ recruiter[r].pc = "pushing"
  /\ QueueFree
  /\ Push(recruiter[r].task)
  /\ tasksLock' = Unlocked
  /\ recruiter' = [recruiter EXCEPT ![r].pc = "ended"]
  /\ UNCHANGED <<tasks, popped, call>> /\ UNCHANGED nodesVars

-----------------------------------------------------------------------------
\* validate_task.  A task that is there and waits or is done is answered from
\* its handler; for one that is running or has failed the state machine
\* decides first, after the mutex was released.
ValidateTask(p) ==
  LET t == TheTask(p)
  IN  /\ At(p, "validate")
      /\ \/ t \notin ValidTimeout /\ Return(p, FALSE, FALSE)
         \/ /\ t \in ValidTimeout
            /\ TasksFree
            /\ IF ~Present(t)
                 THEN Build(p, IF Needs[t] = {} THEN "recruit" ELSE "deps", NewHandler)
               ELSE IF tasks[t].status = "WAITING_FOR_RESOURCE"
                 THEN Return(p, TRUE, Ready(tasks[t]))
               ELSE IF tasks[t].status = "DONE"
                 THEN Return(p, TRUE, TRUE)
               ELSE Goto(p, "add")
      /\ UNCHANGED <<tasks, task_queue, popped, tasksLock, recruiter>>
      /\ UNCHANGED nodesVars

\* TaskAction::Add.
AddTask(p) ==
  LET t == TheTask(p)
  IN  /\ At(p, "add")
      /\ TasksFree
      /\ IF ~Present(t) THEN Return(p, FALSE, FALSE)
         ELSE IF tasks[t].status \in {"STARTED", "PROCESSING", "PENDING"}
           THEN Return(p, FALSE, FALSE)
         ELSE IF tasks[t].status \in {"WAITING_FOR_RESOURCE", "DONE"}
           THEN Goto(p, "clone")
         ELSE call' = [call EXCEPT ![p].pc = "retry", ![p].after = "clone"]
      /\ UNCHANGED <<tasks, task_queue, popped, tasksLock, recruiter>>
      /\ UNCHANGED nodesVars

\* validate_task's tasks.get(&id).unwrap().clone(), under a new lock: the
\* clone is worked on, and written back later, without the lock.
CloneHandler(p) ==
  LET t == TheTask(p)
  IN  /\ At(p, "clone")
      /\ TasksFree
      /\ IF Present(t)
         THEN Build(p, IF Needs[t] # {} THEN "deps"
                       ELSE IF tasks[t].in_degrees = 0 THEN "recruit" ELSE "insert", tasks[t])
         ELSE Goto(p, "panicked")
      /\ UNCHANGED <<tasks, task_queue, popped, tasksLock, recruiter>>
      /\ UNCHANGED nodesVars

\* Every need must be in the table; none of them counts as completed.
ValidateDependencies(p) ==
  LET t == TheTask(p)
  IN  /\ At(p, "deps")
      /\ TasksFree
      /\ IF \A d \in Needs[t] : Present(d)
         THEN Build(p, "insert", [call[p].th EXCEPT
                !.deps = [d \in Needs[t] |-> FALSE],
                !.in_degrees = Cardinality(Needs[t])])
         ELSE Return(p, FALSE, FALSE)
      /\ UNCHANGED <<tasks, task_queue, popped, tasksLock, recruiter>>
      /\ UNCHANGED nodesVars

\* A task without needs is recruited for before it is in the table.
RecruitForNew(p) ==
  /\ At(p, "recruit")
  /\ \E o \in Recruitments(TheTask(p), call[p].th) :
       /\ RecruitNode(TheTask(p), o)
       /\ IF o.ok THEN Build(p, "insert", o.th) ELSE Return(p, FALSE, FALSE)
  /\ UNCHANGED <<tasks, task_queue, popped, tasksLock>>

InsertTask(p) ==
  /\ At(p, "insert")
  /\ TasksFree
  /\ tasks' = [tasks EXCEPT ![TheTask(p)] = call[p].th]
  /\ Return(p, TRUE, Ready(call[p].th))
  /\ UNCHANGED <<task_queue, popped, tasksLock, recruiter>>
  /\ UNCHANGED nodesVars

-----------------------------------------------------------------------------
AfterReport(p, status) ==
  CASE status = "RETRY"  -> Goto(p, "retry")
    [] status = "FAILED" -> Goto(p, "fail")
    [] status = "DONE"   -> Goto(p, "done")
    [] OTHER             -> Return(p, TRUE, FALSE)

\* update_task.  The report replaces the handler's task before the status is
\* looked at; the state machine runs after the mutex was released.
UpdateTask(p) ==
  LET t == TheTask(p)
      m == call[p].msg
  IN  /\ At(p, "update")
      /\ TasksFree
      /\ IF Present(t)
         THEN /\ tasks' = [tasks EXCEPT ![t].status = m.status,
                                        ![t].receiver = m.receiver,
                                        ![t].output = m.output]
              /\ AfterReport(p, m.status)
         ELSE Return(p, TRUE, FALSE) /\ UNCHANGED tasks
      /\ UNCHANGED <<task_queue, popped, tasksLock, recruiter>>
      /\ UNCHANGED nodesVars

\* TaskAction::Retry: the handler it leaves, for a failed task or one to retry.
Retried(th) ==
  IF th.retries >= MaxRetries THEN [th EXCEPT !.status = "FAILED", !.output = "error"]
  ELSE IF Ready(th) THEN [th EXCEPT !.status = "PENDING"]
  ELSE [th EXCEPT !.status = "WAITING_FOR_RESOURCE"]

AfterRetry(p) ==
  IF call[p].after = "clone" THEN Goto(p, "clone") ELSE Return(p, TRUE, FALSE)

RetryTask(p) ==
  LET t == TheTask(p)
  IN  /\ At(p, "retry")
      /\ TasksFree
      /\ IF Present(t) /\ tasks[t].status \in {"RETRY", "FAILED"}
         THEN /\ tasks' = [tasks EXCEPT ![t] = Retried(@)]
              /\ CASE tasks'[t].status = "FAILED"  -> Return(p, FALSE, FALSE)
                   [] tasks'[t].status = "PENDING" -> Goto(p, "retryPush")
                   [] OTHER                        -> AfterRetry(p)
         ELSE Return(p, FALSE, FALSE) /\ UNCHANGED tasks
      /\ UNCHANGED <<task_queue, popped, tasksLock, recruiter>>
      /\ UNCHANGED nodesVars

RetryPush(p) ==
  /\ At(p, "retryPush")
  /\ QueueFree
  /\ Push(TheTask(p))
  /\ AfterRetry(p)
  /\ UNCHANGED <<tasks, popped, tasksLock, recruiter>>
  /\ UNCHANGED nodesVars

Dependents(t) == {h \in Task : Present(h) /\ t \in DOMAIN tasks[h].deps}

\* TaskAction::Fail.  For a dependent it calls itself, which locks the mutex
\* it holds: the thread never gets further, and keeps the mutex.
FailTask(p) ==
  LET t == TheTask(p)
  IN  /\ At(p, "fail")
      /\ TasksFree
      /\ IF Present(t)
         THEN /\ tasks' = [tasks EXCEPT ![t].status = "FAILED"]
              /\ IF Dependents(t) = {}
                 THEN Return(p, TRUE, FALSE) /\ UNCHANGED tasksLock
                 ELSE Goto(p, "stuck") /\ tasksLock' = p
         ELSE Return(p, FALSE, FALSE) /\ UNCHANGED <<tasks, tasksLock>>
      /\ UNCHANGED <<task_queue, popped, recruiter>>
      /\ UNCHANGED nodesVars

\* TaskAction::Done, up to the point where the mutex is taken again.
DoneTask(p) ==
  LET t == TheTask(p)
  IN  /\ At(p, "done")
      /\ TasksFree
      /\ IF Present(t) /\ tasks[t].status \in {"PROCESSING", "STARTED", "DONE"}
         THEN /\ tasks' = [tasks EXCEPT ![t].status = "DONE"]
              /\ Goto(p, "notify")
         ELSE Return(p, FALSE, FALSE) /\ UNCHANGED tasks
      /\ UNCHANGED <<task_queue, popped, tasksLock, recruiter>>
      /\ UNCHANGED nodesVars

\* The handlers the loop over the table still has to count down: the whole
\* loop runs with the mutex held, so they are known when it is taken.
\* Mutant: also those that have counted it already.
ToNotifyAgain(t) == Dependents(t)

ToNotify(t) == {h \in Dependents(t) : ~tasks[h].deps[t]}

Notified(h, t) == [tasks[h] EXCEPT !.deps[t] = TRUE, !.in_degrees = @ - 1]

\* The mutex goes with the last handler, unless that one has to be pushed.
ContinueNotify(p, todo) ==
  IF todo = {}
  THEN Return(p, TRUE, FALSE) /\ tasksLock' = Unlocked
  ELSE /\ call' = [call EXCEPT ![p].pc = "notify", ![p].todo = todo, ![p].pushing = NoId]
       /\ tasksLock' = p

NotifyNobody(p) ==
  /\ At(p, "notify")
  /\ TasksFree
  /\ ToNotify(TheTask(p)) = {}
  /\ Return(p, TRUE, FALSE)
  /\ UNCHANGED <<tasks, task_queue, popped, tasksLock, recruiter>>
  /\ UNCHANGED nodesVars

\* One handler of the loop, in the map's order, which is any order.
NotifyDependent(p, h) ==
  LET t    == TheTask(p)
      todo == IF tasksLock = p THEN call[p].todo ELSE ToNotify(t)
      th   == Notified(h, t)
  IN  /\ At(p, "notify")
      /\ tasksLock \in {Unlocked, p}
      /\ h \in todo
      /\ IF th.in_degrees # 0
         THEN /\ tasks' = [tasks EXCEPT ![h] = th]
              /\ ContinueNotify(p, todo \ {h})
              /\ UNCHANGED recruiter /\ UNCHANGED nodesVars
         ELSE \E o \in Recruitments(h, th) :
              /\ RecruitNode(h, o)
              /\ tasks' = [tasks EXCEPT ![h] = o.th]
              /\ IF o.ok /\ Ready(o.th)
                 THEN /\ call' = [call EXCEPT ![p].pc = "notifyPush",
                                   ![p].todo = todo \ {h}, ![p].pushing = h]
                      /\ tasksLock' = p
                 ELSE ContinueNotify(p, todo \ {h})
      /\ UNCHANGED <<task_queue, popped>>

\* It holds the tasks mutex while it waits for the queue.
NotifyPush(p) ==
  /\ At(p, "notifyPush")
  /\ QueueFree
  /\ Push(call[p].pushing)
  /\ ContinueNotify(p, call[p].todo)
  /\ UNCHANGED <<tasks, popped, recruiter>>
  /\ UNCHANGED nodesVars

-----------------------------------------------------------------------------
\* remove_job, push_tasks and monitor_tasks.  monitor_tasks keeps the mutex
\* while it writes to a client's stream.
\* Mutant: the recruiters of the job are left alone.
RemoveJobOnly(ids) ==
  /\ TasksFree
  /\ tasks' = [t \in Task |-> IF t \in ids THEN NoTask ELSE tasks[t]]
  /\ UNCHANGED <<task_queue, popped, tasksLock, recruiter>> /\ UNCHANGED nodesVars

RemoveJob(ids) ==
  /\ TasksFree
  /\ AbortRecruiters({tasks[t].request : t \in {u \in ids : Present(u)}})
  /\ tasks' = [t \in Task |-> IF t \in ids THEN NoTask ELSE tasks[t]]
  /\ UNCHANGED <<task_queue, popped, tasksLock>>

\* Mutant: the queue is replaced.
PushTasksReplaces(ids) ==
  /\ QueueFree
  /\ task_queue' = ids
  /\ UNCHANGED <<tasks, popped, tasksLock, recruiter>>
  /\ UNCHANGED nodesVars

PushTasks(ids) ==
  /\ QueueFree
  /\ task_queue' = task_queue \o ids
  /\ UNCHANGED <<tasks, popped, tasksLock, recruiter>>
  /\ UNCHANGED nodesVars

MonitorTasks ==
  /\ TasksFree /\ tasksLock' = Monitor
  /\ UNCHANGED <<tasks, task_queue, popped, recruiter, call>> /\ UNCHANGED nodesVars

MonitorEnds ==
  /\ tasksLock = Monitor /\ tasksLock' = Unlocked
  /\ UNCHANGED <<tasks, task_queue, popped, recruiter, call>> /\ UNCHANGED nodesVars

\* get_next_task pops an id and, keeping the queue, waits for the tasks mutex;
\* then it clones the handler.  select! may drop it in between.
PopNextTask ==
  /\ QueueFree /\ task_queue # <<>>
  /\ popped' = Head(task_queue)
  /\ task_queue' = Tail(task_queue)
  /\ UNCHANGED <<tasks, tasksLock, recruiter, call>> /\ UNCHANGED nodesVars

TakeNextTask ==
  /\ popped # NoId /\ TasksFree
  /\ popped' = NoId
  /\ UNCHANGED <<tasks, task_queue, tasksLock, recruiter>> /\ UNCHANGED nodesVars

CancelNextTask == popped' = NoId

-----------------------------------------------------------------------------
\* The steps threads take inside this module.
CallStep(p) ==
  \/ ValidateTask(p) \/ AddTask(p) \/ CloneHandler(p) \/ ValidateDependencies(p)
  \/ RecruitForNew(p) \/ InsertTask(p)
  \/ UpdateTask(p) \/ RetryTask(p) \/ RetryPush(p) \/ FailTask(p) \/ DoneTask(p)
  \/ NotifyNobody(p) \/ (\E h \in Task : NotifyDependent(p, h)) \/ NotifyPush(p)

RecruiterStep(r) == RecruiterRequest(r) \/ RecruiterResume(r) \/ RecruiterPush(r)

\* in_degrees is the number of dependencies not yet completed, in the table
\* and in every handler that validate_task is about to write into it.  The
\* countdown `in_degrees -= 1' cannot wrap and 0 means what ready() takes it
\* to mean, whatever reports come twice.
InDegreesMatch ==
  LET Counted(th) == th.in_degrees = Cardinality({d \in DOMAIN th.deps : ~th.deps[d]})
  IN  /\ \A t \in Task : Present(t) => Counted(tasks[t])
      /\ \A p \in Thread : call[p].th # NoTask => Counted(call[p].th)
=============================================================================
