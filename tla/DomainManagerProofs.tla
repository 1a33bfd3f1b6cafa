------------------------ MODULE DomainManagerProofs ------------------------
(***************************************************************************)
(* Theorems about DomainManager for any jobs, tasks, needs, nodes, threads *)
(* and bounds: its types, the countdown of dependencies (InDegreesMatch),  *)
(* that a task is only sent when what it needs was completed, which is the *)
(* refinement of TaskDag, that no ready task is forgotten                  *)
(* (ReadyTaskTracked), that rejected jobs leave nothing behind             *)
(* (RejectedJobLeavesNothing), and of a job that is submitted once, that   *)
(* who waits for a node has a thread that waits for one                    *)
(* (WaitingTaskHasRecruiter) and that a task is sent once for each cause   *)
(* (SentOncePerCause).                                                     *)
(*                                                                         *)
(* The argument follows an id: it is found ready only where every need of  *)
(* its handler was counted down, a need is counted down only for a         *)
(* completed task, and completed tasks stay completed.  So everything that *)
(* carries the id, from the vector of accept_job, the queue and the        *)
(* recruiters to run_task, carries a task whose needs are completed; and a *)
(* report that completes a task is one of a task that was sent.            *)
(***************************************************************************)
EXTENDS DomainManager, NodesManagementProofs, FiniteSetTheorems

-----------------------------------------------------------------------------
\* Everything task t needs is among `done', which will be the completed
\* tasks.
Enabled(t, done) == Needs[t] \subseteq done

\* The dependencies that a handler has not counted down.
Uncounted(th) == {d \in DOMAIN th.deps : ~th.deps[d]}

\* A handler that validate_task is building before its dependencies are
\* known: in_degrees is right for those it has.
DraftSound(t, th, done) ==
  /\ th \in TaskHandler
  /\ th.in_degrees = Cardinality(Uncounted(th))
  /\ \A d \in DOMAIN th.deps : th.deps[d] => d \in done
  /\ th.status = "DONE" => Enabled(t, done)

\* A handler in the table, or about to be written into it.
HandlerSound(t, th, done) == DraftSound(t, th, done) /\ DOMAIN th.deps = Needs[t]

TableSound == \A t \in Task : Present(t) => HandlerSound(t, tasks[t], completed)

\* What a thread in a method of TasksManagement may rely on.
WithTask == CallPoint \ {"free", "stuck", "returned", "panicked"}

CallSound(p) ==
  /\ call[p].pc \in WithTask => call[p].task \in Task
  /\ call[p].ready => call[p].pc = "returned"
  /\ call[p].pc \notin {"deps", "recruit", "insert"} => call[p].th = NoTask
  /\ call[p].pc = "deps" => DraftSound(call[p].task, call[p].th, completed)
  /\ call[p].pc \in {"recruit", "insert"} => HandlerSound(call[p].task, call[p].th, completed)
  /\ call[p].pc = "recruit" => Needs[call[p].task] = {}
  /\ call[p].pc = "retryPush" => Enabled(call[p].task, completed)
  /\ call[p].pc = "update" =>
       /\ call[p].msg \in Report
       /\ call[p].msg.status = "DONE" => dispatches[call[p].task] > 0
  /\ call[p].pc = "done" => dispatches[call[p].task] > 0
  /\ call[p].pc \in {"notify", "notifyPush"} => call[p].task \in completed
  /\ call[p].pc = "notifyPush" => call[p].pushing \in Task /\ Enabled(call[p].pushing, completed)

\* Who keeps the mutex of the table: the loop of Done over the handlers it
\* has still to count down, which nobody else touches meanwhile.
LockSound(p) ==
  /\ tasksLock = p => call[p].pc \in {"notify", "notifyPush", "stuck"}
  /\ call[p].pc = "notifyPush" => tasksLock = p
  /\ tasksLock = p /\ call[p].pc \in {"notify", "notifyPush"} =>
       call[p].todo \subseteq ToNotify(call[p].task)

\* accept_job collects enabled tasks only; run_task's task is enabled.
ThreadSound(p) ==
  /\ thread[p].kind = "idle" \/ thread[p].at \in {"respond", "reject", "inputs"}
       => call[p].pc = "free"
  /\ thread[p].kind = "accept" => thread[p].job \in Job
  /\ thread[p].kind = "accept" /\ thread[p].at = "calling" =>
       /\ thread[p].index \in DOMAIN JobTasks[thread[p].job]
       /\ call[p].pc \in WithTask => call[p].task = JobTasks[thread[p].job][thread[p].index]
       /\ call[p].ready => Enabled(JobTasks[thread[p].job][thread[p].index], completed)
  /\ \A i \in DOMAIN thread[p].accepted : Enabled(thread[p].accepted[i], completed)
  /\ thread[p].at \in {"inputs", "failing"} => thread[p].task \in Task /\ Enabled(thread[p].task, completed)
  /\ thread[p].at = "inputs" => thread[p].snapshot \in TaskHandler

RecruiterSound(r) ==
  /\ recruiter[r].pc # "unused" => recruiter[r].task \in Task /\ Enabled(recruiter[r].task, completed)
  /\ recruiter[r].pc = "pushing" => tasksLock = r

QueueSound ==
  /\ \A i \in DOMAIN task_queue : Enabled(task_queue[i], completed)
  /\ popped # NoId => Enabled(popped, completed)

\* Reports come from executions, and executions from tasks that were sent.
ReportsSound ==
  \A t \in Task : /\ executing[t] # <<>> => dispatches[t] > 0
                  /\ dispatches[t] > 0 => Enabled(t, completed)

\* The inductive invariant.
ManagerInv ==
  /\ DomainManagerTypeOK
  /\ TableSound
  /\ \A p \in Thread : CallSound(p) /\ LockSound(p) /\ ThreadSound(p)
  /\ \A r \in Request : RecruiterSound(r)
  /\ QueueSound
  /\ ReportsSound

-----------------------------------------------------------------------------
\* Handlers.  What is sound stays so when more tasks complete.
LEMMA SoundStays ==
  ASSUME NEW C, NEW D, C \subseteq D, NEW t, NEW th
  PROVE  /\ Enabled(t, C) => Enabled(t, D)
         /\ DraftSound(t, th, C) => DraftSound(t, th, D)
         /\ HandlerSound(t, th, C) => HandlerSound(t, th, D)
BY DEF Enabled, DraftSound, HandlerSound

\* in_degrees = 0 means what the code takes it to mean.
LEMMA CountedDown ==
  ASSUME NEW C, NEW t \in Task, NEW th, HandlerSound(t, th, C)
  PROVE  /\ IsFiniteSet(Uncounted(th))
         /\ th.in_degrees = 0 => Enabled(t, C)
<1>1. IsFiniteSet(Needs[t]) /\ Uncounted(th) \subseteq Needs[t]
  BY TaskConstantsAssumption DEF HandlerSound, Uncounted
<1>2. IsFiniteSet(Uncounted(th))
  BY <1>1, FS_Subset
<1>3. ASSUME th.in_degrees = 0 PROVE Uncounted(th) = {}
  BY <1>2, <1>3, FS_EmptySet DEF HandlerSound, DraftSound
<1> QED BY <1>2, <1>3 DEF HandlerSound, DraftSound, Enabled, Uncounted

\* The values validate_task and the state machine give a handler.
LEMMA NewHandlerSound ==
  ASSUME NEW C, NEW t \in Task
  PROVE  /\ DraftSound(t, NewHandler, C)
         /\ Needs[t] = {} => HandlerSound(t, NewHandler, C)
         /\ NewHandler.in_degrees = 0
<1> DEFINE f == [d \in {} |-> FALSE]
<1>1. f \in [{} -> BOOLEAN] /\ DOMAIN f = {}
  OBVIOUS
<1>2. f \in UNION {[E -> BOOLEAN] : E \in SUBSET Task}
  BY <1>1
<1>3. NewHandler.deps = f /\ NewHandler.in_degrees = 0 /\ NewHandler.status # "DONE"
  BY DEF NewHandler
<1>4. Uncounted(NewHandler) = {}
  BY <1>1, <1>3 DEF Uncounted
<1>5. NewHandler \in TaskHandler
  <2> HIDE DEF f
  <2> QED BY <1>2 DEF NewHandler, TaskHandler, Status, f
<1> QED BY <1>1, <1>3, <1>4, <1>5, FS_EmptySet DEF DraftSound, HandlerSound

LEMMA UncountedNeeds ==
  ASSUME NEW C, NEW t \in Task, NEW th, DraftSound(t, th, C),
         NEW new, new = [th EXCEPT !.deps = [d \in Needs[t] |-> FALSE],
                                   !.in_degrees = Cardinality(Needs[t])]
  PROVE  HandlerSound(t, new, C)
<1> DEFINE f == [d \in Needs[t] |-> FALSE]
<1>1. Needs[t] \in SUBSET Task /\ IsFiniteSet(Needs[t])
  BY TaskConstantsAssumption
<1>2. f \in UNION {[E -> BOOLEAN] : E \in SUBSET Task} /\ DOMAIN f = Needs[t]
  BY <1>1
<1>3. Cardinality(Needs[t]) \in Nat
  BY <1>1, FS_CardinalityType
<1>4. th \in TaskHandler
  BY DEF DraftSound
<1>5. /\ new \in TaskHandler
      /\ new.deps = f
      /\ new.in_degrees = Cardinality(Needs[t])
      /\ new.status = th.status
  <2> HIDE DEF f
  <2> QED BY <1>2, <1>3, <1>4 DEF TaskHandler, f
<1>6. Uncounted(new) = Needs[t]
  BY <1>5 DEF Uncounted
<1> QED BY <1>2, <1>5, <1>6 DEF DraftSound, HandlerSound

\* Fields other than the dependencies and a status DONE do not matter.
LEMMA OtherFields ==
  ASSUME NEW C, NEW t, NEW th, NEW new \in TaskHandler,
         new.deps = th.deps, new.in_degrees = th.in_degrees,
         new.status = "DONE" => th.status = "DONE" \/ Enabled(t, C)
  PROVE  /\ DraftSound(t, th, C) => DraftSound(t, new, C)
         /\ HandlerSound(t, th, C) => HandlerSound(t, new, C)
<1>1. Uncounted(new) = Uncounted(th)
  BY DEF Uncounted
<1> QED BY <1>1 DEF DraftSound, HandlerSound

\* `in_degrees -= 1' for a dependency that is not counted down yet cannot
\* wrap, and is right.
LEMMA NotifiedSound ==
  ASSUME NEW C, NEW h \in Task, NEW t \in C, NEW th, HandlerSound(h, th, C),
         t \in DOMAIN th.deps, ~th.deps[t],
         NEW new, new = [th EXCEPT !.deps[t] = TRUE, !.in_degrees = @ - 1]
  PROVE  HandlerSound(h, new, C)
<1> DEFINE f == [th.deps EXCEPT ![t] = TRUE]
<1>1. th \in TaskHandler /\ th.in_degrees = Cardinality(Uncounted(th))
  BY DEF HandlerSound, DraftSound
<1>2. PICK E \in SUBSET Task : th.deps \in [E -> BOOLEAN]
  BY <1>1 DEF TaskHandler
<1>3. f \in [E -> BOOLEAN] /\ t \in E /\ f[t] /\ \A d \in E \ {t} : f[d] = th.deps[d]
  BY <1>2
<1>4. IsFiniteSet(Uncounted(th)) /\ t \in Uncounted(th)
  BY CountedDown DEF Uncounted
<1>5. /\ Cardinality(Uncounted(th) \ {t}) = Cardinality(Uncounted(th)) - 1
      /\ Cardinality(Uncounted(th) \ {t}) \in Nat
  BY <1>4, FS_RemoveElement, FS_CardinalityType
<1>6. f \in UNION {[F -> BOOLEAN] : F \in SUBSET Task}
  BY <1>3
<1>7. /\ new \in TaskHandler
      /\ new.deps = f
      /\ new.in_degrees = th.in_degrees - 1
      /\ new.status = th.status
  <2> HIDE DEF f
  <2>1. new = [th EXCEPT !.deps = f, !.in_degrees = @ - 1]
    BY <1>1 DEF f
  <2>2. th.in_degrees - 1 \in Nat
    BY <1>1, <1>5
  <2> QED BY <1>1, <1>6, <2>1, <2>2 DEF TaskHandler
<1>8. Uncounted(new) = Uncounted(th) \ {t}
  <2> HIDE DEF f
  <2>1. DOMAIN f = E /\ DOMAIN th.deps = E
    BY <1>2, <1>3
  <2> QED BY <1>7, <1>3, <2>1 DEF Uncounted
<1>9. \A d \in DOMAIN new.deps : new.deps[d] => d \in C
  BY <1>2, <1>3, <1>7 DEF HandlerSound, DraftSound
<1> QED BY <1>1, <1>2, <1>3, <1>5, <1>7, <1>8, <1>9 DEF HandlerSound, DraftSound

-----------------------------------------------------------------------------
\* The registry, as the manager uses it.
LEMMA FoundNodeType ==
  ASSUME NodesTypeOK, NEW e \in Endpoint
  PROVE  FoundNode(e) \in Node \cup {NoNode}
<1>1. nodes \subseteq Node
  BY DEF NodesTypeOK
<1> QED BY <1>1, Zenon DEF FoundNode

LEMMA FindNodeTypes ==
  ASSUME NodesTypeOK, NEW e \in Endpoint, NEW n, FindNode(e, n)
  PROVE  NodesTypeOK'
BY DEF NodesTypeOK, FindNode

LEMMA DropReceiversTypes ==
  ASSUME NodesTypeOK, NEW R, DropReceivers(R)
  PROVE  NodesTypeOK'
<1>1. \A q \in Request : [channel[q] EXCEPT !.state = "closed"] \in Channel
  BY DEF NodesTypeOK, Channel, ChannelState
<1>2. channel' \in [Request -> Channel]
  BY <1>1 DEF NodesTypeOK, DropReceivers
<1> QED BY <1>2 DEF NodesTypeOK, DropReceivers

\* recruit_node leaves a handler whose dependencies are as they were, and a
\* recruiter that was not used before.
LEMMA RecruitmentsSound ==
  ASSUME NodesTypeOK, NEW C, NEW t \in Task, NEW th, HandlerSound(t, th, C),
         NEW o \in Recruitments(t, th)
  PROVE  /\ HandlerSound(t, o.th, C)
         /\ o.th.in_degrees = th.in_degrees
         /\ o.ok \in BOOLEAN
         /\ o.spawned # NoRequest =>
              o.spawned \in Request /\ recruiter[o.spawned].pc = "unused"
<1> DEFINE n == FoundNode(EndpointOf[t])
<1>1. th \in TaskHandler
  BY DEF HandlerSound, DraftSound
<1>2. n \in Node \cup {NoNode}
  BY FoundNodeType, TaskConstantsAssumption
<1>3. CASE n # NoNode
  <2>1. o = [th |-> [th EXCEPT !.receiver = n], spawned |-> NoRequest, ok |-> TRUE]
    BY <1>3 DEF Recruitments
  <2> HIDE DEF n
  <2>2. /\ o.th \in TaskHandler /\ o.th.deps = th.deps
        /\ o.th.in_degrees = th.in_degrees /\ o.th.status = th.status
    BY <1>1, <1>2, <2>1 DEF TaskHandler
  <2> QED BY <2>1, <2>2, OtherFields
<1>4. CASE n = NoNode /\ Policy[t] = "FAIL"
  <2>1. o = [th |-> FailedHandler(th), spawned |-> NoRequest, ok |-> FALSE]
    BY <1>4 DEF Recruitments
  <2>2. /\ o.th \in TaskHandler /\ o.th.deps = th.deps
        /\ o.th.in_degrees = th.in_degrees /\ o.th.status = "FAILED"
    BY <1>1, <2>1 DEF TaskHandler, FailedHandler, Status
  <2> QED BY <2>1, <2>2, OtherFields
<1>5. CASE n = NoNode /\ Policy[t] # "FAIL"
  <2>1. PICK r \in Request : /\ recruiter[r].pc = "unused"
          /\ o = [th |-> [th EXCEPT !.receiver = NoNode, !.request = r],
                  spawned |-> r, ok |-> TRUE]
    BY <1>5 DEF Recruitments
  <2>2. /\ o.th \in TaskHandler /\ o.th.deps = th.deps
        /\ o.th.in_degrees = th.in_degrees /\ o.th.status = th.status
    BY <1>1, <2>1 DEF TaskHandler
  <2> QED BY <2>1, <2>2, OtherFields
<1> QED BY <1>3, <1>4, <1>5

\* The recruiter's thread is for an enabled task.
LEMMA RecruitNodeSound ==
  ASSUME NodesTypeOK, recruiter \in [Request -> Recruiter],
         \A r \in Request : RecruiterSound(r),
         completed' = completed,
         NEW t \in Task, Enabled(t, completed), NEW o,
         o.spawned # NoRequest =>
              o.spawned \in Request /\ recruiter[o.spawned].pc = "unused",
         tasksLock' = tasksLock \/ tasksLock \notin Request,
         RecruitNode(t, o)
  PROVE  /\ NodesTypeOK'
         /\ recruiter' \in [Request -> Recruiter]
         /\ \A r \in Request : RecruiterSound(r)'
<1>1. NodesTypeOK'
  BY FindNodeTypes, TaskConstantsAssumption DEF RecruitNode
<1>2. CASE o.spawned = NoRequest
  <2>1. recruiter' = recruiter
    BY <1>2 DEF RecruitNode
  <2> QED BY <1>1, <2>1 DEF RecruiterSound
<1>3. CASE o.spawned # NoRequest
  <2>1. recruiter' = [recruiter EXCEPT ![o.spawned] = [pc |-> "spawned", task |-> t]]
    BY <1>3 DEF RecruitNode
  <2>2. recruiter' \in [Request -> Recruiter]
    BY <1>3, <2>1 DEF Recruiter
  <2> QED BY <1>1, <1>3, <2>1, <2>2 DEF RecruiterSound
<1> QED BY <1>2, <1>3

-----------------------------------------------------------------------------
\* Threads.  What a step must leave alone for a thread that does not take it.
LEMMA OtherThread ==
  ASSUME NEW q \in Thread, CallSound(q), LockSound(q), ThreadSound(q),
         thread'[q] = thread[q], call'[q] = call[q],
         completed \subseteq completed',
         \A t \in Task : dispatches[t] > 0 => dispatches'[t] > 0,
         (tasksLock = q) <=> (tasksLock' = q),
         tasksLock = q => tasks' = tasks
  PROVE  CallSound(q)' /\ LockSound(q)' /\ ThreadSound(q)'
<1>1. CallSound(q)'
  <2>1. DraftSound(call[q].task, call[q].th, completed) =>
          DraftSound(call[q].task, call[q].th, completed')
    BY SoundStays
  <2>2. HandlerSound(call[q].task, call[q].th, completed) =>
          HandlerSound(call[q].task, call[q].th, completed')
    BY SoundStays
  <2>3. Enabled(call[q].task, completed) => Enabled(call[q].task, completed')
    BY SoundStays
  <2>4. Enabled(call[q].pushing, completed) => Enabled(call[q].pushing, completed')
    BY SoundStays
  <2>5. call[q].pc \in {"update", "done"} => call[q].task \in Task
    BY DEF CallSound, WithTask, CallPoint
  <2> QED BY <2>1, <2>2, <2>3, <2>4, <2>5 DEF CallSound
<1>2. LockSound(q)'
  BY DEF LockSound, ToNotify, Dependents, Present
<1>3. ThreadSound(q)'
  BY DEF ThreadSound, Enabled
<1> QED BY <1>1, <1>2, <1>3

\* What a step of thread p inside TasksManagement does.
CallEffect(p) ==
  /\ TasksTypeOK'
  /\ TableSound'
  /\ QueueSound'
  /\ CallSound(p)' /\ LockSound(p)'
  /\ \A r \in Request : RecruiterSound(r)'
  /\ call[p].pc \in WithTask
  /\ call'[p].pc \in WithTask => call'[p].task = call[p].task
  /\ call'[p].ready => Enabled(call[p].task, completed')
  /\ \A q \in Thread \ {p} : call'[q] = call[q] /\ ((tasksLock = q) <=> (tasksLock' = q))
  /\ tasks' = tasks \/ tasksLock \in {Unlocked, p}

\* It keeps the invariant.
LEMMA CallEffectInv ==
  ASSUME ManagerInv, NEW p \in Thread, InCall(p), CallEffect(p), NodesTypeOK',
         completed' \subseteq Task, completed \subseteq completed'
  PROVE  ManagerInv'
<1>1. /\ main' = main /\ thread' = thread /\ executing' = executing
      /\ spent' = spent /\ dispatches' = dispatches
  BY DEF InCall, loopVars
<1>2. \A q \in Thread \ {p} : CallSound(q)' /\ LockSound(q)' /\ ThreadSound(q)'
  <2> SUFFICES ASSUME NEW q \in Thread \ {p}
               PROVE  CallSound(q)' /\ LockSound(q)' /\ ThreadSound(q)'
    OBVIOUS
  <2>1. tasksLock = q => tasks' = tasks
    BY NullsAssumption DEF CallEffect
  <2> QED BY <1>1, <2>1, OtherThread DEF CallEffect, ManagerInv
<1>3. ThreadSound(p)'
  <2>1. ThreadSound(p) /\ call[p].pc # "free"
    BY DEF ManagerInv, CallEffect, WithTask
  <2> QED BY <1>1, <2>1 DEF ThreadSound, CallEffect, Enabled
<1>4. ReportsSound'
  BY <1>1 DEF ManagerInv, ReportsSound, Enabled
<1>5. retried' \in [Task -> Nat] /\ lost' \subseteq Task
  <2>1. call[p].task \in Task /\ retried \in [Task -> Nat] /\ lost \subseteq Task
    BY DEF ManagerInv, CallEffect, CallSound, DomainManagerTypeOK
  <2>2. retried' \in [Task -> Nat]
    BY <2>1 DEF InCall, TheTask
  <2>3. Forgotten(p) \subseteq Task
    BY <2>1 DEF Forgotten, TheTask
  <2> QED BY <2>1, <2>2, <2>3 DEF InCall
<1>6. DomainManagerTypeOK'
  BY <1>1, <1>5 DEF ManagerInv, DomainManagerTypeOK, CallEffect
<1> QED BY <1>2, <1>3, <1>4, <1>6 DEF ManagerInv, CallEffect

-----------------------------------------------------------------------------
\* The forms of a step inside TasksManagement.
LEMMA CallForms ==
  ASSUME call \in [Thread -> Call], NEW p \in Thread
  PROVE  /\ \A pc \in CallPoint : Goto(p, pc) =>
              /\ [call[p] EXCEPT !.pc = pc] \in Call
              /\ call' = [call EXCEPT ![p] = [call[p] EXCEPT !.pc = pc]]
         /\ \A pc \in CallPoint, th \in TaskHandler : Build(p, pc, th) =>
              /\ [call[p] EXCEPT !.pc = pc, !.th = th] \in Call
              /\ call' = [call EXCEPT ![p] = [call[p] EXCEPT !.pc = pc, !.th = th]]
         /\ \A ok, ready \in BOOLEAN : Return(p, ok, ready) =>
              /\ [NoCall EXCEPT !.pc = "returned", !.ok = ok, !.ready = ready] \in Call
              /\ call' = [call EXCEPT ![p] =
                   [NoCall EXCEPT !.pc = "returned", !.ok = ok, !.ready = ready]]
<1>1. call[p] \in Call
  OBVIOUS
<1>2. ASSUME NEW pc \in CallPoint
      PROVE  /\ [call[p] EXCEPT !.pc = pc] \in Call
             /\ \A th \in TaskHandler : [call[p] EXCEPT !.pc = pc, !.th = th] \in Call
  BY <1>1 DEF Call
<1>3. NoCall \in Call
  BY DEF NoCall, Call, CallPoint
<1>4. \A ok, ready \in BOOLEAN :
        [NoCall EXCEPT !.pc = "returned", !.ok = ok, !.ready = ready] \in Call
  BY <1>3 DEF Call, CallPoint
<1>5. \A pc \in CallPoint : Goto(p, pc) =>
        call' = [call EXCEPT ![p] = [call[p] EXCEPT !.pc = pc]]
  BY DEF Goto
<1>6. \A pc \in CallPoint, th \in TaskHandler : Build(p, pc, th) =>
        call' = [call EXCEPT ![p] = [call[p] EXCEPT !.pc = pc, !.th = th]]
  BY DEF Build
<1> QED BY <1>2, <1>4, <1>5, <1>6 DEF Return

\* Parts of the invariant in steps that leave their variables alone, or add
\* one handler or one id.
LEMMA IdsKept ==
  ASSUME QueueSound, UNCHANGED <<task_queue, popped>>, completed \subseteq completed'
  PROVE  QueueSound'
<1>1. task_queue' = task_queue /\ popped' = popped
  OBVIOUS
<1>2. \A i \in DOMAIN task_queue : Enabled(task_queue[i], completed')
  BY DEF QueueSound, Enabled
<1>3. popped # NoId => Enabled(popped, completed')
  BY DEF QueueSound, Enabled
<1> QED BY <1>1, <1>2, <1>3 DEF QueueSound

LEMMA IdPushed ==
  ASSUME QueueSound, task_queue \in Seq(Task), NEW t \in Task, Enabled(t, completed),
         Push(t), UNCHANGED <<popped, completed>>
  PROVE  QueueSound' /\ task_queue' \in Seq(Task)
<1>1. /\ task_queue' \in Seq(Task)
      /\ DOMAIN task_queue' = 1 .. Len(task_queue) + 1
      /\ DOMAIN task_queue = 1 .. Len(task_queue)
      /\ \A i \in 1 .. Len(task_queue) : task_queue'[i] = task_queue[i]
      /\ task_queue'[Len(task_queue) + 1] = t
      /\ Len(task_queue) \in Nat
  BY AppendProperties, LenProperties DEF Push
<1>2. \A i \in DOMAIN task_queue' : i \in DOMAIN task_queue \/ i = Len(task_queue) + 1
  BY <1>1
<1> QED BY <1>1, <1>2 DEF QueueSound

LEMMA TableKept ==
  ASSUME TableSound, tasks' = tasks, completed \subseteq completed'
  PROVE  TableSound'
BY SoundStays DEF TableSound, Present

LEMMA TableWritten ==
  ASSUME TableSound, tasks \in [Task -> TaskHandler \cup {NoTask}],
         NEW t \in Task, NEW th, HandlerSound(t, th, completed),
         tasks' = [tasks EXCEPT ![t] = th], completed \subseteq completed'
  PROVE  TableSound' /\ tasks' \in [Task -> TaskHandler \cup {NoTask}]
<1>1. th \in TaskHandler
  BY DEF HandlerSound, DraftSound
<1> QED BY <1>1, SoundStays DEF TableSound, Present

LEMMA RecruitersKept ==
  ASSUME \A r \in Request : RecruiterSound(r), recruiter' = recruiter,
         tasksLock' = tasksLock \/ tasksLock \notin Request,
         completed \subseteq completed'
  PROVE  \A r \in Request : RecruiterSound(r)'
BY DEF RecruiterSound, Enabled


\* What a step does to the call of the thread p that takes it, when it does
\* not go to push a handler.
Moves(p) ==
  /\ call' \in [Thread -> Call]
  /\ CallSound(p)'
  /\ call'[p].pc # "notifyPush"
  /\ call'[p].pc \in WithTask => call'[p].task = call[p].task
  /\ call'[p].ready => Enabled(call[p].task, completed')
  /\ \A q \in Thread \ {p} : call'[q] = call[q]

LEMMA Returns ==
  ASSUME call \in [Thread -> Call], NEW p \in Thread,
         NEW ok \in BOOLEAN, NEW ready \in BOOLEAN, Return(p, ok, ready),
         ready => Enabled(call[p].task, completed')
  PROVE  Moves(p)
<1> DEFINE c == [NoCall EXCEPT !.pc = "returned", !.ok = ok, !.ready = ready]
<1>1. c \in Call /\ call' = [call EXCEPT ![p] = c]
  <2>1. \A a, b \in BOOLEAN : Return(p, a, b) =>
          /\ [NoCall EXCEPT !.pc = "returned", !.ok = a, !.ready = b] \in Call
          /\ call' = [call EXCEPT ![p] =
               [NoCall EXCEPT !.pc = "returned", !.ok = a, !.ready = b]]
    BY CallForms, Zenon
  <2> QED BY <2>1, Zenon
<1>2. c.pc = "returned" /\ c.ready = ready /\ c.th = NoTask
  BY DEF NoCall
<1> HIDE DEF c
<1>3. call'[p] = c /\ call' \in [Thread -> Call] /\ \A q \in Thread \ {p} : call'[q] = call[q]
  BY <1>1
<1>4. CallSound(p)'
  BY <1>2, <1>3 DEF CallSound, WithTask
<1> QED BY <1>2, <1>3, <1>4 DEF Moves, WithTask

LEMMA Goes ==
  ASSUME call \in [Thread -> Call], NEW p \in Thread, CallSound(p),
         call[p].pc \in WithTask \ {"deps", "recruit", "insert"},
         NEW pc \in {"add", "clone", "retry", "retryPush", "fail", "done", "stuck",
                     "panicked", "notify"},
         Goto(p, pc),
         pc = "retryPush" => Enabled(call[p].task, completed'),
         pc = "done" => dispatches'[call[p].task] > 0,
         pc = "notify" => call[p].task \in completed'
  PROVE  Moves(p)
<1> DEFINE c == [call[p] EXCEPT !.pc = pc]
<1>1. c \in Call /\ call' = [call EXCEPT ![p] = c]
  <2>1. pc \in CallPoint
    BY DEF CallPoint
  <2> QED BY <2>1, CallForms
<1>2. c.pc = pc /\ c.ready = call[p].ready /\ c.th = call[p].th /\ c.task = call[p].task
  BY DEF Call
<1> HIDE DEF c
<1>3. call'[p] = c /\ call' \in [Thread -> Call] /\ \A q \in Thread \ {p} : call'[q] = call[q]
  BY <1>1
<1>4. ~call[p].ready /\ call[p].th = NoTask /\ call[p].task \in Task
  BY DEF CallSound, WithTask
<1>5. CallSound(p)'
  BY <1>2, <1>3, <1>4 DEF CallSound
<1> QED BY <1>2, <1>3, <1>4, <1>5 DEF Moves

LEMMA Builds ==
  ASSUME call \in [Thread -> Call], NEW p \in Thread, CallSound(p),
         call[p].pc \in WithTask,
         NEW pc \in {"deps", "recruit", "insert"}, NEW th, Build(p, pc, th),
         DraftSound(call[p].task, th, completed'),
         pc # "deps" => HandlerSound(call[p].task, th, completed'),
         pc = "recruit" => Needs[call[p].task] = {}
  PROVE  Moves(p)
<1> DEFINE c == [call[p] EXCEPT !.pc = pc, !.th = th]
<1>1. th \in TaskHandler
  BY DEF DraftSound
<1>2. c \in Call /\ call' = [call EXCEPT ![p] = c]
  <2>1. pc \in CallPoint
    BY DEF CallPoint
  <2>2. \A q \in CallPoint, h \in TaskHandler : Build(p, q, h) =>
          /\ [call[p] EXCEPT !.pc = q, !.th = h] \in Call
          /\ call' = [call EXCEPT ![p] = [call[p] EXCEPT !.pc = q, !.th = h]]
    BY CallForms
  <2> QED BY <1>1, <2>1, <2>2
<1>3. c.pc = pc /\ c.ready = call[p].ready /\ c.th = th /\ c.task = call[p].task
  BY DEF Call
<1> HIDE DEF c
<1>4. call'[p] = c /\ call' \in [Thread -> Call] /\ \A q \in Thread \ {p} : call'[q] = call[q]
  BY <1>2
<1>5. ~call[p].ready /\ call[p].task \in Task
  BY DEF CallSound, WithTask
<1>6. CallSound(p)'
  BY <1>3, <1>4, <1>5 DEF CallSound
<1> QED BY <1>3, <1>4, <1>5, <1>6 DEF Moves

\* The parts of a step that takes the mutexes it needs and releases them.
LEMMA MovesEffect ==
  ASSUME ManagerInv, NEW p \in Thread,
         call[p].pc \in WithTask \ {"notify", "notifyPush"}, Moves(p),
         UNCHANGED <<popped, tasksLock>>, completed \subseteq completed',
         tasks' = tasks \/ TasksFree,
         tasks' \in [Task -> TaskHandler \cup {NoTask}], TableSound',
         task_queue' \in Seq(Task), QueueSound',
         recruiter' \in [Request -> Recruiter], \A r \in Request : RecruiterSound(r)'
  PROVE  CallEffect(p)
<1>1. /\ TasksTypeOK /\ LockSound(p)
  BY DEF ManagerInv, DomainManagerTypeOK
<1>2. TasksTypeOK'
  BY <1>1 DEF TasksTypeOK, Moves
<1>3. LockSound(p)'
  BY <1>1 DEF LockSound, WithTask, Moves
<1> QED BY <1>2, <1>3 DEF CallEffect, Moves, TasksFree

LEMMA MovesOnly ==
  ASSUME ManagerInv, NEW p \in Thread,
         call[p].pc \in WithTask \ {"notify", "notifyPush"}, Moves(p),
         UNCHANGED <<tasks, task_queue, popped, tasksLock, recruiter, completed>>
  PROVE  CallEffect(p)
<1>1. /\ TasksTypeOK /\ TableSound /\ QueueSound
      /\ \A r \in Request : RecruiterSound(r)
  BY DEF ManagerInv, DomainManagerTypeOK
<1>2. TableSound' /\ QueueSound'
  <2>1. TableSound'
    BY <1>1, TableKept
  <2> QED BY <1>1, <2>1, IdsKept
<1>3. \A r \in Request : RecruiterSound(r)'
  BY <1>1, RecruitersKept
<1> QED BY <1>1, <1>2, <1>3, MovesEffect DEF TasksTypeOK

\* What the lemmas below use of the invariant for a thread at pc.
LEMMA AtPoint ==
  ASSUME ManagerInv, NEW p \in Thread, NEW pc \in WithTask, At(p, pc)
  PROVE  /\ TasksTypeOK /\ NodesTypeOK /\ TableSound /\ QueueSound
         /\ call \in [Thread -> Call] /\ CallSound(p) /\ LockSound(p)
         /\ \A r \in Request : RecruiterSound(r)
         /\ call[p].pc = pc /\ call[p].task \in Task /\ TheTask(p) = call[p].task
BY DEF ManagerInv, DomainManagerTypeOK, TasksTypeOK, CallSound, At, TheTask

\* A handler of the table.
LEMMA InTable ==
  ASSUME TasksTypeOK, TableSound, NEW t \in Task, Present(t)
  PROVE  /\ tasks[t] \in TaskHandler
         /\ HandlerSound(t, tasks[t], completed) /\ DraftSound(t, tasks[t], completed)
         /\ tasks[t].in_degrees = 0 => Enabled(t, completed)
         /\ tasks[t].status = "DONE" => Enabled(t, completed)
         /\ Ready(tasks[t]) \in BOOLEAN
         /\ Ready(tasks[t]) => Enabled(t, completed)
<1>1. HandlerSound(t, tasks[t], completed)
  BY DEF TableSound
<1> QED BY <1>1, CountedDown DEF HandlerSound, DraftSound, Ready

-----------------------------------------------------------------------------
\* validate_task: each step of it.
LEMMA ValidateTaskEffect ==
  ASSUME ManagerInv, NEW p \in Thread, ValidateTask(p), UNCHANGED <<completed, dispatches>>
  PROVE  CallEffect(p)
<1> DEFINE t == call[p].task
<1>1. /\ TasksTypeOK /\ TableSound /\ call \in [Thread -> Call] /\ CallSound(p)
      /\ call[p].pc = "validate" /\ t \in Task /\ TheTask(p) = t
      /\ "validate" \in WithTask
  BY AtPoint DEF ValidateTask, WithTask, CallPoint
<1>2. Moves(p)
  <2>1. CASE t \notin ValidTimeout
    BY <1>1, <2>1, Returns DEF ValidateTask
  <2>2. CASE t \in ValidTimeout /\ ~Present(t)
    <3>1. Build(p, IF Needs[t] = {} THEN "recruit" ELSE "deps", NewHandler)
      BY <1>1, <2>2 DEF ValidateTask
    <3>2. /\ DraftSound(t, NewHandler, completed')
          /\ Needs[t] = {} => HandlerSound(t, NewHandler, completed')
      BY <1>1, NewHandlerSound
    <3>3. CASE Needs[t] = {}
      BY <1>1, <3>1, <3>2, <3>3, Builds
    <3>4. CASE Needs[t] # {}
      BY <1>1, <3>1, <3>2, <3>4, Builds
    <3> QED BY <3>3, <3>4
  <2>3. CASE t \in ValidTimeout /\ Present(t)
    <3>1. \/ Return(p, TRUE, Ready(tasks[t]))
          \/ Return(p, TRUE, TRUE) /\ tasks[t].status = "DONE"
          \/ Goto(p, "add")
      BY <1>1, <2>3 DEF ValidateTask
    <3>2. /\ Ready(tasks[t]) \in BOOLEAN
          /\ Ready(tasks[t]) => Enabled(t, completed')
          /\ tasks[t].status = "DONE" => Enabled(t, completed')
      BY <1>1, <2>3, InTable
    <3>3. CASE Return(p, TRUE, Ready(tasks[t]))
      BY <1>1, <3>2, <3>3, Returns
    <3>4. CASE Return(p, TRUE, TRUE) /\ tasks[t].status = "DONE"
      BY <1>1, <3>2, <3>4, Returns
    <3>5. CASE Goto(p, "add")
      BY <1>1, <3>5, Goes
    <3> QED BY <3>1, <3>3, <3>4, <3>5
  <2> QED BY <2>1, <2>2, <2>3
<1> QED BY <1>1, <1>2, MovesOnly DEF ValidateTask

LEMMA AddTaskEffect ==
  ASSUME ManagerInv, NEW p \in Thread, AddTask(p), UNCHANGED <<completed, dispatches>>
  PROVE  CallEffect(p)
<1>1. /\ call \in [Thread -> Call] /\ CallSound(p) /\ TheTask(p) = call[p].task
      /\ call[p].pc = "add" /\ call[p].task \in Task /\ "add" \in WithTask
  BY AtPoint DEF AddTask, WithTask, CallPoint
<1>2. \/ Return(p, FALSE, FALSE) \/ Goto(p, "clone")
      \/ call' = [call EXCEPT ![p].pc = "retry", ![p].after = "clone"]
  BY <1>1 DEF AddTask
<1>3. Moves(p)
  <2>1. CASE Return(p, FALSE, FALSE)
    BY <1>1, <2>1, Returns
  <2>2. CASE Goto(p, "clone")
    BY <1>1, <2>2, Goes
  <2>3. CASE call' = [call EXCEPT ![p].pc = "retry", ![p].after = "clone"]
    <3> DEFINE c == [call[p] EXCEPT !.pc = "retry", !.after = "clone"]
    <3>1. c \in Call /\ call' = [call EXCEPT ![p] = c]
      <4>1. call[p] \in Call /\ "retry" \in CallPoint
        BY <1>1 DEF CallPoint
      <4>2. c \in Call
        BY <4>1 DEF Call
      <4>3. call' = [call EXCEPT ![p] = c]
        BY <1>1, <2>3, <4>1 DEF Call
      <4> QED BY <4>2, <4>3
    <3>2. c.pc = "retry" /\ c.ready = call[p].ready /\ c.th = call[p].th /\ c.task = call[p].task
      BY <1>1 DEF Call
    <3> HIDE DEF c
    <3>3. call'[p] = c /\ call' \in [Thread -> Call] /\ \A q \in Thread \ {p} : call'[q] = call[q]
      BY <1>1, <3>1
    <3>4. CallSound(p)'
      BY <1>1, <3>2, <3>3 DEF CallSound
    <3> QED BY <1>1, <3>2, <3>3, <3>4 DEF Moves, CallSound
  <2> QED BY <1>2, <2>1, <2>2, <2>3
<1> QED BY <1>1, <1>3, MovesOnly DEF AddTask

LEMMA CloneHandlerEffect ==
  ASSUME ManagerInv, NEW p \in Thread, CloneHandler(p), UNCHANGED <<completed, dispatches>>
  PROVE  CallEffect(p)
<1> DEFINE t == call[p].task
<1>1. /\ TasksTypeOK /\ TableSound /\ call \in [Thread -> Call] /\ CallSound(p)
      /\ TheTask(p) = t /\ call[p].pc = "clone" /\ t \in Task /\ "clone" \in WithTask
  BY AtPoint DEF CloneHandler, WithTask, CallPoint
<1>2. CASE ~Present(t)
  <2>1. Goto(p, "panicked")
    BY <1>1, <1>2 DEF CloneHandler
  <2> QED BY <1>1, <2>1, Goes, MovesOnly DEF CloneHandler
<1>3. CASE Present(t)
  <2>1. HandlerSound(t, tasks[t], completed') /\ DraftSound(t, tasks[t], completed')
    BY <1>1, <1>3, InTable
  <2>2. \/ Build(p, "deps", tasks[t])
        \/ Build(p, "recruit", tasks[t]) /\ Needs[t] = {}
        \/ Build(p, "insert", tasks[t])
    BY <1>1, <1>3 DEF CloneHandler
  <2>3. Moves(p)
    <3>1. CASE Build(p, "deps", tasks[t])
      BY <1>1, <2>1, <3>1, Builds
    <3>2. CASE Build(p, "recruit", tasks[t]) /\ Needs[t] = {}
      BY <1>1, <2>1, <3>2, Builds
    <3>3. CASE Build(p, "insert", tasks[t])
      BY <1>1, <2>1, <3>3, Builds
    <3> QED BY <2>2, <3>1, <3>2, <3>3
  <2> QED BY <1>1, <2>3, MovesOnly DEF CloneHandler
<1> QED BY <1>2, <1>3

LEMMA ValidateDependenciesEffect ==
  ASSUME ManagerInv, NEW p \in Thread, ValidateDependencies(p),
         UNCHANGED <<completed, dispatches>>
  PROVE  CallEffect(p)
<1> DEFINE t == call[p].task
           new == [call[p].th EXCEPT !.deps = [d \in Needs[t] |-> FALSE],
                                     !.in_degrees = Cardinality(Needs[t])]
<1>1. /\ call \in [Thread -> Call] /\ CallSound(p)
      /\ TheTask(p) = t /\ call[p].pc = "deps" /\ t \in Task /\ "deps" \in WithTask
  BY AtPoint DEF ValidateDependencies, WithTask, CallPoint
<1>2. DraftSound(t, call[p].th, completed)
  BY <1>1 DEF CallSound
<1>3. HandlerSound(t, new, completed')
  <2>1. HandlerSound(t, new, completed)
    BY <1>1, <1>2, UncountedNeeds
  <2> QED BY <2>1
<1>4. Build(p, "insert", new) \/ Return(p, FALSE, FALSE)
  BY <1>1 DEF ValidateDependencies
<1> HIDE DEF new
<1>5. Moves(p)
  <2>1. CASE Build(p, "insert", new)
    <3>1. DraftSound(t, new, completed')
      BY <1>3 DEF HandlerSound
    <3> QED BY <1>1, <1>3, <2>1, <3>1, Builds
  <2>2. CASE Return(p, FALSE, FALSE)
    BY <1>1, <2>2, Returns
  <2> QED BY <1>4, <2>1, <2>2
<1> QED BY <1>1, <1>5, MovesOnly DEF ValidateDependencies

LEMMA RecruitForNewEffect ==
  ASSUME ManagerInv, NEW p \in Thread, RecruitForNew(p), UNCHANGED <<completed, dispatches>>
  PROVE  CallEffect(p) /\ NodesTypeOK'
<1> DEFINE t == call[p].task
<1>1. /\ TasksTypeOK /\ NodesTypeOK /\ TableSound /\ QueueSound
      /\ call \in [Thread -> Call] /\ CallSound(p)
      /\ \A r \in Request : RecruiterSound(r)
      /\ TheTask(p) = t /\ call[p].pc = "recruit" /\ t \in Task /\ "recruit" \in WithTask
  BY AtPoint DEF RecruitForNew, WithTask, CallPoint
<1>2. HandlerSound(t, call[p].th, completed) /\ Needs[t] = {}
  BY <1>1 DEF CallSound
<1>3. Enabled(t, completed)
  BY <1>2 DEF Enabled
<1>4. PICK o \in Recruitments(t, call[p].th) :
        /\ RecruitNode(t, o)
        /\ IF o.ok THEN Build(p, "insert", o.th) ELSE Return(p, FALSE, FALSE)
  BY <1>1 DEF RecruitForNew
<1>5. /\ HandlerSound(t, o.th, completed') /\ o.ok \in BOOLEAN
      /\ o.spawned # NoRequest =>
           o.spawned \in Request /\ recruiter[o.spawned].pc = "unused"
  <2>1. HandlerSound(t, o.th, completed)
    BY <1>1, <1>2, RecruitmentsSound
  <2> QED BY <1>1, <1>2, <2>1, RecruitmentsSound
<1>6. /\ NodesTypeOK' /\ recruiter' \in [Request -> Recruiter]
      /\ \A r \in Request : RecruiterSound(r)'
  <2>1. recruiter \in [Request -> Recruiter] /\ tasksLock' = tasksLock
    BY <1>1 DEF TasksTypeOK, RecruitForNew
  <2> QED BY <1>1, <1>3, <1>4, <1>5, <2>1, RecruitNodeSound
<1>7. Moves(p)
  <2>1. CASE Build(p, "insert", o.th)
    <3>1. DraftSound(t, o.th, completed')
      BY <1>5 DEF HandlerSound
    <3> QED BY <1>1, <1>5, <2>1, <3>1, Builds
  <2>2. CASE Return(p, FALSE, FALSE)
    BY <1>1, <2>2, Returns
  <2> QED BY <1>4, <1>5, <2>1, <2>2
<1>8. TableSound' /\ QueueSound'
  BY <1>1, TableKept, IdsKept DEF RecruitForNew
<1> QED BY <1>1, <1>6, <1>7, <1>8, MovesEffect DEF RecruitForNew, TasksTypeOK

\* A step that writes its own task's handler.
LEMMA MovesWrite ==
  ASSUME ManagerInv, NEW p \in Thread,
         call[p].pc \in WithTask \ {"notify", "notifyPush"}, Moves(p), TasksFree,
         NEW th, HandlerSound(call[p].task, th, completed),
         tasks' = [tasks EXCEPT ![call[p].task] = th],
         UNCHANGED <<task_queue, popped, tasksLock, recruiter>>,
         completed \subseteq completed'
  PROVE  CallEffect(p)
<1>1. /\ TasksTypeOK /\ TableSound /\ QueueSound /\ call[p].task \in Task
      /\ \A r \in Request : RecruiterSound(r)
  BY DEF ManagerInv, DomainManagerTypeOK, CallSound
<1>2. TableSound' /\ tasks' \in [Task -> TaskHandler \cup {NoTask}]
  BY <1>1, TableWritten DEF TasksTypeOK
<1>3. QueueSound'
  BY <1>1, IdsKept
<1>4. \A r \in Request : RecruiterSound(r)'
  BY <1>1, RecruitersKept
<1> QED BY <1>1, <1>2, <1>3, <1>4, MovesEffect DEF TasksTypeOK

LEMMA InsertTaskEffect ==
  ASSUME ManagerInv, NEW p \in Thread, InsertTask(p), UNCHANGED <<completed, dispatches>>
  PROVE  CallEffect(p)
<1> DEFINE t == call[p].task
<1>1. /\ call \in [Thread -> Call] /\ CallSound(p)
      /\ TheTask(p) = t /\ call[p].pc = "insert" /\ t \in Task /\ "insert" \in WithTask
  BY AtPoint DEF InsertTask, WithTask, CallPoint
<1>2. HandlerSound(t, call[p].th, completed)
  BY <1>1 DEF CallSound
<1>3. Ready(call[p].th) \in BOOLEAN /\ (Ready(call[p].th) => Enabled(t, completed'))
  BY <1>1, <1>2, CountedDown DEF Ready
<1>4. Moves(p)
  BY <1>1, <1>3, Returns DEF InsertTask
<1> QED BY <1>1, <1>2, <1>4, MovesWrite DEF InsertTask

-----------------------------------------------------------------------------
\* update_task, and the state machine's transitions.
LEMMA UpdateTaskEffect ==
  ASSUME ManagerInv, NEW p \in Thread, UpdateTask(p), UNCHANGED <<completed, dispatches>>
  PROVE  CallEffect(p)
<1> DEFINE t == call[p].task
           m == call[p].msg
           new == [tasks[t] EXCEPT !.status = m.status, !.receiver = m.receiver,
                                   !.output = m.output]
<1>1. /\ TasksTypeOK /\ TableSound /\ call \in [Thread -> Call] /\ CallSound(p)
      /\ TheTask(p) = t /\ call[p].pc = "update" /\ t \in Task /\ "update" \in WithTask
      /\ TasksFree
  BY AtPoint DEF UpdateTask, WithTask, CallPoint
<1>2. CASE ~Present(t)
  <2>1. Return(p, TRUE, FALSE) /\ UNCHANGED tasks
    BY <1>1, <1>2 DEF UpdateTask
  <2> QED BY <1>1, <2>1, Returns, MovesOnly DEF UpdateTask
<1>3. CASE Present(t)
  <2>1. tasks' = [tasks EXCEPT ![t] = new] /\ AfterReport(p, m.status)
    BY <1>1, <1>3 DEF UpdateTask, TasksTypeOK
  <2>2. /\ m \in Report /\ (m.status = "DONE" => dispatches[t] > 0)
        /\ tasks[t] \in TaskHandler /\ HandlerSound(t, tasks[t], completed)
    BY <1>1, <1>3, InTable DEF CallSound
  <2>3. m.status = "DONE" => Enabled(t, completed)
    BY <1>1, <2>2 DEF ManagerInv, ReportsSound
  <2>4. /\ new \in TaskHandler /\ new.deps = tasks[t].deps /\ new.status = m.status
        /\ new.in_degrees = tasks[t].in_degrees
    BY <2>2 DEF TaskHandler, Report
  <2>5. HandlerSound(t, new, completed)
    BY <2>2, <2>3, <2>4, OtherFields
  <2>6. Moves(p)
    <3>1. \/ Goto(p, "retry") \/ Goto(p, "fail")
          \/ Goto(p, "done") /\ m.status = "DONE"
          \/ Return(p, TRUE, FALSE)
      BY <2>1 DEF AfterReport
    <3>2. CASE Goto(p, "retry")
      BY <1>1, <3>2, Goes
    <3>3. CASE Goto(p, "fail")
      BY <1>1, <3>3, Goes
    <3>4. CASE Goto(p, "done") /\ m.status = "DONE"
      BY <1>1, <2>2, <3>4, Goes
    <3>5. CASE Return(p, TRUE, FALSE)
      BY <1>1, <3>5, Returns
    <3> QED BY <3>1, <3>2, <3>3, <3>4, <3>5
  <2> HIDE DEF new
  <2> QED BY <1>1, <2>1, <2>5, <2>6, MovesWrite DEF UpdateTask
<1> QED BY <1>2, <1>3

LEMMA AfterRetryMoves ==
  ASSUME call \in [Thread -> Call], NEW p \in Thread, CallSound(p),
         call[p].pc \in {"retry", "retryPush"}, AfterRetry(p)
  PROVE  Moves(p)
<1>1. Goto(p, "clone") \/ Return(p, TRUE, FALSE)
  BY DEF AfterRetry
<1>2. call[p].pc \in WithTask \ {"deps", "recruit", "insert"}
  BY DEF WithTask, CallPoint
<1>3. CASE Goto(p, "clone")
  BY <1>2, <1>3, Goes
<1>4. CASE Return(p, TRUE, FALSE)
  BY <1>4, Returns
<1> QED BY <1>1, <1>3, <1>4

\* TaskAction::Retry queues the task only when it is ready.
LEMMA RetryTaskEffect ==
  ASSUME ManagerInv, NEW p \in Thread, RetryTask(p), UNCHANGED <<completed, dispatches>>
  PROVE  CallEffect(p)
<1> DEFINE t == call[p].task
           new == Retried(tasks[t])
<1>1. /\ TasksTypeOK /\ TableSound /\ call \in [Thread -> Call] /\ CallSound(p)
      /\ TheTask(p) = t /\ call[p].pc = "retry" /\ t \in Task /\ "retry" \in WithTask
      /\ TasksFree
  BY AtPoint DEF RetryTask, WithTask, CallPoint
<1>2. CASE ~(Present(t) /\ tasks[t].status \in {"RETRY", "FAILED"})
  <2>1. Return(p, FALSE, FALSE) /\ UNCHANGED tasks
    BY <1>1, <1>2 DEF RetryTask
  <2> QED BY <1>1, <2>1, Returns, MovesOnly DEF RetryTask
<1>3. CASE Present(t) /\ tasks[t].status \in {"RETRY", "FAILED"}
  <2>1. /\ tasks' = [tasks EXCEPT ![t] = new]
        /\ CASE tasks'[t].status = "FAILED"  -> Return(p, FALSE, FALSE)
             [] tasks'[t].status = "PENDING" -> Goto(p, "retryPush")
             [] OTHER                        -> AfterRetry(p)
    BY <1>1, <1>3 DEF RetryTask
  <2>2. /\ tasks[t] \in TaskHandler /\ HandlerSound(t, tasks[t], completed)
        /\ Ready(tasks[t]) => Enabled(t, completed)
    BY <1>1, <1>3, InTable
  <2>3. /\ new \in TaskHandler /\ new.deps = tasks[t].deps
        /\ new.in_degrees = tasks[t].in_degrees
        /\ new.status \in {"FAILED", "PENDING", "WAITING_FOR_RESOURCE"}
        /\ new.status = "PENDING" => Ready(tasks[t])
    BY <2>2 DEF Retried, TaskHandler, Status
  <2>4. HandlerSound(t, new, completed)
    BY <2>2, <2>3, OtherFields
  <2>5. tasks'[t] = new
    BY <1>1, <2>1 DEF TasksTypeOK
  <2>6. \/ Return(p, FALSE, FALSE)
        \/ Goto(p, "retryPush") /\ Enabled(t, completed')
        \/ AfterRetry(p)
    BY <2>1, <2>2, <2>3, <2>5
  <2>7. Moves(p)
    <3>1. CASE Return(p, FALSE, FALSE)
      BY <1>1, <3>1, Returns
    <3>2. CASE Goto(p, "retryPush") /\ Enabled(t, completed')
      BY <1>1, <3>2, Goes
    <3>3. CASE AfterRetry(p)
      BY <1>1, <3>3, AfterRetryMoves
    <3> QED BY <2>6, <3>1, <3>2, <3>3
  <2> HIDE DEF new
  <2> QED BY <1>1, <2>1, <2>4, <2>7, MovesWrite DEF RetryTask
<1> QED BY <1>2, <1>3

LEMMA RetryPushEffect ==
  ASSUME ManagerInv, NEW p \in Thread, RetryPush(p), UNCHANGED <<completed, dispatches>>
  PROVE  CallEffect(p)
<1> DEFINE t == call[p].task
<1>1. /\ TasksTypeOK /\ TableSound /\ QueueSound /\ call \in [Thread -> Call]
      /\ CallSound(p) /\ \A r \in Request : RecruiterSound(r)
      /\ TheTask(p) = t /\ call[p].pc = "retryPush" /\ t \in Task /\ "retryPush" \in WithTask
  BY AtPoint DEF RetryPush, WithTask, CallPoint
<1>2. Enabled(t, completed) /\ Push(t) /\ AfterRetry(p)
  BY <1>1 DEF CallSound, RetryPush
<1>3. Moves(p)
  BY <1>1, <1>2, AfterRetryMoves
<1>4. QueueSound' /\ task_queue' \in Seq(Task)
  BY <1>1, <1>2, IdPushed DEF RetryPush, TasksTypeOK
<1>5. TableSound'
  BY <1>1, TableKept DEF RetryPush
<1>6. \A r \in Request : RecruiterSound(r)'
  BY <1>1, RecruitersKept DEF RetryPush
<1> QED BY <1>1, <1>3, <1>4, <1>5, <1>6, MovesEffect DEF RetryPush, TasksTypeOK

\* A step that takes the table's mutex and may keep it.
LEMMA MovesLocking ==
  ASSUME ManagerInv, NEW p \in Thread, call[p].pc \in WithTask, CallSound(p)',
         call' \in [Thread -> Call], \A q \in Thread \ {p} : call'[q] = call[q],
         call'[p].pc \in WithTask => call'[p].task = call[p].task,
         ~call'[p].ready, LockSound(p)',
         tasksLock \in {Unlocked, p}, tasksLock' \in {Unlocked, p},
         popped' = popped, completed \subseteq completed',
         tasks' \in [Task -> TaskHandler \cup {NoTask}], TableSound',
         task_queue' \in Seq(Task), QueueSound',
         recruiter' \in [Request -> Recruiter], \A r \in Request : RecruiterSound(r)'
  PROVE  CallEffect(p)
<1>1. TasksTypeOK
  BY DEF ManagerInv, DomainManagerTypeOK
<1>2. \A q \in Thread \ {p} : ((tasksLock = q) <=> (tasksLock' = q))
  BY NullsAssumption
<1>3. TasksTypeOK'
  BY <1>1 DEF TasksTypeOK
<1> QED BY <1>2, <1>3 DEF CallEffect

LEMMA FailTaskEffect ==
  ASSUME ManagerInv, NEW p \in Thread, FailTask(p), UNCHANGED <<completed, dispatches>>
  PROVE  CallEffect(p)
<1> DEFINE t == call[p].task
           new == [tasks[t] EXCEPT !.status = "FAILED"]
<1>1. /\ TasksTypeOK /\ TableSound /\ QueueSound /\ call \in [Thread -> Call]
      /\ CallSound(p) /\ \A r \in Request : RecruiterSound(r)
      /\ TheTask(p) = t /\ call[p].pc = "fail" /\ t \in Task /\ "fail" \in WithTask
      /\ TasksFree
  BY AtPoint DEF FailTask, WithTask, CallPoint
<1>2. CASE ~Present(t)
  <2>1. Return(p, FALSE, FALSE) /\ UNCHANGED <<tasks, tasksLock>>
    BY <1>1, <1>2 DEF FailTask
  <2> QED BY <1>1, <2>1, Returns, MovesOnly DEF FailTask
<1>3. CASE Present(t)
  <2>1. tasks' = [tasks EXCEPT ![t] = new]
    BY <1>1, <1>3 DEF FailTask
  <2>2. HandlerSound(t, tasks[t], completed) /\ tasks[t] \in TaskHandler
    BY <1>1, <1>3, InTable
  <2>3. /\ new \in TaskHandler /\ new.deps = tasks[t].deps
        /\ new.in_degrees = tasks[t].in_degrees /\ new.status = "FAILED"
    BY <2>2 DEF TaskHandler, Status
  <2>4. HandlerSound(t, new, completed)
    BY <2>2, <2>3, OtherFields
  <2> HIDE DEF new
  <2>5. CASE Dependents(t) = {}
    <3>1. Return(p, TRUE, FALSE) /\ UNCHANGED tasksLock
      BY <1>1, <1>3, <2>5 DEF FailTask
    <3> QED BY <1>1, <2>1, <2>4, <3>1, Returns, MovesWrite DEF FailTask
  <2>6. CASE Dependents(t) # {}
    <3>1. Goto(p, "stuck") /\ tasksLock' = p /\ tasksLock = Unlocked
      BY <1>1, <1>3, <2>6 DEF FailTask, TasksFree
    <3>2. Moves(p)
      BY <1>1, <3>1, Goes
    <3>3. call'[p].pc = "stuck"
      BY <1>1, <3>1 DEF Goto, Call
    <3>4. LockSound(p)'
      BY <3>1, <3>3 DEF LockSound
    <3>5. TableSound' /\ tasks' \in [Task -> TaskHandler \cup {NoTask}]
      BY <1>1, <2>1, <2>4, TableWritten DEF TasksTypeOK
    <3>6. QueueSound'
      BY <1>1, IdsKept DEF FailTask
    <3>7. \A r \in Request : RecruiterSound(r)'
      <4>1. tasksLock \notin Request
        BY <3>1, NullsAssumption
      <4> QED BY <1>1, <4>1, RecruitersKept DEF FailTask
    <3>8. call'[p].pc \notin WithTask /\ ~call'[p].ready
      BY <3>2, <3>3 DEF Moves, CallSound, WithTask
    <3> QED
      BY <1>1, <3>1, <3>2, <3>4, <3>5, <3>6, <3>7, <3>8, MovesLocking
      DEF FailTask, Moves, TasksTypeOK
  <2> QED BY <2>5, <2>6
<1> QED BY <1>2, <1>3

\* TaskAction::Done up to the loop: the task was sent, and counts as completed.
LEMMA DoneTaskEffect ==
  ASSUME ManagerInv, NEW p \in Thread, DoneTask(p), dispatches' = dispatches,
         completed' = IF call'[p].pc = "notify" THEN completed \cup {call[p].task}
                      ELSE completed
  PROVE  CallEffect(p)
<1> DEFINE t == call[p].task
           new == [tasks[t] EXCEPT !.status = "DONE"]
<1>1. /\ TasksTypeOK /\ TableSound /\ call \in [Thread -> Call] /\ CallSound(p)
      /\ TheTask(p) = t /\ call[p].pc = "done" /\ t \in Task /\ "done" \in WithTask
      /\ TasksFree
  BY AtPoint DEF DoneTask, WithTask, CallPoint
<1>2. CASE ~(Present(t) /\ tasks[t].status \in {"PROCESSING", "STARTED", "DONE"})
  <2>1. Return(p, FALSE, FALSE) /\ UNCHANGED tasks
    BY <1>1, <1>2 DEF DoneTask
  <2>2. Moves(p)
    BY <1>1, <2>1, Returns
  <2>3. completed' = completed
    BY <1>1, <2>1 DEF Return
  <2> QED BY <1>1, <2>1, <2>2, <2>3, MovesOnly DEF DoneTask
<1>3. CASE Present(t) /\ tasks[t].status \in {"PROCESSING", "STARTED", "DONE"}
  <2>1. tasks' = [tasks EXCEPT ![t] = new] /\ Goto(p, "notify")
    BY <1>1, <1>3 DEF DoneTask
  <2>2. call'[p].pc = "notify"
    BY <1>1, <2>1 DEF Goto, Call
  <2>3. Moves(p)
    BY <1>1, <2>1, <2>2, Goes
  <2>4. HandlerSound(t, tasks[t], completed) /\ tasks[t] \in TaskHandler
    BY <1>1, <1>3, InTable
  <2>5. /\ new \in TaskHandler /\ new.deps = tasks[t].deps
        /\ new.in_degrees = tasks[t].in_degrees
    BY <2>4 DEF TaskHandler, Status
  <2>6. Enabled(t, completed)
    BY <1>1 DEF CallSound, ManagerInv, ReportsSound
  <2>7. HandlerSound(t, new, completed)
    BY <2>4, <2>5, <2>6, OtherFields
  <2> HIDE DEF new
  <2> QED BY <1>1, <2>1, <2>3, <2>7, MovesWrite DEF DoneTask
<1> QED BY <1>2, <1>3

LEMMA NotifyNobodyEffect ==
  ASSUME ManagerInv, NEW p \in Thread, NotifyNobody(p), UNCHANGED <<completed, dispatches>>
  PROVE  CallEffect(p)
<1>1. /\ TasksTypeOK /\ TableSound /\ QueueSound /\ call \in [Thread -> Call]
      /\ \A r \in Request : RecruiterSound(r)
      /\ call[p].pc = "notify" /\ "notify" \in WithTask
  BY AtPoint DEF NotifyNobody, WithTask, CallPoint
<1>2. Moves(p) /\ call'[p].pc = "returned" /\ ~call'[p].ready
  <2>1. Return(p, TRUE, FALSE)
    BY DEF NotifyNobody
  <2>2. Moves(p)
    BY <1>1, <2>1, Returns
  <2> QED BY <1>1, <2>1, <2>2 DEF Return, NoCall
<1>3. TableSound' /\ QueueSound'
  <2>1. TableSound'
    BY <1>1, TableKept DEF NotifyNobody
  <2> QED BY <1>1, <2>1, IdsKept DEF NotifyNobody
<1>4. \A r \in Request : RecruiterSound(r)'
  BY <1>1, RecruitersKept DEF NotifyNobody
<1>5. tasksLock = Unlocked /\ tasksLock' = Unlocked
  BY DEF NotifyNobody, TasksFree
<1>6. LockSound(p)'
  BY <1>2, <1>5, NullsAssumption DEF LockSound
<1> QED
  BY <1>1, <1>2, <1>3, <1>4, <1>5, <1>6, MovesLocking
  DEF NotifyNobody, Moves, TasksTypeOK

-----------------------------------------------------------------------------
\* The loop of TaskAction::Done.
StillToNotify(todo, t, table) ==
  \A h \in todo : /\ h \in Task /\ table[h] # NoTask
                  /\ t \in DOMAIN table[h].deps /\ ~table[h].deps[t]

LEMMA ToNotifyMeans ==
  ASSUME NEW t, NEW todo, NEW table, table = tasks
  PROVE  todo \subseteq ToNotify(t) <=> StillToNotify(todo, t, table)
BY DEF ToNotify, Dependents, Present, StillToNotify

\* What a step of the loop does to its thread and to the mutex.
NotifyMoves(p) ==
  /\ call' \in [Thread -> Call]
  /\ CallSound(p)' /\ LockSound(p)'
  /\ call'[p].pc \in WithTask => call'[p].task = call[p].task
  /\ ~call'[p].ready
  /\ \A q \in Thread \ {p} : call'[q] = call[q]
  /\ tasksLock' \in {Unlocked, p}

LEMMA ContinueNotifyMoves ==
  ASSUME call \in [Thread -> Call], NEW p \in Thread, CallSound(p),
         call[p].pc \in {"notify", "notifyPush"}, completed' = completed,
         NEW todo, ContinueNotify(p, todo), StillToNotify(todo, call[p].task, tasks')
  PROVE  NotifyMoves(p)
<1>1. call[p].pc \in WithTask
  BY DEF WithTask, CallPoint
<1>2. CASE todo = {}
  <2>1. Return(p, TRUE, FALSE) /\ tasksLock' = Unlocked
    BY <1>2 DEF ContinueNotify
  <2>2. Moves(p)
    BY <2>1, Returns
  <2>3. call'[p].pc = "returned" /\ ~call'[p].ready
    BY <2>1 DEF Return, NoCall
  <2>4. LockSound(p)'
    BY <2>1, <2>3, NullsAssumption DEF LockSound
  <2> QED BY <2>1, <2>2, <2>3, <2>4 DEF Moves, NotifyMoves
<1>3. CASE todo # {}
  <2> DEFINE c == [call[p] EXCEPT !.pc = "notify", !.todo = todo, !.pushing = NoId]
  <2>1. call[p] \in Call
    OBVIOUS
  <2>2. todo \in SUBSET Task
    BY DEF StillToNotify
  <2>3. c \in Call
    BY <2>1, <2>2 DEF Call, CallPoint
  <2>4. call' = [call EXCEPT ![p] = c] /\ tasksLock' = p
    BY <1>3 DEF ContinueNotify
  <2>5. /\ c.pc = "notify" /\ c.todo = todo /\ c.task = call[p].task
        /\ c.ready = call[p].ready /\ c.th = call[p].th
    BY <2>1 DEF Call
  <2> HIDE DEF c
  <2>6. call'[p] = c /\ call' \in [Thread -> Call] /\ \A q \in Thread \ {p} : call'[q] = call[q]
    BY <2>3, <2>4
  <2>7. CallSound(p)'
    BY <1>1, <2>5, <2>6 DEF CallSound
  <2>8. LockSound(p)'
    <3>1. call'[p].todo \subseteq ToNotify(call[p].task)'
      BY <2>5, <2>6 DEF StillToNotify, ToNotify, Dependents, Present
    <3> QED BY <2>4, <2>5, <2>6, <3>1 DEF LockSound
  <2>9. ~call'[p].ready
    BY <2>5, <2>6, <2>7 DEF CallSound
  <2> QED BY <2>4, <2>5, <2>6, <2>7, <2>8, <2>9 DEF NotifyMoves
<1> QED BY <1>2, <1>3

LEMMA NotifyDependentEffect ==
  ASSUME ManagerInv, NEW p \in Thread, NEW h \in Task, NotifyDependent(p, h),
         UNCHANGED <<completed, dispatches>>
  PROVE  CallEffect(p) /\ NodesTypeOK'
<1> DEFINE t == call[p].task
           todo == IF tasksLock = p THEN call[p].todo ELSE ToNotify(t)
           th == Notified(h, t)
<1>1. /\ TasksTypeOK /\ NodesTypeOK /\ TableSound /\ QueueSound
      /\ call \in [Thread -> Call] /\ CallSound(p) /\ LockSound(p)
      /\ \A r \in Request : RecruiterSound(r)
      /\ TheTask(p) = t /\ call[p].pc = "notify" /\ t \in Task /\ "notify" \in WithTask
  BY AtPoint DEF NotifyDependent, WithTask, CallPoint
<1>2. tasksLock \in {Unlocked, p} /\ tasksLock \notin Request /\ h \in todo
  BY <1>1, NullsAssumption DEF NotifyDependent
<1>3. StillToNotify(todo, t, tasks)
  <2>1. todo \subseteq ToNotify(t)
    BY <1>1 DEF LockSound
  <2> QED BY <2>1, ToNotifyMeans
<1>4. t \in completed
  BY <1>1 DEF CallSound
<1>5. HandlerSound(h, th, completed)
  <2>1. /\ HandlerSound(h, tasks[h], completed)
        /\ t \in DOMAIN tasks[h].deps /\ ~tasks[h].deps[t]
    BY <1>1, <1>2, <1>3, InTable DEF StillToNotify, Present
  <2>2. th = [tasks[h] EXCEPT !.deps[t] = TRUE, !.in_degrees = @ - 1]
    BY DEF Notified
  <2> QED BY <1>4, <2>1, <2>2, NotifiedSound
<1>6. ASSUME NEW new, tasks' = [tasks EXCEPT ![h] = new], HandlerSound(h, new, completed)
      PROVE  /\ TableSound' /\ tasks' \in [Task -> TaskHandler \cup {NoTask}]
             /\ StillToNotify(todo \ {h}, t, tasks')
  <2>1. TableSound' /\ tasks' \in [Task -> TaskHandler \cup {NoTask}]
    BY <1>1, <1>6, TableWritten DEF TasksTypeOK
  <2>2. StillToNotify(todo \ {h}, t, tasks')
    BY <1>1, <1>3, <1>6 DEF StillToNotify, TasksTypeOK
  <2> QED BY <2>1, <2>2
<1>7. QueueSound' /\ UNCHANGED <<task_queue, popped>>
  BY <1>1, IdsKept DEF NotifyDependent
<1>8. CASE th.in_degrees # 0
  <2>1. /\ tasks' = [tasks EXCEPT ![h] = th] /\ ContinueNotify(p, todo \ {h})
        /\ recruiter' = recruiter /\ UNCHANGED nodesVars
    BY <1>1, <1>8 DEF NotifyDependent
  <2> HIDE DEF th, todo
  <2>2. NotifyMoves(p)
    BY <1>1, <1>5, <1>6, <2>1, ContinueNotifyMoves
  <2>3. \A r \in Request : RecruiterSound(r)'
    BY <1>1, <1>2, <2>1, RecruitersKept
  <2>4. NodesTypeOK'
    BY <1>1, <2>1 DEF nodesVars, NodesTypeOK
  <2> QED
    BY <1>1, <1>2, <1>5, <1>6, <1>7, <2>1, <2>2, <2>3, <2>4, MovesLocking
    DEF NotifyMoves, TasksTypeOK
<1>9. CASE th.in_degrees = 0
  <2>1. PICK o \in Recruitments(h, th) :
          /\ RecruitNode(h, o)
          /\ tasks' = [tasks EXCEPT ![h] = o.th]
          /\ IF o.ok /\ Ready(o.th)
             THEN /\ call' = [call EXCEPT ![p].pc = "notifyPush",
                               ![p].todo = todo \ {h}, ![p].pushing = h]
                  /\ tasksLock' = p
             ELSE ContinueNotify(p, todo \ {h})
    BY <1>1, <1>9 DEF NotifyDependent
  <2> HIDE DEF th, todo
  <2>2. Enabled(h, completed)
    BY <1>5, <1>9, CountedDown
  <2>3. /\ HandlerSound(h, o.th, completed)
        /\ o.spawned # NoRequest =>
             o.spawned \in Request /\ recruiter[o.spawned].pc = "unused"
    BY <1>1, <1>5, RecruitmentsSound
  <2>4. /\ NodesTypeOK' /\ recruiter' \in [Request -> Recruiter]
        /\ \A r \in Request : RecruiterSound(r)'
    BY <1>1, <1>2, <2>1, <2>2, <2>3, RecruitNodeSound DEF TasksTypeOK
  <2>5. CASE ~(o.ok /\ Ready(o.th))
    <3>1. NotifyMoves(p)
      BY <1>1, <1>6, <2>1, <2>3, <2>5, ContinueNotifyMoves
    <3> QED
      BY <1>1, <1>2, <1>6, <1>7, <2>1, <2>3, <2>4, <3>1, MovesLocking
      DEF NotifyMoves, TasksTypeOK
  <2>6. CASE o.ok /\ Ready(o.th)
    <3> DEFINE c == [call[p] EXCEPT !.pc = "notifyPush", !.todo = todo \ {h}, !.pushing = h]
    <3>1. call' = [call EXCEPT ![p] = c] /\ tasksLock' = p
      BY <2>1, <2>6
    <3>2. call[p] \in Call /\ todo \ {h} \in SUBSET Task
      BY <1>1, <1>3 DEF StillToNotify
    <3>3. c \in Call
      BY <3>2 DEF Call, CallPoint
    <3>4. /\ c.pc = "notifyPush" /\ c.todo = todo \ {h} /\ c.task = t /\ c.pushing = h
          /\ c.ready = call[p].ready /\ c.th = call[p].th
      BY <3>2 DEF Call
    <3> HIDE DEF c
    <3>5. /\ call'[p] = c /\ call' \in [Thread -> Call]
          /\ \A q \in Thread \ {p} : call'[q] = call[q]
      BY <1>1, <3>1, <3>3
    <3>6. CallSound(p)'
      BY <1>1, <1>4, <2>2, <3>4, <3>5 DEF CallSound
    <3>7. LockSound(p)'
      <4>1. StillToNotify(todo \ {h}, t, tasks')
        BY <1>6, <2>1, <2>3
      <4>2. call'[p].todo \subseteq ToNotify(t)'
        BY <3>4, <3>5, <4>1 DEF StillToNotify, ToNotify, Dependents, Present
      <4> QED BY <3>1, <3>4, <3>5, <4>2 DEF LockSound
    <3>8. NotifyMoves(p)
      BY <1>1, <3>1, <3>4, <3>5, <3>6, <3>7 DEF NotifyMoves, CallSound
    <3> QED
      BY <1>1, <1>2, <1>6, <1>7, <2>1, <2>3, <2>4, <3>8, MovesLocking
      DEF NotifyMoves, TasksTypeOK
  <2> QED BY <2>5, <2>6
<1> QED BY <1>8, <1>9

LEMMA NotifyPushEffect ==
  ASSUME ManagerInv, NEW p \in Thread, NotifyPush(p), UNCHANGED <<completed, dispatches>>
  PROVE  CallEffect(p)
<1> DEFINE t == call[p].task
<1>1. /\ TasksTypeOK /\ TableSound /\ QueueSound
      /\ call \in [Thread -> Call] /\ CallSound(p) /\ LockSound(p)
      /\ \A r \in Request : RecruiterSound(r)
      /\ call[p].pc = "notifyPush" /\ "notifyPush" \in WithTask
  BY AtPoint DEF NotifyPush, WithTask, CallPoint
<1>2. /\ tasksLock = p /\ tasksLock \notin Request
      /\ StillToNotify(call[p].todo, t, tasks)
      /\ call[p].pushing \in Task /\ Enabled(call[p].pushing, completed)
  <2>1. tasksLock = p /\ call[p].todo \subseteq ToNotify(t)
    BY <1>1 DEF LockSound
  <2> QED BY <1>1, <2>1, ToNotifyMeans, NullsAssumption DEF CallSound
<1>3. NotifyMoves(p)
  BY <1>1, <1>2, ContinueNotifyMoves DEF NotifyPush
<1>4. QueueSound' /\ task_queue' \in Seq(Task)
  BY <1>1, <1>2, IdPushed DEF NotifyPush, TasksTypeOK
<1>5. TableSound'
  BY <1>1, TableKept DEF NotifyPush
<1>6. \A r \in Request : RecruiterSound(r)'
  BY <1>1, <1>2, RecruitersKept DEF NotifyPush
<1> QED
  BY <1>1, <1>2, <1>3, <1>4, <1>5, <1>6, MovesLocking
  DEF NotifyPush, NotifyMoves, TasksTypeOK

-----------------------------------------------------------------------------
\* Every step a thread takes inside TasksManagement.
LEMMA InCallInv ==
  ASSUME ManagerInv, NEW p \in Thread, InCall(p)
  PROVE  ManagerInv'
<1>1. /\ CallStep(p) /\ dispatches' = dispatches
      /\ completed' = IF At(p, "done") /\ call'[p].pc = "notify"
                      THEN completed \cup {TheTask(p)} ELSE completed
  BY DEF InCall
<1>2. NodesTypeOK /\ completed \subseteq Task /\ CallSound(p)
  BY DEF ManagerInv, DomainManagerTypeOK
<1>3. CASE DoneTask(p)
  <2>1. call[p].pc = "done" /\ call[p].task \in Task
    BY <1>2, <1>3 DEF DoneTask, At, CallSound, WithTask, CallPoint
  <2>2. completed' = IF call'[p].pc = "notify" THEN completed \cup {call[p].task}
                     ELSE completed
    BY <1>1, <2>1 DEF At, TheTask
  <2>3. CallEffect(p)
    BY <1>1, <1>3, <2>2, DoneTaskEffect
  <2>4. NodesTypeOK'
    BY <1>2, <1>3 DEF DoneTask, nodesVars, NodesTypeOK
  <2> QED BY <1>2, <2>1, <2>2, <2>3, <2>4, CallEffectInv
<1>4. ASSUME ~At(p, "done"), CallEffect(p), NodesTypeOK' PROVE ManagerInv'
  BY <1>1, <1>2, <1>4, CallEffectInv
<1>5. ~At(p, "done") => UNCHANGED <<completed, dispatches>>
  BY <1>1
<1>6. ASSUME UNCHANGED nodesVars PROVE NodesTypeOK'
  BY <1>2, <1>6 DEF nodesVars, NodesTypeOK
<1>7. CASE ValidateTask(p)
  BY <1>4, <1>5, <1>6, <1>7, ValidateTaskEffect DEF ValidateTask, At
<1>8. CASE AddTask(p)
  BY <1>4, <1>5, <1>6, <1>8, AddTaskEffect DEF AddTask, At
<1>9. CASE CloneHandler(p)
  BY <1>4, <1>5, <1>6, <1>9, CloneHandlerEffect DEF CloneHandler, At
<1>10. CASE ValidateDependencies(p)
  BY <1>4, <1>5, <1>6, <1>10, ValidateDependenciesEffect DEF ValidateDependencies, At
<1>11. CASE RecruitForNew(p)
  BY <1>4, <1>5, <1>11, RecruitForNewEffect DEF RecruitForNew, At
<1>12. CASE InsertTask(p)
  BY <1>4, <1>5, <1>6, <1>12, InsertTaskEffect DEF InsertTask, At
<1>13. CASE UpdateTask(p)
  BY <1>4, <1>5, <1>6, <1>13, UpdateTaskEffect DEF UpdateTask, At
<1>14. CASE RetryTask(p)
  BY <1>4, <1>5, <1>6, <1>14, RetryTaskEffect DEF RetryTask, At
<1>15. CASE RetryPush(p)
  BY <1>4, <1>5, <1>6, <1>15, RetryPushEffect DEF RetryPush, At
<1>16. CASE FailTask(p)
  BY <1>4, <1>5, <1>6, <1>16, FailTaskEffect DEF FailTask, At
<1>17. CASE NotifyNobody(p)
  BY <1>4, <1>5, <1>6, <1>17, NotifyNobodyEffect DEF NotifyNobody, At
<1>18. ASSUME NEW h \in Task, NotifyDependent(p, h) PROVE ManagerInv'
  BY <1>4, <1>5, <1>18, NotifyDependentEffect DEF NotifyDependent, At
<1>19. CASE NotifyPush(p)
  BY <1>4, <1>5, <1>6, <1>19, NotifyPushEffect DEF NotifyPush, At
<1> QED
  BY <1>1, <1>3, <1>7, <1>8, <1>9, <1>10, <1>11, <1>12, <1>13, <1>14, <1>15, <1>16,
     <1>17, <1>18, <1>19 DEF CallStep

-----------------------------------------------------------------------------
\* The other steps: the parts of the invariant after a step, where a thread
\* either is as it was or was looked at.
LEMMA InvFromParts ==
  ASSUME ManagerInv, DomainManagerTypeOK', TableSound', QueueSound',
         \A r \in Request : RecruiterSound(r)', ReportsSound',
         completed \subseteq completed',
         \A t \in Task : dispatches[t] > 0 => dispatches'[t] > 0,
         \A q \in Thread :
           \/ CallSound(q)' /\ LockSound(q)' /\ ThreadSound(q)'
           \/ /\ thread'[q] = thread[q] /\ call'[q] = call[q]
              /\ (tasksLock = q) <=> (tasksLock' = q)
              /\ tasksLock = q => tasks' = tasks
  PROVE  ManagerInv'
<1>1. ASSUME NEW q \in Thread PROVE CallSound(q)' /\ LockSound(q)' /\ ThreadSound(q)'
  BY <1>1, OtherThread DEF ManagerInv
<1> QED BY <1>1 DEF ManagerInv

\* Steps of recruiters, registrations, the loop and the monitor: no thread
\* that calls TasksManagement moves, and no report comes or goes.
LEMMA OutsideThreads ==
  ASSUME ManagerInv, NodesTypeOK', main' \in {"select", "sleep"},
         UNCHANGED <<call, thread, executing, dispatches, retried, completed>>,
         spent' \in [{"submits", "announces", "errors", "hangups"} -> Nat],
         lost' \subseteq Task,
         tasks' \in [Task -> TaskHandler \cup {NoTask}], TableSound',
         task_queue' \in Seq(Task), popped' \in Task \cup {NoId}, QueueSound',
         recruiter' \in [Request -> Recruiter], \A r \in Request : RecruiterSound(r)',
         tasksLock' \in Thread \cup Request \cup {Unlocked, Monitor},
         \A q \in Thread : (tasksLock = q) <=> (tasksLock' = q),
         \A q \in Thread : tasksLock = q => tasks' = tasks
  PROVE  ManagerInv'
<1>1. DomainManagerTypeOK'
  BY DEF ManagerInv, DomainManagerTypeOK, TasksTypeOK
<1>2. ReportsSound'
  BY DEF ManagerInv, ReportsSound
<1> QED BY <1>1, <1>2, InvFromParts

\* What the lemmas below use of the invariant.
LEMMA InvParts ==
  ASSUME ManagerInv
  PROVE  /\ TasksTypeOK /\ NodesTypeOK /\ TableSound /\ QueueSound
         /\ \A r \in Request : RecruiterSound(r)
         /\ main \in {"select", "sleep"} /\ lost \subseteq Task
         /\ spent \in [{"submits", "announces", "errors", "hangups"} -> Nat]
         /\ tasks \in [Task -> TaskHandler \cup {NoTask}]
         /\ task_queue \in Seq(Task) /\ popped \in Task \cup {NoId}
         /\ recruiter \in [Request -> Recruiter]
         /\ tasksLock \in Thread \cup Request \cup {Unlocked, Monitor}
BY DEF ManagerInv, DomainManagerTypeOK, TasksTypeOK

LEMMA RecruiterInv ==
  ASSUME ManagerInv, NEW r \in Request, InRecruiter(r)
  PROVE  ManagerInv'
<1> DEFINE t == recruiter[r].task
<1>1. /\ TasksTypeOK /\ NodesTypeOK /\ TableSound /\ QueueSound /\ RecruiterSound(r)
      /\ UNCHANGED <<loopVars, historyVars>>
  BY InvParts DEF InRecruiter
<1>2. UNCHANGED <<thread, executing, main, spent, dispatches, retried, completed, lost>>
  BY <1>1 DEF loopVars, historyVars
<1>3. CASE RecruiterRequest(r)
  <2>1. t \in Task /\ Enabled(t, completed)
    BY <1>1, <1>3 DEF RecruiterSound, RecruiterRequest
  <2>2. NodesTypeOK'
    <3>1. EndpointOf[t] \in Endpoint
      BY <2>1, TaskConstantsAssumption
    <3>2. NodesNext
      BY <1>3, <3>1 DEF RecruiterRequest, NodesNext
    <3> QED BY <1>1, <3>2, NodesTypeStep
  <2>3. recruiter' \in [Request -> Recruiter]
    BY <1>1, <1>3 DEF RecruiterRequest, TasksTypeOK, Recruiter
  <2>4. \A q \in Request : RecruiterSound(q)'
    BY <1>1, <1>2, <1>3, InvParts DEF RecruiterRequest, TasksTypeOK, Recruiter, RecruiterSound
  <2>5. TableSound' /\ QueueSound'
    <3>1. TableSound'
      BY <1>1, <1>2, <1>3, TableKept DEF RecruiterRequest
    <3> QED BY <1>1, <1>2, <1>3, <3>1, IdsKept DEF RecruiterRequest
  <2> QED BY <1>2, <1>3, <2>2, <2>3, <2>4, <2>5, InvParts, OutsideThreads DEF RecruiterRequest
<1>4. CASE RecruiterResume(r)
  <2>1. t \in Task /\ Enabled(t, completed)
    BY <1>1, <1>4 DEF RecruiterSound, RecruiterResume
  <2>2. NodesTypeOK'
    <3>1. NodesNext
      BY <1>4 DEF RecruiterResume, NodesNext
    <3> QED BY <1>1, <3>1, NodesTypeStep
  <2>3. QueueSound'
    BY <1>1, <1>2, <1>4, IdsKept DEF RecruiterResume
  <2>4. tasksLock = Unlocked /\ \A q \in Thread \cup Request : tasksLock # q
    BY <1>4, NullsAssumption DEF RecruiterResume, TasksFree
  <2>5. \A q \in Request : recruiter[q].pc # "pushing"
    BY <2>4, InvParts DEF RecruiterSound
  <2>6. ASSUME NEW pc \in {"pushing", "panicked"},
               recruiter' = [recruiter EXCEPT ![r].pc = pc],
               pc = "pushing" => tasksLock' = r
        PROVE  /\ recruiter' \in [Request -> Recruiter]
               /\ \A q \in Request : RecruiterSound(q)'
    <3>1. recruiter' \in [Request -> Recruiter]
      BY <1>1, <2>6 DEF TasksTypeOK, Recruiter
    <3>2. recruiter'[r].pc = pc /\ recruiter'[r].task = t
      BY <1>1, <2>6 DEF TasksTypeOK, Recruiter
    <3>3. \A q \in Request \ {r} : recruiter'[q] = recruiter[q]
      BY <1>1, <2>6 DEF TasksTypeOK
    <3> QED BY <1>2, <2>1, <2>5, <2>6, <3>1, <3>2, <3>3, InvParts DEF RecruiterSound
  <2>7. CASE ~Present(t)
    <3>1. recruiter' = [recruiter EXCEPT ![r].pc = "panicked"] /\ UNCHANGED <<tasks, tasksLock>>
      BY <1>4, <2>7 DEF RecruiterResume
    <3>2. TableSound'
      BY <1>1, <1>2, <3>1, TableKept
    <3> QED
      BY <1>2, <1>4, <2>2, <2>3, <2>6, <3>1, <3>2, InvParts, OutsideThreads
      DEF RecruiterResume
  <2>8. CASE Present(t)
    <3> DEFINE new == [tasks[t] EXCEPT !.receiver = channel[r].node, !.request = NoRequest]
    <3>1. /\ recruiter' = [recruiter EXCEPT ![r].pc = "pushing"]
          /\ tasks' = [tasks EXCEPT ![t] = new]
          /\ tasksLock' = r
      BY <1>1, <1>4, <2>1, <2>8 DEF RecruiterResume, TasksTypeOK
    <3>2. HandlerSound(t, tasks[t], completed) /\ tasks[t] \in TaskHandler
      BY <1>1, <2>1, <2>8, InTable
    <3>3. channel[r].node \in Node \cup {NoNode}
      BY <1>1 DEF NodesTypeOK, Channel
    <3>4. /\ new \in TaskHandler /\ new.deps = tasks[t].deps
          /\ new.in_degrees = tasks[t].in_degrees /\ new.status = tasks[t].status
      BY <3>2, <3>3 DEF TaskHandler
    <3>5. HandlerSound(t, new, completed)
      BY <3>2, <3>4, OtherFields
    <3> HIDE DEF new
    <3>6. TableSound' /\ tasks' \in [Task -> TaskHandler \cup {NoTask}]
      BY <1>1, <1>2, <2>1, <3>1, <3>5, TableWritten DEF TasksTypeOK
    <3>7. \A q \in Thread : tasksLock # q /\ tasksLock' # q
      BY <2>4, <3>1, NullsAssumption
    <3> QED
      BY <1>2, <1>4, <2>2, <2>3, <2>6, <3>1, <3>6, <3>7, InvParts, OutsideThreads
      DEF RecruiterResume
  <2> QED BY <2>7, <2>8
<1>5. CASE RecruiterPush(r)
  <2>1. t \in Task /\ Enabled(t, completed) /\ tasksLock = r
    BY <1>1, <1>5 DEF RecruiterSound, RecruiterPush
  <2>2. QueueSound' /\ task_queue' \in Seq(Task)
    BY <1>1, <1>2, <1>5, <2>1, IdPushed DEF RecruiterPush, TasksTypeOK
  <2>3. NodesTypeOK' /\ TableSound'
    <3>1. NodesTypeOK'
      BY <1>1, <1>5 DEF RecruiterPush, nodesVars, NodesTypeOK
    <3> QED BY <1>1, <1>2, <1>5, <3>1, TableKept DEF RecruiterPush
  <2>4. recruiter' \in [Request -> Recruiter]
    BY <1>1, <1>5 DEF RecruiterPush, TasksTypeOK, Recruiter
  <2>5. \A q \in Request : RecruiterSound(q)'
    <3>1. recruiter'[r].pc = "ended" /\ recruiter'[r].task = t
      BY <1>1, <1>5 DEF RecruiterPush, TasksTypeOK, Recruiter
    <3>2. \A q \in Request \ {r} : recruiter'[q] = recruiter[q] /\ recruiter[q].pc # "pushing"
      BY <1>1, <1>5, <2>1, InvParts DEF RecruiterPush, TasksTypeOK, RecruiterSound
    <3> QED BY <1>2, <2>1, <3>1, <3>2, InvParts DEF RecruiterSound
  <2>6. tasksLock' = Unlocked /\ \A q \in Thread : tasksLock # q /\ tasksLock' # q
    BY <1>5, <2>1, NullsAssumption DEF RecruiterPush
  <2> QED
    BY <1>2, <1>5, <2>2, <2>3, <2>4, <2>5, <2>6, InvParts, OutsideThreads
    DEF RecruiterPush
<1> QED BY <1>3, <1>4, <1>5 DEF InRecruiter, RecruiterStep

\* Steps that leave the table, the queue and the recruiters alone.
LEMMA NothingMoved ==
  ASSUME ManagerInv, NodesTypeOK', main' \in {"select", "sleep"},
         UNCHANGED <<call, thread, executing, dispatches, retried, completed>>,
         spent' \in [{"submits", "announces", "errors", "hangups"} -> Nat],
         lost' \subseteq Task,
         UNCHANGED <<tasks, task_queue, recruiter>>, popped' \in {popped, NoId},
         tasksLock' = tasksLock \/ {tasksLock, tasksLock'} \subseteq {Unlocked, Monitor}
  PROVE  ManagerInv'
<1>1. /\ TableSound' /\ QueueSound'
  <2>1. TableSound'
    BY InvParts, TableKept
  <2>2. QueueSound'
    BY InvParts DEF QueueSound
  <2> QED BY <2>1, <2>2
<1>2. \A r \in Request : RecruiterSound(r)'
  <2>1. tasksLock' = tasksLock \/ tasksLock \notin Request
    BY NullsAssumption
  <2> QED BY <2>1, InvParts, RecruitersKept
<1>3. /\ \A q \in Thread : (tasksLock = q) <=> (tasksLock' = q)
      /\ tasksLock' \in Thread \cup Request \cup {Unlocked, Monitor}
      /\ popped' \in Task \cup {NoId}
  BY InvParts, NullsAssumption
<1> QED BY <1>1, <1>2, <1>3, InvParts, OutsideThreads

LEMMA RegistrationInv ==
  ASSUME ManagerInv, NEW g \in Registrar, InRegistration(g)
  PROVE  ManagerInv'
<1>1. NodesTypeOK'
  <2>1. NodesNext
    BY DEF InRegistration, RegisterStep, NodesNext
  <2> QED BY <2>1, InvParts, NodesTypeStep
<1> QED
  BY <1>1, InvParts, NothingMoved DEF InRegistration, tasksVars, loopVars, historyVars

LEMMA MonitorInv ==
  ASSUME ManagerInv, MonitorJob
  PROVE  ManagerInv'
<1>1. /\ UNCHANGED <<tasks, task_queue, popped, recruiter, call>>
      /\ {tasksLock, tasksLock'} \subseteq {Unlocked, Monitor}
      /\ UNCHANGED nodesVars
  BY DEF MonitorJob, MonitorTasks, MonitorEnds, TasksFree
<1>2. NodesTypeOK'
  BY <1>1, InvParts DEF nodesVars, NodesTypeOK
<1> QED BY <1>1, <1>2, InvParts, NothingMoved DEF MonitorJob, loopVars, historyVars

LEMMA PopTaskInv ==
  ASSUME ManagerInv, PopTask
  PROVE  ManagerInv'
<1>1. /\ task_queue # <<>> /\ popped' = Head(task_queue) /\ task_queue' = Tail(task_queue)
      /\ UNCHANGED <<tasks, tasksLock, recruiter, call>> /\ UNCHANGED nodesVars
      /\ UNCHANGED <<loopVars, historyVars>>
  BY DEF PopTask, PopNextTask
<1>2. UNCHANGED <<thread, executing, main, spent, dispatches, retried, completed, lost>>
  BY <1>1 DEF loopVars, historyVars
<1>3. /\ popped' \in Task /\ task_queue' \in Seq(Task)
      /\ 1 \in DOMAIN task_queue /\ popped' = task_queue[1]
      /\ \A i \in DOMAIN task_queue' :
           i + 1 \in DOMAIN task_queue /\ task_queue'[i] = task_queue[i + 1]
  BY <1>1, InvParts, SeqHeadTail
<1>4. QueueSound'
  BY <1>2, <1>3, InvParts DEF QueueSound
<1>5. TableSound' /\ NodesTypeOK'
  <2>1. NodesTypeOK'
    BY <1>1, InvParts DEF nodesVars, NodesTypeOK
  <2> QED BY <1>1, <1>2, <2>1, InvParts, TableKept
<1>6. \A r \in Request : RecruiterSound(r)'
  BY <1>1, <1>2, InvParts, RecruitersKept
<1> QED BY <1>1, <1>2, <1>3, <1>4, <1>5, <1>6, InvParts, OutsideThreads

\* The loop goes to sleep and wakes up, nodes announce themselves, and
\* whatever else cancels get_next_task.
LEMMA LoopInv ==
  ASSUME ManagerInv, NothingToRun \/ WakeUp \/ OtherEvent
  PROVE  ManagerInv'
<1>1. /\ UNCHANGED nodesVars /\ main' \in {"select", "sleep"}
      /\ UNCHANGED <<tasks, task_queue, tasksLock, recruiter, call, thread, executing, spent>>
      /\ UNCHANGED <<dispatches, retried, completed>>
      /\ popped' \in {popped, NoId}
      /\ lost' \subseteq lost \cup ({popped} \ {NoId})
  BY InvParts DEF NothingToRun, WakeUp, OtherEvent, AnotherBranch, CancelNextTask, tasksVars,
     loopVars, historyVars
<1>2. NodesTypeOK' /\ lost' \subseteq Task
  BY <1>1, InvParts DEF nodesVars, NodesTypeOK
<1> QED BY <1>1, <1>2, InvParts, NothingMoved

LEMMA NodeAnnouncedInv ==
  ASSUME ManagerInv, NEW g \in Registrar, NEW a \in Announcements, NodeAnnounced(g, a)
  PROVE  ManagerInv'
<1>1. NodesTypeOK'
  <2>1. NodesNext
    BY DEF NodeAnnounced, NodesNext
  <2> QED BY <2>1, InvParts, NodesTypeStep
<1>2. /\ popped' = NoId /\ lost' = lost \cup ({popped} \ {NoId})
      /\ spent' = [spent EXCEPT !.announces = @ + 1]
  BY DEF NodeAnnounced, AnotherBranch, CancelNextTask
<1>3. /\ lost' \subseteq Task
      /\ spent' \in [{"submits", "announces", "errors", "hangups"} -> Nat]
  BY <1>2, InvParts
<1> QED BY <1>1, <1>2, <1>3, InvParts, NothingMoved DEF NodeAnnounced

-----------------------------------------------------------------------------
\* Steps of the threads themselves, and of those that spawn them.
LEMMA IdleTypes == Idle \in ThreadState /\ NoCall \in Call
BY DEF Idle, ThreadState, NoCall, Call, CallPoint

\* What such a step does to its thread.
ThreadMoves(p) ==
  /\ thread' \in [Thread -> ThreadState] /\ call' \in [Thread -> Call]
  /\ CallSound(p)' /\ LockSound(p)' /\ ThreadSound(p)'
  /\ \A q \in Thread \ {p} : thread'[q] = thread[q] /\ call'[q] = call[q]

\* A thread that is between two calls of TasksManagement keeps no mutex.
LEMMA NotLocking ==
  ASSUME ManagerInv, NEW p \in Thread, call[p].pc \in {"free", "returned", "panicked"}
  PROVE  tasksLock # p
BY DEF ManagerInv, LockSound

LEMMA EndsMoves ==
  ASSUME ManagerInv, NEW p \in Thread, Ends(p), tasksLock # p, tasksLock' = tasksLock
  PROVE  ThreadMoves(p)
<1>1. thread \in [Thread -> ThreadState] /\ call \in [Thread -> Call]
  BY DEF ManagerInv, DomainManagerTypeOK, TasksTypeOK
<1>2. /\ thread' = [thread EXCEPT ![p] = Idle] /\ call' = [call EXCEPT ![p] = NoCall]
      /\ thread'[p] = Idle /\ call'[p] = NoCall
  BY <1>1 DEF Ends
<1>3. CallSound(p)'
  BY <1>2 DEF CallSound, NoCall, WithTask
<1>4. LockSound(p)'
  BY <1>2 DEF LockSound, NoCall
<1>5. ThreadSound(p)'
  BY <1>2 DEF ThreadSound, NoCall, Idle
<1> QED BY <1>1, <1>2, <1>3, <1>4, <1>5, IdleTypes DEF ThreadMoves

\* Steps of threads that touch neither the table nor the recruiters.
LEMMA ThreadOnly ==
  ASSUME ManagerInv, NEW p \in Thread, ThreadMoves(p),
         UNCHANGED <<tasks, tasksLock, recruiter>>, main' \in {"select", "sleep"},
         UNCHANGED nodesVars, UNCHANGED <<retried, completed>>,
         task_queue' \in Seq(Task), popped' \in Task \cup {NoId}, QueueSound',
         executing' \in [Task -> Seq([node : Node, left : Seq(Status) \ {<<>>}])],
         spent' \in [{"submits", "announces", "errors", "hangups"} -> Nat],
         dispatches' \in [Task -> Nat], lost' \subseteq Task,
         \A t \in Task : dispatches[t] > 0 => dispatches'[t] > 0,
         ReportsSound'
  PROVE  ManagerInv'
<1>1. NodesTypeOK'
  BY InvParts DEF nodesVars, NodesTypeOK
<1>2. DomainManagerTypeOK'
  BY <1>1, InvParts DEF ManagerInv, DomainManagerTypeOK, TasksTypeOK, ThreadMoves
<1>3. TableSound'
  BY InvParts, TableKept
<1>4. \A r \in Request : RecruiterSound(r)'
  BY InvParts, RecruitersKept
<1> QED BY <1>2, <1>3, <1>4, InvFromParts DEF ThreadMoves

\* Those that do not touch the queue, nor send or report anything either.
LEMMA ThreadSteps ==
  ASSUME ManagerInv, NEW p \in Thread, ThreadMoves(p),
         UNCHANGED <<tasks, task_queue, popped, tasksLock, recruiter, main, executing>>,
         UNCHANGED nodesVars, UNCHANGED <<dispatches, retried, completed>>,
         spent' \in [{"submits", "announces", "errors", "hangups"} -> Nat],
         lost' \subseteq Task
  PROVE  ManagerInv'
<1>1. QueueSound'
  BY InvParts, IdsKept
<1>2. ReportsSound'
  BY DEF ManagerInv, ReportsSound
<1>3. /\ executing \in [Task -> Seq([node : Node, left : Seq(Status) \ {<<>>}])]
      /\ dispatches \in [Task -> Nat]
  BY DEF ManagerInv, DomainManagerTypeOK
<1> QED BY <1>1, <1>2, <1>3, InvParts, ThreadOnly

\* A thread goes on, or starts, in state s with call c.
LEMMA WritesMoves ==
  ASSUME ManagerInv, NEW p \in Thread, NEW s \in ThreadState, NEW c \in Call,
         thread' = [thread EXCEPT ![p] = s], call' = [call EXCEPT ![p] = c],
         tasksLock # p, tasksLock' = tasksLock,
         c.pc \in {"free", "validate", "update", "retry"}, ~c.ready, c.th = NoTask,
         c.pc # "free" => c.task \in Task,
         c.pc = "update" => /\ c.msg \in Report
                            /\ c.msg.status = "DONE" => dispatches'[c.task] > 0,
         s.kind = "idle" \/ s.at \in {"respond", "reject", "inputs"} => c.pc = "free",
         s.kind = "accept" => s.job \in Job,
         s.kind = "accept" /\ s.at = "calling" =>
           /\ s.index \in DOMAIN JobTasks[s.job]
           /\ c.task = JobTasks[s.job][s.index],
         \A i \in DOMAIN s.accepted : Enabled(s.accepted[i], completed'),
         s.at \in {"inputs", "failing"} => s.task \in Task /\ Enabled(s.task, completed'),
         s.at = "inputs" => s.snapshot \in TaskHandler
  PROVE  ThreadMoves(p)
<1>1. thread \in [Thread -> ThreadState] /\ call \in [Thread -> Call]
  BY DEF ManagerInv, DomainManagerTypeOK, TasksTypeOK
<1>2. thread'[p] = s /\ call'[p] = c
  BY <1>1
<1>3. CallSound(p)'
  BY <1>2 DEF CallSound, WithTask
<1>4. LockSound(p)'
  BY <1>2 DEF LockSound
<1>5. ThreadSound(p)'
  BY <1>2 DEF ThreadSound
<1> QED BY <1>1, <1>2, <1>3, <1>4, <1>5 DEF ThreadMoves

\* What a thread may rely on, by its state.
LEMMA ThreadParts ==
  ASSUME ManagerInv, NEW p \in Thread
  PROVE  /\ thread \in [Thread -> ThreadState] /\ thread[p] \in ThreadState
         /\ call \in [Thread -> Call] /\ call[p] \in Call
         /\ CallSound(p) /\ LockSound(p) /\ ThreadSound(p)
         /\ thread[p].accepted \in Seq(Task)
BY DEF ManagerInv, DomainManagerTypeOK, TasksTypeOK, ThreadState

LEMMA CallTypes ==
  ASSUME NEW t \in Task
  PROVE  /\ ValidateCall(t) \in Call /\ ValidateCall(t).pc = "validate"
         /\ ValidateCall(t).task = t /\ ValidateCall(t).th = NoTask /\ ~ValidateCall(t).ready
         /\ RetryCall(t) \in Call /\ RetryCall(t).pc = "retry"
         /\ RetryCall(t).task = t /\ RetryCall(t).th = NoTask /\ ~RetryCall(t).ready
         /\ \A m \in Report :
              /\ UpdateCall(t, m) \in Call /\ UpdateCall(t, m).pc = "update"
              /\ UpdateCall(t, m).task = t /\ UpdateCall(t, m).th = NoTask
              /\ ~UpdateCall(t, m).ready /\ UpdateCall(t, m).msg = m
<1>1. NoCall \in Call
  BY IdleTypes
<1>2. ValidateCall(t) \in Call /\ RetryCall(t) \in Call
  BY <1>1 DEF ValidateCall, RetryCall, Call, CallPoint
<1>3. \A m \in Report : UpdateCall(t, m) \in Call
  BY <1>1 DEF UpdateCall, Call, CallPoint
<1>4. /\ ValidateCall(t).pc = "validate" /\ ValidateCall(t).task = t
      /\ ValidateCall(t).th = NoTask /\ ~ValidateCall(t).ready
      /\ RetryCall(t).pc = "retry" /\ RetryCall(t).task = t
      /\ RetryCall(t).th = NoTask /\ ~RetryCall(t).ready
  BY DEF ValidateCall, RetryCall, NoCall
<1>5. \A m \in Report :
        /\ UpdateCall(t, m).pc = "update" /\ UpdateCall(t, m).task = t
        /\ UpdateCall(t, m).th = NoTask /\ ~UpdateCall(t, m).ready /\ UpdateCall(t, m).msg = m
  BY DEF UpdateCall, NoCall
<1> QED BY <1>2, <1>3, <1>4, <1>5

-----------------------------------------------------------------------------
\* accept_job.
LEMMA JobArrivesInv ==
  ASSUME ManagerInv, NEW p \in Thread, NEW j \in Job, JobArrives(p, j)
  PROVE  ManagerInv'
<1>1. /\ thread[p] = Idle /\ popped' = NoId /\ lost' = lost \cup ({popped} \ {NoId})
      /\ UNCHANGED <<tasks, task_queue, tasksLock, recruiter, main, executing>>
      /\ UNCHANGED <<dispatches, retried, completed>> /\ UNCHANGED nodesVars
      /\ spent' = [spent EXCEPT !.submits = @ + 1]
  BY DEF JobArrives, Spawn, AnotherBranch, CancelNextTask
<1>2. call[p].pc = "free"
  BY <1>1, ThreadParts DEF ThreadSound, Idle
<1>3. tasksLock # p /\ JobTasks[j] \in Seq(Task)
  BY <1>2, NotLocking, JobsAssumption
<1>4. ThreadMoves(p)
  <2>1. CASE JobTasks[j] = <<>>
    <3> DEFINE s == [Idle EXCEPT !.kind = "accept", !.at = "respond", !.job = j]
    <3>1. thread' = [thread EXCEPT ![p] = s] /\ call' = [call EXCEPT ![p] = NoCall]
      BY <2>1 DEF JobArrives, Spawn
    <3>2. s \in ThreadState
      BY IdleTypes DEF ThreadState
    <3>3. /\ s.kind = "accept" /\ s.at = "respond" /\ s.job = j /\ DOMAIN s.accepted = {}
      BY DEF Idle
    <3>4. NoCall.pc = "free" /\ ~NoCall.ready /\ NoCall.th = NoTask
      BY DEF NoCall
    <3> HIDE DEF s
    <3> QED BY <1>1, <1>3, <3>1, <3>2, <3>3, <3>4, IdleTypes, WritesMoves
  <2>2. CASE JobTasks[j] # <<>>
    <3> DEFINE s == [Idle EXCEPT !.kind = "accept", !.job = j, !.index = 1]
               t == JobTasks[j][1]
    <3>1. thread' = [thread EXCEPT ![p] = s] /\ call' = [call EXCEPT ![p] = ValidateCall(t)]
      BY <2>2 DEF JobArrives, Spawn
    <3>2. s \in ThreadState
      BY IdleTypes DEF ThreadState
    <3>3. /\ s.kind = "accept" /\ s.at = "calling" /\ s.job = j /\ DOMAIN s.accepted = {}
          /\ s.index = 1
      BY DEF Idle
    <3>4. 1 \in DOMAIN JobTasks[j] /\ t \in Task
      BY <1>3, <2>2, EmptySeq, LenProperties, ElementOfSeq
    <3> HIDE DEF s, t
    <3>5. t = JobTasks[j][1]
      BY DEF t
    <3>6. /\ ValidateCall(t) \in Call /\ ValidateCall(t).pc = "validate"
          /\ ValidateCall(t).task = t /\ ValidateCall(t).th = NoTask /\ ~ValidateCall(t).ready
      BY <3>4, CallTypes
    <3> QED BY <1>1, <1>3, <3>1, <3>2, <3>3, <3>4, <3>5, <3>6, WritesMoves
  <2> QED BY <2>1, <2>2
<1>5. QueueSound'
  BY <1>1, InvParts DEF QueueSound
<1>6. /\ lost' \subseteq Task
      /\ spent' \in [{"submits", "announces", "errors", "hangups"} -> Nat]
  BY <1>1, InvParts
<1>7. /\ executing \in [Task -> Seq([node : Node, left : Seq(Status) \ {<<>>}])]
      /\ dispatches \in [Task -> Nat] /\ ReportsSound'
  BY <1>1 DEF ManagerInv, DomainManagerTypeOK, ReportsSound
<1> QED BY <1>1, <1>4, <1>5, <1>6, <1>7, InvParts, ThreadOnly

LEMMA AcceptNextInv ==
  ASSUME ManagerInv, NEW p \in Thread, AcceptNext(p)
  PROVE  ManagerInv'
<1> DEFINE th == thread[p]
           list == JobTasks[th.job]
           acc == IF call[p].ready THEN Append(th.accepted, list[th.index]) ELSE th.accepted
<1>1. /\ th.kind = "accept" /\ th.at = "calling" /\ call[p].pc = "returned"
      /\ UNCHANGED <<tasks, task_queue, popped, tasksLock, recruiter>>
      /\ UNCHANGED <<main, executing, spent, historyVars>> /\ UNCHANGED nodesVars
  BY DEF AcceptNext, Accepting, At
<1>2. /\ th \in ThreadState /\ th.job \in Job /\ list \in Seq(Task) /\ th.index \in DOMAIN list
      /\ th.accepted \in Seq(Task) /\ completed' = completed
  <2>1. th.job \in Job /\ th.index \in DOMAIN list
    BY <1>1, ThreadParts DEF ThreadSound
  <2> QED BY <1>1, <2>1, ThreadParts, JobsAssumption DEF historyVars
<1>3. /\ list[th.index] \in Task /\ th.index \in Nat /\ DOMAIN list = 1 .. Len(list)
      /\ Len(list) \in Nat
  BY <1>2, ElementOfSeq, LenProperties
<1>4. acc \in Seq(Task) /\ \A i \in DOMAIN acc : Enabled(acc[i], completed')
  <2>1. \A i \in DOMAIN th.accepted : Enabled(th.accepted[i], completed')
    BY <1>2, ThreadParts DEF ThreadSound
  <2>2. CASE call[p].ready
    <3>1. Enabled(list[th.index], completed')
      BY <1>1, <1>2, <2>2, ThreadParts DEF ThreadSound
    <3>2. acc = Append(th.accepted, list[th.index])
      BY <2>2
    <3>3. /\ acc \in Seq(Task) /\ Len(acc) = Len(th.accepted) + 1
          /\ acc[Len(th.accepted) + 1] = list[th.index]
          /\ \A i \in 1 .. Len(th.accepted) : acc[i] = th.accepted[i]
          /\ Len(th.accepted) \in Nat /\ DOMAIN th.accepted = 1 .. Len(th.accepted)
          /\ DOMAIN acc = 1 .. Len(acc)
      BY <1>2, <1>3, <3>2, AppendProperties, LenProperties
    <3> HIDE DEF acc
    <3>4. \A i \in DOMAIN acc : i \in DOMAIN th.accepted \/ i = Len(th.accepted) + 1
      BY <3>3
    <3> QED BY <2>1, <3>1, <3>3, <3>4
  <2> QED BY <1>2, <2>1, <2>2
<1> HIDE DEF acc
<1>5. tasksLock # p
  BY <1>1, NotLocking
<1>6. ThreadMoves(p)
  <2>1. CASE ~call[p].ok
    <3> DEFINE s == [th EXCEPT !.at = "reject"]
    <3>1. thread' = [thread EXCEPT ![p] = s] /\ call' = [call EXCEPT ![p] = NoCall]
      BY <2>1 DEF AcceptNext
    <3>2. /\ s \in ThreadState /\ s.at = "reject" /\ s.kind = "accept" /\ s.job = th.job
          /\ s.accepted = th.accepted
      BY <1>1, <1>2 DEF ThreadState
    <3>3. NoCall.pc = "free" /\ ~NoCall.ready /\ NoCall.th = NoTask
      BY DEF NoCall
    <3>4. \A i \in DOMAIN th.accepted : Enabled(th.accepted[i], completed')
      BY <1>2, ThreadParts DEF ThreadSound
    <3> HIDE DEF s
    <3> QED BY <1>1, <1>2, <1>5, <3>1, <3>2, <3>3, <3>4, IdleTypes, WritesMoves
  <2>2. CASE call[p].ok /\ th.index = Len(list)
    <3> DEFINE s == [th EXCEPT !.at = "respond", !.accepted = acc]
    <3>1. thread' = [thread EXCEPT ![p] = s] /\ call' = [call EXCEPT ![p] = NoCall]
      BY <2>2 DEF AcceptNext, acc
    <3>2. /\ s \in ThreadState /\ s.at = "respond" /\ s.kind = "accept" /\ s.job = th.job
          /\ s.accepted = acc
      BY <1>1, <1>2, <1>4 DEF ThreadState
    <3>3. NoCall.pc = "free" /\ ~NoCall.ready /\ NoCall.th = NoTask
      BY DEF NoCall
    <3> HIDE DEF s
    <3> QED BY <1>1, <1>2, <1>4, <1>5, <3>1, <3>2, <3>3, IdleTypes, WritesMoves
  <2>3. CASE call[p].ok /\ th.index # Len(list)
    <3> DEFINE s == [th EXCEPT !.index = @ + 1, !.accepted = acc]
               t == list[th.index + 1]
    <3>1. thread' = [thread EXCEPT ![p] = s] /\ call' = [call EXCEPT ![p] = ValidateCall(t)]
      BY <2>3 DEF AcceptNext, acc
    <3>2. /\ s \in ThreadState /\ s.at = "calling" /\ s.kind = "accept" /\ s.job = th.job
          /\ s.accepted = acc /\ s.index = th.index + 1
      <4> DEFINE n == th.index + 1
      <4>1. n \in Nat /\ s = [th EXCEPT !.index = n, !.accepted = acc]
        BY <1>3
      <4>2. th \in ThreadState /\ acc \in Seq(Task)
        BY <1>2, <1>4
      <4> HIDE DEF s, n, th, list, t
      <4>3. /\ s \in ThreadState /\ s.at = th.at /\ s.kind = th.kind
            /\ s.job = th.job /\ s.accepted = acc /\ s.index = n
        BY <4>1, <4>2 DEF ThreadState
      <4> QED BY <1>1, <4>3 DEF n
    <3>3. th.index + 1 \in DOMAIN list
      BY <1>2, <1>3, <2>3
    <3>4. t \in Task
      BY <1>2, <1>3, <3>3, ElementOfSeq
    <3>5. /\ ValidateCall(t) \in Call /\ ValidateCall(t).pc = "validate"
          /\ ValidateCall(t).task = t /\ ValidateCall(t).th = NoTask /\ ~ValidateCall(t).ready
      BY <3>4, CallTypes
    <3>6. s.index \in DOMAIN JobTasks[s.job] /\ ValidateCall(t).task = JobTasks[s.job][s.index]
      BY <3>2, <3>3, <3>5
    <3> HIDE DEF s, t
    <3> QED BY <1>1, <1>2, <1>4, <1>5, <3>1, <3>2, <3>4, <3>5, <3>6, WritesMoves
  <2> QED BY <2>1, <2>2, <2>3
<1> QED BY <1>1, <1>6, InvParts, ThreadSteps DEF historyVars

\* push_tasks queues the enabled tasks that accept_job collected.
LEMMA AcceptJobInv ==
  ASSUME ManagerInv, NEW p \in Thread, AcceptJob(p)
  PROVE  ManagerInv'
<1> DEFINE ids == thread[p].accepted
<1>1. /\ thread[p].at = "respond" /\ Ends(p) /\ task_queue' = task_queue \o ids
      /\ UNCHANGED <<tasks, popped, tasksLock, recruiter>> /\ UNCHANGED nodesVars
      /\ UNCHANGED <<main, executing, spent, historyVars>>
  BY DEF AcceptJob, PushTasks
<1>2. /\ ids \in Seq(Task) /\ \A i \in DOMAIN ids : Enabled(ids[i], completed)
      /\ call[p].pc = "free"
  BY <1>1, ThreadParts DEF ThreadSound
<1>3. UNCHANGED <<dispatches, retried, completed, lost>>
  BY <1>1 DEF historyVars
<1>4. ThreadMoves(p)
  BY <1>1, <1>2, NotLocking, EndsMoves
<1> HIDE DEF ids
<1>5. QueueSound' /\ task_queue' \in Seq(Task)
  <2>1. task_queue \in Seq(Task)
    BY InvParts
  <2>2. /\ task_queue' \in Seq(Task) /\ Len(task_queue') = Len(task_queue) + Len(ids)
        /\ \A i \in 1 .. Len(task_queue') :
             task_queue'[i] = IF i <= Len(task_queue) THEN task_queue[i]
                              ELSE ids[i - Len(task_queue)]
    BY <1>1, <1>2, <2>1, ConcatProperties
  <2>3. /\ DOMAIN task_queue' = 1 .. Len(task_queue') /\ Len(task_queue) \in Nat
        /\ DOMAIN task_queue = 1 .. Len(task_queue) /\ Len(ids) \in Nat
        /\ DOMAIN ids = 1 .. Len(ids)
    BY <1>2, <2>1, <2>2, LenProperties
  <2>4. ASSUME NEW i \in DOMAIN task_queue' PROVE Enabled(task_queue'[i], completed)
    <3>1. CASE i <= Len(task_queue)
      <4>1. i \in DOMAIN task_queue /\ task_queue'[i] = task_queue[i]
        BY <2>2, <2>3, <2>4, <3>1
      <4> QED BY <4>1, InvParts DEF QueueSound
    <3>2. CASE ~(i <= Len(task_queue))
      <4>1. /\ i - Len(task_queue) \in DOMAIN ids
            /\ task_queue'[i] = ids[i - Len(task_queue)]
        BY <2>2, <2>3, <2>4, <3>2
      <4> QED BY <1>2, <4>1
    <3> QED BY <3>1, <3>2
  <2>5. popped # NoId => Enabled(popped, completed)
    BY InvParts DEF QueueSound
  <2> QED BY <1>1, <1>3, <2>2, <2>4, <2>5 DEF QueueSound
<1>6. /\ executing \in [Task -> Seq([node : Node, left : Seq(Status) \ {<<>>}])]
      /\ dispatches \in [Task -> Nat] /\ ReportsSound'
  BY <1>1, <1>3 DEF ManagerInv, DomainManagerTypeOK, ReportsSound
<1> QED BY <1>1, <1>3, <1>4, <1>5, <1>6, InvParts, ThreadOnly

\* remove_job: what is left of the table is as it was.
LEMMA RejectJobInv ==
  ASSUME ManagerInv, NEW p \in Thread, RejectJob(p)
  PROVE  ManagerInv'
<1>1. /\ thread[p].at = "reject" /\ Ends(p) /\ RemoveJob(ToSet(JobTasks[thread[p].job]))
      /\ UNCHANGED <<main, executing, spent, historyVars>>
  BY DEF RejectJob
<1> DEFINE ids == ToSet(JobTasks[thread[p].job])
           R == {tasks[t].request : t \in {u \in ids : Present(u)}}
<1>2. /\ tasksLock = Unlocked /\ UNCHANGED <<task_queue, popped, tasksLock>>
      /\ tasks' = [t \in Task |-> IF t \in ids THEN NoTask ELSE tasks[t]]
      /\ AbortRecruiters(R)
  BY <1>1 DEF RemoveJob, TasksFree
<1>3. UNCHANGED <<dispatches, retried, completed, lost>>
  BY <1>1 DEF historyVars
<1>4. ThreadMoves(p)
  <2>1. call[p].pc = "free"
    BY <1>1, ThreadParts DEF ThreadSound
  <2> QED BY <1>1, <1>2, <2>1, NotLocking, EndsMoves
<1> HIDE DEF ids, R
<1>5. TableSound' /\ tasks' \in [Task -> TaskHandler \cup {NoTask}]
  BY <1>2, <1>3, InvParts DEF TableSound, Present
<1>6. QueueSound'
  BY <1>2, <1>3, InvParts, IdsKept
<1>7. /\ recruiter' \in [Request -> Recruiter]
      /\ \A r \in Request : RecruiterSound(r)'
  <2>1. recruiter' = [r \in Request |->
           IF r \in R /\ recruiter[r].pc \in {"spawned", "waiting"}
           THEN [recruiter[r] EXCEPT !.pc = "aborted"] ELSE recruiter[r]]
    BY <1>2 DEF AbortRecruiters
  <2>2. \A r \in Request : /\ recruiter[r] \in Recruiter
                           /\ [recruiter[r] EXCEPT !.pc = "aborted"] \in Recruiter
    BY InvParts DEF Recruiter
  <2>3. recruiter' \in [Request -> Recruiter]
    BY <2>1, <2>2
  <2>4. ASSUME NEW r \in Request PROVE RecruiterSound(r)'
    <3>1. CASE recruiter'[r] = recruiter[r]
      BY <1>2, <1>3, <3>1, InvParts DEF RecruiterSound
    <3>2. CASE recruiter'[r] # recruiter[r]
      <4>1. /\ recruiter[r].pc \in {"spawned", "waiting"}
            /\ recruiter'[r] = [recruiter[r] EXCEPT !.pc = "aborted"]
        BY <2>1, <3>2
      <4>2. recruiter'[r].task = recruiter[r].task /\ recruiter'[r].pc = "aborted"
        BY <2>2, <4>1 DEF Recruiter
      <4> QED BY <1>3, <4>1, <4>2, InvParts DEF RecruiterSound
    <3> QED BY <3>1, <3>2
  <2> QED BY <2>3, <2>4
<1>8. NodesTypeOK'
  BY <1>2, InvParts, DropReceiversTypes DEF AbortRecruiters
<1>9. DomainManagerTypeOK'
  BY <1>1, <1>2, <1>3, <1>4, <1>5, <1>7, <1>8, InvParts
  DEF ManagerInv, DomainManagerTypeOK, TasksTypeOK, ThreadMoves
<1>10. ReportsSound'
  BY <1>1, <1>3 DEF ManagerInv, ReportsSound
<1>11. \A q \in Thread : tasksLock # q
  BY <1>2, NullsAssumption
<1> QED
  BY <1>2, <1>3, <1>4, <1>5, <1>6, <1>7, <1>9, <1>10, <1>11, InvFromParts DEF ThreadMoves

\* Threads that end otherwise.
LEMMA ThreadEndsInv ==
  ASSUME ManagerInv, NEW p \in Thread,
         \/ ClientHangsUp(p) \/ AcceptPanics(p) \/ UpdateEnds(p) \/ NoReceiver(p)
  PROVE  ManagerInv'
<1>1. /\ Ends(p) /\ UNCHANGED nodesVars
      /\ UNCHANGED <<tasks, task_queue, popped, tasksLock, recruiter, main, executing>>
      /\ UNCHANGED <<dispatches, retried, completed>>
  BY DEF ClientHangsUp, AcceptPanics, UpdateEnds, NoReceiver, historyVars
<1>2. call[p].pc \in {"free", "returned", "panicked"}
  BY ThreadParts
  DEF ThreadSound, ClientHangsUp, AcceptPanics, UpdateEnds, NoReceiver, ReadyToSend, Running, At
<1>3. spent' \in [{"submits", "announces", "errors", "hangups"} -> Nat]
  BY InvParts DEF ClientHangsUp, AcceptPanics, UpdateEnds, NoReceiver, historyVars
<1>4. lost' \subseteq lost \cup ToSet(thread[p].accepted) \cup
        (IF thread[p].at = "inputs" THEN {thread[p].task} ELSE {})
  BY DEF ClientHangsUp, AcceptPanics, UpdateEnds, NoReceiver, ReadyToSend, Running, historyVars
<1>5. ToSet(thread[p].accepted) \subseteq Task
  BY ThreadParts, ElementOfSeq, LenProperties DEF ToSet
<1>6. thread[p].at = "inputs" => thread[p].task \in Task
  BY ThreadParts DEF ThreadSound
<1>7. lost' \subseteq Task
  BY <1>4, <1>5, <1>6, InvParts
<1> QED BY <1>1, <1>2, <1>3, <1>7, NotLocking, EndsMoves, ThreadSteps

-----------------------------------------------------------------------------
\* run_task.
LEMMA RunNextTaskInv ==
  ASSUME ManagerInv, NEW p \in Thread, RunNextTask(p)
  PROVE  ManagerInv'
<1> DEFINE t == popped
<1>1. /\ popped # NoId /\ popped' = NoId /\ UNCHANGED nodesVars
      /\ UNCHANGED <<tasks, task_queue, tasksLock, recruiter>>
      /\ UNCHANGED <<executing, spent, historyVars>>
  BY DEF RunNextTask, TakeNextTask
<1>2. UNCHANGED <<dispatches, retried, completed, lost>>
  BY <1>1 DEF historyVars
<1>3. t \in Task /\ Enabled(t, completed)
  BY <1>1, InvParts DEF QueueSound
<1>4. CASE ~Present(t)
  <2>1. main' = "sleep" /\ UNCHANGED <<thread, call>>
    BY <1>4 DEF RunNextTask
  <2>2. NodesTypeOK'
    BY <1>1, InvParts DEF nodesVars, NodesTypeOK
  <2> QED BY <1>1, <1>2, <2>1, <2>2, InvParts, NothingMoved
<1>5. CASE Present(t)
  <2> DEFINE ins == IF t \in NeedsOutputs THEN DOMAIN tasks[t].deps ELSE {}
             s == [Idle EXCEPT !.kind = "run", !.at = "inputs", !.task = t,
                               !.snapshot = tasks[t], !.inputs = ins]
  <2>1. /\ thread[p] = Idle /\ thread' = [thread EXCEPT ![p] = s]
        /\ call' = [call EXCEPT ![p] = NoCall] /\ UNCHANGED main
    BY <1>5 DEF RunNextTask, Spawn
  <2>2. tasks[t] \in TaskHandler /\ ins \in SUBSET Task
    <3>1. HandlerSound(t, tasks[t], completed) /\ tasks[t] \in TaskHandler
      BY <1>3, <1>5, InvParts, InTable
    <3> QED BY <1>3, <3>1, TaskConstantsAssumption DEF HandlerSound
  <2> HIDE DEF ins
  <2>3. s \in ThreadState
    BY <1>3, <2>2, IdleTypes DEF ThreadState
  <2>4. /\ s.kind = "run" /\ s.at = "inputs" /\ s.task = t /\ s.snapshot = tasks[t]
        /\ DOMAIN s.accepted = {}
    BY DEF Idle
  <2>5. NoCall.pc = "free" /\ ~NoCall.ready /\ NoCall.th = NoTask
    BY DEF NoCall
  <2>6. call[p].pc = "free"
    BY <2>1, ThreadParts DEF ThreadSound, Idle
  <2> HIDE DEF s
  <2>7. ThreadMoves(p)
    BY <1>1, <1>2, <1>3, <2>1, <2>2, <2>3, <2>4, <2>5, <2>6, IdleTypes, NotLocking, WritesMoves
  <2>8. QueueSound'
    BY <1>1, <1>2, InvParts DEF QueueSound
  <2>9. /\ executing \in [Task -> Seq([node : Node, left : Seq(Status) \ {<<>>}])]
        /\ dispatches \in [Task -> Nat] /\ ReportsSound'
    BY <1>1, <1>2 DEF ManagerInv, DomainManagerTypeOK, ReportsSound
  <2> QED BY <1>1, <1>2, <2>1, <2>7, <2>8, <2>9, InvParts, ThreadOnly
<1> QED BY <1>4, <1>5

LEMMA CollectInputInv ==
  ASSUME ManagerInv, NEW p \in Thread, NEW d \in Task, CollectInput(p, d)
  PROVE  ManagerInv'
<1>1. /\ thread[p].kind = "run" /\ thread[p].at = "inputs"
      /\ UNCHANGED <<tasks, task_queue, popped, tasksLock, recruiter>>
      /\ UNCHANGED <<main, executing, spent, dispatches, retried, completed>>
      /\ UNCHANGED nodesVars
      /\ \/ /\ thread' = [thread EXCEPT ![p].inputs = @ \ {d}] /\ UNCHANGED <<call, lost>>
         \/ Ends(p) /\ lost' = lost \cup {thread[p].task}
  BY DEF CollectInput, Running
<1>2. /\ call[p].pc = "free" /\ thread[p].task \in Task
      /\ Enabled(thread[p].task, completed) /\ thread[p].snapshot \in TaskHandler
      /\ \A i \in DOMAIN thread[p].accepted : Enabled(thread[p].accepted[i], completed)
  BY <1>1, ThreadParts DEF ThreadSound
<1>3. tasksLock # p
  BY <1>2, NotLocking
<1>4. CASE Ends(p) /\ lost' = lost \cup {thread[p].task}
  BY <1>1, <1>2, <1>3, <1>4, EndsMoves, InvParts, ThreadSteps
<1>5. CASE thread' = [thread EXCEPT ![p].inputs = @ \ {d}] /\ UNCHANGED <<call, lost>>
  <2>1. thread[p] \in ThreadState /\ thread \in [Thread -> ThreadState]
        /\ call \in [Thread -> Call]
    BY ThreadParts
  <2>2. /\ thread' \in [Thread -> ThreadState]
        /\ thread'[p].kind = "run" /\ thread'[p].at = "inputs"
        /\ thread'[p].task = thread[p].task /\ thread'[p].snapshot = thread[p].snapshot
        /\ thread'[p].accepted = thread[p].accepted
        /\ \A q \in Thread \ {p} : thread'[q] = thread[q]
    BY <1>1, <1>5, <2>1 DEF ThreadState
  <2>3. ThreadSound(p)'
    BY <1>1, <1>2, <1>5, <2>2 DEF ThreadSound
  <2>4. CallSound(p)'
    BY <1>2, <1>5, ThreadParts DEF CallSound, WithTask
  <2>5. LockSound(p)'
    BY <1>1, <1>2, <1>3, <1>5 DEF LockSound
  <2>6. ThreadMoves(p)
    BY <1>5, <2>1, <2>2, <2>3, <2>4, <2>5 DEF ThreadMoves
  <2> QED BY <1>1, <1>5, <2>6, InvParts, ThreadSteps
<1> QED BY <1>1, <1>4, <1>5

\* A task is sent by a thread whose task is enabled.
LEMMA SendTaskInv ==
  ASSUME ManagerInv, NEW p \in Thread, SendTask(p)
  PROVE  ManagerInv' /\ thread[p].task \in Task /\ Enabled(thread[p].task, completed)
<1> DEFINE t == thread[p].task
           n == thread[p].snapshot.receiver
           m == [status |-> "PENDING", receiver |-> n, output |-> thread[p].snapshot.output]
           s == [Idle EXCEPT !.kind = "run"]
<1>1. /\ thread[p].kind = "run" /\ thread[p].at = "inputs" /\ n # NoNode
      /\ dispatches' = [dispatches EXCEPT ![t] = @ + 1]
      /\ thread' = [thread EXCEPT ![p] = s]
      /\ call' = [call EXCEPT ![p] = UpdateCall(t, m)]
      /\ UNCHANGED <<tasks, task_queue, popped, tasksLock, recruiter, main, spent>>
      /\ UNCHANGED <<retried, completed, lost>> /\ UNCHANGED nodesVars
  BY DEF SendTask, ReadyToSend, Running
<1>2. PICK reports \in Executions :
        executing' = [executing EXCEPT ![t] = Append(@, [node |-> n, left |-> reports])]
  BY DEF SendTask
<1>3. /\ call[p].pc = "free" /\ t \in Task /\ Enabled(t, completed)
      /\ thread[p].snapshot \in TaskHandler
  BY <1>1, ThreadParts DEF ThreadSound
<1>4. n \in Node /\ m \in Report
  BY <1>1, <1>3 DEF TaskHandler, Report, Status
<1>5. /\ executing \in [Task -> Seq([node : Node, left : Seq(Status) \ {<<>>}])]
      /\ dispatches \in [Task -> Nat]
  BY DEF ManagerInv, DomainManagerTypeOK
<1>6. executing' \in [Task -> Seq([node : Node, left : Seq(Status) \ {<<>>}])]
  <2> DEFINE E == [node : Node, left : Seq(Status) \ {<<>>}]
             e == [node |-> n, left |-> reports]
  <2>1. e \in E
    BY <1>4, ExecutionsAssumption
  <2>2. executing' = [executing EXCEPT ![t] = Append(executing[t], e)]
    BY <1>2
  <2>3. executing[t] \in Seq(E)
    BY <1>3, <1>5
  <2> HIDE DEF e, E
  <2>4. Append(executing[t], e) \in Seq(E)
    BY <2>1, <2>3, AppendProperties
  <2>5. executing \in [Task -> Seq(E)]
    BY <1>5 DEF E
  <2>6. executing' \in [Task -> Seq(E)]
    BY <2>2, <2>4, <2>5
  <2> QED BY <2>6 DEF E
<1>7. /\ dispatches' \in [Task -> Nat] /\ dispatches'[t] > 0
      /\ \A u \in Task : dispatches[u] > 0 => dispatches'[u] > 0
      /\ \A u \in Task \ {t} : dispatches'[u] = dispatches[u]
  BY <1>1, <1>3, <1>5
<1>8. ReportsSound'
  <2>1. \A u \in Task \ {t} : executing'[u] = executing[u]
    BY <1>2, <1>5
  <2> QED BY <1>1, <1>3, <1>7, <2>1 DEF ManagerInv, ReportsSound
<1>9. ThreadMoves(p)
  <2>1. /\ UpdateCall(t, m) \in Call /\ UpdateCall(t, m).pc = "update"
        /\ UpdateCall(t, m).task = t /\ UpdateCall(t, m).th = NoTask
        /\ ~UpdateCall(t, m).ready /\ UpdateCall(t, m).msg = m
    BY <1>3, <1>4, CallTypes
  <2>2. m.status = "PENDING"
    OBVIOUS
  <2>5. s \in ThreadState
    BY IdleTypes DEF ThreadState
  <2>3. s \in ThreadState /\ s.kind = "run" /\ s.at = "calling" /\ DOMAIN s.accepted = {}
    BY <2>5 DEF Idle
  <2>4. tasksLock # p
    BY <1>3, NotLocking
  <2> HIDE DEF m, s
  <2> QED BY <1>1, <1>3, <1>4, <2>1, <2>2, <2>3, <2>4, WritesMoves
<1>10. QueueSound'
  BY <1>1, InvParts, IdsKept
<1> QED BY <1>1, <1>3, <1>6, <1>7, <1>8, <1>9, <1>10, InvParts, ThreadOnly

LEMMA SendFailsInv ==
  ASSUME ManagerInv, NEW p \in Thread, SendFails(p)
  PROVE  ManagerInv'
<1> DEFINE t == thread[p].task
           n == thread[p].snapshot.receiver
           m == [status |-> "FAILED", receiver |-> n, output |-> "error"]
           s == [Idle EXCEPT !.kind = "run", !.at = "failing", !.task = t]
<1>1. /\ thread[p].kind = "run" /\ thread[p].at = "inputs" /\ n # NoNode
      /\ spent' = [spent EXCEPT !.errors = @ + 1]
      /\ thread' = [thread EXCEPT ![p] = s]
      /\ call' = [call EXCEPT ![p] = UpdateCall(t, m)]
      /\ UNCHANGED <<tasks, task_queue, popped, tasksLock, recruiter, main, executing>>
      /\ UNCHANGED historyVars /\ UNCHANGED nodesVars
  BY DEF SendFails, ReadyToSend, Running
<1>2. /\ call[p].pc = "free" /\ t \in Task /\ Enabled(t, completed)
      /\ thread[p].snapshot \in TaskHandler
  BY <1>1, ThreadParts DEF ThreadSound
<1>3. m \in Report
  BY <1>2 DEF TaskHandler, Report, Status
<1>4. UNCHANGED <<dispatches, retried, completed, lost>>
  BY <1>1 DEF historyVars
<1>5. ThreadMoves(p)
  <2>1. /\ UpdateCall(t, m) \in Call /\ UpdateCall(t, m).pc = "update"
        /\ UpdateCall(t, m).task = t /\ UpdateCall(t, m).th = NoTask
        /\ ~UpdateCall(t, m).ready /\ UpdateCall(t, m).msg = m
    BY <1>2, <1>3, CallTypes
  <2>2. m.status = "FAILED"
    OBVIOUS
  <2>5. s \in ThreadState
    BY <1>2, IdleTypes DEF ThreadState
  <2>3. /\ s \in ThreadState /\ s.kind = "run" /\ s.at = "failing" /\ s.task = t
        /\ DOMAIN s.accepted = {}
    BY <2>5 DEF Idle
  <2>4. tasksLock # p
    BY <1>2, NotLocking
  <2> HIDE DEF m, s
  <2> QED BY <1>1, <1>2, <1>3, <1>4, <2>1, <2>2, <2>3, <2>4, WritesMoves
<1>6. spent' \in [{"submits", "announces", "errors", "hangups"} -> Nat]
  BY <1>1, InvParts
<1> QED BY <1>1, <1>4, <1>5, <1>6, InvParts, ThreadSteps

LEMMA RunContinuesInv ==
  ASSUME ManagerInv, NEW p \in Thread, RunContinues(p)
  PROVE  ManagerInv'
<1>1. /\ thread[p].kind = "run" /\ call[p].pc = "returned"
      /\ UNCHANGED <<tasks, task_queue, popped, tasksLock, recruiter>>
      /\ UNCHANGED <<main, executing, spent, historyVars>> /\ UNCHANGED nodesVars
  BY DEF RunContinues, At
<1>2. UNCHANGED <<dispatches, retried, completed, lost>>
  BY <1>1 DEF historyVars
<1>3. tasksLock # p
  BY <1>1, NotLocking
<1>4. ThreadMoves(p)
  <2>1. CASE thread[p].at # "failing"
    BY <1>1, <1>3, <2>1, EndsMoves DEF RunContinues
  <2>2. CASE thread[p].at = "failing"
    <3> DEFINE s == [thread[p] EXCEPT !.at = "calling"]
               t == thread[p].task
    <3>1. thread' = [thread EXCEPT ![p] = s] /\ call' = [call EXCEPT ![p] = RetryCall(t)]
      BY <2>2 DEF RunContinues
    <3>2. /\ s \in ThreadState /\ s.kind = "run" /\ s.at = "calling"
          /\ s.accepted = thread[p].accepted
      BY <1>1, ThreadParts DEF ThreadState
    <3>3. /\ t \in Task
          /\ \A i \in DOMAIN thread[p].accepted : Enabled(thread[p].accepted[i], completed)
      BY <2>2, ThreadParts DEF ThreadSound
    <3>4. /\ RetryCall(t) \in Call /\ RetryCall(t).pc = "retry"
          /\ RetryCall(t).task = t /\ RetryCall(t).th = NoTask /\ ~RetryCall(t).ready
      BY <3>3, CallTypes
    <3> HIDE DEF s
    <3> QED BY <1>1, <1>2, <1>3, <3>1, <3>2, <3>3, <3>4, WritesMoves
  <2> QED BY <2>1, <2>2
<1> QED BY <1>1, <1>2, <1>4, InvParts, ThreadSteps

\* A report is one of an execution, so its task was sent.
LEMMA ReportArrivesInv ==
  ASSUME ManagerInv, NEW p \in Thread, NEW t \in Task, NEW i \in DOMAIN executing[t],
         ReportArrives(p, t, i)
  PROVE  ManagerInv'
<1> DEFINE E == [node : Node, left : Seq(Status) \ {<<>>}]
           e == executing[t][i]
           m == ExecutionReport(e.node, Head(e.left))
           s == [Idle EXCEPT !.kind = "update"]
<1>1. /\ thread[p] = Idle /\ thread' = [thread EXCEPT ![p] = s]
      /\ call' = [call EXCEPT ![p] = UpdateCall(t, m)]
      /\ executing' = [executing EXCEPT ![t] =
           IF Len(e.left) = 1 THEN RemoveAt(executing[t], i)
           ELSE [executing[t] EXCEPT ![i].left = Tail(e.left)]]
      /\ popped' = NoId /\ lost' = lost \cup ({popped} \ {NoId})
      /\ UNCHANGED <<tasks, task_queue, tasksLock, recruiter, main, spent>>
      /\ UNCHANGED <<dispatches, retried, completed>> /\ UNCHANGED nodesVars
  BY DEF ReportArrives, Spawn, AnotherBranch, CancelNextTask
<1>2. /\ executing \in [Task -> Seq(E)] /\ dispatches \in [Task -> Nat]
      /\ executing[t] \in Seq(E)
  BY DEF ManagerInv, DomainManagerTypeOK
<1>3. /\ DOMAIN executing[t] = 1 .. Len(executing[t]) /\ Len(executing[t]) \in Nat
      /\ e \in E /\ i \in Nat /\ 1 <= i /\ i <= Len(executing[t])
  <2> HIDE DEF E
  <2> QED BY <1>2, LenProperties, ElementOfSeq
<1>4. /\ e.node \in Node /\ e.left \in Seq(Status) /\ e.left # <<>>
      /\ Head(e.left) \in Status /\ Tail(e.left) \in Seq(Status)
      /\ Len(Tail(e.left)) = Len(e.left) - 1 /\ Len(e.left) \in Nat
  <2>1. e.node \in Node /\ e.left \in Seq(Status) /\ e.left # <<>>
    BY <1>3
  <2> QED BY <2>1, SeqHeadTail
<1>5. m \in Report
  BY <1>4 DEF ExecutionReport, Report
<1>6. executing[t] # <<>> /\ dispatches[t] > 0
  <2>1. executing[t] # <<>>
    BY <1>2, <1>3, EmptySeq
  <2> QED BY <2>1 DEF ManagerInv, ReportsSound
<1>7. executing' \in [Task -> Seq(E)]
  <2>1. CASE Len(e.left) = 1
    <3> HIDE DEF E
    <3>1. RemoveAt(executing[t], i) =
            SubSeq(executing[t], 1, i - 1) \o SubSeq(executing[t], i + 1, Len(executing[t]))
      BY DEF RemoveAt
    <3>2. /\ SubSeq(executing[t], 1, i - 1) \in Seq(E)
          /\ SubSeq(executing[t], i + 1, Len(executing[t])) \in Seq(E)
      BY <1>2, <1>3, SubSeqProperties
    <3>3. RemoveAt(executing[t], i) \in Seq(E)
      BY <3>1, <3>2, ConcatProperties
    <3> QED BY <1>1, <1>2, <2>1, <3>3
  <2>2. CASE Len(e.left) # 1
    <3> DEFINE f == [e EXCEPT !.left = Tail(e.left)]
    <3>1. Tail(e.left) # <<>>
      <4> DEFINE l == e.left
      <4>1. l \in Seq(Status) /\ Tail(l) \in Seq(Status) /\ l # <<>> /\ Len(l) # 1
            /\ Len(Tail(l)) = Len(l) - 1 /\ Len(l) \in Nat
        BY <1>4, <2>2
      <4> HIDE DEF l
      <4>2. Len(Tail(l)) # 0
        BY <4>1
      <4>3. Len(<<>>) = 0
        OBVIOUS
      <4>4. Tail(l) # <<>>
        BY <4>2, <4>3
      <4> QED BY <4>4 DEF l
    <3>2. f \in E
      BY <1>3, <1>4, <3>1
    <3>3. [executing[t] EXCEPT ![i].left = Tail(e.left)] = [executing[t] EXCEPT ![i] = f]
      OBVIOUS
    <3> HIDE DEF E, f
    <3>4. [executing[t] EXCEPT ![i] = f] \in Seq(E)
      BY <1>2, <3>2, ExceptSeq
    <3> QED BY <1>1, <1>2, <2>2, <3>3, <3>4
  <2> QED BY <2>1, <2>2
<1>8. ReportsSound'
  <2>1. \A u \in Task \ {t} : executing'[u] = executing[u]
    BY <1>1, <1>2
  <2> QED BY <1>1, <1>6, <2>1 DEF ManagerInv, ReportsSound
<1>9. ThreadMoves(p)
  <2>1. /\ UpdateCall(t, m) \in Call /\ UpdateCall(t, m).pc = "update"
        /\ UpdateCall(t, m).task = t /\ UpdateCall(t, m).th = NoTask
        /\ ~UpdateCall(t, m).ready /\ UpdateCall(t, m).msg = m
    BY <1>5, CallTypes
  <2>5. s \in ThreadState
    BY IdleTypes DEF ThreadState
  <2>2. s \in ThreadState /\ s.kind = "update" /\ s.at = "calling" /\ DOMAIN s.accepted = {}
    BY <2>5 DEF Idle
  <2>3. call[p].pc = "free"
    BY <1>1, ThreadParts DEF ThreadSound, Idle
  <2>4. tasksLock # p
    BY <2>3, NotLocking
  <2> HIDE DEF m, s
  <2> QED BY <1>1, <1>5, <1>6, <2>1, <2>2, <2>4, WritesMoves
<1>10. QueueSound' /\ lost' \subseteq Task
  BY <1>1, InvParts DEF QueueSound
<1> QED BY <1>1, <1>2, <1>7, <1>8, <1>9, <1>10, InvParts, ThreadOnly

-----------------------------------------------------------------------------
\* The manager as start() leaves it: no task, no thread, nothing sent.
LEMMA ManagerInit == Init => ManagerInv
<1> SUFFICES ASSUME Init PROVE ManagerInv
  OBVIOUS
<1> USE DEF Init
<1>1. \A p \in Thread : thread[p] = Idle /\ call[p] = NoCall
  BY DEF TasksInit
<1>2. \A t \in Task : tasks[t] = NoTask /\ executing[t] = <<>> /\ dispatches[t] = 0
  BY DEF TasksInit
<1>3. \A r \in Request : recruiter[r] = [pc |-> "unused", task |-> NoId]
  BY DEF TasksInit
<1>4. task_queue = <<>> /\ popped = NoId /\ tasksLock = Unlocked
  BY DEF TasksInit
<1>5. TasksTypeOK
  <2>1. NoCall \in Call /\ [pc |-> "unused", task |-> NoId] \in Recruiter
    BY IdleTypes DEF Recruiter
  <2>2. call \in [Thread -> Call] /\ recruiter \in [Request -> Recruiter]
    BY <2>1 DEF TasksInit
  <2>3. tasks \in [Task -> TaskHandler \cup {NoTask}] /\ task_queue \in Seq(Task)
    BY <1>4 DEF TasksInit
  <2> QED BY <1>4, <2>2, <2>3 DEF TasksTypeOK
<1>6. /\ thread \in [Thread -> ThreadState]
      /\ executing \in [Task -> Seq([node : Node, left : Seq(Status) \ {<<>>}])]
      /\ spent \in [{"submits", "announces", "errors", "hangups"} -> Nat]
      /\ dispatches \in [Task -> Nat] /\ retried \in [Task -> Nat]
  <2> DEFINE E == [node : Node, left : Seq(Status) \ {<<>>}]
  <2>1. <<>> \in Seq(E)
    OBVIOUS
  <2> HIDE DEF E
  <2>2. executing \in [Task -> Seq(E)]
    BY <2>1
  <2> QED BY <2>2, IdleTypes DEF E
<1>7. DomainManagerTypeOK
  BY <1>5, <1>6, NodesTypeInit DEF DomainManagerTypeOK
<1>8. TableSound
  BY <1>2 DEF TableSound, Present
<1>9. ASSUME NEW p \in Thread PROVE CallSound(p) /\ LockSound(p) /\ ThreadSound(p)
  <2>1. CallSound(p)
    BY <1>1 DEF CallSound, NoCall, WithTask
  <2>2. LockSound(p)
    BY <1>1, <1>4, NullsAssumption DEF LockSound, NoCall
  <2>3. ThreadSound(p)
    BY <1>1 DEF ThreadSound, NoCall, Idle
  <2> QED BY <2>1, <2>2, <2>3
<1>10. \A r \in Request : RecruiterSound(r)
  BY <1>3 DEF RecruiterSound
<1>11. QueueSound
  BY <1>4 DEF QueueSound
<1>12. ReportsSound
  BY <1>2 DEF ReportsSound
<1> QED BY <1>7, <1>8, <1>9, <1>10, <1>11, <1>12 DEF ManagerInv

LEMMA ThreadStepInv ==
  ASSUME ManagerInv, NEW p \in Thread, ThreadStep(p) \/ SendFails(p) \/ ClientHangsUp(p)
  PROVE  ManagerInv'
BY InCallInv, AcceptNextInv, AcceptJobInv, RejectJobInv, ThreadEndsInv, CollectInputInv,
   SendTaskInv, RunContinuesInv, SendFailsInv DEF ThreadStep

\* Every step of the manager and around it keeps the invariant.
LEMMA ManagerStep == ManagerInv /\ [Next]_vars => ManagerInv'
<1> SUFFICES ASSUME ManagerInv, [Next]_vars PROVE ManagerInv'
  OBVIOUS
<1>1. CASE LoopStep
  BY <1>1, PopTaskInv, RunNextTaskInv, LoopInv DEF LoopStep
<1>2. CASE Arrival
  BY <1>2, JobArrivesInv, NodeAnnouncedInv, LoopInv DEF Arrival
<1>3. CASE \E p \in Thread : ThreadStep(p) \/ SendFails(p) \/ ClientHangsUp(p)
  BY <1>3, ThreadStepInv
<1>4. CASE \E p \in Thread, t \in Task : \E i \in DOMAIN executing[t] : ReportArrives(p, t, i)
  BY <1>4, ReportArrivesInv
<1>5. CASE \E r \in Request : InRecruiter(r)
  BY <1>5, RecruiterInv
<1>6. CASE \E g \in Registrar : InRegistration(g)
  BY <1>6, RegistrationInv
<1>7. CASE MonitorJob
  BY <1>7, MonitorInv
<1>8. CASE UNCHANGED vars
  <2>1. NodesTypeOK'
    BY <1>8, InvParts DEF vars, nodesVars, NodesTypeOK
  <2> QED
    BY <1>8, <2>1, InvParts, NothingMoved DEF vars, tasksVars, loopVars, historyVars
<1> QED BY <1>1, <1>2, <1>3, <1>4, <1>5, <1>6, <1>7, <1>8 DEF Next

LEMMA ManagerInvariant == Spec => []ManagerInv
BY ManagerInit, ManagerStep, PTL DEF Spec

-----------------------------------------------------------------------------
\* The manager's types, for any jobs, nodes, threads and bounds: every
\* handler, call, thread and queue of main.rs and tasks_management.rs only
\* takes values the code gives it.
THEOREM ManagerTypeCorrect == Spec => []DomainManagerTypeOK
<1>1. ManagerInv => DomainManagerTypeOK
  BY DEF ManagerInv
<1> QED BY <1>1, ManagerInvariant, PTL

\* in_degrees is the number of dependencies not counted down, in the table
\* and in every handler validate_task is building: the countdown of the Done
\* transition (task_state_machine) never wraps, and 0 means that nothing is
\* left, whatever reports, submissions and retries interleave.
THEOREM InDegreesAreRight == Spec => []InDegreesMatch
<1>1. ManagerInv => InDegreesMatch
  <2> SUFFICES ASSUME ManagerInv PROVE InDegreesMatch
    OBVIOUS
  <2>1. ASSUME NEW t \in Task, Present(t)
        PROVE  tasks[t].in_degrees = Cardinality({d \in DOMAIN tasks[t].deps : ~tasks[t].deps[d]})
    BY <2>1 DEF ManagerInv, TableSound, HandlerSound, DraftSound, Uncounted
  <2>2. ASSUME NEW p \in Thread, call[p].th # NoTask
        PROVE  call[p].th.in_degrees =
                 Cardinality({d \in DOMAIN call[p].th.deps : ~call[p].th.deps[d]})
    BY <2>2, ThreadParts DEF CallSound, HandlerSound, DraftSound, Uncounted
  <2> QED BY <2>1, <2>2 DEF InDegreesMatch
<1> QED BY <1>1, ManagerInvariant, PTL

-----------------------------------------------------------------------------
\* The refinement.  Where tasks come to count as sent or completed: run_task
\* sends one, and the Done transition accepts one.
Sent == {t \in Task : dispatches[t] > 0}

LEMMA CallStepDag ==
  ASSUME ManagerInv, NEW p \in Thread, InCall(p)
  PROVE  /\ Sent' = Sent
         /\ completed' = completed \/ \E t \in Sent : completed' = completed \cup {t}
<1>1. dispatches' = dispatches
  BY DEF InCall
<1>2. Sent' = Sent
  BY <1>1 DEF Sent
<1>3. ASSUME At(p, "done") PROVE call[p].task \in Sent
  <2>1. call[p].pc = "done" /\ CallSound(p)
    BY <1>3, ThreadParts DEF At
  <2> QED BY <2>1 DEF CallSound, WithTask, CallPoint, Sent
<1>4. completed' = completed \/ (At(p, "done") /\ completed' = completed \cup {call[p].task})
  BY DEF InCall, TheTask
<1> QED BY <1>2, <1>3, <1>4

LEMMA SendTaskDag ==
  ASSUME ManagerInv, NEW p \in Thread, SendTask(p)
  PROVE  \E t \in Task : /\ Needs[t] \subseteq completed /\ Sent' = Sent \cup {t}
                         /\ completed' = completed
<1> DEFINE t == thread[p].task
<1>1. t \in Task /\ Enabled(t, completed)
  BY SendTaskInv
<1>2. dispatches' = [dispatches EXCEPT ![t] = @ + 1] /\ completed' = completed
  BY DEF SendTask
<1>3. dispatches \in [Task -> Nat]
  BY DEF ManagerInv, DomainManagerTypeOK
<1> HIDE DEF t
<1>4. /\ dispatches'[t] > 0
      /\ \A u \in Task \ {t} : dispatches'[u] = dispatches[u]
  BY <1>1, <1>2, <1>3
<1>5. Sent' = Sent \cup {t}
  BY <1>1, <1>4 DEF Sent
<1> QED BY <1>1, <1>2, <1>5 DEF Enabled

\* No other step sends or completes a task.
LEMMA OtherStepDag ==
  ASSUME [Next]_vars, ~ \E p \in Thread : InCall(p) \/ SendTask(p)
  PROVE  UNCHANGED <<dispatches, completed>>
<1>1. CASE LoopStep
  BY <1>1 DEF LoopStep, PopTask, RunNextTask, NothingToRun, WakeUp, historyVars
<1>2. CASE Arrival
  BY <1>2 DEF Arrival, JobArrives, NodeAnnounced, OtherEvent
<1>3. ASSUME NEW p \in Thread, ThreadStep(p) \/ SendFails(p) \/ ClientHangsUp(p)
      PROVE  UNCHANGED <<dispatches, completed>>
  <2>1. CASE AcceptNext(p) \/ AcceptJob(p) \/ RejectJob(p) \/ UpdateEnds(p) \/ RunContinues(p)
             \/ SendFails(p)
    BY <2>1 DEF AcceptNext, AcceptJob, RejectJob, UpdateEnds, RunContinues, SendFails, historyVars
  <2>2. CASE AcceptPanics(p) \/ NoReceiver(p) \/ ClientHangsUp(p)
    BY <2>2 DEF AcceptPanics, NoReceiver, ClientHangsUp
  <2>3. ASSUME NEW d \in Task, CollectInput(p, d) PROVE UNCHANGED <<dispatches, completed>>
    BY <2>3 DEF CollectInput
  <2> QED BY <1>3, <2>1, <2>2, <2>3 DEF ThreadStep
<1>4. ASSUME NEW p \in Thread, NEW t \in Task, NEW i \in DOMAIN executing[t],
             ReportArrives(p, t, i)
      PROVE  UNCHANGED <<dispatches, completed>>
  BY <1>4 DEF ReportArrives
<1>5. CASE (\E r \in Request : InRecruiter(r)) \/ (\E g \in Registrar : InRegistration(g))
           \/ MonitorJob
  BY <1>5 DEF InRecruiter, InRegistration, MonitorJob, historyVars
<1>6. CASE UNCHANGED vars
  BY <1>6 DEF vars, historyVars
<1> QED BY <1>1, <1>2, <1>3, <1>4, <1>5, <1>6 DEF Next

LEMMA DagInit == Init => Dag!Init
<1> SUFFICES ASSUME Init PROVE Dag!Init
  OBVIOUS
<1>1. completed = {} /\ \A t \in Task : dispatches[t] = 0
  BY DEF Init
<1> QED BY <1>1 DEF Dag!Init

LEMMA DagStep ==
  ManagerInv /\ [Next]_vars => [Dag!Next]_<<{t \in Task : dispatches[t] > 0}, completed>>
<1> SUFFICES ASSUME ManagerInv, [Next]_vars
             PROVE  [Dag!Next]_<<Sent, completed>>
  BY DEF Sent
<1>1. ASSUME NEW p \in Thread, SendTask(p) PROVE Dag!Next
  <2>1. PICK t \in Task : /\ Needs[t] \subseteq completed /\ Sent' = Sent \cup {t}
                          /\ completed' = completed
    BY <1>1, SendTaskDag
  <2>2. Dag!Send(t)
    BY <2>1 DEF Dag!Send, Sent
  <2> QED BY <2>2 DEF Dag!Next
<1>2. ASSUME NEW p \in Thread, InCall(p) PROVE [Dag!Next]_<<Sent, completed>>
  <2>1. Sent' = Sent
    BY <1>2, CallStepDag
  <2>2. CASE completed' = completed
    BY <2>1, <2>2
  <2>3. ASSUME NEW t \in Sent, completed' = completed \cup {t} PROVE Dag!Next
    <3>1. t \in Task
      BY DEF Sent
    <3>2. Dag!Finish(t)
      BY <2>1, <2>3 DEF Dag!Finish, Sent
    <3> QED BY <3>1, <3>2 DEF Dag!Next
  <2> QED BY <1>2, <2>2, <2>3, CallStepDag
<1>3. CASE ~ \E p \in Thread : InCall(p) \/ SendTask(p)
  <2>1. UNCHANGED <<dispatches, completed>>
    BY <1>3, OtherStepDag
  <2> QED BY <2>1 DEF Sent
<1> QED BY <1>1, <1>2, <1>3

\* The manager implements TaskDag: across every interleaving of submissions,
\* recruitments, retries, repeated reports and removals, run_task sends a
\* task only when every task it needs was accepted as done, and the Done
\* transition accepts only tasks that were sent.
THEOREM TasksRunInOrder == Spec => DependencyOrder
<1>1. Init => Dag!Init
  BY DagInit
<1>2. ManagerInv /\ [Next]_vars => [Dag!Next]_<<{t \in Task : dispatches[t] > 0}, completed>>
  BY DagStep
<1> QED BY <1>1, <1>2, ManagerInvariant, PTL DEF Spec, DependencyOrder, Dag!Spec

-----------------------------------------------------------------------------
(* No ready task is forgotten.                                             *)

\* The property follows ids from hand to hand.  `Carries' leaves out what
\* BeingRun counts without need: run_task after it wrote the status back.
Carries(p, t) ==
  \/ Accepting(p) /\ t \in ToSet(thread[p].accepted)
  \/ /\ Accepting(p) /\ At(p, "returned") /\ call[p].ok /\ call[p].ready
     /\ t = JobTasks[thread[p].job][thread[p].index]
  \/ At(p, "notifyPush") /\ call[p].pushing = t
  \/ Running(p, "inputs") /\ thread[p].task = t
  \/ thread[p].kind = "run" /\ At(p, "update") /\ call[p].task = t

Recruits(r, t) == recruiter[r].pc = "pushing" /\ recruiter[r].task = t

OnItsWay(t) ==
  \/ \E p \in Thread : Carries(p, t)
  \/ \E r \in Request : Recruits(r, t)
  \/ Queued(t)

ReadyWaits(t) == Present(t) /\ tasks[t].status = "WAITING_FOR_RESOURCE" /\ Ready(tasks[t])

\* validate_task is called by accept_job only, which gets its result; no report
\* makes a task wait; what accept_job collects, it removes when it rejects.
Validating(p) == call[p].pc \in {"validate", "add", "clone", "deps", "recruit", "insert"}

CallKnown(p) ==
  /\ Validating(p) \/ call[p].after = "clone" => Accepting(p) /\ thread[p].at = "calling"
  /\ call[p].pc = "update" => call[p].msg.status # "WAITING_FOR_RESOURCE"

CollectsOwn(p) ==
  Accepting(p) => ToSet(thread[p].accepted) \subseteq ToSet(JobTasks[thread[p].job])

NeverWaiting(left) == \A i \in DOMAIN left : left[i] # "WAITING_FOR_RESOURCE"

WaitingOnTheirWay == \A t \in Task \ lost : ReadyWaits(t) => OnItsWay(t)

TrackInv ==
  /\ \A p \in Thread : CallKnown(p) /\ CollectsOwn(p)
  /\ \A t \in Task : \A i \in DOMAIN executing[t] : NeverWaiting(executing[t][i].left)
  /\ WaitingOnTheirWay

\* A step inside TasksManagement keeps it if it writes no other handler that
\* waits than one that is on its way after, and hands over what it has.
LEMMA TrackedInCall ==
  ASSUME ManagerInv, TrackInv, NEW p \in Thread, InCall(p), CallKnown(p)',
         call[p].pc \in WithTask,
         \A q \in Thread \ {p} : call'[q] = call[q],
         \A t \in Task : ReadyWaits(t)' => ReadyWaits(t) \/ OnItsWay(t)',
         \A t \in Task : Queued(t) => Queued(t)',
         \A r \in Request, t \in Task : Recruits(r, t) => Recruits(r, t)',
         \A t \in Task : At(p, "notifyPush") /\ call[p].pushing = t => Queued(t)',
         \A t \in Task : At(p, "update") /\ call[p].task = t => ~ReadyWaits(t)'
  PROVE  TrackInv'
<1>1. thread' = thread /\ executing' = executing /\ lost \subseteq lost'
  BY DEF InCall, loopVars
<1>2. ASSUME NEW t \in Task \ lost', ReadyWaits(t)' PROVE OnItsWay(t)'
  <2>1. CASE ~ReadyWaits(t)
    BY <1>2, <2>1
  <2>2. CASE ReadyWaits(t)
    <3>1. OnItsWay(t)
      BY <1>1, <1>2, <2>2 DEF TrackInv, WaitingOnTheirWay
    <3>2. ASSUME NEW q \in Thread, Carries(q, t) PROVE OnItsWay(t)'
      <4>1. CASE q # p
        <5>1. Carries(q, t)'
          BY <1>1, <3>2, <4>1 DEF Carries, Accepting, Running, At
        <5> QED BY <5>1 DEF OnItsWay
      <4>2. CASE q = p
        <5>1. Carries(p, t)
          BY <3>2, <4>2
        <5>2. call[p].pc # "returned" /\ call[p].pc # "free"
          BY DEF WithTask
        <5>3. ~Running(p, "inputs")
          BY <5>2, ThreadParts DEF ThreadSound, Running
        <5>4. CASE Accepting(p) /\ t \in ToSet(thread[p].accepted)
          <6>1. Carries(p, t)'
            BY <1>1, <5>4 DEF Carries, Accepting
          <6> QED BY <6>1 DEF OnItsWay
        <5>5. CASE At(p, "notifyPush") /\ call[p].pushing = t
          BY <5>5 DEF OnItsWay
        <5>6. CASE At(p, "update") /\ call[p].task = t
          BY <1>2, <5>6
        <5> QED BY <5>1, <5>2, <5>3, <5>4, <5>5, <5>6 DEF Carries, At
      <4> QED BY <4>1, <4>2
    <3>3. ASSUME NEW r \in Request, Recruits(r, t) PROVE OnItsWay(t)'
      BY <3>3 DEF OnItsWay
    <3>4. Queued(t) => OnItsWay(t)'
      BY DEF OnItsWay
    <3> QED BY <3>1, <3>2, <3>3, <3>4 DEF OnItsWay
  <2> QED BY <2>1, <2>2
<1>3. ASSUME NEW q \in Thread PROVE CallKnown(q)' /\ CollectsOwn(q)'
  <2>1. CollectsOwn(q)'
    BY <1>1 DEF TrackInv, CollectsOwn, Accepting
  <2>2. CASE q # p
    BY <1>1, <2>1, <2>2 DEF TrackInv, CallKnown, Validating, Accepting
  <2> QED BY <2>1, <2>2
<1>4. \A t \in Task : \A i \in DOMAIN executing'[t] : NeverWaiting(executing'[t][i].left)
  BY <1>1 DEF TrackInv
<1> QED BY <1>2, <1>3, <1>4 DEF TrackInv, WaitingOnTheirWay

\* Its parts for the forms of such a step.
LEMMA KnownReturn ==
  ASSUME ManagerInv, NEW p \in Thread, NEW ok, NEW ready, Return(p, ok, ready)
  PROVE  /\ CallKnown(p)' /\ call'[p].pc = "returned"
         /\ call'[p].ok = ok /\ call'[p].ready = ready
         /\ \A q \in Thread \ {p} : call'[q] = call[q]
<1>1. call \in [Thread -> Call]
  BY ThreadParts
<1>2. /\ call'[p].pc = "returned" /\ call'[p].after = "returned"
      /\ call'[p].ok = ok /\ call'[p].ready = ready
      /\ \A q \in Thread \ {p} : call'[q] = call[q]
  BY <1>1 DEF Return, NoCall
<1> QED BY <1>2 DEF CallKnown, Validating

LEMMA KnownGoto ==
  ASSUME ManagerInv, NEW p \in Thread, CallKnown(p), thread' = thread, NEW pc, pc # "update",
         Goto(p, pc),
         pc \in {"validate", "add", "clone", "deps", "recruit", "insert"}
           => Validating(p) \/ call[p].after = "clone"
  PROVE  /\ CallKnown(p)' /\ call'[p].pc = pc
         /\ \A q \in Thread \ {p} : call'[q] = call[q]
<1>1. call \in [Thread -> Call] /\ call[p] \in Call
  BY ThreadParts
<1>2. /\ call'[p].pc = pc /\ call'[p].after = call[p].after
      /\ \A q \in Thread \ {p} : call'[q] = call[q]
  BY <1>1 DEF Goto, Call
<1> QED BY <1>2 DEF CallKnown, Validating, Accepting

LEMMA KnownBuild ==
  ASSUME ManagerInv, NEW p \in Thread, CallKnown(p), thread' = thread, Validating(p),
         NEW pc, NEW th, pc # "update", Build(p, pc, th)
  PROVE  /\ CallKnown(p)'
         /\ \A q \in Thread \ {p} : call'[q] = call[q]
<1>1. call \in [Thread -> Call] /\ call[p] \in Call
  BY ThreadParts
<1>2. /\ call'[p].pc = pc /\ call'[p].after = call[p].after
      /\ \A q \in Thread \ {p} : call'[q] = call[q]
  BY <1>1 DEF Build, Call
<1> QED BY <1>2 DEF CallKnown, Validating, Accepting

LEMMA WaitersKept ==
  ASSUME UNCHANGED <<task_queue, popped>>, NEW t
  PROVE  Queued(t) => Queued(t)'
<1>1. task_queue' = task_queue /\ popped' = popped
  OBVIOUS
<1> QED BY <1>1 DEF Queued, ToSet

LEMMA WaitersGrow ==
  ASSUME task_queue \in Seq(Task), NEW s \in Seq(Task), task_queue' = task_queue \o s,
         popped' = popped
  PROVE  /\ \A t \in Task : Queued(t) => Queued(t)'
         /\ \A t \in ToSet(s) : Queued(t)'
<1>1. /\ Len(task_queue) \in Nat /\ DOMAIN task_queue = 1..Len(task_queue)
      /\ Len(s) \in Nat /\ DOMAIN s = 1..Len(s)
      /\ DOMAIN task_queue' = 1..(Len(task_queue) + Len(s))
      /\ \A i \in 1..(Len(task_queue) + Len(s)) :
           task_queue'[i] = IF i <= Len(task_queue) THEN task_queue[i]
                            ELSE s[i - Len(task_queue)]
  BY ConcatProperties, LenProperties
<1>2. \A i \in DOMAIN task_queue : i \in DOMAIN task_queue' /\ task_queue'[i] = task_queue[i]
  BY <1>1
<1>3. ASSUME NEW i \in DOMAIN s PROVE \E k \in DOMAIN task_queue' : task_queue'[k] = s[i]
  <2>1. i + Len(task_queue) \in DOMAIN task_queue' /\ task_queue'[i + Len(task_queue)] = s[i]
    BY <1>1
  <2> QED BY <2>1
<1>4. \A t \in ToSet(task_queue) : t \in ToSet(task_queue')
  BY <1>2 DEF ToSet
<1>5. \A t \in ToSet(s) : t \in ToSet(task_queue')
  BY <1>3 DEF ToSet
<1> QED BY <1>4, <1>5 DEF Queued

LEMMA WaiterPushed ==
  ASSUME task_queue \in Seq(Task), NEW t \in Task, Push(t), popped' = popped
  PROVE  /\ \A u \in Task : Queued(u) => Queued(u)'
         /\ Queued(t)'
<1>1. /\ Len(task_queue) \in Nat /\ DOMAIN task_queue = 1..Len(task_queue)
      /\ DOMAIN task_queue' = 1..(Len(task_queue) + 1)
      /\ \A i \in 1..Len(task_queue) : task_queue'[i] = task_queue[i]
      /\ task_queue'[Len(task_queue) + 1] = t
  BY AppendProperties, LenProperties DEF Push
<1>2. \A u \in ToSet(task_queue) : u \in ToSet(task_queue')
  BY <1>1 DEF ToSet
<1>3. Len(task_queue) + 1 \in DOMAIN task_queue'
  BY <1>1
<1>4. t \in ToSet(task_queue')
  BY <1>1, <1>3 DEF ToSet
<1> QED BY <1>2, <1>4 DEF Queued

LEMMA ReadyWaitsKept ==
  ASSUME tasks' = tasks, NEW t
  PROVE  ReadyWaits(t)' <=> ReadyWaits(t)
BY DEF ReadyWaits, Present, Ready

\* A handler is written: only its task may begin to wait.
LEMMA OneBeginsToWait ==
  ASSUME tasks \in [Task -> TaskHandler \cup {NoTask}], NEW t \in Task, NEW th,
         tasks' = [tasks EXCEPT ![t] = th],
         th.status = "WAITING_FOR_RESOURCE" /\ Ready(th) => OnItsWay(t)'
  PROVE  \A u \in Task : ReadyWaits(u)' => ReadyWaits(u) \/ OnItsWay(u)'
<1>1. \A u \in Task : tasks'[u] = IF u = t THEN th ELSE tasks[u]
  OBVIOUS
<1>2. ASSUME NEW u \in Task, ReadyWaits(u)', u # t PROVE ReadyWaits(u)
  BY <1>1, <1>2 DEF ReadyWaits, Present, Ready
<1>3. ReadyWaits(t)' => OnItsWay(t)'
  BY <1>1 DEF ReadyWaits, Ready
<1> QED BY <1>2, <1>3

\* A step that leaves the queue and the recruiters alone.
LEMMA TrackedStill ==
  ASSUME ManagerInv, TrackInv, NEW p \in Thread, InCall(p), CallKnown(p)',
         call[p].pc \in WithTask \ {"notifyPush"},
         \A q \in Thread \ {p} : call'[q] = call[q],
         \A t \in Task : ReadyWaits(t)' => ReadyWaits(t) \/ OnItsWay(t)',
         UNCHANGED <<task_queue, popped, recruiter>>,
         \A t \in Task : At(p, "update") /\ call[p].task = t => ~ReadyWaits(t)'
  PROVE  TrackInv'
<1>1. \A t \in Task : Queued(t) => Queued(t)'
  BY WaitersKept
<1>2. \A r \in Request, t \in Task : Recruits(r, t) => Recruits(r, t)'
  BY DEF Recruits
<1>3. ~At(p, "notifyPush")
  BY DEF At
<1> QED BY <1>1, <1>2, <1>3, TrackedInCall

\* Steps that do not write the table either.
LEMMA TrackedReads ==
  ASSUME ManagerInv, TrackInv, NEW p \in Thread, InCall(p), CallKnown(p)',
         call[p].pc \in WithTask \ {"notifyPush", "update"},
         \A q \in Thread \ {p} : call'[q] = call[q],
         UNCHANGED <<tasks, task_queue, popped, recruiter>>
  PROVE  TrackInv'
<1>1. \A t \in Task : ReadyWaits(t)' => ReadyWaits(t) \/ OnItsWay(t)'
  BY ReadyWaitsKept
<1>2. ~At(p, "update")
  BY DEF At
<1> QED BY <1>1, <1>2, TrackedStill

LEMMA InCallKeeps ==
  ASSUME NEW p \in Thread, InCall(p), TrackInv
  PROVE  thread' = thread /\ CallKnown(p)
BY DEF InCall, loopVars, TrackInv

LEMMA ValidateTracked ==
  ASSUME ManagerInv, TrackInv, NEW p \in Thread, InCall(p),
         \/ ValidateTask(p) \/ AddTask(p) \/ CloneHandler(p) \/ ValidateDependencies(p)
  PROVE  TrackInv'
<1>1. /\ thread' = thread /\ CallKnown(p)
      /\ Validating(p) /\ call[p].pc \in WithTask \ {"notifyPush", "update"}
      /\ UNCHANGED <<tasks, task_queue, popped, recruiter>>
  BY InCallKeeps DEF ValidateTask, AddTask, CloneHandler, ValidateDependencies, At,
     Validating, WithTask, CallPoint
<1>2. \/ \E ok, ready \in BOOLEAN : Return(p, ok, ready)
      \/ \E pc \in {"add", "clone", "panicked"} : Goto(p, pc)
      \/ \E pc \in {"recruit", "deps", "insert"} : \E th : Build(p, pc, th)
      \/ call' = [call EXCEPT ![p].pc = "retry", ![p].after = "clone"]
  <2>1. CASE ValidateTask(p)
    <3>1. \A u \in Task : Ready(tasks[u]) \in BOOLEAN
      BY DEF Ready
    <3>2. call[p].task \in Task
      BY <2>1, ThreadParts DEF ValidateTask, At, CallSound, WithTask, CallPoint
    <3> QED BY <2>1, <3>1, <3>2 DEF ValidateTask, TheTask
  <2>2. CASE AddTask(p)
    BY <2>2 DEF AddTask
  <2>3. CASE CloneHandler(p)
    BY <2>3 DEF CloneHandler
  <2>4. CASE ValidateDependencies(p)
    BY <2>4 DEF ValidateDependencies
  <2> QED BY <2>1, <2>2, <2>3, <2>4
<1>3. CASE \E ok, ready \in BOOLEAN : Return(p, ok, ready)
  BY <1>1, <1>3, KnownReturn, TrackedReads
<1>4. CASE \E pc \in {"add", "clone", "panicked"} : Goto(p, pc)
  BY <1>1, <1>4, KnownGoto, TrackedReads
<1>5. ASSUME NEW pc \in {"recruit", "deps", "insert"}, NEW th, Build(p, pc, th)
      PROVE  TrackInv'
  BY <1>1, <1>5, KnownBuild, TrackedReads
<1>6. CASE call' = [call EXCEPT ![p].pc = "retry", ![p].after = "clone"]
  <2>1. call \in [Thread -> Call] /\ call[p] \in Call
    BY ThreadParts
  <2>2. call'[p].pc = "retry" /\ \A q \in Thread \ {p} : call'[q] = call[q]
    BY <1>6, <2>1 DEF Call
  <2>3. CallKnown(p)'
    BY <1>1, <2>2 DEF CallKnown, Validating, Accepting
  <2> QED BY <1>1, <2>2, <2>3, TrackedReads
<1> QED BY <1>2, <1>3, <1>4, <1>5, <1>6

\* The three outcomes of recruit_node.
RecruitmentForm(t, th, o) ==
  \/ \E n : /\ n # NoNode
           /\ o = [th |-> [th EXCEPT !.receiver = n], spawned |-> NoRequest, ok |-> TRUE]
  \/ /\ Policy[t] = "FAIL"
     /\ o = [th |-> FailedHandler(th), spawned |-> NoRequest, ok |-> FALSE]
  \/ \E r \in Request :
       /\ recruiter[r].pc = "unused"
       /\ o = [th |-> [th EXCEPT !.receiver = NoNode, !.request = r],
              spawned |-> r, ok |-> TRUE]

LEMMA RecruitmentForms ==
  ASSUME NEW t, NEW th, NEW o \in Recruitments(t, th)
  PROVE  RecruitmentForm(t, th, o)
<1> USE DEF RecruitmentForm
<1> DEFINE n == FoundNode(EndpointOf[t])
<1>1. CASE n # NoNode
  BY <1>1 DEF Recruitments
<1>2. CASE n = NoNode /\ Policy[t] = "FAIL"
  BY <1>2 DEF Recruitments
<1>3. CASE n = NoNode /\ Policy[t] # "FAIL"
  <2>1. PICK r \in Request : /\ recruiter[r].pc = "unused"
          /\ o = [th |-> [th EXCEPT !.receiver = NoNode, !.request = r],
                  spawned |-> r, ok |-> TRUE]
    BY <1>3 DEF Recruitments
  <2> QED BY <2>1
<1> QED BY <1>1, <1>2, <1>3

\* A new recruiter takes nothing from the others.
LEMMA RecruitsNew ==
  ASSUME recruiter \in [Request -> Recruiter], NEW u \in Task, NEW th,
         NEW o \in Recruitments(u, th), RecruitNode(u, o)
  PROVE  \A r \in Request, t \in Task : Recruits(r, t) => Recruits(r, t)'
<1>1. CASE o.spawned = NoRequest
  BY <1>1 DEF RecruitNode, Recruits
<1>2. CASE o.spawned # NoRequest
  <2>1. recruiter' = [recruiter EXCEPT ![o.spawned] = [pc |-> "spawned", task |-> u]]
    BY <1>2 DEF RecruitNode
  <2>2. recruiter[o.spawned].pc = "unused"
    <3>1. RecruitmentForm(u, th, o)
      BY RecruitmentForms
    <3>2. ASSUME NEW n,
                 o = [th |-> [th EXCEPT !.receiver = n], spawned |-> NoRequest, ok |-> TRUE]
          PROVE  FALSE
      BY <1>2, <3>2
    <3>3. o # [th |-> FailedHandler(th), spawned |-> NoRequest, ok |-> FALSE]
      BY <1>2
    <3>4. ASSUME NEW r \in Request, recruiter[r].pc = "unused",
                 o = [th |-> [th EXCEPT !.receiver = NoNode, !.request = r],
                      spawned |-> r, ok |-> TRUE]
          PROVE  recruiter[o.spawned].pc = "unused"
      BY <3>4
    <3> QED BY <3>1, <3>2, <3>3, <3>4, Zenon DEF RecruitmentForm
  <2>3. \A r \in Request : r = o.spawned \/ recruiter'[r] = recruiter[r]
    BY <2>1
  <2> QED BY <2>2, <2>3 DEF Recruits
<1> QED BY <1>1, <1>2

LEMMA RecruitForNewTracked ==
  ASSUME ManagerInv, TrackInv, NEW p \in Thread, InCall(p), RecruitForNew(p)
  PROVE  TrackInv'
<1>1. /\ thread' = thread /\ CallKnown(p) /\ recruiter \in [Request -> Recruiter]
      /\ Validating(p) /\ call[p].pc \in WithTask \ {"notifyPush", "update"}
      /\ UNCHANGED <<tasks, task_queue, popped>>
  BY InCallKeeps, InvParts DEF RecruitForNew, At, Validating, WithTask, CallPoint
<1>2. call[p].task \in Task
  BY <1>1, ThreadParts DEF CallSound
<1>3. PICK o \in Recruitments(call[p].task, call[p].th) :
        /\ RecruitNode(call[p].task, o)
        /\ IF o.ok THEN Build(p, "insert", o.th) ELSE Return(p, FALSE, FALSE)
  BY DEF RecruitForNew, TheTask
<1>4. CallKnown(p)' /\ \A q \in Thread \ {p} : call'[q] = call[q]
  <2>1. CASE Build(p, "insert", o.th)
    BY <1>1, <2>1, KnownBuild
  <2>2. CASE Return(p, FALSE, FALSE)
    BY <2>2, KnownReturn
  <2> QED BY <1>3, <2>1, <2>2
<1>5. \A r \in Request, t \in Task : Recruits(r, t) => Recruits(r, t)'
  BY <1>1, <1>2, <1>3, RecruitsNew
<1>6. \A t \in Task : Queued(t) => Queued(t)'
  BY <1>1, WaitersKept
<1>7. \A t \in Task : ReadyWaits(t)' => ReadyWaits(t) \/ OnItsWay(t)'
  BY <1>1, ReadyWaitsKept
<1>8. ~At(p, "notifyPush") /\ ~At(p, "update")
  BY <1>1 DEF At
<1> QED BY <1>1, <1>4, <1>5, <1>6, <1>7, <1>8, TrackedInCall

\* What validate_task found ready is with accept_job.
LEMMA InsertTracked ==
  ASSUME ManagerInv, TrackInv, NEW p \in Thread, InCall(p), InsertTask(p)
  PROVE  TrackInv'
<1> DEFINE th == call[p].th
<1>1. /\ thread' = thread /\ CallKnown(p) /\ tasks \in [Task -> TaskHandler \cup {NoTask}]
      /\ Validating(p) /\ call[p].pc \in WithTask \ {"notifyPush", "update"}
      /\ UNCHANGED <<task_queue, popped, recruiter>>
  BY InCallKeeps, InvParts DEF InsertTask, At, Validating, WithTask, CallPoint
<1>2. PICK t \in Task : t = call[p].task
  BY <1>1, ThreadParts DEF CallSound
<1>3. tasks' = [tasks EXCEPT ![t] = th] /\ Return(p, TRUE, Ready(th))
  BY <1>2 DEF InsertTask, TheTask
<1>4. /\ CallKnown(p)' /\ call'[p].pc = "returned" /\ call'[p].ok = TRUE
      /\ call'[p].ready = Ready(th) /\ \A q \in Thread \ {p} : call'[q] = call[q]
  <2>1. CallKnown(p)' /\ \A q \in Thread \ {p} : call'[q] = call[q]
    BY <1>3, KnownReturn
  <2>2. call'[p] = [NoCall EXCEPT !.pc = "returned", !.ok = TRUE, !.ready = Ready(th)]
    BY <1>3, ThreadParts DEF Return
  <2> QED BY <2>1, <2>2 DEF NoCall
<1>5. Accepting(p) /\ thread[p].at = "calling"
  BY <1>1 DEF CallKnown
<1>6. t = JobTasks[thread[p].job][thread[p].index]
  BY <1>1, <1>2, <1>5, ThreadParts DEF ThreadSound, Accepting
<1> HIDE DEF th
<1>7. Ready(th) => Carries(p, t)'
  BY <1>1, <1>4, <1>5, <1>6 DEF Carries, Accepting, At
<1>8. \A u \in Task : ReadyWaits(u)' => ReadyWaits(u) \/ OnItsWay(u)'
  BY <1>1, <1>3, <1>7, OneBeginsToWait DEF OnItsWay
<1>9. ~At(p, "update")
  BY <1>1 DEF At
<1> QED BY <1>1, <1>4, <1>8, <1>9, TrackedStill

\* The steps that write their own task's handler, which does not wait then.
LEMMA WritesTracked ==
  ASSUME ManagerInv, TrackInv, NEW p \in Thread, InCall(p), CallKnown(p)',
         call[p].pc \in WithTask \ {"notifyPush"},
         \A q \in Thread \ {p} : call'[q] = call[q],
         NEW th, ~(th.status = "WAITING_FOR_RESOURCE" /\ Ready(th)),
         tasks' = [tasks EXCEPT ![call[p].task] = th],
         UNCHANGED <<task_queue, popped, recruiter>>
  PROVE  TrackInv'
<1>1. PICK t \in Task : t = call[p].task
  BY ThreadParts DEF CallSound
<1>2. tasks \in [Task -> TaskHandler \cup {NoTask}] /\ tasks' = [tasks EXCEPT ![t] = th]
  BY <1>1, InvParts
<1>3. \A u \in Task : ReadyWaits(u)' => ReadyWaits(u) \/ OnItsWay(u)'
  BY <1>2, OneBeginsToWait
<1>4. ~ReadyWaits(t)'
  BY <1>2 DEF ReadyWaits, Ready
<1>5. \A u \in Task : At(p, "update") /\ call[p].task = u => ~ReadyWaits(u)'
  BY <1>1, <1>4
<1> QED BY <1>3, <1>5, TrackedStill

LEMMA UpdateTracked ==
  ASSUME ManagerInv, TrackInv, NEW p \in Thread, InCall(p), UpdateTask(p)
  PROVE  TrackInv'
<1> DEFINE m == call[p].msg
           th == [tasks[call[p].task] EXCEPT !.status = m.status, !.receiver = m.receiver,
                                             !.output = m.output]
<1>1. /\ thread' = thread /\ CallKnown(p) /\ tasks \in [Task -> TaskHandler \cup {NoTask}]
      /\ call[p].pc = "update" /\ call[p].pc \in WithTask \ {"notifyPush"}
      /\ UNCHANGED <<task_queue, popped, recruiter>>
  BY InCallKeeps, InvParts DEF UpdateTask, At, WithTask, CallPoint
<1>2. PICK t \in Task : t = call[p].task
  BY <1>1, ThreadParts DEF CallSound
<1>3. CASE ~Present(t)
  <2>1. Return(p, TRUE, FALSE) /\ tasks' = tasks
    BY <1>2, <1>3 DEF UpdateTask, TheTask
  <2>2. CallKnown(p)' /\ \A q \in Thread \ {p} : call'[q] = call[q]
    BY <2>1, KnownReturn
  <2>3. \A u \in Task : ReadyWaits(u)' => ReadyWaits(u)
    BY <2>1, ReadyWaitsKept
  <2>4. ~ReadyWaits(t)'
    BY <1>3, <2>1 DEF ReadyWaits, Present
  <2>5. \A u \in Task : At(p, "update") /\ call[p].task = u => ~ReadyWaits(u)'
    BY <1>2, <2>4
  <2> QED BY <1>1, <2>2, <2>3, <2>5, TrackedStill
<1>4. CASE Present(t)
  <2>1. /\ tasks' = [tasks EXCEPT ![call[p].task] = th]
        /\ AfterReport(p, m.status)
    BY <1>1, <1>2, <1>4 DEF UpdateTask, TheTask
  <2>2. tasks[t] \in TaskHandler
    BY <1>1, <1>4 DEF Present
  <2>3. th.status = m.status /\ m.status # "WAITING_FOR_RESOURCE"
    BY <1>1, <1>2, <2>2 DEF CallKnown, TaskHandler
  <2>4. CallKnown(p)' /\ \A q \in Thread \ {p} : call'[q] = call[q]
    <3>1. \/ \E pc \in {"retry", "fail", "done"} : Goto(p, pc)
          \/ Return(p, TRUE, FALSE)
      BY <2>1 DEF AfterReport
    <3>2. CASE \E pc \in {"retry", "fail", "done"} : Goto(p, pc)
      BY <1>1, <3>2, KnownGoto
    <3>3. CASE Return(p, TRUE, FALSE)
      BY <3>3, KnownReturn
    <3> QED BY <3>1, <3>2, <3>3
  <2> HIDE DEF th
  <2> QED BY <1>1, <2>1, <2>3, <2>4, WritesTracked
<1> QED BY <1>3, <1>4

LEMMA RetryTracked ==
  ASSUME ManagerInv, TrackInv, NEW p \in Thread, InCall(p), RetryTask(p)
  PROVE  TrackInv'
<1> DEFINE th == Retried(tasks[call[p].task])
<1>1. /\ thread' = thread /\ CallKnown(p) /\ tasks \in [Task -> TaskHandler \cup {NoTask}]
      /\ call[p].pc \in WithTask \ {"notifyPush", "update"}
      /\ UNCHANGED <<task_queue, popped, recruiter>>
  BY InCallKeeps, InvParts DEF RetryTask, At, WithTask, CallPoint
<1>2. PICK t \in Task : t = call[p].task
  BY <1>1, ThreadParts DEF CallSound
<1>3. /\ \/ tasks' = tasks
         \/ tasks' = [tasks EXCEPT ![call[p].task] = th] /\ Present(t)
      /\ \/ Return(p, FALSE, FALSE) \/ Return(p, TRUE, FALSE)
         \/ Goto(p, "retryPush")
         \/ Goto(p, "clone") /\ call[p].after = "clone"
  BY <1>2 DEF RetryTask, TheTask, AfterRetry
<1>4. CallKnown(p)' /\ \A q \in Thread \ {p} : call'[q] = call[q]
  <2>1. CASE Return(p, FALSE, FALSE) \/ Return(p, TRUE, FALSE)
    BY <2>1, KnownReturn
  <2>2. CASE Goto(p, "retryPush")
    BY <1>1, <2>2, KnownGoto
  <2>3. CASE Goto(p, "clone") /\ call[p].after = "clone"
    BY <1>1, <2>3, KnownGoto
  <2> QED BY <1>3, <2>1, <2>2, <2>3
<1>5. CASE tasks' = tasks
  BY <1>1, <1>4, <1>5, TrackedReads
<1>6. CASE tasks' = [tasks EXCEPT ![call[p].task] = th] /\ Present(t)
  <2>1. tasks[call[p].task] \in TaskHandler
    BY <1>1, <1>2, <1>6 DEF Present
  <2>2. ~(th.status = "WAITING_FOR_RESOURCE" /\ Ready(th))
    BY <2>1 DEF Retried, Ready, TaskHandler
  <2> HIDE DEF th
  <2> QED BY <1>1, <1>4, <1>6, <2>2, WritesTracked
<1> QED BY <1>3, <1>5, <1>6

LEMMA RefusedFailed ==
  ASSUME NEW t \in Task, NEW th \in TaskHandler, NEW o \in Recruitments(t, th), ~o.ok
  PROVE  o.th.status = "FAILED"
<1>1. RecruitmentForm(t, th, o)
  BY RecruitmentForms
<1>2. ASSUME NEW n,
             o = [th |-> [th EXCEPT !.receiver = n], spawned |-> NoRequest, ok |-> TRUE]
      PROVE  FALSE
  BY <1>2
<1>3. ASSUME NEW r,
             o = [th |-> [th EXCEPT !.receiver = NoNode, !.request = r],
                  spawned |-> r, ok |-> TRUE]
      PROVE  FALSE
  BY <1>3
<1>4. o = [th |-> FailedHandler(th), spawned |-> NoRequest, ok |-> FALSE]
  BY <1>1, <1>2, <1>3, Zenon DEF RecruitmentForm
<1> QED BY <1>4 DEF FailedHandler, TaskHandler

LEMMA RetryPushTracked ==
  ASSUME ManagerInv, TrackInv, NEW p \in Thread, InCall(p), RetryPush(p)
  PROVE  TrackInv'
<1>1. /\ thread' = thread /\ CallKnown(p) /\ task_queue \in Seq(Task)
      /\ call[p].pc \in WithTask \ {"notifyPush", "update"}
      /\ UNCHANGED <<tasks, popped, recruiter>> /\ AfterRetry(p)
  BY InCallKeeps, InvParts DEF RetryPush, At, WithTask, CallPoint
<1>2. PICK t \in Task : t = call[p].task
  BY <1>1, ThreadParts DEF CallSound
<1>3. \A u \in Task : Queued(u) => Queued(u)'
  BY <1>1, <1>2, WaiterPushed DEF RetryPush, TheTask
<1>4. CallKnown(p)' /\ \A q \in Thread \ {p} : call'[q] = call[q]
  <2>1. CASE Return(p, TRUE, FALSE)
    BY <2>1, KnownReturn
  <2>2. CASE Goto(p, "clone") /\ call[p].after = "clone"
    BY <1>1, <2>2, KnownGoto
  <2> QED BY <1>1, <2>1, <2>2 DEF AfterRetry
<1>5. \A r \in Request, u \in Task : Recruits(r, u) => Recruits(r, u)'
  BY <1>1 DEF Recruits
<1>6. \A u \in Task : ReadyWaits(u)' => ReadyWaits(u) \/ OnItsWay(u)'
  BY <1>1, ReadyWaitsKept
<1>7. ~At(p, "notifyPush") /\ ~At(p, "update")
  BY <1>1 DEF At
<1> QED BY <1>1, <1>3, <1>4, <1>5, <1>6, <1>7, TrackedInCall

LEMMA FailDoneTracked ==
  ASSUME ManagerInv, TrackInv, NEW p \in Thread, InCall(p), FailTask(p) \/ DoneTask(p)
  PROVE  TrackInv'
<1>1. /\ thread' = thread /\ CallKnown(p) /\ tasks \in [Task -> TaskHandler \cup {NoTask}]
      /\ call[p].pc \in WithTask \ {"notifyPush", "update"}
      /\ UNCHANGED <<task_queue, popped, recruiter>>
  BY InCallKeeps, InvParts DEF FailTask, DoneTask, At, WithTask, CallPoint
<1>2. PICK t \in Task : t = call[p].task
  BY <1>1, ThreadParts DEF CallSound
<1>3. /\ \/ tasks' = tasks
         \/ \E s \in {"FAILED", "DONE"} :
              Present(t) /\ tasks' = [tasks EXCEPT ![call[p].task].status = s]
      /\ \/ Return(p, FALSE, FALSE) \/ Return(p, TRUE, FALSE)
         \/ \E pc \in {"stuck", "notify"} : Goto(p, pc)
  BY <1>2 DEF FailTask, DoneTask, TheTask
<1>4. CallKnown(p)' /\ \A q \in Thread \ {p} : call'[q] = call[q]
  <2>1. CASE Return(p, FALSE, FALSE) \/ Return(p, TRUE, FALSE)
    BY <2>1, KnownReturn
  <2>2. CASE \E pc \in {"stuck", "notify"} : Goto(p, pc)
    BY <1>1, <2>2, KnownGoto
  <2> QED BY <1>3, <2>1, <2>2
<1>5. CASE tasks' = tasks
  BY <1>1, <1>4, <1>5, TrackedReads
<1>6. ASSUME NEW s \in {"FAILED", "DONE"}, Present(t),
             tasks' = [tasks EXCEPT ![call[p].task].status = s]
      PROVE  TrackInv'
  <2> DEFINE th == [tasks[call[p].task] EXCEPT !.status = s]
  <2>1. tasks[call[p].task] \in TaskHandler /\ tasks' = [tasks EXCEPT ![call[p].task] = th]
    BY <1>1, <1>2, <1>6 DEF Present
  <2>2. th.status # "WAITING_FOR_RESOURCE"
    BY <2>1 DEF TaskHandler
  <2> HIDE DEF th
  <2> QED BY <1>1, <1>4, <2>1, <2>2, WritesTracked
<1> QED BY <1>3, <1>5, <1>6

LEMMA KnownContinue ==
  ASSUME ManagerInv, NEW p \in Thread, CallKnown(p), thread' = thread, NEW todo,
         ContinueNotify(p, todo)
  PROVE  CallKnown(p)' /\ \A q \in Thread \ {p} : call'[q] = call[q]
<1>1. CASE Return(p, TRUE, FALSE)
  BY <1>1, KnownReturn
<1>2. CASE call' = [call EXCEPT ![p].pc = "notify", ![p].todo = todo, ![p].pushing = NoId]
  <2>1. call \in [Thread -> Call] /\ call[p] \in Call
    BY ThreadParts
  <2>2. /\ call'[p].pc = "notify" /\ call'[p].after = call[p].after
        /\ \A q \in Thread \ {p} : call'[q] = call[q]
    BY <1>2, <2>1 DEF Call
  <2> QED BY <2>2 DEF CallKnown, Validating, Accepting
<1> QED BY <1>1, <1>2 DEF ContinueNotify

\* The Done loop: a handler that became ready is being pushed.
LEMMA NotifyTracked ==
  ASSUME ManagerInv, TrackInv, NEW p \in Thread, InCall(p), NEW h \in Task,
         NotifyDependent(p, h)
  PROVE  TrackInv'
<1> DEFINE todo == IF tasksLock = p THEN call[p].todo ELSE ToNotify(call[p].task)
           th == Notified(h, call[p].task)
<1>1. /\ thread' = thread /\ CallKnown(p) /\ tasks \in [Task -> TaskHandler \cup {NoTask}]
      /\ recruiter \in [Request -> Recruiter] /\ NodesTypeOK
      /\ call[p].pc \in WithTask \ {"notifyPush", "update"}
      /\ UNCHANGED <<task_queue, popped>>
  BY InCallKeeps, InvParts DEF NotifyDependent, At, WithTask, CallPoint
<1>2. ~At(p, "notifyPush") /\ ~At(p, "update")
  BY <1>1 DEF At
<1>3. \A t \in Task : Queued(t) => Queued(t)'
  BY <1>1, WaitersKept
<1>4. th \in TaskHandler
  <2>1. /\ TableSound /\ CallSound(p) /\ LockSound(p) /\ TasksTypeOK /\ call[p].pc = "notify"
        /\ tasksLock \in {Unlocked, p} /\ h \in todo
    BY ThreadParts, InvParts DEF NotifyDependent, At, TheTask
  <2>2. h \in ToNotify(call[p].task)
    BY <2>1, NullsAssumption DEF LockSound
  <2>3. Present(h) /\ call[p].task \in DOMAIN tasks[h].deps /\ ~tasks[h].deps[call[p].task]
    BY <2>2 DEF ToNotify, Dependents
  <2>4. HandlerSound(h, tasks[h], completed)
    BY <2>1, <2>3, InTable
  <2>5. call[p].task \in completed
    BY <2>1 DEF CallSound
  <2>6. th = [tasks[h] EXCEPT !.deps[call[p].task] = TRUE, !.in_degrees = @ - 1]
    BY DEF Notified
  <2>7. HandlerSound(h, th, completed)
    BY <2>3, <2>4, <2>5, <2>6, NotifiedSound
  <2> QED BY <2>7 DEF HandlerSound, DraftSound
<1>5. CASE th.in_degrees # 0
  <2>1. /\ tasks' = [tasks EXCEPT ![h] = th] /\ ContinueNotify(p, todo \ {h})
        /\ recruiter' = recruiter
    BY <1>5 DEF NotifyDependent, TheTask
  <2>2. ~Ready(th)
    BY <1>5 DEF Ready
  <2> HIDE DEF th, todo
  <2>3. CallKnown(p)' /\ \A q \in Thread \ {p} : call'[q] = call[q]
    BY <1>1, <2>1, KnownContinue
  <2>4. \A u \in Task : ReadyWaits(u)' => ReadyWaits(u) \/ OnItsWay(u)'
    BY <1>1, <2>1, <2>2, OneBeginsToWait
  <2> QED BY <1>1, <1>2, <2>1, <2>3, <2>4, TrackedStill
<1>6. CASE th.in_degrees = 0
  <2>1. PICK o \in Recruitments(h, th) :
          /\ RecruitNode(h, o)
          /\ tasks' = [tasks EXCEPT ![h] = o.th]
          /\ IF o.ok /\ Ready(o.th)
             THEN /\ call' = [call EXCEPT ![p].pc = "notifyPush",
                               ![p].todo = todo \ {h}, ![p].pushing = h]
                  /\ tasksLock' = p
             ELSE ContinueNotify(p, todo \ {h})
    BY <1>6 DEF NotifyDependent, TheTask
  <2> HIDE DEF th, todo
  <2>2. \A r \in Request, t \in Task : Recruits(r, t) => Recruits(r, t)'
    BY <1>1, <2>1, RecruitsNew
  <2>3. CASE ~(o.ok /\ Ready(o.th))
    <3>1. CallKnown(p)' /\ \A q \in Thread \ {p} : call'[q] = call[q]
      BY <1>1, <2>1, <2>3, KnownContinue
    <3>2. ~(o.th.status = "WAITING_FOR_RESOURCE" /\ Ready(o.th))
      BY <1>4, <2>3, RefusedFailed
    <3>3. \A u \in Task : ReadyWaits(u)' => ReadyWaits(u) \/ OnItsWay(u)'
      BY <1>1, <2>1, <3>2, OneBeginsToWait
    <3> QED BY <1>1, <1>2, <1>3, <2>2, <3>1, <3>3, TrackedInCall
  <2>4. CASE o.ok /\ Ready(o.th)
    <3>1. call \in [Thread -> Call] /\ call[p] \in Call
      BY ThreadParts
    <3>2. /\ call'[p].pc = "notifyPush" /\ call'[p].pushing = h
          /\ call'[p].after = call[p].after
          /\ \A q \in Thread \ {p} : call'[q] = call[q]
      BY <2>1, <2>4, <3>1 DEF Call
    <3>3. CallKnown(p)'
      BY <1>1, <3>2 DEF CallKnown, Validating, Accepting
    <3>4. OnItsWay(h)'
      BY <3>2 DEF OnItsWay, Carries, At
    <3>5. \A u \in Task : ReadyWaits(u)' => ReadyWaits(u) \/ OnItsWay(u)'
      BY <1>1, <2>1, <3>4, OneBeginsToWait
    <3> QED BY <1>1, <1>2, <1>3, <2>2, <3>2, <3>3, <3>5, TrackedInCall
  <2> QED BY <2>3, <2>4
<1> QED BY <1>5, <1>6

LEMMA NotifyPushTracked ==
  ASSUME ManagerInv, TrackInv, NEW p \in Thread, InCall(p), NotifyPush(p)
  PROVE  TrackInv'
<1>1. /\ thread' = thread /\ CallKnown(p) /\ task_queue \in Seq(Task)
      /\ call[p].pc = "notifyPush" /\ call[p].pc \in WithTask
      /\ UNCHANGED <<tasks, popped, recruiter>> /\ ContinueNotify(p, call[p].todo)
  BY InCallKeeps, InvParts DEF NotifyPush, At, WithTask, CallPoint
<1>2. PICK t \in Task : t = call[p].pushing
  BY <1>1, ThreadParts DEF CallSound
<1>3. (\A u \in Task : Queued(u) => Queued(u)') /\ Queued(t)'
  BY <1>1, <1>2, WaiterPushed DEF NotifyPush
<1>4. CallKnown(p)' /\ \A q \in Thread \ {p} : call'[q] = call[q]
  BY <1>1, KnownContinue
<1>5. \A r \in Request, u \in Task : Recruits(r, u) => Recruits(r, u)'
  BY <1>1 DEF Recruits
<1>6. \A u \in Task : ReadyWaits(u)' => ReadyWaits(u) \/ OnItsWay(u)'
  BY <1>1, ReadyWaitsKept
<1>7. \A u \in Task : At(p, "notifyPush") /\ call[p].pushing = u => Queued(u)'
  BY <1>2, <1>3
<1>8. ~At(p, "update")
  BY <1>1 DEF At
<1> QED BY <1>1, <1>3, <1>4, <1>5, <1>6, <1>7, <1>8, TrackedInCall

LEMMA InCallTracked ==
  ASSUME ManagerInv, TrackInv, NEW p \in Thread, InCall(p)
  PROVE  TrackInv'
<1>1. CallStep(p)
  BY DEF InCall
<1>2. CASE NotifyNobody(p)
  <2>1. /\ call[p].pc \in WithTask \ {"notifyPush", "update"} /\ Return(p, TRUE, FALSE)
        /\ UNCHANGED <<tasks, task_queue, popped, recruiter>>
    BY <1>2 DEF NotifyNobody, At, WithTask, CallPoint
  <2> QED BY <2>1, KnownReturn, TrackedReads
<1> QED
  BY <1>1, <1>2, ValidateTracked, RecruitForNewTracked, InsertTracked, UpdateTracked,
     RetryTracked, RetryPushTracked, FailDoneTracked, NotifyTracked, NotifyPushTracked
  DEF CallStep

-----------------------------------------------------------------------------
\* The other steps.  What a step by thread p, or by none, has to hand over.
LEMMA TrackedThread ==
  ASSUME ManagerInv, TrackInv, NEW p \in Thread,
         \A q \in Thread \ {p} : thread'[q] = thread[q] /\ call'[q] = call[q],
         CallKnown(p)', CollectsOwn(p)', lost \subseteq lost',
         \A t \in Task : \A i \in DOMAIN executing'[t] : NeverWaiting(executing'[t][i].left),
         \A t \in Task \ lost' : ReadyWaits(t)' /\ ~ReadyWaits(t) => OnItsWay(t)',
         \A t \in Task \ lost' : Queued(t) /\ ReadyWaits(t)' => OnItsWay(t)',
         \A t \in Task \ lost' : Carries(p, t) /\ ReadyWaits(t)' => OnItsWay(t)',
         \A r \in Request, t \in Task : Recruits(r, t) => OnItsWay(t)'
  PROVE  TrackInv'
<1>1. ASSUME NEW q \in Thread PROVE CallKnown(q)' /\ CollectsOwn(q)'
  <2>1. CASE q # p
    BY <2>1 DEF TrackInv, CallKnown, CollectsOwn, Validating, Accepting
  <2> QED BY <2>1
<1>2. ASSUME NEW t \in Task \ lost', ReadyWaits(t)', ReadyWaits(t) PROVE OnItsWay(t)'
  <2>1. OnItsWay(t)
    BY <1>2 DEF TrackInv, WaitingOnTheirWay
  <2>2. ASSUME NEW q \in Thread, q # p, Carries(q, t) PROVE OnItsWay(t)'
    <3>1. Carries(q, t)'
      BY <2>2 DEF Carries, Accepting, Running, At
    <3> QED BY <3>1 DEF OnItsWay
  <2> QED BY <1>2, <2>1, <2>2 DEF OnItsWay
<1> QED BY <1>1, <1>2 DEF TrackInv, WaitingOnTheirWay

LEMMA TrackedOutside ==
  ASSUME ManagerInv, TrackInv, UNCHANGED <<thread, call, executing>>, lost \subseteq lost',
         \A t \in Task \ lost' : ReadyWaits(t)' /\ ~ReadyWaits(t) => OnItsWay(t)',
         \A t \in Task \ lost' : Queued(t) /\ ReadyWaits(t)' => OnItsWay(t)',
         \A r \in Request, t \in Task : Recruits(r, t) => OnItsWay(t)'
  PROVE  TrackInv'
<1>1. ASSUME NEW q \in Thread PROVE CallKnown(q)' /\ CollectsOwn(q)'
  BY DEF TrackInv, CallKnown, CollectsOwn, Validating, Accepting
<1>2. ASSUME NEW t \in Task \ lost', ReadyWaits(t)', ReadyWaits(t) PROVE OnItsWay(t)'
  <2>1. OnItsWay(t)
    BY <1>2 DEF TrackInv, WaitingOnTheirWay
  <2>2. ASSUME NEW q \in Thread, Carries(q, t) PROVE OnItsWay(t)'
    <3>1. Carries(q, t)'
      BY <2>2 DEF Carries, Accepting, Running, At
    <3> QED BY <3>1 DEF OnItsWay
  <2> QED BY <1>2, <2>1, <2>2 DEF OnItsWay
<1>3. \A t \in Task : \A i \in DOMAIN executing'[t] : NeverWaiting(executing'[t][i].left)
  BY DEF TrackInv
<1> QED BY <1>1, <1>2, <1>3 DEF TrackInv, WaitingOnTheirWay

\* What the queue holds after a step that may drop the id get_next_task has.
LEMMA QueuedOrLost ==
  ASSUME task_queue' = task_queue,
         \/ popped' = popped
         \/ popped' = NoId /\ lost' = lost \cup ({popped} \ {NoId})
  PROVE  \A t \in Task \ lost' : Queued(t) => Queued(t)'
<1>1. NoId \notin Task
  BY NullsAssumption
<1> QED BY <1>1 DEF Queued, ToSet

\* A recruiter with a node pushes its task: before that nobody else does, and
\* after that the task is in the queue.
LEMMA RecruiterTracked ==
  ASSUME ManagerInv, TrackInv, NEW r \in Request, InRecruiter(r)
  PROVE  TrackInv'
<1>1. /\ UNCHANGED <<thread, executing, lost>> /\ recruiter \in [Request -> Recruiter]
      /\ tasks \in [Task -> TaskHandler \cup {NoTask}] /\ task_queue \in Seq(Task)
  BY InvParts DEF InRecruiter, loopVars, historyVars
<1>2. CASE RecruiterRequest(r) \/ (RecruiterResume(r) /\ tasks' = tasks)
  <2>1. /\ recruiter[r].pc \in {"spawned", "waiting"} /\ UNCHANGED <<tasks, task_queue, popped, call>>
        /\ \A q \in Request \ {r} : recruiter'[q] = recruiter[q]
    BY <1>1, <1>2 DEF RecruiterRequest, RecruiterResume
  <2>2. \A q \in Request, t \in Task : Recruits(q, t) => Recruits(q, t)'
    BY <2>1 DEF Recruits
  <2>3. \A t \in Task : Queued(t) => Queued(t)'
    BY <2>1, WaitersKept
  <2>4. \A t \in Task : ReadyWaits(t)' => ReadyWaits(t)
    BY <2>1, ReadyWaitsKept
  <2> QED BY <1>1, <2>1, <2>2, <2>3, <2>4, TrackedOutside DEF OnItsWay
<1>3. CASE RecruiterResume(r) /\ tasks' # tasks
  <2>1. PICK t \in Task : t = recruiter[r].task
    BY <1>3, InvParts DEF RecruiterResume, RecruiterSound
  <2> DEFINE th == [tasks[t] EXCEPT !.receiver = channel[r].node, !.request = NoRequest]
  <2>2. /\ tasks' = [tasks EXCEPT ![t] = th]
        /\ recruiter' = [recruiter EXCEPT ![r].pc = "pushing"]
        /\ recruiter[r].pc = "waiting" /\ UNCHANGED <<task_queue, popped, call>>
    BY <1>1, <1>3, <2>1 DEF RecruiterResume
  <2> HIDE DEF th
  <2>3. recruiter'[r].pc = "pushing" /\ recruiter'[r].task = t
        /\ \A q \in Request \ {r} : recruiter'[q] = recruiter[q]
    BY <1>1, <2>1, <2>2 DEF Recruiter
  <2>4. \A q \in Request, u \in Task : Recruits(q, u) => Recruits(q, u)'
    BY <2>2, <2>3 DEF Recruits
  <2>5. OnItsWay(t)'
    BY <2>3 DEF OnItsWay, Recruits
  <2>6. \A u \in Task : ReadyWaits(u)' => ReadyWaits(u) \/ OnItsWay(u)'
    BY <1>1, <2>2, <2>5, OneBeginsToWait
  <2>7. \A u \in Task : Queued(u) => Queued(u)'
    BY <2>2, WaitersKept
  <2> QED BY <1>1, <2>2, <2>4, <2>6, <2>7, TrackedOutside DEF OnItsWay
<1>4. CASE RecruiterPush(r)
  <2>1. PICK t \in Task : t = recruiter[r].task
    BY <1>4, InvParts DEF RecruiterPush, RecruiterSound
  <2>2. /\ UNCHANGED <<tasks, popped, call>> /\ Push(t)
        /\ \A q \in Request \ {r} : recruiter'[q] = recruiter[q]
    BY <1>1, <1>4, <2>1 DEF RecruiterPush
  <2>3. (\A u \in Task : Queued(u) => Queued(u)') /\ Queued(t)'
    BY <1>1, <2>2, WaiterPushed
  <2>4. ASSUME NEW q \in Request, NEW u \in Task, Recruits(q, u) PROVE OnItsWay(u)'
    <3>1. CASE q = r
      <4>1. u = t
        BY <2>1, <2>4, <3>1 DEF Recruits
      <4> QED BY <2>3, <4>1 DEF OnItsWay
    <3>2. CASE q # r
      <4>1. Recruits(q, u)'
        BY <2>2, <2>4, <3>2 DEF Recruits
      <4> QED BY <4>1 DEF OnItsWay
    <3> QED BY <3>1, <3>2
  <2>5. \A u \in Task : ReadyWaits(u)' => ReadyWaits(u)
    BY <2>2, ReadyWaitsKept
  <2> QED BY <1>1, <2>2, <2>3, <2>4, <2>5, TrackedOutside DEF OnItsWay
<1> QED BY <1>2, <1>3, <1>4 DEF InRecruiter, RecruiterStep

\* Steps that move no thread, recruiter or handler.
LEMMA LoopTracked ==
  ASSUME ManagerInv, TrackInv,
         \/ \E g \in Registrar : InRegistration(g)
         \/ MonitorJob \/ PopTask \/ NothingToRun \/ WakeUp \/ OtherEvent
         \/ \E g \in Registrar, a \in Announcements : NodeAnnounced(g, a)
  PROVE  TrackInv'
<1>1. UNCHANGED <<thread, call, executing, tasks, recruiter>> /\ lost \subseteq lost'
  BY DEF InRegistration, MonitorJob, MonitorTasks, MonitorEnds, PopTask, PopNextTask,
     NothingToRun, WakeUp, OtherEvent, NodeAnnounced, AnotherBranch, tasksVars, loopVars,
     historyVars
<1>2. \A t \in Task \ lost' : Queued(t) => Queued(t)'
  <2>1. CASE PopTask
    <3>1. /\ popped = NoId /\ task_queue # <<>> /\ popped' = Head(task_queue)
          /\ task_queue' = Tail(task_queue)
      BY <2>1 DEF PopTask, PopNextTask, QueueFree
    <3>2. task_queue \in Seq(Task)
      BY InvParts
    <3>3. /\ Len(task_queue) \in Nat /\ DOMAIN task_queue = 1..Len(task_queue)
          /\ Head(task_queue) = task_queue[1]
          /\ DOMAIN Tail(task_queue) = 1..(Len(task_queue) - 1)
          /\ \A i \in 1..(Len(task_queue) - 1) : Tail(task_queue)[i] = task_queue[i + 1]
      BY <3>1, <3>2, HeadTailProperties, LenProperties
    <3>4. ASSUME NEW i \in DOMAIN task_queue, i # 1
          PROVE  \E k \in DOMAIN task_queue' : task_queue'[k] = task_queue[i]
      <4>1. i - 1 \in 1..(Len(task_queue) - 1) /\ (i - 1) + 1 = i
        BY <3>3, <3>4
      <4>2. i - 1 \in DOMAIN task_queue' /\ task_queue'[i - 1] = task_queue[i]
        BY <3>1, <3>3, <4>1
      <4> QED BY <4>2
    <3>5. \A t \in ToSet(task_queue) : t = popped' \/ t \in ToSet(task_queue')
      BY <3>1, <3>3, <3>4 DEF ToSet
    <3> QED BY <3>1, <3>5, NullsAssumption DEF Queued
  <2>2. CASE ~PopTask
    <3>1. /\ task_queue' = task_queue
          /\ \/ popped' = popped
             \/ popped' = NoId /\ lost' = lost \cup ({popped} \ {NoId})
      BY <2>2 DEF InRegistration, MonitorJob, MonitorTasks, MonitorEnds, NothingToRun,
         WakeUp, OtherEvent, NodeAnnounced, AnotherBranch, CancelNextTask, tasksVars
    <3> QED BY <3>1, QueuedOrLost
  <2> QED BY <2>1, <2>2
<1>3. \A t \in Task : ReadyWaits(t)' => ReadyWaits(t)
  BY <1>1, ReadyWaitsKept
<1>4. \A r \in Request, t \in Task : Recruits(r, t) => Recruits(r, t)'
  BY <1>1 DEF Recruits
<1> QED BY <1>1, <1>2, <1>3, <1>4, TrackedOutside DEF OnItsWay

LEMMA RemovedFromSeq ==
  ASSUME NEW S, NEW s \in Seq(S), NEW i \in 1..Len(s), NEW k \in DOMAIN RemoveAt(s, i)
  PROVE  \E l \in DOMAIN s : RemoveAt(s, i)[k] = s[l]
<1> DEFINE a == SubSeq(s, 1, i - 1)
           b == SubSeq(s, i + 1, Len(s))
<1>1. /\ Len(s) \in Nat /\ DOMAIN s = 1..Len(s) /\ i \in Nat /\ 1 <= i /\ i <= Len(s)
  BY LenProperties
<1>2. a \in Seq(S) /\ Len(a) = i - 1 /\ \A j \in 1..(i - 1) : a[j] = s[j]
  BY <1>1, SubSeqProperties
<1>3. b \in Seq(S) /\ Len(b) = Len(s) - i /\ \A j \in 1..(Len(s) - i) : b[j] = s[i + j]
  <2> DEFINE m == i + 1
             n == Len(s)
  <2>1. m \in Nat /\ n \in Nat /\ 1 <= m /\ n <= Len(s) /\ m <= n + 1
    BY <1>1
  <2>2. \A j \in m..n : j \in DOMAIN s
    BY <1>1
  <2> HIDE DEF m, n
  <2>3. /\ SubSeq(s, m, n) \in Seq(S)
        /\ Len(SubSeq(s, m, n)) = IF m <= n THEN n - m + 1 ELSE 0
        /\ \A j \in 1..(n - m + 1) : SubSeq(s, m, n)[j] = s[m + j - 1]
    BY <1>1, <2>1, <2>2, SubSeqProperties
  <2>4. n - m + 1 = Len(s) - i /\ (m <= n \/ Len(s) - i = 0)
    <3>1. n = Len(s) /\ m = i + 1
      BY DEF m, n
    <3>2. \A x \in Nat : \A y \in 1..x :
             x - (y + 1) + 1 = x - y /\ (y + 1 <= x \/ x - y = 0)
      OBVIOUS
    <3> QED BY <1>1, <3>1, <3>2
  <2>5. \A j \in 1..(Len(s) - i) : m + j - 1 = i + j
    BY <1>1 DEF m
  <2>6. b = SubSeq(s, m, n)
    BY DEF m, n
  <2>7. Len(b) = Len(s) - i
    BY <2>1, <2>3, <2>4, <2>6
  <2> HIDE DEF b
  <2> QED BY <2>3, <2>4, <2>5, <2>6, <2>7
<1>4. RemoveAt(s, i) = a \o b
  BY DEF RemoveAt
<1> HIDE DEF a, b
<1>5. /\ a \o b \in Seq(S) /\ Len(a \o b) = Len(a) + Len(b)
      /\ \A j \in 1..Len(a) + Len(b) :
           (a \o b)[j] = IF j <= Len(a) THEN a[j] ELSE b[j - Len(a)]
  BY <1>2, <1>3, ConcatProperties, Zenon
<1>6. DOMAIN (a \o b) = 1..Len(a \o b)
  BY <1>5, LenProperties, Zenon
<1>7. Len(a \o b) = Len(s) - 1 /\ k \in 1..(Len(s) - 1)
  BY <1>1, <1>2, <1>3, <1>4, <1>5, <1>6
<1>8. CASE k <= i - 1
  <2>1. (a \o b)[k] = s[k]
    BY <1>1, <1>2, <1>5, <1>7, <1>8
  <2> QED BY <1>1, <1>4, <1>7, <2>1
<1>9. CASE ~(k <= i - 1)
  <2>1. PICK j \in 1..(Len(s) - i) : j = k - Len(a)
    BY <1>1, <1>2, <1>7, <1>9
  <2>2. k \in 1..Len(a) + Len(b) /\ ~(k <= Len(a))
    BY <1>1, <1>2, <1>3, <1>7, <1>9
  <2>3. (a \o b)[k] = b[k - Len(a)]
    BY <1>5, <2>2
  <2>4. (a \o b)[k] = s[i + j]
    BY <1>3, <2>1, <2>3
  <2>5. i + j \in DOMAIN s
    BY <1>1, <2>1
  <2> QED BY <1>4, <2>4, <2>5
<1> QED BY <1>8, <1>9

\* A step of a thread that moves no handler, recruiter or id in the queue.
LEMMA TrackedQuiet ==
  ASSUME ManagerInv, TrackInv, NEW p \in Thread,
         \A q \in Thread \ {p} : thread'[q] = thread[q] /\ call'[q] = call[q],
         CallKnown(p)', CollectsOwn(p)', lost \subseteq lost',
         UNCHANGED <<tasks, task_queue, recruiter>>,
         \A t \in Task : \A i \in DOMAIN executing'[t] : NeverWaiting(executing'[t][i].left),
         \/ popped' = popped
         \/ popped' = NoId /\ lost' = lost \cup ({popped} \ {NoId}),
         \A t \in Task \ lost' : Carries(p, t) => Carries(p, t)'
  PROVE  TrackInv'
<1>1. \A t \in Task \ lost' : Queued(t) => Queued(t)'
  BY QueuedOrLost
<1>2. \A t \in Task : ReadyWaits(t)' => ReadyWaits(t)
  BY ReadyWaitsKept
<1>3. \A r \in Request, t \in Task : Recruits(r, t) => Recruits(r, t)'
  BY DEF Recruits
<1> QED BY <1>1, <1>2, <1>3, TrackedThread DEF OnItsWay

LEMMA EndsKnown ==
  ASSUME ManagerInv, NEW p \in Thread, Ends(p)
  PROVE  /\ CallKnown(p)' /\ CollectsOwn(p)'
         /\ \A q \in Thread \ {p} : thread'[q] = thread[q] /\ call'[q] = call[q]
<1>1. thread \in [Thread -> ThreadState] /\ call \in [Thread -> Call]
  BY ThreadParts
<1>2. thread'[p] = Idle /\ call'[p] = NoCall
  BY <1>1 DEF Ends
<1>3. Idle.kind = "idle" /\ NoCall.pc = "free" /\ NoCall.after = "returned"
  BY DEF Idle, NoCall
<1>4. CallKnown(p)' /\ CollectsOwn(p)'
  BY <1>2, <1>3 DEF CallKnown, CollectsOwn, Validating, Accepting
<1> QED BY <1>1, <1>4 DEF Ends

LEMMA ExecutingKnown ==
  ASSUME TrackInv, executing' = executing
  PROVE  \A t \in Task : \A i \in DOMAIN executing'[t] : NeverWaiting(executing'[t][i].left)
BY DEF TrackInv

\* Threads that start with nothing.
LEMMA JobArrivesTracked ==
  ASSUME ManagerInv, TrackInv, NEW p \in Thread, NEW j \in Job, JobArrives(p, j)
  PROVE  TrackInv'
<1>1. /\ thread[p] = Idle /\ popped' = NoId /\ lost' = lost \cup ({popped} \ {NoId})
      /\ UNCHANGED <<tasks, task_queue, recruiter, executing>>
      /\ thread \in [Thread -> ThreadState] /\ call \in [Thread -> Call]
      /\ call[p].pc = "free"
  <2>1. thread[p] = Idle
    BY DEF JobArrives, Spawn
  <2>2. call[p].pc = "free"
    BY <2>1, ThreadParts DEF ThreadSound, Idle
  <2> QED BY <2>1, <2>2, ThreadParts DEF JobArrives, Spawn, AnotherBranch, CancelNextTask
<1>2. \A q \in Thread \ {p} : thread'[q] = thread[q] /\ call'[q] = call[q]
  BY <1>1 DEF JobArrives, Spawn
<1>3. /\ thread'[p].kind = "accept" /\ thread'[p].accepted = <<>>
      /\ thread'[p].at = "calling" \/ call'[p] = NoCall
      /\ call'[p].after = "returned" /\ call'[p].pc \in {"free", "validate"}
  <2>1. CASE JobTasks[j] = <<>>
    <3>1. /\ thread'[p] = [Idle EXCEPT !.kind = "accept", !.at = "respond", !.job = j]
          /\ call'[p] = NoCall
      BY <1>1, <2>1 DEF JobArrives, Spawn
    <3> QED BY <3>1 DEF Idle, NoCall
  <2>2. CASE JobTasks[j] # <<>>
    <3>1. /\ thread'[p] = [Idle EXCEPT !.kind = "accept", !.job = j, !.index = 1]
          /\ call'[p] = ValidateCall(JobTasks[j][1])
      BY <1>1, <2>2 DEF JobArrives, Spawn
    <3> QED BY <3>1 DEF Idle, NoCall, ValidateCall
  <2> QED BY <2>1, <2>2
<1>4. CallKnown(p)'
  BY <1>3 DEF CallKnown, Validating, Accepting, NoCall
<1>5. CollectsOwn(p)'
  BY <1>3 DEF CollectsOwn, ToSet
<1>6. \A t \in Task : ~Carries(p, t)
  BY <1>1 DEF Carries, Accepting, Running, At, Idle
<1> QED BY <1>1, <1>2, <1>4, <1>5, <1>6, ExecutingKnown, TrackedQuiet

LEMMA ReportArrivesTracked ==
  ASSUME ManagerInv, TrackInv, NEW p \in Thread, NEW t \in Task, NEW i \in DOMAIN executing[t],
         ReportArrives(p, t, i)
  PROVE  TrackInv'
<1> DEFINE E == [node : Node, left : Seq(Status) \ {<<>>}]
           e == executing[t][i]
           m == ExecutionReport(e.node, Head(e.left))
<1>1. /\ thread[p] = Idle /\ thread' = [thread EXCEPT ![p] = [Idle EXCEPT !.kind = "update"]]
      /\ call' = [call EXCEPT ![p] = UpdateCall(t, m)]
      /\ executing' = [executing EXCEPT ![t] =
           IF Len(e.left) = 1 THEN RemoveAt(executing[t], i)
           ELSE [executing[t] EXCEPT ![i].left = Tail(e.left)]]
      /\ popped' = NoId /\ lost' = lost \cup ({popped} \ {NoId})
      /\ UNCHANGED <<tasks, task_queue, recruiter>>
  BY DEF ReportArrives, Spawn, AnotherBranch, CancelNextTask
<1>2. /\ executing \in [Task -> Seq(E)] /\ executing[t] \in Seq(E)
      /\ thread \in [Thread -> ThreadState] /\ call \in [Thread -> Call]
  BY ThreadParts DEF ManagerInv, DomainManagerTypeOK
<1>3. /\ DOMAIN executing[t] = 1 .. Len(executing[t]) /\ Len(executing[t]) \in Nat
      /\ e \in E /\ i \in Nat /\ 1 <= i /\ i <= Len(executing[t])
  <2> HIDE DEF E
  <2> QED BY <1>2, LenProperties, ElementOfSeq
<1>4. /\ e.left \in Seq(Status) /\ e.left # <<>>
      /\ Head(e.left) = e.left[1] /\ 1 \in DOMAIN e.left
      /\ \A k \in DOMAIN Tail(e.left) : \E l \in DOMAIN e.left : Tail(e.left)[k] = e.left[l]
  <2> DEFINE s == e.left
  <2>1. s \in Seq(Status) /\ s # <<>>
    BY <1>3
  <2> HIDE DEF s
  <2>2. /\ Len(s) \in Nat /\ DOMAIN s = 1..Len(s) /\ Head(s) = s[1] /\ Len(s) # 0
        /\ DOMAIN Tail(s) = 1..(Len(s) - 1)
        /\ \A k \in 1..(Len(s) - 1) : Tail(s)[k] = s[k + 1]
    BY <2>1, HeadTailProperties, LenProperties, EmptySeq
  <2>3. ASSUME NEW k \in DOMAIN Tail(s) PROVE \E l \in DOMAIN s : Tail(s)[k] = s[l]
    <3>1. k + 1 \in DOMAIN s /\ Tail(s)[k] = s[k + 1]
      BY <2>2, <2>3
    <3> QED BY <3>1
  <2>4. 1 \in DOMAIN s
    BY <2>2
  <2> QED BY <2>1, <2>2, <2>3, <2>4 DEF s
<1>5. \A u \in Task : \A k \in DOMAIN executing[u] : NeverWaiting(executing[u][k].left)
  BY DEF TrackInv
<1>6. NeverWaiting(e.left) /\ Head(e.left) # "WAITING_FOR_RESOURCE"
  BY <1>4, <1>5 DEF NeverWaiting
<1>7. NeverWaiting(Tail(e.left))
  BY <1>4, <1>6 DEF NeverWaiting
<1>8. ASSUME NEW u \in Task, NEW k \in DOMAIN executing'[u]
      PROVE  NeverWaiting(executing'[u][k].left)
  <2>1. CASE u # t
    <3>1. executing'[u] = executing[u]
      BY <1>1, <1>2, <2>1
    <3> QED BY <1>5, <1>8, <3>1
  <2>2. CASE u = t /\ Len(e.left) = 1
    <3>1. executing'[t] = RemoveAt(executing[t], i)
      BY <1>1, <1>2, <2>2
    <3> HIDE DEF E, e
    <3>2. \E l \in DOMAIN executing[t] : executing'[t][k] = executing[t][l]
      BY <1>2, <1>3, <1>8, <2>2, <3>1, RemovedFromSeq
    <3> QED BY <1>5, <2>2, <3>2
  <2>3. CASE u = t /\ Len(e.left) # 1
    <3>1. executing'[t] = [executing[t] EXCEPT ![i].left = Tail(e.left)]
      BY <1>1, <1>2, <2>3
    <3>2. /\ k \in DOMAIN executing[t]
          /\ k = i => executing'[t][k].left = Tail(e.left)
          /\ k # i => executing'[t][k] = executing[t][k]
      BY <1>3, <1>8, <2>3, <3>1
    <3> HIDE DEF e
    <3> QED BY <1>5, <1>7, <2>3, <3>2
  <2> QED BY <2>1, <2>2, <2>3
<1>9. \A q \in Thread \ {p} : thread'[q] = thread[q] /\ call'[q] = call[q]
  BY <1>1, <1>2
<1>10. CallKnown(p)' /\ CollectsOwn(p)'
  <2>1. call'[p] = UpdateCall(t, m) /\ thread'[p] = [Idle EXCEPT !.kind = "update"]
    BY <1>1, <1>2
  <2>2. m.status = Head(e.left)
    BY DEF ExecutionReport
  <2> HIDE DEF m
  <2>3. /\ call'[p].pc = "update" /\ call'[p].after = "returned" /\ call'[p].msg = m
        /\ thread'[p].kind = "update"
    BY <2>1 DEF UpdateCall, NoCall, Idle
  <2> QED BY <1>6, <2>2, <2>3 DEF CallKnown, CollectsOwn, Validating, Accepting
<1>11. \A u \in Task : ~Carries(p, u)
  <2>1. call[p].pc = "free"
    BY <1>1, ThreadParts DEF ThreadSound, Idle
  <2> QED BY <1>1, <2>1 DEF Carries, Accepting, Running, At, Idle
<1> QED BY <1>1, <1>8, <1>9, <1>10, <1>11, TrackedQuiet

\* Threads that end take with them only what is counted as lost.
LEMMA ThreadEndsTracked ==
  ASSUME ManagerInv, TrackInv, NEW p \in Thread,
         \/ ClientHangsUp(p) \/ AcceptPanics(p) \/ UpdateEnds(p) \/ NoReceiver(p)
  PROVE  TrackInv'
<1>1. /\ Ends(p) /\ UNCHANGED <<tasks, task_queue, popped, recruiter, executing>>
      /\ lost \subseteq lost'
  BY DEF ClientHangsUp, AcceptPanics, UpdateEnds, NoReceiver, historyVars
<1>2. /\ CallKnown(p)' /\ CollectsOwn(p)'
      /\ \A q \in Thread \ {p} : thread'[q] = thread[q] /\ call'[q] = call[q]
  BY <1>1, EndsKnown
<1>3. ASSUME NEW t \in Task \ lost' PROVE ~Carries(p, t)
  <2>1. CASE ClientHangsUp(p)
    <3>1. call[p].pc = "free" /\ Accepting(p) /\ t \notin ToSet(thread[p].accepted)
      BY <1>3, <2>1, ThreadParts DEF ClientHangsUp, ThreadSound
    <3> QED BY <3>1 DEF Carries, Accepting, Running, At
  <2>2. CASE AcceptPanics(p)
    <3>1. call[p].pc = "panicked" /\ t \notin ToSet(thread[p].accepted)
      BY <1>3, <2>2 DEF AcceptPanics, At
    <3>2. ~Running(p, "inputs")
      BY <3>1, ThreadParts DEF ThreadSound, Running
    <3> QED BY <3>1, <3>2 DEF Carries, At
  <2>3. CASE UpdateEnds(p)
    <3>1. thread[p].kind = "update" /\ call[p].pc = "returned"
      BY <2>3 DEF UpdateEnds, At
    <3> QED BY <3>1 DEF Carries, Accepting, Running, At
  <2>4. CASE NoReceiver(p)
    <3>1. thread[p].kind = "run" /\ thread[p].at = "inputs" /\ t # thread[p].task
      BY <1>3, <2>4 DEF NoReceiver, ReadyToSend, Running
    <3>2. call[p].pc = "free"
      BY <3>1, ThreadParts DEF ThreadSound
    <3> QED BY <3>1, <3>2 DEF Carries, Accepting, Running, At
  <2> QED BY <2>1, <2>2, <2>3, <2>4
<1> QED BY <1>1, <1>2, <1>3, ExecutingKnown, TrackedQuiet

\* accept_job collects the ids that validate_task found ready.
LEMMA AcceptNextTracked ==
  ASSUME ManagerInv, TrackInv, NEW p \in Thread, AcceptNext(p)
  PROVE  TrackInv'
<1> DEFINE th == thread[p]
           list == JobTasks[th.job]
           acc == IF call[p].ready THEN Append(th.accepted, list[th.index]) ELSE th.accepted
<1>1. /\ th.kind = "accept" /\ th.at = "calling" /\ call[p].pc = "returned"
      /\ UNCHANGED <<tasks, task_queue, popped, recruiter, executing>> /\ lost' = lost
      /\ thread \in [Thread -> ThreadState] /\ call \in [Thread -> Call]
  BY ThreadParts DEF AcceptNext, Accepting, At, historyVars
<1>2. th \in ThreadState /\ th.job \in Job /\ list \in Seq(Task) /\ th.index \in DOMAIN list
      /\ th.accepted \in Seq(Task)
  <2>1. th.job \in Job /\ th.index \in DOMAIN list
    BY <1>1, ThreadParts DEF ThreadSound
  <2> QED BY <1>1, <2>1, ThreadParts, JobsAssumption
<1>3. list[th.index] \in Task /\ list[th.index] \in ToSet(list)
  BY <1>2, ElementOfSeq DEF ToSet
<1>4. ToSet(th.accepted) \subseteq ToSet(list)
  BY <1>1 DEF TrackInv, CollectsOwn, Accepting
<1>5. /\ ToSet(th.accepted) \subseteq ToSet(acc) /\ ToSet(acc) \subseteq ToSet(list)
      /\ call[p].ready => list[th.index] \in ToSet(acc)
  <2>1. CASE call[p].ready
    <3>1. acc = Append(th.accepted, list[th.index])
      BY <2>1
    <3>2. /\ Len(th.accepted) \in Nat /\ DOMAIN th.accepted = 1 .. Len(th.accepted)
          /\ DOMAIN acc = 1 .. (Len(th.accepted) + 1)
          /\ acc[Len(th.accepted) + 1] = list[th.index]
          /\ \A i \in 1 .. Len(th.accepted) : acc[i] = th.accepted[i]
      BY <1>2, <1>3, <3>1, AppendProperties, LenProperties
    <3> HIDE DEF acc, th, list
    <3>3. Len(th.accepted) + 1 \in DOMAIN acc
      BY <3>2
    <3>4. \A i \in DOMAIN acc : i \in DOMAIN th.accepted \/ i = Len(th.accepted) + 1
      BY <3>2
    <3>5. \A i \in DOMAIN th.accepted : i \in DOMAIN acc /\ acc[i] = th.accepted[i]
      BY <3>2
    <3>6. \A i \in DOMAIN acc : acc[i] \in ToSet(list)
      BY <1>3, <1>4, <3>2, <3>4 DEF ToSet
    <3>7. ToSet(acc) \subseteq ToSet(list)
      BY <3>6 DEF ToSet
    <3>8. ToSet(th.accepted) \subseteq ToSet(acc)
      BY <3>5 DEF ToSet
    <3>9. list[th.index] \in ToSet(acc)
      BY <3>2, <3>3 DEF ToSet
    <3> QED BY <3>7, <3>8, <3>9
  <2>2. CASE ~call[p].ready
    BY <1>4, <2>2
  <2> QED BY <2>1, <2>2
<1> HIDE DEF acc
<1>6. \A q \in Thread \ {p} : thread'[q] = thread[q] /\ call'[q] = call[q]
  BY <1>1 DEF AcceptNext
<1>7. /\ thread'[p].kind = "accept" /\ thread'[p].job = th.job
      /\ thread'[p].accepted = IF call[p].ok THEN acc ELSE th.accepted
      /\ call'[p].after = "returned" /\ call'[p].pc \in {"free", "validate"}
      /\ call'[p].pc = "validate" => thread'[p].at = "calling"
  <2>1. CASE ~call[p].ok
    <3>1. thread' = [thread EXCEPT ![p].at = "reject"] /\ call'[p] = NoCall
      BY <1>1, <2>1 DEF AcceptNext
    <3> QED BY <1>1, <1>2, <2>1, <3>1 DEF NoCall, ThreadState
  <2>2. CASE call[p].ok /\ th.index = Len(list)
    <3>1. /\ thread' = [thread EXCEPT ![p].at = "respond", ![p].accepted = acc]
          /\ call'[p] = NoCall
      BY <1>1, <2>2 DEF AcceptNext, acc
    <3> QED BY <1>1, <1>2, <2>2, <3>1 DEF NoCall, ThreadState
  <2>3. CASE call[p].ok /\ th.index # Len(list)
    <3>1. /\ thread' = [thread EXCEPT ![p].index = @ + 1, ![p].accepted = acc]
          /\ call'[p] = ValidateCall(list[th.index + 1])
      BY <1>1, <2>3 DEF AcceptNext, acc
    <3>2. call'[p].pc = "validate" /\ call'[p].after = "returned"
      BY <3>1 DEF ValidateCall, NoCall
    <3> QED BY <1>1, <1>2, <2>3, <3>1, <3>2 DEF ThreadState
  <2> QED BY <2>1, <2>2, <2>3
<1>8. CallKnown(p)' /\ CollectsOwn(p)'
  BY <1>4, <1>5, <1>7 DEF CallKnown, CollectsOwn, Validating, Accepting
<1>9. ASSUME NEW t \in Task, Carries(p, t) PROVE Carries(p, t)'
  <2>1. \/ t \in ToSet(th.accepted)
        \/ call[p].ok /\ call[p].ready /\ t = list[th.index]
    BY <1>1, <1>9 DEF Carries, Running, At
  <2>2. t \in ToSet(thread'[p].accepted)
    BY <1>5, <1>7, <2>1
  <2> QED BY <1>7, <2>2 DEF Carries, Accepting
<1> QED BY <1>1, <1>6, <1>8, <1>9, ExecutingKnown, TrackedQuiet

LEMMA AcceptJobTracked ==
  ASSUME ManagerInv, TrackInv, NEW p \in Thread, AcceptJob(p)
  PROVE  TrackInv'
<1>1. /\ Accepting(p) /\ thread[p].at = "respond" /\ Ends(p)
      /\ task_queue' = task_queue \o thread[p].accepted /\ lost' = lost
      /\ UNCHANGED <<tasks, popped, recruiter, executing>>
  BY DEF AcceptJob, PushTasks, historyVars
<1>2. /\ thread[p].accepted \in Seq(Task) /\ task_queue \in Seq(Task)
      /\ call[p].pc = "free"
  BY <1>1, ThreadParts, InvParts DEF ThreadSound
<1>3. /\ \A t \in Task : Queued(t) => Queued(t)'
      /\ \A t \in ToSet(thread[p].accepted) : Queued(t)'
  <2>1. PICK s \in Seq(Task) : s = thread[p].accepted
    BY <1>2
  <2>2. task_queue' = task_queue \o s
    BY <1>1, <2>1
  <2>3. /\ \A t \in Task : Queued(t) => Queued(t)'
        /\ \A t \in ToSet(s) : Queued(t)'
    BY <1>1, <1>2, <2>2, WaitersGrow
  <2> QED BY <2>1, <2>3
<1>4. ASSUME NEW t \in Task, Carries(p, t) PROVE OnItsWay(t)'
  <2>1. t \in ToSet(thread[p].accepted)
    BY <1>1, <1>2, <1>4 DEF Carries, Accepting, Running, At
  <2> QED BY <1>3, <2>1 DEF OnItsWay
<1>5. \A r \in Request, t \in Task : Recruits(r, t) => Recruits(r, t)'
  BY <1>1 DEF Recruits
<1>6. \A t \in Task : ReadyWaits(t)' => ReadyWaits(t)
  BY <1>1, ReadyWaitsKept
<1>7. /\ CallKnown(p)' /\ CollectsOwn(p)'
      /\ \A q \in Thread \ {p} : thread'[q] = thread[q] /\ call'[q] = call[q]
  BY <1>1, EndsKnown
<1> QED BY <1>1, <1>3, <1>4, <1>5, <1>6, <1>7, ExecutingKnown, TrackedThread DEF OnItsWay

\* What accept_job collected is gone with the job; recruiters that already
\* push are not aborted.
LEMMA RejectJobTracked ==
  ASSUME ManagerInv, TrackInv, NEW p \in Thread, RejectJob(p)
  PROVE  TrackInv'
<1> DEFINE ids == ToSet(JobTasks[thread[p].job])
<1>1. /\ Accepting(p) /\ thread[p].at = "reject" /\ Ends(p) /\ lost' = lost
      /\ tasks' = [t \in Task |-> IF t \in ids THEN NoTask ELSE tasks[t]]
      /\ UNCHANGED <<task_queue, popped, executing>>
  BY DEF RejectJob, RemoveJob, historyVars
<1>2. call[p].pc = "free"
  BY <1>1, ThreadParts DEF ThreadSound
<1>3. ASSUME NEW r \in Request, NEW t \in Task, Recruits(r, t) PROVE OnItsWay(t)'
  <2>1. recruiter'[r] = recruiter[r]
    BY <1>3 DEF RejectJob, RemoveJob, AbortRecruiters, Recruits
  <2>2. Recruits(r, t)'
    BY <1>3, <2>1 DEF Recruits
  <2> QED BY <2>2 DEF OnItsWay
<1>4. ToSet(thread[p].accepted) \subseteq ids
  BY <1>1 DEF TrackInv, CollectsOwn
<1> HIDE DEF ids
<1>5. ASSUME NEW t \in Task, ReadyWaits(t)' PROVE t \notin ids /\ ReadyWaits(t)
  <2>1. tasks'[t] # NoTask
    BY <1>5 DEF ReadyWaits, Present
  <2>2. t \notin ids /\ tasks'[t] = tasks[t]
    BY <1>1, <2>1
  <2> QED BY <1>5, <2>2 DEF ReadyWaits, Present, Ready
<1>6. ASSUME NEW t \in Task, Carries(p, t) PROVE ~ReadyWaits(t)'
  <2>1. t \in ToSet(thread[p].accepted)
    BY <1>1, <1>2, <1>6 DEF Carries, Accepting, Running, At
  <2> QED BY <1>4, <1>5, <2>1
<1>7. \A t \in Task : Queued(t) => Queued(t)'
  BY <1>1, WaitersKept
<1>8. /\ CallKnown(p)' /\ CollectsOwn(p)'
      /\ \A q \in Thread \ {p} : thread'[q] = thread[q] /\ call'[q] = call[q]
  BY <1>1, EndsKnown
<1> QED
  BY <1>1, <1>3, <1>5, <1>6, <1>7, <1>8, ExecutingKnown, TrackedThread DEF OnItsWay

\* get_next_task hands the id it popped to a new run_task, unless its task is
\* gone.
LEMMA RunNextTaskTracked ==
  ASSUME ManagerInv, TrackInv, NEW p \in Thread, RunNextTask(p)
  PROVE  TrackInv'
<1> DEFINE t == popped
<1>1. /\ popped # NoId /\ popped' = NoId /\ lost' = lost
      /\ UNCHANGED <<tasks, task_queue, recruiter, executing>>
      /\ thread \in [Thread -> ThreadState] /\ call \in [Thread -> Call]
  BY ThreadParts DEF RunNextTask, TakeNextTask, historyVars
<1>2. \A u \in Task : Queued(u) => u = t \/ Queued(u)'
  BY <1>1 DEF Queued, ToSet
<1>3. \A u \in Task : ReadyWaits(u)' => ReadyWaits(u)
  BY <1>1, ReadyWaitsKept
<1>4. \A r \in Request, u \in Task : Recruits(r, u) => Recruits(r, u)'
  BY <1>1 DEF Recruits
<1>5. CASE ~Present(t)
  <2>1. UNCHANGED <<thread, call>>
    BY <1>5 DEF RunNextTask
  <2>2. ~ReadyWaits(t)
    BY <1>5 DEF ReadyWaits
  <2>3. ASSUME NEW u \in Task, Queued(u), ReadyWaits(u)' PROVE OnItsWay(u)'
    <3>1. u # t
      BY <1>3, <2>2, <2>3
    <3> QED BY <1>2, <2>3, <3>1 DEF OnItsWay
  <2> QED BY <1>1, <1>3, <1>4, <2>1, <2>3, TrackedOutside DEF OnItsWay
<1>6. CASE Present(t)
  <2> DEFINE ins == IF t \in NeedsOutputs THEN DOMAIN tasks[t].deps ELSE {}
             s == [Idle EXCEPT !.kind = "run", !.at = "inputs", !.task = t,
                               !.snapshot = tasks[t], !.inputs = ins]
  <2>1. /\ thread[p] = Idle /\ thread' = [thread EXCEPT ![p] = s]
        /\ call' = [call EXCEPT ![p] = NoCall]
    BY <1>6 DEF RunNextTask, Spawn
  <2>2. thread'[p] = s /\ call'[p] = NoCall
    BY <1>1, <2>1
  <2>3. s.kind = "run" /\ s.at = "inputs" /\ s.task = t
    BY DEF Idle
  <2> HIDE DEF s
  <2>4. ASSUME NEW u \in Task, u = t PROVE OnItsWay(u)'
    <3>1. thread'[p].kind = "run" /\ thread'[p].at = "inputs" /\ thread'[p].task = u
      BY <2>2, <2>3, <2>4
    <3>2. Carries(p, u)'
      BY <3>1 DEF Carries, Running
    <3> QED BY <3>2 DEF OnItsWay
  <2>5. \A u \in Task : ~Carries(p, u)
    <3>1. call[p].pc = "free"
      BY <2>1, ThreadParts DEF ThreadSound, Idle
    <3> QED BY <2>1, <3>1 DEF Carries, Accepting, Running, At, Idle
  <2>6. \A u \in Task : Queued(u) => OnItsWay(u)'
    BY <1>2, <2>4 DEF OnItsWay
  <2>7. CallKnown(p)' /\ CollectsOwn(p)'
    <3>1. NoCall.pc = "free" /\ NoCall.after = "returned"
      BY DEF NoCall
    <3> QED BY <2>2, <2>3, <3>1 DEF CallKnown, CollectsOwn, Validating, Accepting
  <2>8. \A q \in Thread \ {p} : thread'[q] = thread[q] /\ call'[q] = call[q]
    BY <1>1, <2>1
  <2> QED
    BY <1>1, <1>3, <1>4, <2>5, <2>6, <2>7, <2>8, ExecutingKnown, TrackedThread
    DEF OnItsWay
<1> QED BY <1>5, <1>6

LEMMA CollectInputTracked ==
  ASSUME ManagerInv, TrackInv, NEW p \in Thread, NEW d \in Task, CollectInput(p, d)
  PROVE  TrackInv'
<1>1. /\ thread[p].kind = "run" /\ thread[p].at = "inputs"
      /\ UNCHANGED <<tasks, task_queue, popped, recruiter, executing>>
      /\ thread \in [Thread -> ThreadState] /\ call \in [Thread -> Call]
      /\ thread[p] \in ThreadState /\ call[p].pc = "free"
      /\ \/ thread' = [thread EXCEPT ![p].inputs = @ \ {d}] /\ UNCHANGED <<call, lost>>
         \/ Ends(p) /\ lost' = lost \cup {thread[p].task}
  BY ThreadParts DEF CollectInput, Running, ThreadSound
<1>2. \A u \in Task : Carries(p, u) => u = thread[p].task
  BY <1>1 DEF Carries, Accepting, Running, At
<1>3. CASE Ends(p) /\ lost' = lost \cup {thread[p].task}
  <2>1. /\ CallKnown(p)' /\ CollectsOwn(p)'
        /\ \A q \in Thread \ {p} : thread'[q] = thread[q] /\ call'[q] = call[q]
    BY <1>3, EndsKnown
  <2> QED BY <1>1, <1>2, <1>3, <2>1, ExecutingKnown, TrackedQuiet
<1>4. CASE thread' = [thread EXCEPT ![p].inputs = @ \ {d}] /\ UNCHANGED <<call, lost>>
  <2>1. /\ thread'[p].kind = "run" /\ thread'[p].at = "inputs"
        /\ thread'[p].task = thread[p].task
        /\ \A q \in Thread \ {p} : thread'[q] = thread[q]
    BY <1>1, <1>4 DEF ThreadState
  <2>2. CallKnown(p)' /\ CollectsOwn(p)'
    BY <1>1, <1>4, <2>1 DEF TrackInv, CallKnown, CollectsOwn, Validating, Accepting
  <2>3. \A u \in Task : Carries(p, u) => Carries(p, u)'
    BY <1>2, <2>1 DEF Carries, Running
  <2> QED BY <1>1, <1>4, <2>1, <2>2, <2>3, ExecutingKnown, TrackedQuiet
<1> QED BY <1>1, <1>3, <1>4

\* run_task wrote or is about to write a status that does not wait.
LEMMA SendsTracked ==
  ASSUME ManagerInv, TrackInv, NEW p \in Thread, Running(p, "inputs"),
         NEW m, m.status # "WAITING_FOR_RESOURCE",
         NEW s, s.kind = "run", thread' = [thread EXCEPT ![p] = s],
         call' = [call EXCEPT ![p] = UpdateCall(thread[p].task, m)],
         UNCHANGED <<tasks, task_queue, popped, recruiter, lost>>,
         \A u \in Task : \A i \in DOMAIN executing'[u] : NeverWaiting(executing'[u][i].left)
  PROVE  TrackInv'
<1>1. /\ thread \in [Thread -> ThreadState] /\ call \in [Thread -> Call]
      /\ call[p].pc = "free"
  BY ThreadParts DEF Running, ThreadSound
<1>2. PICK t : t = thread[p].task
  OBVIOUS
<1>3. /\ thread'[p] = s /\ call'[p] = UpdateCall(t, m)
      /\ \A q \in Thread \ {p} : thread'[q] = thread[q] /\ call'[q] = call[q]
  BY <1>1, <1>2
<1>4. /\ call'[p].pc = "update" /\ call'[p].task = t /\ call'[p].msg = m
      /\ call'[p].after = "returned"
  <2>1. /\ UpdateCall(t, m).pc = "update" /\ UpdateCall(t, m).task = t
        /\ UpdateCall(t, m).msg = m /\ UpdateCall(t, m).after = "returned"
    BY DEF UpdateCall, NoCall
  <2> QED BY <1>3, <2>1
<1>5. CallKnown(p)' /\ CollectsOwn(p)'
  BY <1>3, <1>4 DEF CallKnown, CollectsOwn, Validating, Accepting
<1>6. ASSUME NEW u \in Task, Carries(p, u) PROVE Carries(p, u)'
  <2>1. u = t
    BY <1>1, <1>2, <1>6 DEF Carries, Accepting, Running, At
  <2> QED BY <1>3, <1>4, <2>1 DEF Carries, At
<1> QED BY <1>3, <1>5, <1>6, TrackedQuiet

LEMMA SendTaskTracked ==
  ASSUME ManagerInv, TrackInv, NEW p \in Thread, SendTask(p)
  PROVE  TrackInv'
<1> DEFINE t == thread[p].task
           n == thread[p].snapshot.receiver
           m == [status |-> "PENDING", receiver |-> n, output |-> thread[p].snapshot.output]
           s == [Idle EXCEPT !.kind = "run"]
           E == [node : Node, left : Seq(Status) \ {<<>>}]
<1>1. /\ Running(p, "inputs") /\ n # NoNode
      /\ thread' = [thread EXCEPT ![p] = s]
      /\ call' = [call EXCEPT ![p] = UpdateCall(t, m)]
      /\ UNCHANGED <<tasks, task_queue, popped, recruiter, lost>>
  BY DEF SendTask, ReadyToSend
<1>2. PICK reports \in Executions :
        executing' = [executing EXCEPT ![t] = Append(@, [node |-> n, left |-> reports])]
  BY DEF SendTask
<1>3. /\ t \in Task /\ n \in Node
      /\ executing \in [Task -> Seq(E)] /\ executing[t] \in Seq(E)
  BY <1>1, ThreadParts
  DEF ThreadSound, Running, TaskHandler, ManagerInv, DomainManagerTypeOK
<1> DEFINE e == [node |-> n, left |-> reports]
<1>4. e \in E /\ NeverWaiting(e.left)
  BY <1>3, ExecutionsAssumption, ReportsAssumption DEF NeverWaiting
<1> HIDE DEF E
<1>5. /\ \A u \in Task \ {t} : executing'[u] = executing[u]
      /\ executing'[t] = Append(executing[t], e)
  BY <1>2, <1>3
<1> HIDE DEF e, t
<1>6. ASSUME NEW i \in DOMAIN executing'[t] PROVE NeverWaiting(executing'[t][i].left)
  <2>1. /\ Len(executing[t]) \in Nat /\ DOMAIN executing[t] = 1..Len(executing[t])
        /\ DOMAIN executing'[t] = 1..(Len(executing[t]) + 1)
        /\ \A k \in 1..Len(executing[t]) : executing'[t][k] = executing[t][k]
        /\ executing'[t][Len(executing[t]) + 1] = e
    BY <1>3, <1>4, <1>5, AppendProperties, LenProperties
  <2>2. CASE i = Len(executing[t]) + 1
    BY <1>4, <2>1, <2>2
  <2>3. CASE i # Len(executing[t]) + 1
    <3>1. i \in DOMAIN executing[t] /\ executing'[t][i] = executing[t][i]
      BY <1>6, <2>1, <2>3
    <3> QED BY <1>3, <3>1 DEF TrackInv
  <2> QED BY <2>2, <2>3
<1>7. \A u \in Task : \A i \in DOMAIN executing'[u] : NeverWaiting(executing'[u][i].left)
  BY <1>3, <1>5, <1>6 DEF TrackInv
<1>8. m.status # "WAITING_FOR_RESOURCE"
  OBVIOUS
<1>9. s.kind = "run"
  BY DEF Idle
<1> HIDE DEF m, s
<1> QED BY <1>1, <1>7, <1>8, <1>9, SendsTracked DEF t

LEMMA SendFailsTracked ==
  ASSUME ManagerInv, TrackInv, NEW p \in Thread, SendFails(p)
  PROVE  TrackInv'
<1> DEFINE t == thread[p].task
           m == [status |-> "FAILED", receiver |-> thread[p].snapshot.receiver,
                 output |-> "error"]
           s == [Idle EXCEPT !.kind = "run", !.at = "failing", !.task = t]
<1>1. /\ Running(p, "inputs") /\ thread' = [thread EXCEPT ![p] = s]
      /\ call' = [call EXCEPT ![p] = UpdateCall(t, m)]
      /\ UNCHANGED <<tasks, task_queue, popped, recruiter, lost, executing>>
  BY DEF SendFails, ReadyToSend, historyVars
<1>2. m.status # "WAITING_FOR_RESOURCE"
  OBVIOUS
<1>3. s.kind = "run"
  BY DEF Idle
<1> HIDE DEF m, s
<1> QED BY <1>1, <1>2, <1>3, ExecutingKnown, SendsTracked

LEMMA RunContinuesTracked ==
  ASSUME ManagerInv, TrackInv, NEW p \in Thread, RunContinues(p)
  PROVE  TrackInv'
<1>1. /\ thread[p].kind = "run" /\ call[p].pc = "returned"
      /\ UNCHANGED <<tasks, task_queue, popped, recruiter, executing>> /\ lost' = lost
      /\ thread \in [Thread -> ThreadState] /\ call \in [Thread -> Call]
      /\ thread[p] \in ThreadState
  BY ThreadParts DEF RunContinues, At, historyVars
<1>2. \A u \in Task : ~Carries(p, u)
  <2>1. ~Running(p, "inputs")
    BY <1>1, ThreadParts DEF ThreadSound, Running
  <2> QED BY <1>1, <2>1 DEF Carries, Accepting, At
<1>3. /\ CallKnown(p)' /\ CollectsOwn(p)'
      /\ \A q \in Thread \ {p} : thread'[q] = thread[q] /\ call'[q] = call[q]
  <2>1. CASE thread[p].at # "failing"
    BY <2>1, EndsKnown DEF RunContinues
  <2>2. CASE thread[p].at = "failing"
    <3>1. /\ thread' = [thread EXCEPT ![p].at = "calling"]
          /\ call' = [call EXCEPT ![p] = RetryCall(thread[p].task)]
      BY <2>2 DEF RunContinues
    <3>2. thread'[p].kind = "run" /\ call'[p] = RetryCall(thread[p].task)
      BY <1>1, <3>1 DEF ThreadState
    <3>3. call'[p].pc = "retry" /\ call'[p].after = "returned"
      BY <3>2 DEF RetryCall, NoCall
    <3>4. \A q \in Thread \ {p} : thread'[q] = thread[q] /\ call'[q] = call[q]
      BY <1>1, <3>1
    <3> QED BY <3>2, <3>3, <3>4 DEF CallKnown, CollectsOwn, Validating, Accepting
  <2> QED BY <2>1, <2>2
<1> QED BY <1>1, <1>2, <1>3, ExecutingKnown, TrackedQuiet

LEMMA ThreadStepTracked ==
  ASSUME ManagerInv, TrackInv, NEW p \in Thread,
         ThreadStep(p) \/ SendFails(p) \/ ClientHangsUp(p)
  PROVE  TrackInv'
BY InCallTracked, AcceptNextTracked, AcceptJobTracked, RejectJobTracked, ThreadEndsTracked,
   CollectInputTracked, SendTaskTracked, RunContinuesTracked, SendFailsTracked DEF ThreadStep

LEMMA TrackInit == Init => TrackInv
<1> SUFFICES ASSUME Init PROVE TrackInv
  OBVIOUS
<1>1. /\ \A p \in Thread : thread[p] = Idle /\ call[p] = NoCall
      /\ \A t \in Task : ~Present(t) /\ executing[t] = <<>>
  BY DEF Init, TasksInit, Present
<1>2. \A p \in Thread : CallKnown(p) /\ CollectsOwn(p)
  BY <1>1 DEF CallKnown, CollectsOwn, Validating, Accepting, Idle, NoCall
<1>3. \A t \in Task : \A i \in DOMAIN executing[t] : NeverWaiting(executing[t][i].left)
  BY <1>1
<1> QED BY <1>1, <1>2, <1>3 DEF TrackInv, WaitingOnTheirWay, ReadyWaits

LEMMA TrackStep == ManagerInv /\ TrackInv /\ [Next]_vars => TrackInv'
<1> SUFFICES ASSUME ManagerInv, TrackInv, [Next]_vars PROVE TrackInv'
  OBVIOUS
<1>1. CASE LoopStep
  BY <1>1, LoopTracked, RunNextTaskTracked DEF LoopStep
<1>2. CASE Arrival
  BY <1>2, JobArrivesTracked, LoopTracked DEF Arrival
<1>3. CASE \E p \in Thread : ThreadStep(p) \/ SendFails(p) \/ ClientHangsUp(p)
  BY <1>3, ThreadStepTracked
<1>4. CASE \E p \in Thread, t \in Task : \E i \in DOMAIN executing[t] : ReportArrives(p, t, i)
  BY <1>4, ReportArrivesTracked
<1>5. CASE \E r \in Request : InRecruiter(r)
  BY <1>5, RecruiterTracked
<1>6. CASE (\E g \in Registrar : InRegistration(g)) \/ MonitorJob
  BY <1>6, LoopTracked
<1>7. CASE UNCHANGED vars
  <2>1. /\ UNCHANGED <<thread, call, executing>> /\ lost' = lost
        /\ UNCHANGED <<tasks, task_queue, popped, recruiter>>
    BY <1>7 DEF vars, tasksVars, loopVars, historyVars
  <2>2. \A t \in Task : Queued(t) => Queued(t)'
    BY <2>1, WaitersKept
  <2>3. \A t \in Task : ReadyWaits(t)' => ReadyWaits(t)
    BY <2>1, ReadyWaitsKept
  <2>4. \A r \in Request, t \in Task : Recruits(r, t) => Recruits(r, t)'
    BY <2>1 DEF Recruits
  <2> QED BY <2>1, <2>2, <2>3, <2>4, TrackedOutside DEF OnItsWay
<1> QED BY <1>1, <1>2, <1>3, <1>4, <1>5, <1>6, <1>7 DEF Next

LEMMA TrackInvariant == Spec => []TrackInv
BY TrackInit, TrackStep, ManagerInvariant, PTL DEF Spec

\* A task that is ready and still waits to be run is with validate_task's
\* result, with the Done loop or a recruiter about to push it, in the queue,
\* with get_next_task or with run_task, in every interleaving: the only steps
\* of main.rs that forget one are those `lost' names (select! cancelling
\* get_next_task, run_task giving up, accept_job dying).
THEOREM ReadyTasksAreTracked == Spec => []ReadyTaskTracked
<1>1. TrackInv => ReadyTaskTracked
  <2> SUFFICES ASSUME TrackInv, NEW t \in Task \ lost, ReadyWaits(t)
               PROVE  Accepted(t) \/ BeingPushed(t) \/ Queued(t) \/ BeingRun(t)
    BY DEF ReadyTaskTracked, ReadyWaits
  <2>1. OnItsWay(t)
    BY DEF TrackInv, WaitingOnTheirWay
  <2>2. ASSUME NEW p \in Thread, Carries(p, t)
        PROVE  Accepted(t) \/ BeingPushed(t) \/ BeingRun(t)
    BY <2>2 DEF Carries, Accepted, BeingPushed, BeingRun, Running
  <2>3. ASSUME NEW r \in Request, Recruits(r, t) PROVE BeingPushed(t)
    BY <2>3 DEF Recruits, BeingPushed
  <2> QED BY <2>1, <2>2, <2>3 DEF OnItsWay
<1> QED BY <1>1, TrackInvariant, PTL

-----------------------------------------------------------------------------
(* A job that is rejected leaves nothing behind.                           *)

NoJobIsValid == \A j \in Job : ~(ToSet(JobTasks[j]) \subseteq ValidTimeout)
DistinctNames == \A j \in Job : IsInjective(JobTasks[j])
JobList(p) == JobTasks[thread[p].job]

\* accept_job goes on while the tasks it has looked at are valid.
ValidSoFar(p) == Accepting(p) =>
  /\ thread[p].at # "failing"
  /\ thread[p].at = "calling" =>
       /\ \A k \in DOMAIN JobList(p) : k < thread[p].index => JobList(p)[k] \in ValidTimeout
       /\ call[p].pc # "validate" /\ (call[p].pc = "returned" => call[p].ok)
            => JobList(p)[thread[p].index] \in ValidTimeout
  /\ thread[p].at = "respond" => ToSet(JobList(p)) \subseteq ValidTimeout

\* A thread that has t in its job and gets to remove_job if the job is not
\* valid: it does not find its task gone when it unwraps it.
WillRemove(p, t) ==
  /\ Accepting(p) /\ t \in ToSet(JobList(p))
  /\ thread[p].at # "respond" /\ call[p].pc # "panicked"
  /\ call[p].pc \in {"retryPush", "clone"} => Present(call[p].task)

EveryTaskIsRemoved ==
  NoJobIsValid /\ spent.hangups = 0 =>
    \A t \in Task : Present(t) => \E p \in Thread : WillRemove(p, t)

\* With one submission, of tasks with different names, its thread finds none
\* of them in the table, and nothing else is in the table.
ComesNext(p, k) ==
  thread[p].at = "calling" /\
    (k > thread[p].index \/ (k = thread[p].index /\ call[p].pc # "returned"))

First(p) == Accepting(p) =>
  /\ spent.submits = 1
  /\ \A q \in Thread : Accepting(q) => q = p
  /\ call[p].pc \in {"free", "validate", "deps", "recruit", "insert", "returned"}
  /\ \A k \in DOMAIN JobList(p) : ComesNext(p, k) => ~Present(JobList(p)[k])
  /\ \A t \in Task : Present(t) => t \in ToSet(JobList(p))

\* A handler with dependencies to count down has no recruiter yet.
Unrecruited(th) == th.in_degrees > 0 => th.request = NoRequest

FirstDraft(p) ==
  /\ call[p].pc \in {"deps", "recruit"} => call[p].th.request = NoRequest
  /\ call[p].pc = "insert" => Unrecruited(call[p].th)

FirstHandler(t) == Present(t) => spent.submits = 1 /\ Unrecruited(tasks[t])

\* Who waits for a node is known to the handler that will be removed, or to
\* the one that will be inserted.
Inserts(p, r) ==
  /\ call[p].pc = "insert" /\ call[p].task = recruiter[r].task
  /\ call[p].th.request = r

Kept(r) ==
  /\ recruiter[r].pc \in {"spawned", "waiting"} =>
       \/ Present(recruiter[r].task) /\ tasks[recruiter[r].task].request = r
       \/ \E p \in Thread : Inserts(p, r)
  /\ recruiter[r].pc = "pushing" => Present(recruiter[r].task)

OneJob ==
  /\ \A p \in Thread : First(p) /\ FirstDraft(p)
  /\ \A t \in Task : FirstHandler(t)
  /\ \A r \in Request : Kept(r)

RejectInv ==
  /\ \A p \in Thread : ValidSoFar(p)
  /\ EveryTaskIsRemoved
  /\ DistinctNames /\ spent.submits <= 1 => OneJob

\* What a step inside TasksManagement does to the call of its thread, ...
CallMove(p) ==
  /\ \A q \in Thread \ {p} : call'[q] = call[q]
  /\ call'[p].pc \notin {"free", "validate", "update"}
  /\ call'[p].pc \in WithTask => call'[p].task = call[p].task
  /\ call[p].pc = "validate" /\ (call'[p].pc = "returned" => call'[p].ok)
       => call[p].task \in ValidTimeout
  /\ call'[p].pc = "panicked" => call[p].pc = "clone" /\ ~Present(call[p].task)
  /\ call'[p].pc \in {"retryPush", "clone"} => call[p].pc = "retryPush" \/ Present(call[p].task)
  /\ call[p].pc \in {"validate", "deps", "recruit", "insert"} /\ ~Present(call[p].task)
       => call'[p].pc \in {"deps", "recruit", "insert", "returned"}
  /\ call'[p].pc \in {"deps", "recruit"} =>
       \/ call[p].pc = "clone"
       \/ call[p].pc = "validate" /\ call'[p].th.request = NoRequest
  /\ call'[p].pc = "insert" =>
       \/ call[p].pc \in {"clone", "recruit"}
       \/ call[p].pc = "deps" /\ call'[p].th.request = call[p].th.request
  /\ call'[p].pc = "deps" => Needs[call[p].task] # {}
  /\ call'[p].pc \in {"retry", "retryPush"} => call[p].pc \in {"add", "update", "retry"}
  /\ call'[p].pc = "notifyPush" => call[p].pc = "notify"
  /\ call'[p].pc = "returned" /\ call'[p].ready =>
       call[p].pc = "insert" \/ (call[p].pc = "validate" /\ Present(call[p].task))

\* ... to the keys of the table, ...
KeysMove(p) ==
  \A t \in Task : Present(t)' <=> Present(t) \/ (call[p].pc = "insert" /\ t = call[p].task)

\* ... and to the rest, when it neither inserts nor recruits.
FieldsKept ==
  /\ recruiter' = recruiter
  /\ \A t \in Task : Present(t) => /\ tasks'[t].request = tasks[t].request
                                   /\ tasks'[t].in_degrees = tasks[t].in_degrees

\* The three ways of going on are such moves.
LEMMA ReturnMoves ==
  ASSUME ManagerInv, NEW p \in Thread, NEW ok \in BOOLEAN, NEW ready, Return(p, ok, ready),
         call[p].pc = "validate" /\ ok => call[p].task \in ValidTimeout,
         ready => call[p].pc = "insert" \/ (call[p].pc = "validate" /\ Present(call[p].task))
  PROVE  CallMove(p)
<1>1. /\ call'[p].pc = "returned" /\ call'[p].ok = ok /\ call'[p].ready = ready
      /\ \A q \in Thread \ {p} : call'[q] = call[q]
  BY ThreadParts DEF Return, NoCall
<1> QED BY <1>1 DEF CallMove, WithTask

LEMMA GotoMoves ==
  ASSUME ManagerInv, NEW p \in Thread,
         NEW pc \in {"add", "retry", "retryPush", "clone", "fail", "done", "notify", "stuck",
                     "panicked"},
         Goto(p, pc),
         pc = "panicked" => call[p].pc = "clone" /\ ~Present(call[p].task),
         pc \in {"retryPush", "clone"} => call[p].pc = "retryPush" \/ Present(call[p].task),
         call[p].pc = "validate" => call[p].task \in ValidTimeout,
         call[p].pc \in {"validate", "deps", "recruit", "insert"} => Present(call[p].task),
         pc \in {"retry", "retryPush"} => call[p].pc \in {"update", "retry"}
  PROVE  CallMove(p)
<1>1. /\ call'[p].pc = pc /\ call'[p].task = call[p].task
      /\ \A q \in Thread \ {p} : call'[q] = call[q]
  BY ThreadParts DEF Goto, Call
<1> QED BY <1>1 DEF CallMove

LEMMA BuildMoves ==
  ASSUME ManagerInv, NEW p \in Thread, NEW pc \in {"deps", "recruit", "insert"}, NEW th,
         Build(p, pc, th),
         call[p].pc = "validate" => call[p].task \in ValidTimeout,
         pc \in {"deps", "recruit"} =>
           call[p].pc = "clone" \/ (call[p].pc = "validate" /\ th.request = NoRequest),
         pc = "insert" => \/ call[p].pc \in {"clone", "recruit"}
                          \/ call[p].pc = "deps" /\ th.request = call[p].th.request,
         pc = "deps" => Needs[call[p].task] # {}
  PROVE  CallMove(p)
<1>1. /\ call'[p].pc = pc /\ call'[p].task = call[p].task /\ call'[p].th = th
      /\ \A q \in Thread \ {p} : call'[q] = call[q]
  BY ThreadParts DEF Build, Call
<1> QED BY <1>1 DEF CallMove

LEMMA TableStill ==
  ASSUME UNCHANGED <<tasks, recruiter>>, NEW p, call[p].pc # "insert"
  PROVE  KeysMove(p) /\ FieldsKept
BY DEF KeysMove, FieldsKept, Present

\* A handler of the table is replaced by one with the same recruiter.
LEMMA HandlerReplaced ==
  ASSUME ManagerInv, NEW p, call[p].pc # "insert", NEW t \in Task, Present(t),
         NEW th \in TaskHandler, tasks' = [tasks EXCEPT ![t] = th], recruiter' = recruiter,
         th.request = tasks[t].request, th.in_degrees = tasks[t].in_degrees
  PROVE  KeysMove(p) /\ FieldsKept
<1>1. tasks \in [Task -> TaskHandler \cup {NoTask}]
  BY InvParts
<1>2. \A u \in Task : tasks'[u] = IF u = t THEN th ELSE tasks[u]
  BY <1>1
<1> QED BY <1>2, NoTaskAssumption DEF KeysMove, FieldsKept, Present

LEMMA ValidatingMoves ==
  ASSUME ManagerInv, NEW p \in Thread,
         \/ ValidateTask(p) \/ AddTask(p) \/ CloneHandler(p) \/ ValidateDependencies(p)
  PROVE  CallMove(p)
<1> DEFINE t == call[p].task
<1>1. CASE ValidateTask(p)
  <2>1. call[p].pc = "validate" /\ NewHandler.request = NoRequest
    BY <1>1 DEF ValidateTask, At, NewHandler
  <2>2. CASE t \notin ValidTimeout
    BY <1>1, <2>2, ReturnMoves DEF ValidateTask, TheTask
  <2>3. CASE t \in ValidTimeout /\ ~Present(t)
    <3>1. \E pc \in {"recruit", "deps"} :
            Build(p, pc, NewHandler) /\ (pc = "deps" => Needs[t] # {})
      BY <1>1, <2>3 DEF ValidateTask, TheTask
    <3> QED BY <2>1, <2>3, <3>1, BuildMoves
  <2>4. CASE t \in ValidTimeout /\ Present(t)
    <3>1. Goto(p, "add") \/ \E ready : Return(p, TRUE, ready)
      BY <1>1, <2>4 DEF ValidateTask, TheTask
    <3>2. CASE Goto(p, "add")
      BY <2>1, <2>4, <3>2, GotoMoves
    <3> QED BY <2>1, <2>4, <3>1, <3>2, ReturnMoves
  <2> QED BY <2>2, <2>3, <2>4
<1>2. CASE AddTask(p)
  <2>1. call[p].pc = "add"
    BY <1>2 DEF AddTask, At
  <2>2. CASE Return(p, FALSE, FALSE)
    BY <2>2, ReturnMoves
  <2>3. CASE Present(t) /\ Goto(p, "clone")
    BY <2>1, <2>3, GotoMoves
  <2>4. CASE call' = [call EXCEPT ![p].pc = "retry", ![p].after = "clone"]
    <3>1. /\ call'[p].pc = "retry" /\ call'[p].task = t
          /\ \A q \in Thread \ {p} : call'[q] = call[q]
      BY <2>4, ThreadParts DEF Call
    <3> QED BY <2>1, <3>1 DEF CallMove
  <2> QED BY <1>2, <2>2, <2>3, <2>4 DEF AddTask, TheTask
<1>3. CASE CloneHandler(p)
  <2>1. call[p].pc = "clone"
    BY <1>3 DEF CloneHandler, At
  <2>2. CASE ~Present(t)
    BY <1>3, <2>1, <2>2, GotoMoves DEF CloneHandler, TheTask
  <2>3. CASE Present(t)
    <3>1. \E pc \in {"deps", "recruit", "insert"} :
            (\E th : Build(p, pc, th)) /\ (pc = "deps" => Needs[t] # {})
      BY <1>3, <2>3 DEF CloneHandler, TheTask
    <3> QED BY <2>1, <3>1, BuildMoves
  <2> QED BY <2>2, <2>3
<1>4. CASE ValidateDependencies(p)
  <2> DEFINE th == [call[p].th EXCEPT !.deps = [d \in Needs[t] |-> FALSE],
                                      !.in_degrees = Cardinality(Needs[t])]
  <2>1. call[p].pc = "deps" /\ call[p].th \in TaskHandler
    BY <1>4, ThreadParts DEF ValidateDependencies, At, CallSound, DraftSound
  <2>2. th.request = call[p].th.request
    BY <2>1 DEF TaskHandler
  <2>3. Return(p, FALSE, FALSE) \/ Build(p, "insert", th)
    BY <1>4 DEF ValidateDependencies, TheTask
  <2> HIDE DEF th
  <2>4. CASE Return(p, FALSE, FALSE)
    BY <2>1, <2>4, ReturnMoves
  <2> QED BY <2>1, <2>2, <2>3, <2>4, BuildMoves
<1> QED BY <1>1, <1>2, <1>3, <1>4

LEMMA PlainMoves ==
  ASSUME ManagerInv, NEW p \in Thread,
         \/ UpdateTask(p) \/ RetryTask(p) \/ RetryPush(p) \/ FailTask(p) \/ DoneTask(p)
  PROVE  CallMove(p) /\ KeysMove(p) /\ FieldsKept
<1> DEFINE t == call[p].task
<1>1. /\ call[p].pc \in {"update", "retry", "retryPush", "fail", "done"}
      /\ t \in Task /\ tasks \in [Task -> TaskHandler \cup {NoTask}]
  <2>1. call[p].pc \in {"update", "retry", "retryPush", "fail", "done"}
    BY DEF UpdateTask, RetryTask, RetryPush, FailTask, DoneTask, At
  <2> QED BY <2>1, ThreadParts, InvParts DEF CallSound, WithTask, CallPoint
<1>2. CallMove(p)
  <2>1. \/ Return(p, TRUE, FALSE) \/ Return(p, FALSE, FALSE)
        \/ \E pc \in {"retry", "fail", "done", "stuck", "notify"} :
             Goto(p, pc) /\ (pc = "retry" => call[p].pc = "update")
        \/ \E pc \in {"retryPush", "clone"} :
             /\ Goto(p, pc) /\ (Present(t) \/ call[p].pc = "retryPush")
             /\ pc = "retryPush" => call[p].pc = "retry"
    BY DEF UpdateTask, AfterReport, RetryTask, AfterRetry, RetryPush, FailTask, DoneTask,
       TheTask, At
  <2>2. CASE Return(p, TRUE, FALSE) \/ Return(p, FALSE, FALSE)
    BY <1>1, <2>2, ReturnMoves
  <2>3. CASE \E pc \in {"retry", "fail", "done", "stuck", "notify"} :
               Goto(p, pc) /\ (pc = "retry" => call[p].pc = "update")
    BY <1>1, <2>3, GotoMoves
  <2>4. CASE \E pc \in {"retryPush", "clone"} :
               /\ Goto(p, pc) /\ (Present(t) \/ call[p].pc = "retryPush")
               /\ pc = "retryPush" => call[p].pc = "retry"
    BY <1>1, <2>4, GotoMoves
  <2> QED BY <2>1, <2>2, <2>3, <2>4
<1>3. recruiter' = recruiter
  BY DEF UpdateTask, RetryTask, RetryPush, FailTask, DoneTask
<1>4. CASE tasks' = tasks
  BY <1>1, <1>2, <1>3, <1>4, TableStill
<1>5. ASSUME Present(t), NEW th \in TaskHandler, tasks' = [tasks EXCEPT ![t] = th],
             th.request = tasks[t].request, th.in_degrees = tasks[t].in_degrees
      PROVE  KeysMove(p) /\ FieldsKept
  BY <1>1, <1>3, <1>5, HandlerReplaced
<1>6. CASE tasks' # tasks
  <2>1. Present(t) /\ tasks[t] \in TaskHandler
    BY <1>1, <1>6 DEF UpdateTask, RetryTask, RetryPush, FailTask, DoneTask, TheTask, Present
  <2>2. CASE UpdateTask(p)
    <3> DEFINE th == [tasks[t] EXCEPT !.status = call[p].msg.status,
                        !.receiver = call[p].msg.receiver, !.output = call[p].msg.output]
    <3>1. call[p].msg \in Report
      BY <2>2, ThreadParts DEF UpdateTask, At, CallSound
    <3>2. /\ th \in TaskHandler /\ th.request = tasks[t].request
          /\ th.in_degrees = tasks[t].in_degrees
      BY <2>1, <3>1 DEF Report, TaskHandler
    <3>3. tasks' = [tasks EXCEPT ![t] = th]
      BY <1>1, <2>1, <2>2 DEF UpdateTask, TheTask
    <3> HIDE DEF th
    <3> QED BY <1>2, <1>5, <2>1, <3>2, <3>3
  <2>3. CASE RetryTask(p)
    <3> DEFINE th == Retried(tasks[t])
    <3>1. /\ th \in TaskHandler /\ th.request = tasks[t].request
          /\ th.in_degrees = tasks[t].in_degrees
      BY <2>1 DEF Retried, TaskHandler, Status
    <3>2. tasks' = [tasks EXCEPT ![t] = th]
      BY <1>1, <1>6, <2>3 DEF RetryTask, TheTask
    <3> HIDE DEF th
    <3> QED BY <1>2, <1>5, <2>1, <3>1, <3>2
  <2>4. CASE FailTask(p) \/ DoneTask(p)
    <3>1. PICK s \in {"FAILED", "DONE"} : tasks' = [tasks EXCEPT ![t].status = s]
      BY <1>6, <2>4 DEF FailTask, DoneTask, TheTask
    <3> DEFINE th == [tasks[t] EXCEPT !.status = s]
    <3>2. /\ th \in TaskHandler /\ th.request = tasks[t].request
          /\ th.in_degrees = tasks[t].in_degrees
      BY <2>1 DEF TaskHandler, Status
    <3>3. tasks' = [tasks EXCEPT ![t] = th]
      BY <1>1, <3>1
    <3> HIDE DEF th
    <3> QED BY <1>2, <1>5, <2>1, <3>2, <3>3
  <2> QED BY <1>6, <2>2, <2>3, <2>4 DEF RetryPush
<1> QED BY <1>2, <1>4, <1>6

LEMMA ContinueMoves ==
  ASSUME ManagerInv, NEW p \in Thread, call[p].pc \in {"notify", "notifyPush"}, NEW todo,
         ContinueNotify(p, todo)
  PROVE  CallMove(p)
<1>1. CASE Return(p, TRUE, FALSE)
  BY <1>1, ReturnMoves
<1>2. CASE call' = [call EXCEPT ![p].pc = "notify", ![p].todo = todo, ![p].pushing = NoId]
  <2>1. /\ call'[p].pc = "notify" /\ call'[p].task = call[p].task
        /\ \A q \in Thread \ {p} : call'[q] = call[q]
    BY <1>2, ThreadParts DEF Call
  <2> QED BY <2>1 DEF CallMove
<1> QED BY <1>1, <1>2 DEF ContinueNotify

LEMMA NotifyOthersMoves ==
  ASSUME ManagerInv, NEW p \in Thread, NotifyNobody(p) \/ NotifyPush(p)
  PROVE  CallMove(p) /\ KeysMove(p) /\ FieldsKept
<1>1. call[p].pc \in {"notify", "notifyPush"} /\ UNCHANGED <<tasks, recruiter>>
  BY DEF NotifyNobody, NotifyPush, At
<1>2. CallMove(p)
  BY <1>1, ReturnMoves, ContinueMoves DEF NotifyNobody, NotifyPush
<1> QED BY <1>1, <1>2, TableStill

\* The handler that the Done loop counts down has something to count, and is
\* otherwise as it was.
LEMMA CountsDown ==
  ASSUME ManagerInv, NEW p \in Thread, NEW h \in Task, NotifyDependent(p, h)
  PROVE  LET th == Notified(h, call[p].task) IN
         /\ Present(h) /\ tasks[h] \in TaskHandler /\ tasks[h].in_degrees > 0
         /\ HandlerSound(h, th, completed) /\ th.request = tasks[h].request
<1> DEFINE t == call[p].task
           th == Notified(h, t)
           todo == IF tasksLock = p THEN call[p].todo ELSE ToNotify(t)
<1>1. /\ TableSound /\ CallSound(p) /\ LockSound(p) /\ TasksTypeOK /\ call[p].pc = "notify"
      /\ tasksLock \in {Unlocked, p} /\ h \in todo
  BY ThreadParts, InvParts DEF NotifyDependent, At, TheTask
<1>2. h \in ToNotify(t)
  BY <1>1, NullsAssumption DEF LockSound
<1>3. Present(h) /\ t \in DOMAIN tasks[h].deps /\ ~tasks[h].deps[t]
  BY <1>2 DEF ToNotify, Dependents
<1>4. HandlerSound(h, tasks[h], completed) /\ tasks[h] \in TaskHandler /\ t \in completed
  BY <1>1, <1>3, InTable DEF CallSound
<1>5. th = [tasks[h] EXCEPT !.deps[t] = TRUE, !.in_degrees = @ - 1]
  BY DEF Notified
<1>6. HandlerSound(h, th, completed)
  BY <1>3, <1>4, <1>5, NotifiedSound
<1>7. th.request = tasks[h].request
  BY <1>4, <1>5 DEF TaskHandler
<1>8. tasks[h].in_degrees > 0
  <2>1. t \in Uncounted(tasks[h]) /\ tasks[h].in_degrees \in Nat
    BY <1>3, <1>4 DEF Uncounted, TaskHandler
  <2>2. IsFiniteSet(Uncounted(tasks[h]))
    BY <1>4, CountedDown
  <2>3. tasks[h].in_degrees # 0
    BY <1>4, <2>1, <2>2, FS_EmptySet DEF HandlerSound, DraftSound
  <2> QED BY <2>1, <2>3
<1> QED BY <1>3, <1>4, <1>6, <1>7, <1>8

\* What recruit_node does for a handler without recruiter.
Enlists(r, t, th) ==
  /\ recruiter[r].pc = "unused" /\ th.request = r
  /\ recruiter' = [recruiter EXCEPT ![r] = [pc |-> "spawned", task |-> t]]

LEMMA Recruited ==
  ASSUME ManagerInv, NEW t \in Task, NEW th, HandlerSound(t, th, completed),
         th.request = NoRequest, NEW o \in Recruitments(t, th), RecruitNode(t, o)
  PROVE  /\ o.th \in TaskHandler /\ o.th.in_degrees = th.in_degrees /\ o.ok \in BOOLEAN
         /\ \/ recruiter' = recruiter /\ o.th.request = NoRequest
            \/ o.ok /\ \E r \in Request : Enlists(r, t, o.th)
<1>1. /\ HandlerSound(t, o.th, completed) /\ o.th.in_degrees = th.in_degrees
      /\ o.ok \in BOOLEAN
  BY InvParts, RecruitmentsSound
<1>2. th \in TaskHandler /\ o.th \in TaskHandler
  BY <1>1 DEF HandlerSound, DraftSound
<1>3. RecruitmentForm(t, th, o)
  BY RecruitmentForms
<1>4. ASSUME NEW n,
             o = [th |-> [th EXCEPT !.receiver = n], spawned |-> NoRequest, ok |-> TRUE]
      PROVE  recruiter' = recruiter /\ o.th.request = NoRequest
  BY <1>2, <1>4 DEF TaskHandler, RecruitNode
<1>5. ASSUME o = [th |-> FailedHandler(th), spawned |-> NoRequest, ok |-> FALSE]
      PROVE  recruiter' = recruiter /\ o.th.request = NoRequest
  BY <1>2, <1>5 DEF TaskHandler, RecruitNode, FailedHandler
<1>6. ASSUME NEW r \in Request, recruiter[r].pc = "unused",
             o = [th |-> [th EXCEPT !.receiver = NoNode, !.request = r],
                  spawned |-> r, ok |-> TRUE]
      PROVE  o.ok /\ Enlists(r, t, o.th)
  <2>1. o.spawned = r /\ r # NoRequest /\ o.th.request = r
    BY <1>2, <1>6, NullsAssumption DEF TaskHandler
  <2> QED BY <1>6, <2>1 DEF RecruitNode, Enlists
<1>7. \/ recruiter' = recruiter /\ o.th.request = NoRequest
      \/ o.ok /\ \E r \in Request : Enlists(r, t, o.th)
  BY <1>3, <1>4, <1>5, <1>6, Zenon DEF RecruitmentForm
<1> QED BY <1>1, <1>2, <1>7

LEMMA RecruitMoves ==
  ASSUME ManagerInv, NEW p \in Thread, RecruitForNew(p)
  PROVE  CallMove(p) /\ KeysMove(p)
<1>1. call[p].pc = "recruit" /\ tasks' = tasks
  BY DEF RecruitForNew, At
<1>2. Return(p, FALSE, FALSE) \/ \E th : Build(p, "insert", th)
  BY DEF RecruitForNew
<1>3. CASE Return(p, FALSE, FALSE)
  BY <1>1, <1>3, ReturnMoves DEF KeysMove, Present
<1>4. CASE \E th : Build(p, "insert", th)
  BY <1>1, <1>4, BuildMoves DEF KeysMove, Present
<1> QED BY <1>2, <1>3, <1>4

LEMMA InsertMoves ==
  ASSUME ManagerInv, NEW p \in Thread, InsertTask(p)
  PROVE  CallMove(p) /\ KeysMove(p)
<1>1. /\ call[p].pc = "insert" /\ tasks' = [tasks EXCEPT ![call[p].task] = call[p].th]
      /\ Return(p, TRUE, Ready(call[p].th))
  BY DEF InsertTask, At, TheTask
<1>2. /\ call[p].task \in Task /\ call[p].th \in TaskHandler
      /\ tasks \in [Task -> TaskHandler \cup {NoTask}]
  BY <1>1, ThreadParts, InvParts DEF CallSound, WithTask, CallPoint, HandlerSound, DraftSound
<1>3. KeysMove(p)
  BY <1>1, <1>2, NoTaskAssumption DEF KeysMove, Present
<1> QED BY <1>1, <1>3, ReturnMoves

LEMMA NotifyDependentMoves ==
  ASSUME ManagerInv, NEW p \in Thread, NEW h \in Task, NotifyDependent(p, h)
  PROVE  CallMove(p)
<1>1. call[p].pc = "notify"
  BY DEF NotifyDependent, At
<1>2. \/ \E todo : ContinueNotify(p, todo)
      \/ \E todo : call' = [call EXCEPT ![p].pc = "notifyPush", ![p].todo = todo,
                                        ![p].pushing = h]
  BY DEF NotifyDependent
<1>3. CASE \E todo : ContinueNotify(p, todo)
  BY <1>1, <1>3, ContinueMoves
<1>4. ASSUME NEW todo,
             call' = [call EXCEPT ![p].pc = "notifyPush", ![p].todo = todo, ![p].pushing = h]
      PROVE  CallMove(p)
  <2>1. /\ call'[p].pc = "notifyPush" /\ call'[p].task = call[p].task
        /\ \A q \in Thread \ {p} : call'[q] = call[q]
    BY <1>4, ThreadParts DEF Call
  <2> QED BY <1>1, <2>1 DEF CallMove
<1> QED BY <1>2, <1>3, <1>4

LEMMA InCallPoint ==
  ASSUME NEW p \in Thread, InCall(p)
  PROVE  /\ CallStep(p) /\ call[p].pc \in WithTask
         /\ thread' = thread /\ spent' = spent
<1>1. CallStep(p) /\ thread' = thread /\ spent' = spent
  BY DEF InCall, loopVars
<1>2. call[p].pc \in WithTask
  BY <1>1 DEF CallStep, ValidateTask, AddTask, CloneHandler, ValidateDependencies,
     RecruitForNew, InsertTask, UpdateTask, RetryTask, RetryPush, FailTask, DoneTask,
     NotifyNobody, NotifyDependent, NotifyPush, At, WithTask, CallPoint
<1> QED BY <1>1, <1>2

LEMMA NotifyKeys ==
  ASSUME ManagerInv, NEW p \in Thread, NEW h \in Task, NotifyDependent(p, h)
  PROVE  KeysMove(p)
<1> DEFINE th == Notified(h, call[p].task)
<1>1. /\ Present(h) /\ HandlerSound(h, th, completed) /\ call[p].pc = "notify"
      /\ tasks \in [Task -> TaskHandler \cup {NoTask}]
  BY CountsDown, InvParts DEF NotifyDependent, At
<1>2. th \in TaskHandler
  BY <1>1 DEF HandlerSound, DraftSound
<1>3. \/ tasks' = [tasks EXCEPT ![h] = th]
      \/ \E o \in Recruitments(h, th) : tasks' = [tasks EXCEPT ![h] = o.th]
  BY DEF NotifyDependent, TheTask
<1> HIDE DEF th
<1>4. ASSUME NEW o \in Recruitments(h, th), tasks' = [tasks EXCEPT ![h] = o.th]
      PROVE  o.th \in TaskHandler
  <2>1. HandlerSound(h, o.th, completed)
    BY <1>1, InvParts, RecruitmentsSound
  <2> QED BY <2>1 DEF HandlerSound, DraftSound
<1>5. \E g \in TaskHandler : tasks' = [tasks EXCEPT ![h] = g]
  BY <1>2, <1>3, <1>4
<1> QED BY <1>1, <1>5, NoTaskAssumption DEF KeysMove, Present

\* Every step of CallStep makes these two.
LEMMA InCallMoves ==
  ASSUME ManagerInv, NEW p \in Thread, InCall(p)
  PROVE  CallMove(p) /\ KeysMove(p)
<1>1. CallStep(p)
  BY DEF InCall
<1>2. CASE \/ ValidateTask(p) \/ AddTask(p) \/ CloneHandler(p) \/ ValidateDependencies(p)
  <2>1. UNCHANGED <<tasks, recruiter>> /\ call[p].pc # "insert"
    BY <1>2 DEF ValidateTask, AddTask, CloneHandler, ValidateDependencies, At
  <2>2. KeysMove(p)
    BY <2>1, TableStill
  <2> QED BY <1>2, <2>2, ValidatingMoves
<1>3. CASE \E h \in Task : NotifyDependent(p, h)
  BY <1>3, NotifyKeys, NotifyDependentMoves
<1> QED BY <1>1, <1>2, <1>3, RecruitMoves, InsertMoves, PlainMoves, NotifyOthersMoves DEF CallStep

LEMMA RemovedInCall ==
  ASSUME ManagerInv, TrackInv, RejectInv, NEW p \in Thread, InCall(p)
  PROVE  (\A q \in Thread : ValidSoFar(q)') /\ EveryTaskIsRemoved'
<1>1. /\ CallMove(p) /\ KeysMove(p) /\ call[p].pc \in WithTask
      /\ thread' = thread /\ spent' = spent
  BY InCallMoves, InCallPoint
<1>2. /\ CallSound(p) /\ ThreadSound(p) /\ CallKnown(p) /\ call[p].task \in Task
      /\ \A q \in Thread : Accepting(q)' <=> Accepting(q)
      /\ \A q \in Thread : JobList(q)' = JobList(q)
  BY <1>1, ThreadParts DEF TrackInv, CallSound, Accepting, JobList
<1>3. ASSUME NEW q \in Thread PROVE ValidSoFar(q)'
  <2>1. ValidSoFar(q)
    BY DEF RejectInv
  <2>2. CASE q # p
    BY <1>1, <1>2, <2>1, <2>2 DEF ValidSoFar, CallMove
  <2>3. CASE q = p
    BY <1>1, <1>2, <2>1, <2>3 DEF ValidSoFar, CallMove, ThreadSound, JobList, Accepting, WithTask
  <2> QED BY <2>2, <2>3
<1>4. ASSUME NEW q \in Thread, NEW t \in Task, WillRemove(q, t) PROVE WillRemove(q, t)'
  <2>1. CASE q # p
    BY <1>1, <1>2, <1>4, <2>1, ThreadParts DEF WillRemove, CallMove, KeysMove, CallSound, WithTask, CallPoint
  <2>2. CASE q = p
    <3>1. /\ Accepting(p)' /\ t \in ToSet(JobList(p)') /\ thread'[p].at # "respond"
          /\ call'[p].pc # "panicked"
      BY <1>1, <1>2, <1>4, <2>2 DEF WillRemove, CallMove
    <3>2. call'[p].pc \in {"retryPush", "clone"} =>
            Present(call[p].task)' /\ call'[p].task = call[p].task
      BY <1>1, <1>2, <1>4, <2>2 DEF WillRemove, CallMove, KeysMove, WithTask, CallPoint
    <3> QED BY <2>2, <3>1, <3>2 DEF WillRemove, Present, JobList
  <2> QED BY <2>1, <2>2
<1>5. ASSUME NEW t \in Task, call[p].pc = "insert", t = call[p].task
      PROVE  WillRemove(p, t)'
  <2>1. Accepting(p) /\ thread[p].at = "calling"
    BY <1>2, <1>5 DEF CallKnown, Validating
  <2>2. t = JobList(p)[thread[p].index] /\ thread[p].index \in DOMAIN JobList(p)
    BY <1>2, <1>5, <2>1 DEF ThreadSound, Accepting, JobList, WithTask, CallPoint
  <2>3. t \in ToSet(JobList(p))
    BY <2>2 DEF ToSet
  <2>4. Present(t)'
    BY <1>1, <1>5 DEF KeysMove
  <2>5. /\ call'[p].pc # "panicked"
        /\ call'[p].pc \in {"retryPush", "clone"} => call'[p].task = t
    BY <1>1, <1>5 DEF CallMove, WithTask, CallPoint
  <2>6. /\ thread'[p].at = "calling" /\ Accepting(p)' /\ JobList(p)' = JobList(p)
    BY <1>1, <1>2, <2>1
  <2> QED BY <2>3, <2>4, <2>5, <2>6 DEF WillRemove, Present
<1>6. EveryTaskIsRemoved'
  <2> SUFFICES ASSUME NoJobIsValid, spent'.hangups = 0, NEW t \in Task, Present(t)'
               PROVE  \E q \in Thread : WillRemove(q, t)'
    BY DEF EveryTaskIsRemoved, NoJobIsValid
  <2>1. CASE Present(t)
    BY <1>1, <1>4, <2>1 DEF RejectInv, EveryTaskIsRemoved
  <2>2. CASE ~Present(t)
    <3>1. call[p].pc = "insert" /\ t = call[p].task
      BY <1>1, <2>2 DEF KeysMove
    <3> QED BY <1>5, <3>1
  <2> QED BY <2>1, <2>2
<1> QED BY <1>3, <1>6

\* With one submission, accept_job goes the straight way through validate_task.
LEMMA FirstPoints ==
  ASSUME ManagerInv, TrackInv, OneJob, NEW p \in Thread, Validating(p)
  PROVE  /\ Accepting(p) /\ thread[p].at = "calling" /\ spent.submits = 1
         /\ \A q \in Thread : Accepting(q) => q = p
         /\ call[p].pc \in {"validate", "deps", "recruit", "insert"}
         /\ thread[p].index \in DOMAIN JobList(p) /\ JobList(p) \in Seq(Task)
         /\ call[p].task = JobList(p)[thread[p].index] /\ call[p].task \in Task
         /\ ~Present(call[p].task)
<1>1. Accepting(p) /\ thread[p].at = "calling" /\ First(p) /\ ThreadSound(p) /\ CallSound(p)
  BY ThreadParts DEF TrackInv, CallKnown, OneJob
<1>2. call[p].pc \in {"validate", "deps", "recruit", "insert"}
  BY <1>1 DEF First, Validating
<1>3. /\ thread[p].index \in DOMAIN JobList(p) /\ JobList(p) \in Seq(Task)
      /\ call[p].task = JobList(p)[thread[p].index]
  BY <1>1, <1>2, JobsAssumption DEF ThreadSound, Accepting, JobList, WithTask, CallPoint
<1>4. ComesNext(p, thread[p].index)
  BY <1>1, <1>2 DEF ComesNext
<1> QED BY <1>1, <1>2, <1>3, <1>4 DEF First

LEMMA FirstInCall ==
  ASSUME ManagerInv, TrackInv, OneJob, DistinctNames, NEW p \in Thread, InCall(p),
         call[p].pc = "recruit" /\ call'[p].pc = "insert" => Unrecruited(call'[p].th)
  PROVE  \A q \in Thread : First(q)' /\ FirstDraft(q)'
<1>1. /\ CallMove(p) /\ KeysMove(p) /\ call[p].pc \in WithTask
      /\ thread' = thread /\ spent' = spent
  BY InCallMoves, InCallPoint
<1>2. \A q \in Thread : /\ First(q) /\ FirstDraft(q) /\ JobList(q)' = JobList(q)
                        /\ Accepting(q)' <=> Accepting(q)
  BY <1>1 DEF OneJob, JobList, Accepting
<1>3. call[p].pc = "insert" => Validating(p)
  BY DEF Validating
<1>4. ASSUME NEW q \in Thread, q # p PROVE First(q)' /\ FirstDraft(q)'
  <2>1. FirstDraft(q)'
    BY <1>1, <1>2, <1>4 DEF FirstDraft, CallMove
  <2>2. CASE Accepting(q)
    <3>1. call[p].pc # "insert"
      BY <1>3, <1>4, <2>2, FirstPoints
    <3>2. \A k : ComesNext(q, k)' <=> ComesNext(q, k)
      BY <1>1, <1>4 DEF ComesNext, CallMove
    <3>3. \A k \in DOMAIN JobList(q) : JobList(q)[k] \in Task
      BY <2>2, JobsAssumption, ThreadParts DEF ThreadSound, Accepting, JobList
    <3>4. \A t \in Task : Present(t)' <=> Present(t)
      BY <1>1, <3>1 DEF KeysMove
    <3>5. \A k \in DOMAIN JobList(q) : Present(JobList(q)[k])' <=> Present(JobList(q)[k])
      BY <1>2, <3>3, <3>4 DEF Present
    <3>6. /\ spent'.submits = 1 /\ \A r \in Thread : Accepting(r)' => r = q
          /\ call'[q].pc \in {"free", "validate", "deps", "recruit", "insert", "returned"}
      BY <1>1, <1>2, <1>4, <2>2 DEF First, CallMove
    <3>7. \A k \in DOMAIN JobList(q) : ComesNext(q, k)' => ~Present(JobList(q)[k])'
      BY <1>2, <2>2, <3>2, <3>5 DEF First
    <3>8. \A t \in Task : Present(t)' => t \in ToSet(JobList(q))
      BY <1>2, <2>2, <3>4 DEF First
    <3> QED BY <1>2, <2>1, <3>6, <3>7, <3>8 DEF First
  <2>3. CASE ~Accepting(q)
    <3>1. ~Accepting(q)'
      BY <1>2, <2>3
    <3> QED BY <2>1, <3>1 DEF First
  <2> QED BY <2>1, <2>2, <2>3
<1>5. ASSUME Validating(p)
      PROVE  call'[p].pc \in {"deps", "recruit", "insert", "returned"}
  BY <1>1, <1>5, FirstPoints DEF CallMove
<1>6. First(p)'
  <2>1. CASE Accepting(p)
    <3>1. Validating(p)
      BY <1>1, <1>2, <2>1 DEF First, WithTask, Validating
    <3> DEFINE i == thread[p].index
    <3>2. /\ i \in DOMAIN JobList(p) /\ JobList(p) \in Seq(Task) /\ i \in Nat
          /\ call[p].task = JobList(p)[i] /\ call[p].task \in Task /\ thread[p].at = "calling"
          /\ \A k, l \in DOMAIN JobList(p) : JobList(p)[k] = JobList(p)[l] => k = l
      <4>1. thread[p].job \in Job /\ i \in Nat
        BY <2>1, ThreadParts DEF ThreadSound, Accepting, ThreadState
      <4> QED BY <3>1, <4>1, FirstPoints DEF DistinctNames, IsInjective, JobList
    <3>3. call[p].pc = "insert" => call'[p].pc = "returned"
      BY <1>1, <1>5, <3>1 DEF CallMove
    <3>4. ASSUME NEW k \in DOMAIN JobList(p), ComesNext(p, k)' PROVE ~Present(JobList(p)[k])'
      <4>1. ~Present(JobList(p)[k]) /\ JobList(p)[k] \in Task
        BY <1>1, <1>2, <2>1, <3>1, <3>2, <3>4 DEF First, ComesNext, Validating
      <4>2. ~(call[p].pc = "insert" /\ JobList(p)[k] = call[p].task)
        BY <1>1, <3>2, <3>3, <3>4 DEF ComesNext
      <4>3. \A t \in Task : ~Present(t) /\ t # call[p].task => ~Present(t)'
        BY <1>1 DEF KeysMove
      <4>4. \A t \in Task : ~Present(t) /\ call[p].pc # "insert" => ~Present(t)'
        BY <1>1 DEF KeysMove
      <4> QED BY <1>2, <4>1, <4>2, <4>3, <4>4 DEF Present
    <3>5. \A t \in Task : Present(t)' => t \in ToSet(JobList(p))
      BY <1>1, <1>2, <2>1, <3>2 DEF First, KeysMove, ToSet
    <3> QED BY <1>1, <1>2, <1>5, <2>1, <3>1, <3>4, <3>5 DEF First
  <2> QED BY <1>2, <2>1 DEF First
<1>7. FirstDraft(p)'
  <2>1. ASSUME call'[p].pc \in {"deps", "recruit"} PROVE call'[p].th.request = NoRequest
    <3>1. \/ call[p].pc = "clone"
          \/ call[p].pc = "validate" /\ call'[p].th.request = NoRequest
      BY <1>1, <2>1 DEF CallMove
    <3> QED BY <3>1, FirstPoints DEF Validating
  <2>2. ASSUME call'[p].pc = "insert" PROVE Unrecruited(call'[p].th)
    <3>1. \/ call[p].pc \in {"clone", "recruit"}
          \/ call[p].pc = "deps" /\ call'[p].th.request = call[p].th.request
      BY <1>1, <2>2 DEF CallMove
    <3>2. CASE call[p].pc = "deps" /\ call'[p].th.request = call[p].th.request
      BY <1>2, <3>2 DEF FirstDraft, Unrecruited
    <3> QED BY <2>2, <3>1, <3>2, FirstPoints DEF Validating
  <2> QED BY <2>1, <2>2 DEF FirstDraft, Unrecruited
<1> QED BY <1>4, <1>6, <1>7

\* The handlers and the recruiters.  A step that writes neither keys nor
\* recruiters:
LEMMA PlainKept ==
  ASSUME ManagerInv, OneJob, NEW p \in Thread, InCall(p), FieldsKept, call[p].pc # "insert"
  PROVE  (\A t \in Task : FirstHandler(t)') /\ (\A r \in Request : Kept(r)')
<1>1. /\ recruiter' = recruiter /\ spent' = spent
      /\ \A q \in Thread \ {p} : call'[q] = call[q]
      /\ \A t \in Task : Present(t)' <=> Present(t)
      /\ \A t \in Task : Present(t) => /\ tasks'[t].request = tasks[t].request
                                       /\ tasks'[t].in_degrees = tasks[t].in_degrees
  BY InCallMoves, InCallPoint DEF CallMove, KeysMove, FieldsKept
<1>2. ASSUME NEW t \in Task PROVE FirstHandler(t)'
  <2>1. FirstHandler(t)
    BY DEF OneJob
  <2> QED BY <1>1, <2>1 DEF FirstHandler, Unrecruited
<1>3. ASSUME NEW r \in Request PROVE Kept(r)'
  <2> DEFINE t == recruiter[r].task
  <2>1. Kept(r) /\ (recruiter[r].pc # "unused" => t \in Task)
    BY InvParts DEF OneJob, RecruiterSound
  <2>2. \A q \in Thread : Inserts(q, r) => Inserts(q, r)'
    BY <1>1 DEF Inserts
  <2>3. recruiter'[r] = recruiter[r] /\ (t \in Task => (Present(t)' <=> Present(t)))
    BY <1>1
  <2>4. t \in Task /\ Present(t) => tasks'[t].request = tasks[t].request
    BY <1>1
  <2>5. recruiter'[r].pc = "pushing" => Present(recruiter[r].task)'
    BY <1>1, <2>1, <2>3 DEF Kept, Present
  <2>6. recruiter'[r].pc \in {"spawned", "waiting"} =>
          \/ Present(recruiter[r].task)' /\ tasks'[recruiter'[r].task].request = r
          \/ \E q \in Thread : Inserts(q, r)'
    BY <1>1, <2>1, <2>2, <2>3, <2>4 DEF Kept, Present
  <2> QED BY <2>5, <2>6 DEF Kept, Present
<1> QED BY <1>2, <1>3

\* A handler that has no recruiter is replaced, with or without one:
LEMMA WritingKept ==
  ASSUME ManagerInv, OneJob, NEW p \in Thread, call[p].pc # "insert", spent' = spent,
         \A q \in Thread \ {p} : call'[q] = call[q],
         NEW h \in Task, Present(h), tasks[h].request = NoRequest,
         NEW g \in TaskHandler, Unrecruited(g), tasks' = [tasks EXCEPT ![h] = g],
         \/ recruiter' = recruiter
         \/ \E r \in Request : Enlists(r, h, g)
  PROVE  (\A t \in Task : FirstHandler(t)') /\ (\A r \in Request : Kept(r)')
<1>1. /\ tasks \in [Task -> TaskHandler \cup {NoTask}]
      /\ recruiter \in [Request -> Recruiter] /\ g # NoTask
  BY InvParts, NoTaskAssumption
<1>2. /\ \A t \in Task : tasks'[t] = IF t = h THEN g ELSE tasks[t]
      /\ \A t \in Task : Present(t)' <=> Present(t)
  BY <1>1 DEF Present
<1>3. ASSUME NEW t \in Task PROVE FirstHandler(t)'
  <2>1. FirstHandler(t) /\ FirstHandler(h)
    BY DEF OneJob
  <2> QED BY <1>2, <2>1 DEF FirstHandler, Unrecruited
<1>4. ASSUME NEW r \in Request, recruiter'[r] = recruiter[r] PROVE Kept(r)'
  <2> DEFINE t == recruiter[r].task
  <2>1. /\ Kept(r) /\ (recruiter[r].pc # "unused" => t \in Task)
        /\ tasks[h].request # r
    BY InvParts, NullsAssumption DEF OneJob, RecruiterSound
  <2>2. \A q \in Thread : Inserts(q, r) => Inserts(q, r)'
    BY <1>4 DEF Inserts
  <2>3. recruiter'[r].pc = "pushing" => Present(recruiter[r].task)'
    BY <1>2, <1>4, <2>1 DEF Kept, Present
  <2>4. recruiter'[r].pc \in {"spawned", "waiting"} =>
          \/ Present(recruiter[r].task)' /\ tasks'[recruiter'[r].task].request = r
          \/ \E q \in Thread : Inserts(q, r)'
    BY <1>2, <1>4, <2>1, <2>2 DEF Kept, Present
  <2> QED BY <2>3, <2>4 DEF Kept, Present
<1>5. ASSUME NEW r \in Request, Enlists(r, h, g)
      PROVE  Kept(r)' /\ \A s \in Request \ {r} : recruiter'[s] = recruiter[s]
  <2>1. /\ recruiter'[r].pc = "spawned" /\ recruiter'[r].task = h /\ g.request = r
        /\ \A s \in Request \ {r} : recruiter'[s] = recruiter[s]
    BY <1>1, <1>5 DEF Enlists
  <2> QED BY <1>1, <1>2, <2>1 DEF Kept, Present
<1>6. \A r \in Request : Kept(r)'
  BY <1>4, <1>5
<1> QED BY <1>3, <1>6

LEMMA RecruitKept ==
  ASSUME ManagerInv, TrackInv, OneJob, NEW p \in Thread, InCall(p), RecruitForNew(p)
  PROVE  /\ call'[p].pc = "insert" => Unrecruited(call'[p].th)
         /\ \A t \in Task : FirstHandler(t)'
         /\ \A r \in Request : Kept(r)'
<1> DEFINE u == call[p].task
           th == call[p].th
<1>1. /\ call[p].pc = "recruit" /\ tasks' = tasks /\ spent' = spent
      /\ u \in Task /\ HandlerSound(u, th, completed) /\ Needs[u] = {}
      /\ th.request = NoRequest
  BY InCallPoint, ThreadParts
  DEF RecruitForNew, At, CallSound, WithTask, CallPoint, OneJob, FirstDraft
<1>2. th.in_degrees = 0
  <2>1. Uncounted(th) = {}
    BY <1>1 DEF HandlerSound, Uncounted
  <2> QED BY <1>1, <2>1, FS_EmptySet DEF HandlerSound, DraftSound
<1>3. PICK o \in Recruitments(u, th) :
        /\ RecruitNode(u, o)
        /\ IF o.ok THEN Build(p, "insert", o.th) ELSE Return(p, FALSE, FALSE)
  BY DEF RecruitForNew, TheTask
<1>4. /\ o.th \in TaskHandler /\ o.th.in_degrees = th.in_degrees /\ o.ok \in BOOLEAN
      /\ \/ recruiter' = recruiter /\ o.th.request = NoRequest
         \/ o.ok /\ \E r \in Request : Enlists(r, u, o.th)
  BY <1>1, <1>3, Recruited
<1>5. /\ ~o.ok => call'[p].pc = "returned"
      /\ o.ok => /\ call'[p].pc = "insert" /\ call'[p].th = o.th /\ call'[p].task = u
      /\ \A q \in Thread \ {p} : call'[q] = call[q]
  <2>1. call \in [Thread -> Call]
    BY ThreadParts
  <2>2. ASSUME Build(p, "insert", o.th)
        PROVE  /\ call'[p].pc = "insert" /\ call'[p].th = o.th /\ call'[p].task = u
               /\ \A q \in Thread \ {p} : call'[q] = call[q]
    BY <2>1, <2>2 DEF Build, Call
  <2>3. ASSUME Return(p, FALSE, FALSE)
        PROVE  call'[p].pc = "returned" /\ \A q \in Thread \ {p} : call'[q] = call[q]
    BY <2>1, <2>3 DEF Return, NoCall
  <2> QED BY <1>3, <1>4, <2>2, <2>3
<1>6. call'[p].pc = "insert" => Unrecruited(call'[p].th)
  BY <1>2, <1>4, <1>5 DEF Unrecruited
<1>7. ASSUME NEW t \in Task PROVE FirstHandler(t)'
  <2>1. FirstHandler(t)
    BY DEF OneJob
  <2> QED BY <1>1, <2>1 DEF FirstHandler, Present
<1>8. ASSUME NEW r \in Request, recruiter'[r] = recruiter[r] PROVE Kept(r)'
  <2>1. Kept(r)
    BY DEF OneJob
  <2>2. \A q \in Thread : Inserts(q, r) => Inserts(q, r)'
    BY <1>1, <1>5, <1>8 DEF Inserts
  <2> QED BY <1>1, <1>8, <2>1, <2>2 DEF Kept, Present
<1>9. ASSUME o.ok, NEW r \in Request, Enlists(r, u, o.th)
      PROVE  Kept(r)' /\ \A s \in Request \ {r} : recruiter'[s] = recruiter[s]
  <2>1. /\ recruiter'[r].pc = "spawned" /\ recruiter'[r].task = u /\ o.th.request = r
        /\ \A s \in Request \ {r} : recruiter'[s] = recruiter[s]
    BY <1>9, InvParts DEF Enlists
  <2>2. Inserts(p, r)'
    BY <1>5, <1>9, <2>1 DEF Inserts
  <2> QED BY <2>1, <2>2 DEF Kept
<1>10. \A r \in Request : Kept(r)'
  BY <1>4, <1>8, <1>9
<1> QED BY <1>6, <1>7, <1>10

LEMMA InsertKept ==
  ASSUME ManagerInv, TrackInv, OneJob, NEW p \in Thread, InCall(p), InsertTask(p)
  PROVE  (\A t \in Task : FirstHandler(t)') /\ (\A r \in Request : Kept(r)')
<1> DEFINE u == call[p].task
           th == call[p].th
<1>1. /\ call[p].pc = "insert" /\ tasks' = [tasks EXCEPT ![u] = th]
      /\ recruiter' = recruiter /\ spent' = spent
      /\ \A q \in Thread \ {p} : call'[q] = call[q]
  BY InCallMoves, InCallPoint DEF InsertTask, At, TheTask, CallMove
<1>2. /\ u \in Task /\ ~Present(u) /\ spent.submits = 1 /\ Unrecruited(th)
      /\ th \in TaskHandler
  BY <1>1, FirstPoints, ThreadParts
  DEF Validating, OneJob, FirstDraft, CallSound, HandlerSound, DraftSound
<1>3. \A t \in Task : tasks'[t] = IF t = u THEN th ELSE tasks[t]
  BY <1>1, InvParts
<1>4. ASSUME NEW t \in Task PROVE FirstHandler(t)'
  <2>1. FirstHandler(t)
    BY DEF OneJob
  <2> QED BY <1>1, <1>2, <1>3, <2>1 DEF FirstHandler, Present
<1>5. ASSUME NEW r \in Request PROVE Kept(r)'
  <2> DEFINE t == recruiter[r].task
  <2>1. /\ Kept(r) /\ (recruiter[r].pc # "unused" => t \in Task)
    BY InvParts DEF OneJob, RecruiterSound
  <2>2. \A q \in Thread \ {p} : Inserts(q, r) => Inserts(q, r)'
    BY <1>1 DEF Inserts
  <2>3. Inserts(p, r) => tasks'[t] = th /\ t = u /\ th.request = r
    BY <1>2, <1>3 DEF Inserts
  <2>4. t \in Task /\ Present(t) => tasks'[t] = tasks[t]
    BY <1>2, <1>3
  <2>5. recruiter'[r].pc = "pushing" => tasks'[t] # NoTask
    BY <1>1, <2>1, <2>4 DEF Kept, Present
  <2>6. recruiter'[r].pc \in {"spawned", "waiting"} =>
          \/ tasks'[t] # NoTask /\ tasks'[t].request = r
          \/ \E q \in Thread : Inserts(q, r)'
    BY <1>1, <1>2, <2>1, <2>2, <2>3, <2>4, NoTaskAssumption DEF Kept, Present
  <2> QED BY <1>1, <2>5, <2>6 DEF Kept, Present
<1> QED BY <1>4, <1>5

LEMMA NotifyKept ==
  ASSUME ManagerInv, OneJob, NEW p \in Thread, InCall(p), NEW h \in Task, NotifyDependent(p, h)
  PROVE  (\A t \in Task : FirstHandler(t)') /\ (\A r \in Request : Kept(r)')
<1> DEFINE th == Notified(h, call[p].task)
<1>1. /\ Present(h) /\ HandlerSound(h, th, completed) /\ th.request = tasks[h].request
      /\ tasks[h].request = NoRequest
  BY CountsDown DEF OneJob, FirstHandler, Unrecruited
<1>2. /\ call[p].pc # "insert" /\ spent' = spent
      /\ \A q \in Thread \ {p} : call'[q] = call[q]
  BY InCallMoves, InCallPoint DEF NotifyDependent, At, CallMove
<1>3. th \in TaskHandler
  BY <1>1 DEF HandlerSound, DraftSound
<1>4. \/ tasks' = [tasks EXCEPT ![h] = th] /\ recruiter' = recruiter
      \/ /\ th.in_degrees = 0
         /\ \E o \in Recruitments(h, th) : RecruitNode(h, o) /\ tasks' = [tasks EXCEPT ![h] = o.th]
  BY DEF NotifyDependent, TheTask
<1> HIDE DEF th
<1>5. CASE tasks' = [tasks EXCEPT ![h] = th] /\ recruiter' = recruiter
  BY <1>1, <1>2, <1>3, <1>5, WritingKept DEF Unrecruited
<1>6. ASSUME th.in_degrees = 0, NEW o \in Recruitments(h, th), RecruitNode(h, o),
             tasks' = [tasks EXCEPT ![h] = o.th]
      PROVE  (\A t \in Task : FirstHandler(t)') /\ (\A r \in Request : Kept(r)')
  <2>1. /\ o.th \in TaskHandler /\ o.th.in_degrees = th.in_degrees
        /\ \/ recruiter' = recruiter
           \/ \E r \in Request : Enlists(r, h, o.th)
    BY <1>1, <1>6, Recruited
  <2>2. Unrecruited(o.th)
    BY <1>6, <2>1 DEF Unrecruited
  <2> QED BY <1>1, <1>2, <1>6, <2>1, <2>2, WritingKept
<1> QED BY <1>4, <1>5, <1>6

LEMMA RejectInCall ==
  ASSUME ManagerInv, TrackInv, RejectInv, NEW p \in Thread, InCall(p)
  PROVE  RejectInv'
<1>1. CallStep(p) /\ spent' = spent
  BY InCallPoint
<1>2. (\A q \in Thread : ValidSoFar(q)') /\ EveryTaskIsRemoved'
  BY RemovedInCall
<1>3. ASSUME DistinctNames, OneJob PROVE OneJob'
  <2>1. /\ call[p].pc = "recruit" /\ call'[p].pc = "insert" => Unrecruited(call'[p].th)
        /\ \A t \in Task : FirstHandler(t)'
        /\ \A r \in Request : Kept(r)'
    <3>1. CASE \/ ValidateTask(p) \/ AddTask(p) \/ CloneHandler(p) \/ ValidateDependencies(p)
      <4>1. UNCHANGED <<tasks, recruiter>> /\ call[p].pc \notin {"recruit", "insert"}
        BY <3>1 DEF ValidateTask, AddTask, CloneHandler, ValidateDependencies, At
      <4>2. FieldsKept
        BY <4>1, TableStill
      <4> QED BY <1>3, <4>1, <4>2, PlainKept
    <3>2. CASE \/ UpdateTask(p) \/ RetryTask(p) \/ RetryPush(p) \/ FailTask(p) \/ DoneTask(p)
               \/ NotifyNobody(p) \/ NotifyPush(p)
      <4>1. call[p].pc \notin {"recruit", "insert"}
        BY <3>2 DEF UpdateTask, RetryTask, RetryPush, FailTask, DoneTask, NotifyNobody, NotifyPush, At
      <4>2. FieldsKept
        BY <3>2, PlainMoves, NotifyOthersMoves
      <4> QED BY <1>3, <4>1, <4>2, PlainKept
    <3>3. CASE RecruitForNew(p)
      BY <1>3, <3>3, RecruitKept
    <3>4. CASE InsertTask(p)
      BY <1>3, <3>4, InsertKept DEF InsertTask, At
    <3>5. CASE \E h \in Task : NotifyDependent(p, h)
      BY <1>3, <3>5, NotifyKept DEF NotifyDependent, At
    <3> QED BY <1>1, <3>1, <3>2, <3>3, <3>4, <3>5 DEF CallStep
  <2>2. \A q \in Thread : First(q)' /\ FirstDraft(q)'
    BY <1>3, <2>1, FirstInCall
  <2> QED BY <2>1, <2>2 DEF OneJob
<1> QED BY <1>1, <1>2, <1>3 DEF RejectInv, DistinctNames

-----------------------------------------------------------------------------
\* The other steps.  Nothing appears in the table or leaves it, and no thread
\* moves:
LEMMA RemovedStill ==
  ASSUME ManagerInv, RejectInv, UNCHANGED <<thread, call>>,
         spent'.submits = spent.submits, spent'.hangups = spent.hangups,
         \A t \in Task : Present(t)' <=> Present(t)
  PROVE  /\ \A q \in Thread : ValidSoFar(q)'
         /\ EveryTaskIsRemoved'
         /\ OneJob => \A q \in Thread : First(q)' /\ FirstDraft(q)'
<1>1. \A q \in Thread : Accepting(q)' = Accepting(q) /\ JobList(q)' = JobList(q)
  BY DEF Accepting, JobList
<1>2. \A q \in Thread : ValidSoFar(q)'
  BY <1>1 DEF RejectInv, ValidSoFar
<1>3. ASSUME NEW q \in Thread, NEW t \in Task, WillRemove(q, t) PROVE WillRemove(q, t)'
  <2>1. call[q].pc \in {"retryPush", "clone"} => call[q].task \in Task
    BY ThreadParts DEF CallSound, WithTask, CallPoint
  <2> QED BY <1>1, <1>3, <2>1 DEF WillRemove, Present
<1>4. EveryTaskIsRemoved'
  BY <1>3 DEF RejectInv, EveryTaskIsRemoved, NoJobIsValid
<1>5. ASSUME OneJob, NEW q \in Thread PROVE First(q)' /\ FirstDraft(q)'
  <2>1. First(q) /\ FirstDraft(q)
    BY <1>5 DEF OneJob
  <2>2. FirstDraft(q)'
    BY <2>1 DEF FirstDraft
  <2>3. CASE Accepting(q)
    <3>1. \A k \in DOMAIN JobList(q) : JobList(q)[k] \in Task
      BY <2>3, JobsAssumption, ThreadParts DEF ThreadSound, Accepting, JobList
    <3>2. \A k : ComesNext(q, k)' <=> ComesNext(q, k)
      BY DEF ComesNext
    <3>3. \A k \in DOMAIN JobList(q) : Present(JobList(q)[k])' <=> Present(JobList(q)[k])
      BY <1>1, <3>1 DEF Present
    <3>4. \A k \in DOMAIN JobList(q) : ComesNext(q, k)' => ~Present(JobList(q)[k])'
      BY <2>1, <2>3, <3>2, <3>3 DEF First
    <3>5. \A t \in Task : Present(t)' => t \in ToSet(JobList(q))
      BY <2>1, <2>3 DEF First
    <3> QED BY <1>1, <2>1, <2>2, <2>3, <3>4, <3>5 DEF First
  <2>4. CASE ~Accepting(q)
    <3>1. ~Accepting(q)'
      BY <1>1, <2>4
    <3> QED BY <2>2, <3>1 DEF First
  <2> QED BY <2>3, <2>4
<1> QED BY <1>2, <1>4, <1>5

LEMMA RejectOutside ==
  ASSUME ManagerInv, RejectInv, UNCHANGED <<thread, call, tasks, recruiter>>,
         spent'.submits = spent.submits, spent'.hangups = spent.hangups
  PROVE  RejectInv'
<1>1. \A t \in Task : Present(t)' <=> Present(t)
  BY DEF Present
<1>2. ASSUME OneJob PROVE (\A t \in Task : FirstHandler(t)') /\ (\A r \in Request : Kept(r)')
  <2>1. \A t \in Task : FirstHandler(t)'
    BY <1>2 DEF OneJob, FirstHandler, Present
  <2>2. ASSUME NEW r \in Request PROVE Kept(r)'
    <3>1. Kept(r) /\ \A q \in Thread : Inserts(q, r) => Inserts(q, r)'
      BY <1>2 DEF OneJob, Inserts
    <3> QED BY <3>1 DEF Kept, Present
  <2> QED BY <2>1, <2>2
<1> QED BY <1>1, <1>2, RemovedStill DEF RejectInv, OneJob, DistinctNames

\* Only thread p moves:
LEMMA RejectThread ==
  ASSUME ManagerInv, RejectInv, NEW p \in Thread, UNCHANGED <<tasks, recruiter>>,
         \A q \in Thread \ {p} : thread'[q] = thread[q] /\ call'[q] = call[q],
         spent'.submits = spent.submits, spent'.hangups = 0 => spent.hangups = 0,
         ValidSoFar(p)', Accepting(p)' => Accepting(p), OneJob => First(p)',
         \A t \in Task : NoJobIsValid /\ spent'.hangups = 0 /\ WillRemove(p, t)
                           => WillRemove(p, t)',
         call[p].pc # "insert", call'[p].pc \notin {"deps", "recruit", "insert"}
  PROVE  RejectInv'
<1>1. ASSUME NEW q \in Thread \ {p} PROVE Accepting(q)' = Accepting(q) /\ JobList(q)' = JobList(q)
  BY <1>1 DEF Accepting, JobList
<1>2. ASSUME NEW q \in Thread PROVE ValidSoFar(q)'
  <2>1. CASE q # p
    BY <1>1, <2>1 DEF RejectInv, ValidSoFar
  <2> QED BY <2>1
<1>3. ASSUME NEW q \in Thread \ {p}, NEW t \in Task, WillRemove(q, t) PROVE WillRemove(q, t)'
  BY <1>1, <1>3 DEF WillRemove, Present
<1>4. EveryTaskIsRemoved'
  BY <1>3 DEF RejectInv, EveryTaskIsRemoved, NoJobIsValid, Present
<1>5. ASSUME OneJob PROVE OneJob'
  <2>1. \A t \in Task : FirstHandler(t)'
    BY <1>5 DEF OneJob, FirstHandler, Present
  <2>2. ASSUME NEW r \in Request PROVE Kept(r)'
    <3>1. Kept(r) /\ \A q \in Thread : Inserts(q, r) => Inserts(q, r)'
      BY <1>5 DEF OneJob, Inserts
    <3> QED BY <3>1 DEF Kept, Present
  <2>3. \A q \in Thread : FirstDraft(q)'
    BY <1>5 DEF OneJob, FirstDraft
  <2>4. ASSUME NEW q \in Thread \ {p} PROVE First(q)'
    <3>1. First(q)
      BY <1>5 DEF OneJob
    <3>2. CASE Accepting(q)
      <4>1. spent'.submits = 1 /\ \A s \in Thread : Accepting(s)' => s = q
        BY <1>1, <3>1, <3>2 DEF First
      <4>2. \A k : ComesNext(q, k)' <=> ComesNext(q, k)
        BY DEF ComesNext
      <4>3. \A k \in DOMAIN JobList(q) : ComesNext(q, k)' => ~Present(JobList(q)[k])'
        BY <1>1, <3>1, <3>2, <4>2 DEF First, Present
      <4>4. \A t \in Task : Present(t)' => t \in ToSet(JobList(q))
        BY <3>1, <3>2 DEF First, Present
      <4>5. call'[q].pc \in {"free", "validate", "deps", "recruit", "insert", "returned"}
        BY <3>1, <3>2 DEF First
      <4> QED BY <1>1, <4>1, <4>3, <4>4, <4>5 DEF First
    <3>3. CASE ~Accepting(q)
      <4>1. ~Accepting(q)'
        BY <1>1, <3>3
      <4> QED BY <4>1 DEF First
    <3> QED BY <3>2, <3>3
  <2> QED BY <1>5, <2>1, <2>2, <2>3, <2>4 DEF OneJob
<1> QED BY <1>2, <1>4, <1>5 DEF RejectInv, DistinctNames

\* Thread p is not, or no longer, one of accept_job:
LEMMA RejectQuiet ==
  ASSUME ManagerInv, TrackInv', RejectInv, NEW p \in Thread, UNCHANGED <<tasks, recruiter>>,
         \A q \in Thread \ {p} : thread'[q] = thread[q] /\ call'[q] = call[q],
         spent'.submits = spent.submits, spent'.hangups = 0 => spent.hangups = 0,
         thread'[p].kind # "accept", call[p].pc # "insert",
         \A t \in Task : spent'.hangups = 0 => ~WillRemove(p, t)
  PROVE  RejectInv'
<1>1. ~Accepting(p)'
  BY DEF Accepting
<1>2. ValidSoFar(p)' /\ First(p)'
  BY <1>1 DEF ValidSoFar, First
<1>3. call'[p].pc \notin {"deps", "recruit", "insert"}
  BY <1>1 DEF TrackInv, CallKnown, Validating
<1> QED BY <1>1, <1>2, <1>3, RejectThread

LEMMA RejectEnds ==
  ASSUME ManagerInv, TrackInv', RejectInv, NEW p \in Thread,
         AcceptJob(p) \/ AcceptPanics(p) \/ ClientHangsUp(p)
  PROVE  RejectInv'
<1>1. /\ Ends(p) /\ UNCHANGED <<tasks, recruiter>>
      /\ thread \in [Thread -> ThreadState] /\ call \in [Thread -> Call]
  BY ThreadParts DEF AcceptJob, PushTasks, AcceptPanics, ClientHangsUp
<1>2. /\ \A q \in Thread \ {p} : thread'[q] = thread[q] /\ call'[q] = call[q]
      /\ thread'[p].kind # "accept"
  BY <1>1 DEF Ends, Idle
<1>3. call[p].pc # "insert"
  BY ThreadParts DEF AcceptJob, AcceptPanics, ClientHangsUp, ThreadSound, At
<1>4. /\ spent'.submits = spent.submits
      /\ \/ spent' = spent /\ (thread[p].at = "respond" \/ call[p].pc = "panicked")
         \/ spent'.hangups = spent.hangups + 1
  BY InvParts DEF AcceptJob, AcceptPanics, ClientHangsUp, At
<1>5. spent.hangups \in Nat
  BY InvParts
<1> QED BY <1>1, <1>2, <1>3, <1>4, <1>5, RejectQuiet DEF WillRemove

LEMMA RejectRuns ==
  ASSUME ManagerInv, TrackInv, TrackInv', RejectInv, NEW p \in Thread,
         \/ UpdateEnds(p) \/ NoReceiver(p) \/ SendTask(p) \/ SendFails(p) \/ RunContinues(p)
         \/ RunNextTask(p)
         \/ \E d \in Task : CollectInput(p, d)
         \/ \E t \in Task : \E i \in DOMAIN executing[t] : ReportArrives(p, t, i)
  PROVE  RejectInv'
<1>1. /\ thread \in [Thread -> ThreadState] /\ call \in [Thread -> Call]
      /\ thread[p] \in ThreadState /\ Idle.kind = "idle"
      /\ spent \in [{"submits", "announces", "errors", "hangups"} -> Nat]
  BY ThreadParts, InvParts DEF Idle
<1>2. UNCHANGED <<tasks, recruiter>>
  BY DEF UpdateEnds, NoReceiver, SendTask, SendFails, RunContinues, RunNextTask, TakeNextTask,
     CollectInput, ReportArrives
<1>3. spent'.submits = spent.submits /\ spent'.hangups = spent.hangups
  BY <1>1 DEF UpdateEnds, NoReceiver, SendTask, SendFails, RunContinues, RunNextTask,
     CollectInput, ReportArrives
<1>4. CASE UNCHANGED <<thread, call>>
  BY <1>2, <1>3, <1>4, RejectOutside
<1>5. ASSUME thread[p].kind # "accept", NEW s, NEW c, s.kind # "accept",
             thread' = [thread EXCEPT ![p] = s],
             call' = [call EXCEPT ![p] = c]
      PROVE  RejectInv'
  <2>1. ~Accepting(p) /\ thread'[p].kind # "accept"
    BY <1>1, <1>5 DEF Accepting
  <2>2. call[p].pc # "insert"
    BY <2>1 DEF TrackInv, CallKnown, Validating
  <2>3. \A q \in Thread \ {p} : thread'[q] = thread[q] /\ call'[q] = call[q]
    BY <1>1, <1>5
  <2> QED BY <1>2, <1>3, <2>1, <2>2, <2>3, RejectQuiet DEF WillRemove
<1>6. CASE Ends(p) /\ thread[p].kind # "accept"
  BY <1>1, <1>5, <1>6 DEF Ends
<1>7. CASE RunNextTask(p)
  <2>1. CASE Present(popped)
    <3> DEFINE s == [Idle EXCEPT !.kind = "run", !.at = "inputs", !.task = popped,
                             !.snapshot = tasks[popped],
                             !.inputs = IF popped \in NeedsOutputs THEN DOMAIN tasks[popped].deps
                                        ELSE {}]
    <3>1. Spawn(p, s, NoCall) /\ s.kind = "run"
      BY <1>7, <2>1 DEF RunNextTask, Idle
    <3> HIDE DEF s
    <3> QED BY <1>1, <1>5, <3>1 DEF Spawn
  <2>2. CASE ~Present(popped)
    BY <1>4, <1>7, <2>2 DEF RunNextTask
  <2> QED BY <2>1, <2>2
<1>8. CASE \E t \in Task : \E i \in DOMAIN executing[t] : ReportArrives(p, t, i)
  <2>1. \E c : Spawn(p, [Idle EXCEPT !.kind = "update"], c)
    BY <1>8 DEF ReportArrives
  <2>2. [Idle EXCEPT !.kind = "update"].kind = "update"
    BY DEF Idle
  <2> QED BY <1>1, <1>5, <2>1, <2>2 DEF Spawn
<1>9. CASE \E d \in Task : CollectInput(p, d)
  <2>1. PICK d \in Task : CollectInput(p, d)
    BY <1>9
  <2>2. CASE Ends(p)
    BY <1>6, <2>1, <2>2 DEF CollectInput, Running
  <2>3. CASE ~Ends(p)
    <3>1. /\ thread[p].kind = "run" /\ thread' = [thread EXCEPT ![p].inputs = @ \ {d}]
          /\ call' = call
      BY <2>1, <2>3 DEF CollectInput, Running
    <3>2. /\ thread' = [thread EXCEPT ![p] = [thread[p] EXCEPT !.inputs = @ \ {d}]]
          /\ [thread[p] EXCEPT !.inputs = @ \ {d}].kind = "run"
          /\ call' = [call EXCEPT ![p] = call[p]]
      BY <1>1, <3>1 DEF ThreadState
    <3> QED BY <1>5, <3>1, <3>2
  <2> QED BY <2>2, <2>3
<1>10. CASE SendTask(p) \/ SendFails(p)
  <2>1. /\ thread[p].kind = "run"
        /\ \E s \in {[Idle EXCEPT !.kind = "run"],
                     [Idle EXCEPT !.kind = "run", !.at = "failing", !.task = thread[p].task]} :
             thread' = [thread EXCEPT ![p] = s]
        /\ \E c : call' = [call EXCEPT ![p] = c]
    BY <1>10 DEF SendTask, SendFails, ReadyToSend, Running
  <2>2. \A s \in {[Idle EXCEPT !.kind = "run"],
                  [Idle EXCEPT !.kind = "run", !.at = "failing", !.task = thread[p].task]} :
          s.kind = "run"
    BY DEF Idle
  <2> QED BY <1>5, <2>1, <2>2
<1>11. CASE RunContinues(p)
  <2>1. CASE thread[p].at # "failing"
    BY <1>6, <1>11, <2>1 DEF RunContinues
  <2>2. CASE thread[p].at = "failing"
    <3>1. /\ thread[p].kind = "run" /\ thread' = [thread EXCEPT ![p].at = "calling"]
          /\ call' = [call EXCEPT ![p] = RetryCall(thread[p].task)]
      BY <1>11, <2>2 DEF RunContinues
    <3>2. /\ thread' = [thread EXCEPT ![p] = [thread[p] EXCEPT !.at = "calling"]]
          /\ [thread[p] EXCEPT !.at = "calling"].kind = "run"
      BY <1>1, <3>1 DEF ThreadState
    <3> QED BY <1>5, <3>1, <3>2
  <2> QED BY <2>1, <2>2
<1>12. CASE UpdateEnds(p) \/ NoReceiver(p)
  BY <1>6, <1>12 DEF UpdateEnds, NoReceiver, ReadyToSend, Running
<1> QED BY <1>7, <1>8, <1>9, <1>10, <1>11, <1>12

\* accept_job goes to the next task of its job.
LEMMA RejectNext ==
  ASSUME ManagerInv, RejectInv, NEW p \in Thread, AcceptNext(p)
  PROVE  RejectInv'
<1> DEFINE th == thread[p]
           list == JobTasks[th.job]
<1>1. /\ th.kind = "accept" /\ th.at = "calling" /\ call[p].pc = "returned"
      /\ UNCHANGED <<tasks, recruiter, spent>>
      /\ thread \in [Thread -> ThreadState] /\ call \in [Thread -> Call]
      /\ th \in ThreadState
  BY ThreadParts DEF AcceptNext, Accepting, At
<1>2. /\ th.job \in Job /\ list \in Seq(Task) /\ th.index \in DOMAIN list /\ th.index \in Nat
      /\ DOMAIN list = 1..Len(list)
  <2>1. th.job \in Job /\ th.index \in DOMAIN list
    BY <1>1, ThreadParts DEF ThreadSound
  <2> QED BY <1>1, <2>1, JobsAssumption, LenProperties DEF ThreadState
<1>3. /\ \A k \in DOMAIN list : k < th.index => list[k] \in ValidTimeout
      /\ call[p].ok => list[th.index] \in ValidTimeout
  BY <1>1 DEF RejectInv, ValidSoFar, Accepting, JobList
<1>4. \A q \in Thread \ {p} : thread'[q] = thread[q] /\ call'[q] = call[q]
  BY <1>1 DEF AcceptNext
<1>5. \/ /\ thread'[p].at = "reject" /\ call'[p].pc = "free"
         /\ thread'[p].kind = "accept" /\ thread'[p].job = th.job
      \/ /\ thread'[p].at = "respond" /\ call'[p].pc = "free" /\ call[p].ok
         /\ th.index = Len(list)
         /\ thread'[p].kind = "accept" /\ thread'[p].job = th.job
      \/ /\ thread'[p].at = "calling" /\ call'[p].pc = "validate" /\ call[p].ok
         /\ thread'[p].index = th.index + 1
         /\ thread'[p].kind = "accept" /\ thread'[p].job = th.job
  <2> DEFINE acc == IF call[p].ready THEN Append(th.accepted, list[th.index]) ELSE th.accepted
  <2>1. CASE ~call[p].ok
    <3>1. thread' = [thread EXCEPT ![p].at = "reject"] /\ call'[p] = NoCall
      BY <1>1, <2>1 DEF AcceptNext
    <3> QED BY <1>1, <3>1 DEF NoCall, ThreadState
  <2>2. CASE call[p].ok /\ th.index = Len(list)
    <3>1. /\ thread' = [thread EXCEPT ![p].at = "respond", ![p].accepted = acc]
          /\ call'[p] = NoCall
      BY <1>1, <2>2 DEF AcceptNext
    <3> HIDE DEF acc
    <3> QED BY <1>1, <2>2, <3>1 DEF NoCall, ThreadState
  <2>3. CASE call[p].ok /\ th.index # Len(list)
    <3>1. /\ thread' = [thread EXCEPT ![p].index = @ + 1, ![p].accepted = acc]
          /\ call'[p] = ValidateCall(list[th.index + 1])
      BY <1>1, <2>3 DEF AcceptNext
    <3>2. call'[p].pc = "validate"
      BY <3>1 DEF ValidateCall, NoCall
    <3> HIDE DEF acc
    <3> QED BY <1>1, <2>3, <3>1, <3>2 DEF ThreadState
  <2> QED BY <2>1, <2>2, <2>3
<1>6. Accepting(p) /\ Accepting(p)' /\ JobList(p)' = JobList(p) /\ JobList(p) = list
  BY <1>1, <1>5 DEF Accepting, JobList
<1> HIDE DEF list, th
<1>7. th.index = Len(list) /\ call[p].ok => ToSet(list) \subseteq ValidTimeout
  BY <1>2, <1>3 DEF ToSet
<1>8. ValidSoFar(p)'
  <2>1. ASSUME call[p].ok, NEW k \in DOMAIN list, k < th.index + 1 PROVE list[k] \in ValidTimeout
    BY <1>2, <1>3, <2>1
  <2> QED BY <1>5, <1>6, <1>7, <2>1 DEF ValidSoFar
<1>9. ASSUME OneJob PROVE First(p)'
  <2>1. First(p)
    BY <1>9 DEF OneJob
  <2>2. \A q \in Thread : Accepting(q)' => Accepting(q)
    BY <1>4, <1>6 DEF Accepting
  <2>3. \A k \in DOMAIN list : ComesNext(p, k)' => ComesNext(p, k)
    BY <1>1, <1>2, <1>5 DEF ComesNext, th
  <2> QED BY <1>1, <1>5, <1>6, <2>1, <2>2, <2>3 DEF First, Present
<1>10. ASSUME NoJobIsValid, NEW t \in Task, WillRemove(p, t) PROVE WillRemove(p, t)'
  <2>1. ~(ToSet(list) \subseteq ValidTimeout)
    BY <1>2, <1>10 DEF NoJobIsValid, list
  <2> QED BY <1>5, <1>6, <1>7, <1>10, <2>1 DEF WillRemove
<1> QED BY <1>1, <1>4, <1>5, <1>6, <1>8, <1>9, <1>10, RejectThread

\* The first submission finds an empty table.
LEMMA RejectArrives ==
  ASSUME ManagerInv, RejectInv, NEW p \in Thread, NEW j \in Job, JobArrives(p, j)
  PROVE  RejectInv'
<1>1. /\ thread[p] = Idle /\ call[p].pc = "free" /\ UNCHANGED <<tasks, recruiter>>
      /\ thread \in [Thread -> ThreadState] /\ call \in [Thread -> Call]
      /\ spent.submits \in Nat /\ spent'.submits = spent.submits + 1
      /\ spent'.hangups = spent.hangups /\ JobTasks[j] \in Seq(Task)
  <2>1. thread[p] = Idle
    BY DEF JobArrives, Spawn
  <2>2. call[p].pc = "free"
    BY <2>1, ThreadParts DEF ThreadSound, Idle
  <2> QED BY <2>1, <2>2, ThreadParts, InvParts, JobsAssumption DEF JobArrives
<1>2. /\ \A q \in Thread \ {p} : thread'[q] = thread[q] /\ call'[q] = call[q]
      /\ thread'[p].kind = "accept" /\ thread'[p].job = j
      /\ \/ /\ thread'[p].at = "respond" /\ call'[p].pc = "free" /\ JobTasks[j] = <<>>
         \/ /\ thread'[p].at = "calling" /\ thread'[p].index = 1
            /\ call'[p].pc = "validate"
  <2>1. CASE JobTasks[j] = <<>>
    <3>1. Spawn(p, [Idle EXCEPT !.kind = "accept", !.at = "respond", !.job = j], NoCall)
      BY <2>1 DEF JobArrives
    <3> QED BY <1>1, <2>1, <3>1 DEF Spawn, Idle, NoCall
  <2>2. CASE JobTasks[j] # <<>>
    <3>1. Spawn(p, [Idle EXCEPT !.kind = "accept", !.job = j, !.index = 1],
                ValidateCall(JobTasks[j][1]))
      BY <2>2 DEF JobArrives
    <3>2. ValidateCall(JobTasks[j][1]).pc = "validate"
      BY DEF ValidateCall, NoCall
    <3> QED BY <1>1, <3>1, <3>2 DEF Spawn, Idle
  <2> QED BY <2>1, <2>2
<1>3. ~Accepting(p) /\ Accepting(p)' /\ JobList(p)' = JobTasks[j]
  BY <1>1, <1>2 DEF Accepting, JobList, Idle
<1>4. ASSUME NEW q \in Thread \ {p} PROVE Accepting(q)' = Accepting(q) /\ JobList(q)' = JobList(q)
  BY <1>2 DEF Accepting, JobList
<1>5. ASSUME NEW q \in Thread PROVE ValidSoFar(q)'
  <2>1. CASE q # p
    BY <1>2, <1>4, <2>1 DEF RejectInv, ValidSoFar
  <2>2. CASE q = p
    <3>1. \A k \in DOMAIN JobTasks[j] : ~(k < 1)
      BY <1>1, LenProperties
    <3>2. JobTasks[j] = <<>> => ToSet(JobTasks[j]) = {}
      BY DEF ToSet
    <3> QED BY <1>2, <1>3, <2>2, <3>1, <3>2 DEF ValidSoFar
  <2> QED BY <2>1, <2>2
<1>6. ASSUME NEW q \in Thread, NEW t \in Task, WillRemove(q, t) PROVE WillRemove(q, t)'
  <2>1. q # p
    BY <1>3, <1>6 DEF WillRemove
  <2> QED BY <1>1, <1>2, <1>4, <1>6, <2>1 DEF WillRemove, Present
<1>7. EveryTaskIsRemoved'
  BY <1>1, <1>6 DEF RejectInv, EveryTaskIsRemoved, NoJobIsValid, Present
<1>8. ASSUME DistinctNames, spent'.submits <= 1 PROVE OneJob'
  <2>1. spent.submits = 0 /\ spent'.submits = 1 /\ OneJob
    BY <1>1, <1>8 DEF RejectInv
  <2>2. /\ \A q \in Thread : ~Accepting(q)
        /\ \A t \in Task : ~Present(t) /\ ~Present(t)'
    BY <1>1, <2>1 DEF OneJob, First, FirstHandler, Present
  <2>3. \A t \in Task : FirstHandler(t)'
    BY <2>2 DEF FirstHandler
  <2>4. ASSUME NEW q \in Thread PROVE FirstDraft(q)'
    <3>1. CASE q # p
      BY <1>2, <2>1, <3>1 DEF OneJob, FirstDraft
    <3>2. CASE q = p
      BY <1>2, <3>2 DEF FirstDraft
    <3> QED BY <3>1, <3>2
  <2>5. ASSUME NEW q \in Thread PROVE First(q)'
    <3>1. CASE q # p
      <4>1. ~Accepting(q)'
        BY <1>4, <2>2, <3>1
      <4> QED BY <4>1 DEF First
    <3>2. CASE q = p
      <4>1. \A k \in DOMAIN JobTasks[j] : ~Present(JobTasks[j][k])'
        BY <1>1, <2>2, ElementOfSeq, LenProperties DEF Present
      <4>2. \A s \in Thread : Accepting(s)' => s = p
        BY <1>4, <2>2
      <4> QED BY <1>2, <1>3, <2>1, <2>2, <3>2, <4>1, <4>2 DEF First
    <3> QED BY <3>1, <3>2
  <2>6. ASSUME NEW r \in Request PROVE Kept(r)'
    <3>1. Kept(r)
      BY <2>1 DEF OneJob
    <3>2. ASSUME NEW q \in Thread, Inserts(q, r) PROVE Inserts(q, r)'
      <4>1. q # p
        BY <1>1, <3>2 DEF Inserts
      <4> QED BY <1>1, <1>2, <3>2, <4>1 DEF Inserts
    <3> QED BY <1>1, <3>1, <3>2 DEF Kept, Present
  <2> QED BY <2>3, <2>4, <2>5, <2>6 DEF OneJob
<1> QED BY <1>5, <1>7, <1>8 DEF RejectInv, DistinctNames

\* remove_job takes the tasks of one job, and the recruiters they know, away:
\* with one submission that is all there is.
LEMMA RejectRemoves ==
  ASSUME ManagerInv, TrackInv, RejectInv, NEW p \in Thread, RejectJob(p)
  PROVE  RejectInv'
<1> DEFINE ids == ToSet(JobList(p))
           R == {tasks[t].request : t \in {u \in ids : Present(u)}}
<1>1. /\ Accepting(p) /\ thread[p].at = "reject" /\ call[p].pc = "free" /\ spent' = spent
      /\ tasks' = [t \in Task |-> IF t \in ids THEN NoTask ELSE tasks[t]]
      /\ recruiter' = [r \in Request |->
           IF r \in R /\ recruiter[r].pc \in {"spawned", "waiting"}
           THEN [recruiter[r] EXCEPT !.pc = "aborted"] ELSE recruiter[r]]
      /\ tasksLock = Unlocked /\ thread[p].job \in Job
  <2>1. Accepting(p) /\ thread[p].at = "reject"
    BY DEF RejectJob
  <2>2. call[p].pc = "free" /\ thread[p].job \in Job
    BY <2>1, ThreadParts DEF ThreadSound, Accepting
  <2> QED BY <2>1, <2>2 DEF RejectJob, RemoveJob, AbortRecruiters, JobList, TasksFree
<1>2. /\ \A q \in Thread \ {p} : thread'[q] = thread[q] /\ call'[q] = call[q]
      /\ thread'[p].kind = "idle" /\ call'[p].pc = "free"
  <2>1. thread \in [Thread -> ThreadState] /\ call \in [Thread -> Call]
    BY ThreadParts
  <2> QED BY <2>1 DEF RejectJob, Ends, Idle, NoCall
<1>3. ~Accepting(p)'
  BY <1>2 DEF Accepting
<1>4. ASSUME NEW q \in Thread \ {p} PROVE Accepting(q)' = Accepting(q) /\ JobList(q)' = JobList(q)
  BY <1>2 DEF Accepting, JobList
<1> HIDE DEF ids, R
<1>5. \A t \in Task : /\ Present(t)' => Present(t) /\ t \notin ids
                      /\ Present(t) /\ t \notin ids => Present(t)'
  BY <1>1 DEF Present
<1>6. ASSUME NEW q \in Thread PROVE ValidSoFar(q)'
  <2>1. CASE q # p
    BY <1>2, <1>4, <2>1 DEF RejectInv, ValidSoFar
  <2>2. CASE q = p
    BY <1>3, <2>2 DEF ValidSoFar
  <2> QED BY <2>1, <2>2
<1>7. ASSUME NEW q \in Thread, NEW t \in Task, WillRemove(q, t), t \notin ids
      PROVE  q # p /\ WillRemove(q, t)'
  <2>1. q # p
    BY <1>7 DEF WillRemove, ids
  <2>2. ASSUME call[q].pc \in {"retryPush", "clone"} PROVE call[q].task \in Task /\ call[q].task \notin ids
    <3>1. Accepting(q) /\ ThreadSound(q) /\ CallSound(q) /\ ValidSoFar(q) /\ thread[q] \in ThreadState
      BY <1>7, ThreadParts DEF WillRemove, RejectInv
    <3>2. thread[q].at = "calling"
      BY <2>2, <3>1 DEF ThreadSound, ValidSoFar, ThreadState
    <3>3. /\ call[q].task = JobList(q)[thread[q].index] /\ thread[q].index \in DOMAIN JobList(q)
          /\ call[q].task \in Task /\ thread[q].job \in Job
      BY <2>2, <3>1, <3>2 DEF ThreadSound, CallSound, JobList, Accepting, WithTask, CallPoint
    <3>4. call[q].task \in ToSet(JobList(q))
      BY <3>3 DEF ToSet
    <3>5. thread[q].job # thread[p].job
      BY <1>7 DEF WillRemove, JobList, ids
    <3> QED BY <1>1, <3>3, <3>4, <3>5, IdsAssumption DEF JobList, ids
  <2>3. call[q].pc \in {"retryPush", "clone"} => Present(call[q].task)'
    BY <1>2, <1>5, <1>7, <2>1, <2>2 DEF WillRemove, Present
  <2> QED BY <1>2, <1>4, <1>7, <2>1, <2>3 DEF WillRemove, Present
<1>8. EveryTaskIsRemoved'
  BY <1>1, <1>5, <1>7 DEF RejectInv, EveryTaskIsRemoved, NoJobIsValid
<1>9. ASSUME OneJob PROVE OneJob'
  <2>1. First(p)
    BY <1>9 DEF OneJob
  <2>2. \A t \in Task : ~Present(t)' /\ (Present(t) => t \in ids)
    BY <1>1, <1>5, <2>1 DEF First, ids
  <2>3. ASSUME NEW q \in Thread PROVE First(q)' /\ FirstDraft(q)'
    <3>1. ~Accepting(q)'
      BY <1>1, <1>3, <1>4, <2>1 DEF First
    <3>2. First(q)'
      BY <3>1 DEF First
    <3>3. FirstDraft(q)'
      <4>1. CASE q # p
        BY <1>2, <1>9, <4>1 DEF OneJob, FirstDraft
      <4>2. CASE q = p
        BY <1>2, <4>2 DEF FirstDraft
      <4> QED BY <4>1, <4>2
    <3> QED BY <3>2, <3>3
  <2>4. \A t \in Task : FirstHandler(t)'
    BY <2>2 DEF FirstHandler
  <2>5. ASSUME NEW r \in Request PROVE Kept(r)'
    <3>1. Kept(r) /\ RecruiterSound(r) /\ recruiter[r] \in Recruiter
      BY <1>9, InvParts DEF OneJob
    <3>2. recruiter'[r].pc # "pushing"
      <4>1. recruiter[r].pc # "pushing"
        BY <1>1, <3>1, NullsAssumption DEF RecruiterSound
      <4> QED BY <1>1, <3>1, <4>1 DEF Recruiter
    <3>3. ~(\E q \in Thread : Inserts(q, r))
      <4> SUFFICES ASSUME NEW q \in Thread, call[q].pc = "insert" PROVE FALSE
        BY DEF Inserts
      <4>1. Accepting(q) /\ q # p
        BY <1>1, <1>9, FirstPoints DEF Validating
      <4> QED BY <1>1, <2>1, <4>1 DEF First
    <3>4. recruiter'[r].pc \notin {"spawned", "waiting"}
      <4>1. CASE recruiter[r].pc \in {"spawned", "waiting"}
        <5>1. Present(recruiter[r].task) /\ tasks[recruiter[r].task].request = r
          BY <3>1, <3>3, <4>1 DEF Kept
        <5>2. recruiter[r].task \in ids
          BY <2>2, <3>1, <4>1, <5>1 DEF RecruiterSound
        <5>3. r \in R
          BY <5>1, <5>2 DEF R
        <5>4. recruiter'[r] = [recruiter[r] EXCEPT !.pc = "aborted"]
          BY <1>1, <4>1, <5>3
        <5> QED BY <3>1, <5>4 DEF Recruiter
      <4>2. CASE recruiter[r].pc \notin {"spawned", "waiting"}
        BY <1>1, <4>2
      <4> QED BY <4>1, <4>2
    <3> QED BY <3>2, <3>4 DEF Kept
  <2> QED BY <2>3, <2>4, <2>5 DEF OneJob
<1> QED BY <1>1, <1>6, <1>8, <1>9 DEF RejectInv, DistinctNames

\* A recruiter that goes on keeps the handler, and its key.
LEMMA RejectRecruiter ==
  ASSUME ManagerInv, TrackInv, RejectInv, NEW r \in Request, InRecruiter(r)
  PROVE  RejectInv'
<1> DEFINE t == recruiter[r].task
<1>1. /\ UNCHANGED <<thread, call, spent>> /\ recruiter[r].pc \in {"spawned", "waiting", "pushing"}
      /\ tasks \in [Task -> TaskHandler \cup {NoTask}] /\ recruiter \in [Request -> Recruiter]
  BY InvParts DEF InRecruiter, loopVars, RecruiterStep, RecruiterRequest, RecruiterResume, RecruiterPush
<1>2. t \in Task
  BY <1>1, InvParts DEF RecruiterSound
<1>3. \/ /\ tasks' = tasks
         /\ \E pc \in {"waiting", "panicked", "ended"} : recruiter' = [recruiter EXCEPT ![r].pc = pc]
         /\ recruiter'[r].pc = "waiting" => recruiter[r].pc = "spawned"
      \/ /\ recruiter[r].pc = "waiting" /\ Present(t)
         /\ tasks' = [tasks EXCEPT ![t].receiver = channel[r].node, ![t].request = NoRequest]
         /\ recruiter' = [recruiter EXCEPT ![r].pc = "pushing"]
  <2>1. CASE RecruiterRequest(r)
    BY <1>1, <2>1 DEF RecruiterRequest
  <2>2. CASE RecruiterResume(r)
    BY <1>1, <2>2 DEF RecruiterResume, Recruiter
  <2>3. CASE RecruiterPush(r)
    BY <1>1, <2>3 DEF RecruiterPush, Recruiter
  <2> QED BY <2>1, <2>2, <2>3 DEF InRecruiter, RecruiterStep
<1>4. /\ recruiter'[r].task = t
      /\ \A q \in Request \ {r} : recruiter'[q] = recruiter[q]
  BY <1>1, <1>3 DEF Recruiter
<1>5. \A q \in Request \ {r}, p \in Thread : Inserts(p, q) => Inserts(p, q)'
  BY <1>1, <1>4 DEF Inserts
<1>6. CASE tasks' = tasks /\ recruiter'[r].pc # "pushing"
  <2>1. \A u \in Task : Present(u)' <=> Present(u)
    BY <1>6 DEF Present
  <2>2. recruiter'[r].pc \in {"spawned", "waiting"} => recruiter[r].pc = "spawned"
    BY <1>1, <1>3, <1>6 DEF Recruiter
  <2>3. ASSUME OneJob, NEW q \in Request PROVE Kept(q)'
    <3>1. Kept(q)
      BY <2>3 DEF OneJob
    <3>2. CASE q # r
      BY <1>1, <1>4, <1>5, <1>6, <3>1, <3>2 DEF Kept, Present
    <3>3. CASE q = r
      <4>1. \A p \in Thread : Inserts(p, r) => Inserts(p, r)'
        BY <1>1, <1>4 DEF Inserts
      <4> QED BY <1>1, <1>4, <1>6, <2>2, <3>1, <3>3, <4>1 DEF Kept, Present
    <3> QED BY <3>2, <3>3
  <2>4. ASSUME OneJob, NEW u \in Task PROVE FirstHandler(u)'
    BY <1>1, <1>6, <2>4 DEF OneJob, FirstHandler, Present
  <2> QED BY <1>1, <2>1, <2>3, <2>4, RemovedStill DEF RejectInv, OneJob, DistinctNames
<1>7. CASE /\ recruiter[r].pc = "waiting" /\ Present(t)
           /\ tasks' = [tasks EXCEPT ![t].receiver = channel[r].node, ![t].request = NoRequest]
           /\ recruiter' = [recruiter EXCEPT ![r].pc = "pushing"]
  <2> DEFINE new == [tasks[t] EXCEPT !.receiver = channel[r].node, !.request = NoRequest]
  <2>1. tasks' = [tasks EXCEPT ![t] = new]
    BY <1>1, <1>2, <1>7
  <2>2. /\ new \in TaskHandler /\ new.in_degrees = tasks[t].in_degrees
        /\ new.request = NoRequest
    <3>1. tasks[t] \in TaskHandler
      BY <1>1, <1>2, <1>7 DEF Present
    <3>2. channel[r].node \in Node \cup {NoNode}
      BY InvParts DEF NodesTypeOK, Channel
    <3> QED BY <3>1, <3>2, NullsAssumption DEF TaskHandler
  <2> HIDE DEF new
  <2>3. /\ \A u \in Task : tasks'[u] = IF u = t THEN new ELSE tasks[u]
        /\ new # NoTask
    BY <1>1, <2>1, <2>2, NoTaskAssumption
  <2>4. \A u \in Task : Present(u)' <=> Present(u)
    BY <1>7, <2>3 DEF Present
  <2>5. recruiter'[r].pc = "pushing"
    BY <1>1, <1>7 DEF Recruiter
  <2>6. ASSUME OneJob PROVE tasks[t].request = r
    <3>1. Kept(r)
      BY <2>6 DEF OneJob
    <3>2. ASSUME NEW p \in Thread, Inserts(p, r) PROVE FALSE
      <4>1. Validating(p) /\ call[p].task = t
        BY <3>2 DEF Inserts, Validating
      <4> QED BY <1>7, <2>6, <4>1, FirstPoints
    <3> QED BY <1>7, <3>1, <3>2 DEF Kept
  <2>7. ASSUME OneJob, NEW q \in Request PROVE Kept(q)'
    <3>1. Kept(q) /\ tasks[t].request = r /\ (recruiter[q].pc # "unused" => recruiter[q].task \in Task)
      BY <2>6, <2>7, InvParts DEF OneJob, RecruiterSound
    <3>2. CASE q # r
      <4>1. recruiter'[q] = recruiter[q]
        BY <1>4, <3>2
      <4>2. recruiter[q].pc = "pushing" => tasks'[recruiter[q].task] # NoTask
        BY <2>3, <3>1 DEF Kept, Present
      <4>3. recruiter[q].pc \in {"spawned", "waiting"} =>
              \/ tasks'[recruiter[q].task] # NoTask /\ tasks'[recruiter[q].task].request = q
              \/ \E p \in Thread : Inserts(p, q)'
        BY <1>5, <2>3, <3>1, <3>2 DEF Kept, Present
      <4> QED BY <4>1, <4>2, <4>3 DEF Kept, Present
    <3>3. CASE q = r
      BY <1>2, <1>4, <2>3, <2>5, <3>3 DEF Kept, Present
    <3> QED BY <3>2, <3>3
  <2>8. ASSUME OneJob, NEW u \in Task PROVE FirstHandler(u)'
    <3>1. FirstHandler(u) /\ FirstHandler(t)
      BY <1>2, <2>8 DEF OneJob
    <3> QED BY <1>1, <1>7, <2>2, <2>3, <3>1 DEF FirstHandler, Unrecruited, Present
  <2> QED BY <1>1, <2>4, <2>7, <2>8, RemovedStill DEF RejectInv, OneJob, DistinctNames
<1>8. \/ tasks' = tasks /\ recruiter'[r].pc # "pushing"
      \/ /\ recruiter[r].pc = "waiting" /\ Present(t)
         /\ tasks' = [tasks EXCEPT ![t].receiver = channel[r].node, ![t].request = NoRequest]
         /\ recruiter' = [recruiter EXCEPT ![r].pc = "pushing"]
  BY <1>1, <1>3 DEF Recruiter
<1> QED BY <1>6, <1>7, <1>8

\* Steps that move no thread, recruiter or handler.
LEMMA RejectLoop ==
  ASSUME ManagerInv, RejectInv,
         \/ \E g \in Registrar : InRegistration(g)
         \/ MonitorJob \/ PopTask \/ NothingToRun \/ WakeUp \/ OtherEvent
         \/ \E g \in Registrar, a \in Announcements : NodeAnnounced(g, a)
         \/ UNCHANGED vars
  PROVE  RejectInv'
<1>1. UNCHANGED <<thread, call, tasks, recruiter>>
  BY DEF InRegistration, MonitorJob, MonitorTasks, MonitorEnds, PopTask, PopNextTask,
     NothingToRun, WakeUp, OtherEvent, NodeAnnounced, tasksVars, loopVars, vars
<1>2. spent' = spent \/ spent' = [spent EXCEPT !.announces = @ + 1]
  BY DEF InRegistration, MonitorJob, PopTask, NothingToRun, WakeUp, OtherEvent, NodeAnnounced,
     loopVars, vars
<1>3. spent'.submits = spent.submits /\ spent'.hangups = spent.hangups
  BY <1>2, InvParts
<1> QED BY <1>1, <1>3, RejectOutside

-----------------------------------------------------------------------------
LEMMA RejectInit == Init => RejectInv
<1> SUFFICES ASSUME Init PROVE RejectInv
  OBVIOUS
<1>1. /\ \A p \in Thread : thread[p] = Idle /\ call[p] = NoCall
      /\ \A t \in Task : ~Present(t)
      /\ \A r \in Request : recruiter[r].pc = "unused"
  BY DEF Init, TasksInit, Present
<1>2. \A p \in Thread : ~Accepting(p) /\ call[p].pc = "free"
  BY <1>1 DEF Accepting, Idle, NoCall
<1>3. \A p \in Thread : ValidSoFar(p) /\ First(p) /\ FirstDraft(p)
  BY <1>2 DEF ValidSoFar, First, FirstDraft
<1>4. (\A t \in Task : FirstHandler(t)) /\ \A r \in Request : Kept(r)
  BY <1>1 DEF FirstHandler, Kept
<1> QED BY <1>1, <1>3, <1>4 DEF RejectInv, EveryTaskIsRemoved, OneJob

LEMMA RejectStep == ManagerInv /\ TrackInv /\ TrackInv' /\ RejectInv /\ [Next]_vars => RejectInv'
<1> SUFFICES ASSUME ManagerInv, TrackInv, TrackInv', RejectInv, [Next]_vars PROVE RejectInv'
  OBVIOUS
<1>1. CASE LoopStep
  BY <1>1, RejectLoop, RejectRuns DEF LoopStep
<1>2. CASE Arrival
  BY <1>2, RejectArrives, RejectLoop DEF Arrival
<1>3. ASSUME NEW p \in Thread, ThreadStep(p) \/ SendFails(p) \/ ClientHangsUp(p)
      PROVE  RejectInv'
  BY <1>3, RejectInCall, RejectNext, RejectRemoves, RejectEnds, RejectRuns DEF ThreadStep
<1>4. CASE \E p \in Thread, t \in Task : \E i \in DOMAIN executing[t] : ReportArrives(p, t, i)
  BY <1>4, RejectRuns
<1>5. CASE \E r \in Request : InRecruiter(r)
  BY <1>5, RejectRecruiter
<1>6. CASE (\E g \in Registrar : InRegistration(g)) \/ MonitorJob \/ UNCHANGED vars
  BY <1>6, RejectLoop
<1> QED BY <1>1, <1>2, <1>3, <1>4, <1>5, <1>6 DEF Next

LEMMA RejectInvariant == Spec => []RejectInv
BY RejectInit, RejectStep, TrackInvariant, ManagerInvariant, PTL DEF Spec

\* When jobs that can only be rejected have been answered and no client hung
\* up, the table is empty, whatever was submitted meanwhile: remove_job of the
\* last of them takes away what any of them inserted.  And a single such job
\* leaves no thread that waits for a node: the handle of each is in a handler
\* that remove_job finds.
THEOREM RejectedJobsLeaveNothing == Spec => []RejectedJobLeavesNothing
<1>1. ManagerInv /\ TrackInv /\ RejectInv => RejectedJobLeavesNothing
  <2> SUFFICES ASSUME ManagerInv, TrackInv, RejectInv, NoJobIsValid, spent.hangups = 0,
                      \A p \in Thread : ~Accepting(p)
               PROVE  /\ \A t \in Task : ~Present(t)
                      /\ spent.submits <= 1 /\ DistinctNames =>
                           \A r \in Request :
                             recruiter[r].pc \in {"unused", "ended", "aborted", "panicked"}
    BY DEF RejectedJobLeavesNothing, NoJobIsValid, DistinctNames, OneSubmission
  <2>1. \A t \in Task : ~Present(t)
    BY DEF RejectInv, EveryTaskIsRemoved, WillRemove
  <2>2. ASSUME spent.submits <= 1, DistinctNames, NEW r \in Request
        PROVE  recruiter[r].pc \in {"unused", "ended", "aborted", "panicked"}
    <3>1. /\ Kept(r) /\ recruiter[r] \in Recruiter
          /\ recruiter[r].pc # "unused" => recruiter[r].task \in Task
      BY <2>2, InvParts DEF RejectInv, OneJob, RecruiterSound
    <3>2. ~ \E p \in Thread : Inserts(p, r)
      BY DEF TrackInv, CallKnown, Validating, Inserts
    <3> QED BY <2>1, <3>1, <3>2 DEF Kept, Recruiter
  <2> QED BY <2>1, <2>2
<1> QED BY <1>1, RejectInvariant, TrackInvariant, ManagerInvariant, PTL

-----------------------------------------------------------------------------
(* Who waits and who is sent, when one job is submitted once.              *)

\* A node that a request was answered with is one, and so is the receiver in
\* a report; a handler whose dependencies validate_task counts has some.
NodesKnown ==
  /\ \A r \in Request : channel[r].state = "sent" => channel[r].node \in Node
  /\ \A p \in Thread : /\ call[p].pc = "update" => call[p].msg.receiver \in Node
                       /\ call[p].pc = "deps" => Needs[call[p].task] # {}

LEMMA KnownInCall ==
  ASSUME ManagerInv, NodesKnown, NEW p \in Thread, InCall(p)
  PROVE  NodesKnown'
<1>1. CallMove(p) /\ CallStep(p)
  BY InCallMoves, InCallPoint
<1>2. channel' = channel
  <2>1. CASE RecruitForNew(p)
    BY <2>1 DEF RecruitForNew, RecruitNode, FindNode
  <2>2. CASE \E h \in Task : NotifyDependent(p, h)
    BY <2>2 DEF NotifyDependent, RecruitNode, FindNode, nodesVars
  <2>3. CASE UNCHANGED nodesVars
    BY <2>3 DEF nodesVars
  <2> QED BY <1>1, <2>1, <2>2, <2>3
      DEF CallStep, ValidateTask, AddTask, CloneHandler, ValidateDependencies, InsertTask,
      UpdateTask, RetryTask, RetryPush, FailTask, DoneTask, NotifyNobody, NotifyPush
<1>3. ASSUME NEW q \in Thread
      PROVE  /\ call'[q].pc = "update" => call'[q].msg.receiver \in Node
             /\ call'[q].pc = "deps" => Needs[call'[q].task] # {}
  <2>1. CASE q # p
    BY <1>1, <2>1 DEF NodesKnown, CallMove
  <2>2. CASE q = p
    BY <1>1, <2>2 DEF CallMove, WithTask, CallPoint
  <2> QED BY <2>1, <2>2
<1> QED BY <1>2, <1>3 DEF NodesKnown

\* Outside, a call begins with validate_task or with a report of a node.
LEMMA KnownOutside ==
  ASSUME NodesKnown, NEW p \in Thread, call \in [Thread -> Call], NEW c,
         call' = [call EXCEPT ![p] = c], UNCHANGED nodesVars,
         c.pc # "deps", c.pc = "update" => c.msg.receiver \in Node
  PROVE  NodesKnown'
<1>1. channel' = channel
  BY DEF nodesVars
<1>2. \A q \in Thread : call'[q] = IF q = p THEN c ELSE call[q]
  OBVIOUS
<1> QED BY <1>1, <1>2 DEF NodesKnown

LEMMA KnownStill ==
  ASSUME NodesKnown, call' = call, channel' = channel
  PROVE  NodesKnown'
BY DEF NodesKnown

LEMMA KnownThreads ==
  ASSUME ManagerInv, NodesKnown, NEW p \in Thread,
         \/ AcceptNext(p) \/ AcceptJob(p) \/ AcceptPanics(p) \/ ClientHangsUp(p)
         \/ UpdateEnds(p) \/ NoReceiver(p) \/ SendTask(p) \/ SendFails(p) \/ RunContinues(p)
         \/ RunNextTask(p) \/ (\E j \in Job : JobArrives(p, j))
         \/ (\E d \in Task : CollectInput(p, d))
         \/ \E t \in Task : \E i \in DOMAIN executing[t] : ReportArrives(p, t, i)
  PROVE  NodesKnown'
<1>1. call \in [Thread -> Call] /\ thread \in [Thread -> ThreadState]
  BY ThreadParts
<1>2. UNCHANGED nodesVars
  BY DEF AcceptNext, AcceptJob, PushTasks, AcceptPanics, ClientHangsUp, UpdateEnds, NoReceiver,
     SendTask, SendFails, RunContinues, RunNextTask, TakeNextTask, JobArrives, CollectInput,
     ReportArrives
<1>3. NoCall.pc = "free" /\ \A t : ValidateCall(t).pc = "validate" /\ RetryCall(t).pc = "retry"
  BY DEF NoCall, ValidateCall, RetryCall
<1>4. \A t, m : UpdateCall(t, m).pc = "update" /\ UpdateCall(t, m).msg = m
  BY DEF NoCall, UpdateCall
<1>5. CASE Ends(p) \/ call' = [call EXCEPT ![p] = NoCall]
  BY <1>1, <1>2, <1>3, <1>5, KnownOutside DEF Ends
<1>6. CASE call' = call
  BY <1>2, <1>6, KnownStill DEF nodesVars
<1>7. CASE \E t : \/ call' = [call EXCEPT ![p] = ValidateCall(t)]
                  \/ call' = [call EXCEPT ![p] = RetryCall(t)]
  BY <1>1, <1>2, <1>3, <1>7, KnownOutside
<1>8. ASSUME NEW t, NEW m, m.receiver \in Node, call' = [call EXCEPT ![p] = UpdateCall(t, m)]
      PROVE  NodesKnown'
  <2> DEFINE c == UpdateCall(t, m)
  <2>1. c.pc = "update" /\ c.msg.receiver \in Node /\ call' = [call EXCEPT ![p] = c]
    BY <1>4, <1>8
  <2> HIDE DEF c
  <2> QED BY <1>1, <1>2, <2>1, KnownOutside
<1>9. CASE AcceptNext(p)
  BY <1>5, <1>7, <1>9 DEF AcceptNext
<1>10. CASE \E j \in Job : JobArrives(p, j)
  BY <1>5, <1>7, <1>10 DEF JobArrives, Spawn
<1>11. CASE SendTask(p) \/ SendFails(p)
  <2> DEFINE n == thread[p].snapshot.receiver
             sent == [status |-> "PENDING", receiver |-> n, output |-> thread[p].snapshot.output]
             failed == [status |-> "FAILED", receiver |-> n, output |-> "error"]
  <2>1. /\ ReadyToSend(p) /\ n # NoNode
        /\ \/ call' = [call EXCEPT ![p] = UpdateCall(thread[p].task, sent)]
           \/ call' = [call EXCEPT ![p] = UpdateCall(thread[p].task, failed)]
    BY <1>11 DEF SendTask, SendFails
  <2>2. n \in Node
    BY <2>1, ThreadParts DEF ReadyToSend, Running, ThreadSound, TaskHandler
  <2>3. sent.receiver \in Node /\ failed.receiver \in Node
    BY <2>2
  <2> HIDE DEF sent, failed
  <2> QED BY <1>8, <2>1, <2>3
<1>12. ASSUME NEW t \in Task, NEW i \in DOMAIN executing[t], ReportArrives(p, t, i)
       PROVE  NodesKnown'
  <2> DEFINE e == executing[t][i]
             m == ExecutionReport(e.node, Head(e.left))
  <2>1. call' = [call EXCEPT ![p] = UpdateCall(t, m)]
    BY <1>12 DEF ReportArrives, Spawn
  <2>2. e \in [node : Node, left : Seq(Status) \ {<<>>}]
    <3> DEFINE Executed == [node : Node, left : Seq(Status) \ {<<>>}]
    <3>1. executing[t] \in Seq(Executed)
      BY DEF ManagerInv, DomainManagerTypeOK
    <3> HIDE DEF Executed
    <3>2. i \in 1..Len(executing[t])
      BY <1>12, <3>1, LenProperties
    <3>3. e \in Executed
      BY <3>1, <3>2, ElementOfSeq
    <3> QED BY <3>3 DEF Executed
  <2>3. m.receiver \in Node
    BY <2>2 DEF ExecutionReport
  <2> HIDE DEF m
  <2> QED BY <1>8, <2>1, <2>3
<1>13. CASE RunContinues(p)
  BY <1>5, <1>7, <1>13 DEF RunContinues
<1>14. CASE RunNextTask(p)
  BY <1>5, <1>6, <1>14 DEF RunNextTask, Spawn
<1>15. CASE \E d \in Task : CollectInput(p, d)
  BY <1>5, <1>6, <1>15 DEF CollectInput
<1>16. CASE \/ AcceptJob(p) \/ AcceptPanics(p) \/ ClientHangsUp(p) \/ UpdateEnds(p) \/ NoReceiver(p)
  BY <1>5, <1>16 DEF AcceptJob, AcceptPanics, ClientHangsUp, UpdateEnds, NoReceiver
<1> QED BY <1>9, <1>10, <1>11, <1>12, <1>13, <1>14, <1>15, <1>16

LEMMA KnownChannels ==
  ASSUME ManagerInv, NodesKnown,
         \/ \E p \in Thread : RejectJob(p)
         \/ \E r \in Request : InRecruiter(r)
         \/ \E g \in Registrar : InRegistration(g)
         \/ \E g \in Registrar, a \in Announcements : NodeAnnounced(g, a)
  PROVE  NodesKnown'
<1>1. /\ channel \in [Request -> Channel] /\ call \in [Thread -> Call]
      /\ \A g \in Registrar : registering[g].left # <<>> => registering[g].node \in Node
  BY InvParts DEF NodesTypeOK, TasksTypeOK
<1>2. ASSUME call' = call \/ \E p \in Thread : call' = [call EXCEPT ![p] = NoCall],
             \A r \in Request : channel'[r].state = "sent" => channel'[r].node \in Node
      PROVE  NodesKnown'
  <2>1. NoCall.pc = "free"
    BY DEF NoCall
  <2>2. \A q \in Thread : call'[q] = call[q] \/ call'[q].pc = "free"
    BY <1>1, <1>2, <2>1
  <2> QED BY <1>2, <2>2 DEF NodesKnown
<1>3. ASSUME NEW p \in Thread, RejectJob(p) PROVE NodesKnown'
  <2>1. /\ call' = [call EXCEPT ![p] = NoCall]
        /\ \E R : DropReceivers(R)
    BY <1>3 DEF RejectJob, RemoveJob, AbortRecruiters, Ends
  <2>2. \A r \in Request : channel'[r].state = "sent" => channel'[r].node \in Node
    BY <1>1, <2>1 DEF DropReceivers, NodesKnown, Channel
  <2> QED BY <1>2, <2>1, <2>2
<1>4. ASSUME NEW r \in Request, InRecruiter(r) PROVE NodesKnown'
  <2>1. call' = call
    BY <1>4 DEF InRecruiter, RecruiterStep, RecruiterRequest, RecruiterResume, RecruiterPush
  <2>2. \/ \E e : RequestNode(r, e)
        \/ TakeNode(r)
        \/ channel' = channel
    BY <1>4 DEF InRecruiter, RecruiterStep, RecruiterRequest, RecruiterResume, RecruiterPush, nodesVars
  <2>3. \A s \in Request : channel'[s].state = "sent" => channel'[s].node \in Node
    BY <1>1, <2>2 DEF RequestNode, TakeNode, NodesKnown, Channel
  <2> QED BY <1>2, <2>1, <2>3
<1>5. ASSUME NEW g \in Registrar, InRegistration(g) PROVE NodesKnown'
  <2>1. call' = call
    BY <1>5 DEF InRegistration, tasksVars
  <2>2. \/ channel' = channel
        \/ \E s : /\ registering[g].left # <<>>
                  /\ channel' = [channel EXCEPT ![s] =
                       [state |-> "sent", endpoint |-> @.endpoint, node |-> registering[g].node]]
    BY <1>5 DEF InRegistration, RegisterStep, ServeRequest, NoRequestor, AddKey
  <2>3. \A s \in Request : channel'[s].state = "sent" => channel'[s].node \in Node
    BY <1>1, <2>2 DEF NodesKnown, Channel
  <2> QED BY <1>2, <2>1, <2>3
<1>6. CASE \E g \in Registrar, a \in Announcements : NodeAnnounced(g, a)
  BY <1>6, KnownStill DEF NodeAnnounced, RegisterNode
<1> QED BY <1>3, <1>4, <1>5, <1>6

LEMMA KnownInit == Init => NodesKnown
BY DEF Init, NodesInit, TasksInit, NodesKnown, NoCall

LEMMA KnownStep == ManagerInv /\ NodesKnown /\ [Next]_vars => NodesKnown'
<1> SUFFICES ASSUME ManagerInv, NodesKnown, [Next]_vars PROVE NodesKnown'
  OBVIOUS
<1>1. CASE LoopStep
  <2>1. CASE PopTask \/ NothingToRun \/ WakeUp
    BY <2>1, KnownStill DEF PopTask, PopNextTask, NothingToRun, WakeUp, tasksVars, nodesVars
  <2> QED BY <1>1, <2>1, KnownThreads DEF LoopStep
<1>2. CASE Arrival
  <2>1. CASE OtherEvent
    BY <2>1, KnownStill DEF OtherEvent, nodesVars
  <2> QED BY <1>2, <2>1, KnownThreads, KnownChannels DEF Arrival
<1>3. ASSUME NEW p \in Thread, ThreadStep(p) \/ SendFails(p) \/ ClientHangsUp(p)
      PROVE  NodesKnown'
  BY <1>3, KnownInCall, KnownThreads, KnownChannels DEF ThreadStep
<1>4. CASE \E p \in Thread, t \in Task : \E i \in DOMAIN executing[t] : ReportArrives(p, t, i)
  BY <1>4, KnownThreads
<1>5. CASE (\E r \in Request : InRecruiter(r)) \/ (\E g \in Registrar : InRegistration(g))
  BY <1>5, KnownChannels
<1>6. CASE MonitorJob \/ UNCHANGED vars
  BY <1>6, KnownStill DEF MonitorJob, MonitorTasks, MonitorEnds, vars, tasksVars, nodesVars
<1> QED BY <1>1, <1>2, <1>3, <1>4, <1>5, <1>6 DEF Next

LEMMA KnownInvariant == Spec => []NodesKnown
BY KnownInit, KnownStep, ManagerInvariant, PTL DEF Spec

\* Who has t in its hands and will queue or send it, once; a report that
\* run_task or a node has made of it, and what follows it.
InHand(p, t) ==
  \/ Accepting(p) /\ t \in ToSet(thread[p].accepted)
  \/ /\ Accepting(p) /\ At(p, "returned") /\ call[p].ok /\ call[p].ready
     /\ t = JobTasks[thread[p].job][thread[p].index]
  \/ At(p, "notifyPush") /\ call[p].pushing = t
  \/ Running(p, "inputs") /\ thread[p].task = t

Follows(p, t) ==
  \/ call[p].pc \in {"update", "retry", "retryPush"} /\ call[p].task = t
  \/ thread[p].at = "failing" /\ thread[p].task = t

\* t was found ready.
Released(t) ==
  \/ \E p \in Thread : InHand(p, t) \/ Follows(p, t)
  \/ \E r \in Request : Recruits(r, t)
  \/ Queued(t)
  \/ dispatches[t] > 0

\* Its handler remains as it was then, until the job is gone.
SettledHandler(th) == th.in_degrees = 0 /\ th.receiver # NoNode /\ th.request = NoRequest

Settled(t) ==
  /\ spent.submits = 1
  /\ IF Present(t) THEN SettledHandler(tasks[t]) ELSE \A p \in Thread : ~Accepting(p)

NeedsRecruiter(th) ==
  th.status = "WAITING_FOR_RESOURCE" /\ th.in_degrees = 0 /\ th.receiver = NoNode

HasRecruiter(t) == \E r \in Request : /\ recruiter[r].task = t
                                      /\ recruiter[r].pc \in {"spawned", "waiting", "panicked"}

AwaitsNode(t) == Present(t) /\ NeedsRecruiter(tasks[t])

\* What validate_task is about to insert is released or recruited for as well.
OnceDraft(p) ==
  call[p].pc = "insert" => /\ NeedsRecruiter(call[p].th) => HasRecruiter(call[p].task)
                           /\ Ready(call[p].th) => call[p].th.request = NoRequest

OneChain ==
  /\ \A t \in Task : Released(t) => Settled(t)
  /\ \A t \in Task : AwaitsNode(t) => HasRecruiter(t)
  /\ \A p \in Thread : OnceDraft(p)

OnceInv == DistinctNames /\ spent.submits <= 1 => OneChain

\* recruit_node leaves a handler that needs nobody, or with a new recruiter.
LEMMA RecruitedWaits ==
  ASSUME ManagerInv, NEW t \in Task, NEW th, HandlerSound(t, th, completed),
         th.request = NoRequest, NEW o \in Recruitments(t, th), RecruitNode(t, o)
  PROVE  /\ NeedsRecruiter(o.th) => \E r \in Request : Enlists(r, t, o.th)
         /\ Ready(o.th) => o.th.request = NoRequest
<1>1. th \in TaskHandler
  BY DEF HandlerSound, DraftSound
<1>2. RecruitmentForm(t, th, o)
  BY RecruitmentForms
<1>3. ASSUME NEW n, n # NoNode,
             o = [th |-> [th EXCEPT !.receiver = n], spawned |-> NoRequest, ok |-> TRUE]
      PROVE  ~NeedsRecruiter(o.th) /\ o.th.request = NoRequest
  BY <1>1, <1>3 DEF TaskHandler, NeedsRecruiter
<1>4. ASSUME o = [th |-> FailedHandler(th), spawned |-> NoRequest, ok |-> FALSE]
      PROVE  ~NeedsRecruiter(o.th) /\ o.th.request = NoRequest
  BY <1>1, <1>4 DEF TaskHandler, NeedsRecruiter, FailedHandler
<1>5. ASSUME NEW r \in Request, recruiter[r].pc = "unused",
             o = [th |-> [th EXCEPT !.receiver = NoNode, !.request = r],
                  spawned |-> r, ok |-> TRUE]
      PROVE  ~Ready(o.th) /\ Enlists(r, t, o.th)
  <2>1. o.spawned = r /\ r # NoRequest /\ o.th.request = r /\ o.th.receiver = NoNode
    BY <1>1, <1>5, NullsAssumption DEF TaskHandler
  <2> QED BY <1>5, <2>1 DEF RecruitNode, Enlists, Ready
<1> QED BY <1>2, <1>3, <1>4, <1>5, Zenon DEF RecruitmentForm

\* A step inside TasksManagement only adds recruiters.
LEMMA RecruitersInCall ==
  ASSUME ManagerInv, NEW p \in Thread, InCall(p)
  PROVE  /\ \A r \in Request : \/ recruiter'[r] = recruiter[r]
                               \/ recruiter[r].pc = "unused" /\ recruiter'[r].pc = "spawned"
         /\ \A t \in Task : HasRecruiter(t) => HasRecruiter(t)'
         /\ \A t \in Task, r \in Request : Recruits(r, t)' <=> Recruits(r, t)
<1>1. CallStep(p) /\ recruiter \in [Request -> Recruiter]
  BY InCallPoint, InvParts
<1>2. ASSUME NEW t, NEW th, NEW o \in Recruitments(t, th), RecruitNode(t, o), NEW r \in Request
      PROVE  \/ recruiter'[r] = recruiter[r]
             \/ recruiter[r].pc = "unused" /\ recruiter'[r].pc = "spawned"
  <2>1. recruiter' = IF o.spawned = NoRequest THEN recruiter
                     ELSE [recruiter EXCEPT ![o.spawned] = [pc |-> "spawned", task |-> t]]
    BY <1>2 DEF RecruitNode
  <2>2. ASSUME o.spawned # NoRequest PROVE recruiter[o.spawned].pc = "unused"
    <3>1. RecruitmentForm(t, th, o)
      BY <1>2, RecruitmentForms
    <3>2. ASSUME NEW n,
                 o = [th |-> [th EXCEPT !.receiver = n], spawned |-> NoRequest, ok |-> TRUE]
          PROVE  FALSE
      BY <2>2, <3>2
    <3>3. o # [th |-> FailedHandler(th), spawned |-> NoRequest, ok |-> FALSE]
      BY <2>2
    <3>4. ASSUME NEW s \in Request, recruiter[s].pc = "unused",
                 o = [th |-> [th EXCEPT !.receiver = NoNode, !.request = s],
                      spawned |-> s, ok |-> TRUE]
          PROVE  recruiter[o.spawned].pc = "unused"
      BY <3>4
    <3> QED BY <3>1, <3>2, <3>3, <3>4, Zenon DEF RecruitmentForm
  <2> QED BY <1>1, <2>1, <2>2
<1>3. \A r \in Request : \/ recruiter'[r] = recruiter[r]
                         \/ recruiter[r].pc = "unused" /\ recruiter'[r].pc = "spawned"
  <2>1. CASE RecruitForNew(p)
    BY <1>2, <2>1 DEF RecruitForNew
  <2>2. CASE \E h \in Task : NotifyDependent(p, h)
    BY <1>2, <2>2 DEF NotifyDependent
  <2>3. CASE recruiter' = recruiter
    BY <2>3
  <2> QED BY <1>1, <2>1, <2>2, <2>3
      DEF CallStep, ValidateTask, AddTask, CloneHandler, ValidateDependencies, InsertTask,
      UpdateTask, RetryTask, RetryPush, FailTask, DoneTask, NotifyNobody, NotifyPush
<1>4. ASSUME NEW t \in Task, HasRecruiter(t) PROVE HasRecruiter(t)'
  BY <1>3, <1>4 DEF HasRecruiter
<1>5. ASSUME NEW t \in Task, NEW r \in Request PROVE Recruits(r, t)' <=> Recruits(r, t)
  BY <1>3 DEF Recruits
<1> QED BY <1>3, <1>4, <1>5

\* ... and gives its thread a task only in two ways.
LEMMA HandsInCall ==
  ASSUME ManagerInv, TrackInv, OneJob, NEW p \in Thread, InCall(p), NEW t \in Task
  PROVE  /\ \A q \in Thread \ {p} : InHand(q, t)' <=> InHand(q, t)
         /\ \A q \in Thread : Follows(q, t)' => Follows(q, t)
         /\ InHand(p, t)' =>
              \/ InHand(p, t) /\ call[p].pc # "notifyPush"
              \/ call[p].pc = "insert" /\ t = call[p].task /\ call'[p].ready
              \/ call[p].pc = "notify" /\ call'[p].pc = "notifyPush" /\ t = call'[p].pushing
<1>1. /\ CallMove(p) /\ KeysMove(p) /\ call[p].pc \in WithTask
      /\ thread' = thread /\ spent' = spent
  BY InCallMoves, InCallPoint
<1>2. \A q \in Thread \ {p} : InHand(q, t)' <=> InHand(q, t)
  BY <1>1 DEF CallMove, InHand, Accepting, At, Running
<1>3. call[p].pc # "add"
  BY FirstPoints DEF Validating
<1>4. \A q \in Thread : Follows(q, t)' => Follows(q, t)
  BY <1>1, <1>3 DEF CallMove, Follows, WithTask, CallPoint
<1>5. ASSUME InHand(p, t)', call'[p].pc # "notifyPush" \/ t # call'[p].pushing
      PROVE  \/ InHand(p, t) /\ call[p].pc # "notifyPush"
             \/ call[p].pc = "insert" /\ t = call[p].task /\ call'[p].ready
  <2>1. ~Running(p, "inputs") /\ call[p].pc # "free"
    BY <1>1, ThreadParts DEF Running, ThreadSound, WithTask
  <2>2. Accepting(p)
    BY <1>1, <1>5, <2>1 DEF InHand, Accepting, At, Running
  <2>3. First(p)
    BY DEF OneJob
  <2>4. Validating(p) /\ call[p].pc # "notifyPush"
    BY <1>1, <2>2, <2>3 DEF First, Validating, WithTask
  <2>5. CASE t \in ToSet(thread[p].accepted)
    BY <2>2, <2>4, <2>5 DEF InHand
  <2>6. CASE t \notin ToSet(thread[p].accepted)
    <3>1. /\ call'[p].pc = "returned" /\ call'[p].ready
          /\ t = JobTasks[thread[p].job][thread[p].index]
      BY <1>1, <1>5, <2>1, <2>6 DEF InHand, Accepting, At, Running
    <3>2. call[p].pc = "insert"
      BY <1>1, <2>4, <3>1, FirstPoints DEF CallMove
    <3> QED BY <2>4, <3>1, <3>2, FirstPoints DEF JobList
  <2> QED BY <2>5, <2>6
<1>6. call'[p].pc = "notifyPush" => call[p].pc = "notify"
  BY <1>1 DEF CallMove
<1> QED BY <1>2, <1>4, <1>5, <1>6

\* A handler of the table stays settled if its task was found ready, and does
\* not begin to need a recruiter.
HandlerKept(t) ==
  /\ Present(t)'
  /\ Released(t) => SettledHandler(tasks'[t])
  /\ NeedsRecruiter(tasks'[t]) => NeedsRecruiter(tasks[t]) \/ HasRecruiter(t)'

LEMMA HandlerSettled ==
  ASSUME OneChain, NEW t \in Task, Present(t)
  PROVE  Released(t) => SettledHandler(tasks[t])
BY DEF OneChain, Settled

LEMMA SameHandler ==
  ASSUME OneChain, NEW t \in Task, Present(t), tasks'[t] = tasks[t]
  PROVE  HandlerKept(t)
BY HandlerSettled DEF HandlerKept, Present

LEMMA PlainHandlers ==
  ASSUME ManagerInv, NodesKnown, OneChain, NEW p \in Thread,
         UpdateTask(p) \/ RetryTask(p) \/ RetryPush(p) \/ FailTask(p) \/ DoneTask(p),
         NEW t \in Task, Present(t)
  PROVE  HandlerKept(t)
<1> DEFINE u == call[p].task
<1>1. /\ call[p].pc \in {"update", "retry", "retryPush", "fail", "done"}
      /\ u \in Task /\ tasks \in [Task -> TaskHandler \cup {NoTask}]
  <2>1. call[p].pc \in {"update", "retry", "retryPush", "fail", "done"}
    BY DEF UpdateTask, RetryTask, RetryPush, FailTask, DoneTask, At
  <2> QED BY <2>1, ThreadParts, InvParts DEF CallSound, WithTask, CallPoint
<1>2. Released(t) => SettledHandler(tasks[t])
  BY HandlerSettled
<1>3. ASSUME NEW th \in TaskHandler, tasks' = [tasks EXCEPT ![u] = th],
             u = t => /\ th.in_degrees = tasks[t].in_degrees /\ th.request = tasks[t].request
                      /\ tasks[t].receiver # NoNode => th.receiver # NoNode
                      /\ ~NeedsRecruiter(th)
      PROVE  HandlerKept(t)
  <2>1. tasks'[t] = IF t = u THEN th ELSE tasks[t]
    BY <1>1, <1>3
  <2>2. CASE t # u
    BY <2>1, <2>2, SameHandler
  <2>3. CASE t = u
    BY <1>2, <1>3, <2>1, <2>3, NoTaskAssumption DEF HandlerKept, SettledHandler, Present
  <2> QED BY <2>2, <2>3
<1>4. CASE tasks' = tasks
  BY <1>4, SameHandler
<1>5. CASE tasks' # tasks
  <2>1. Present(u) /\ tasks[u] \in TaskHandler
    BY <1>1, <1>5 DEF UpdateTask, RetryTask, RetryPush, FailTask, DoneTask, TheTask, Present
  <2>2. CASE UpdateTask(p)
    <3> DEFINE th == [tasks[u] EXCEPT !.status = call[p].msg.status,
                        !.receiver = call[p].msg.receiver, !.output = call[p].msg.output]
    <3>1. call[p].msg \in Report /\ call[p].msg.receiver \in Node
      BY <2>2, ThreadParts DEF UpdateTask, At, CallSound, NodesKnown
    <3>2. /\ th \in TaskHandler /\ th.request = tasks[u].request
          /\ th.in_degrees = tasks[u].in_degrees /\ th.receiver # NoNode
      BY <2>1, <3>1, NoNodeAssumption DEF Report, TaskHandler
    <3>3. tasks' = [tasks EXCEPT ![u] = th]
      BY <1>1, <2>1, <2>2 DEF UpdateTask, TheTask
    <3> HIDE DEF th
    <3> QED BY <1>3, <3>2, <3>3 DEF NeedsRecruiter
  <2>3. CASE RetryTask(p)
    <3> DEFINE th == Retried(tasks[u])
    <3>1. tasks' = [tasks EXCEPT ![u] = th] /\ call[p].pc = "retry"
      BY <1>1, <1>5, <2>3 DEF RetryTask, TheTask, At
    <3>2. Released(u)
      BY <3>1 DEF Released, Follows
    <3>3. Ready(tasks[u])
      BY <1>1, <2>1, <3>2, HandlerSettled DEF SettledHandler, Ready
    <3>4. /\ th \in TaskHandler /\ th.request = tasks[u].request
          /\ th.in_degrees = tasks[u].in_degrees /\ th.receiver = tasks[u].receiver
      BY <2>1 DEF Retried, TaskHandler, Status
    <3> HIDE DEF th
    <3>5. ~NeedsRecruiter(th)
      BY <3>3, <3>4 DEF NeedsRecruiter, Ready
    <3> QED BY <1>3, <3>1, <3>4, <3>5
  <2>4. CASE FailTask(p) \/ DoneTask(p)
    <3>1. PICK s \in {"FAILED", "DONE"} : tasks' = [tasks EXCEPT ![u].status = s]
      BY <1>5, <2>4 DEF FailTask, DoneTask, TheTask
    <3> DEFINE th == [tasks[u] EXCEPT !.status = s]
    <3>2. /\ th \in TaskHandler /\ th.request = tasks[u].request
          /\ th.in_degrees = tasks[u].in_degrees /\ th.receiver = tasks[u].receiver
          /\ th.status = s
      BY <2>1 DEF TaskHandler, Status
    <3>3. tasks' = [tasks EXCEPT ![u] = th]
      BY <1>1, <3>1
    <3> HIDE DEF th
    <3> QED BY <1>3, <3>2, <3>3 DEF NeedsRecruiter
  <2> QED BY <1>5, <2>2, <2>3, <2>4 DEF RetryPush
<1> QED BY <1>4, <1>5

\* The Done loop counts down a handler of a task that was not found ready.
LEMMA NotReleasedYet ==
  ASSUME ManagerInv, OneChain, NEW p \in Thread, NEW h \in Task, NotifyDependent(p, h)
  PROVE  ~Released(h)
<1>1. Present(h) /\ tasks[h].in_degrees > 0
  BY CountsDown
<1> QED BY <1>1, HandlerSettled DEF SettledHandler

LEMMA NotifyHandlers ==
  ASSUME ManagerInv, OneJob, OneChain, NEW p \in Thread, NEW h \in Task, NotifyDependent(p, h),
         InCall(p)
  PROVE  /\ \A t \in Task : Present(t) => HandlerKept(t)
         /\ call'[p].pc = "notifyPush" => call'[p].pushing = h /\ SettledHandler(tasks'[h])
<1> DEFINE th == Notified(h, call[p].task)
<1>1. /\ Present(h) /\ HandlerSound(h, th, completed) /\ th.request = tasks[h].request
      /\ tasks[h].request = NoRequest /\ ~Released(h)
  BY CountsDown, NotReleasedYet DEF OneJob, FirstHandler, Unrecruited
<1>2. /\ th \in TaskHandler /\ tasks \in [Task -> TaskHandler \cup {NoTask}]
      /\ call \in [Thread -> Call]
  BY <1>1, InvParts DEF HandlerSound, DraftSound, TasksTypeOK
<1>3. ASSUME NEW todo, ContinueNotify(p, todo) PROVE call'[p].pc # "notifyPush"
  <2>1. CASE Return(p, TRUE, FALSE)
    BY <1>2, <2>1 DEF Return, NoCall
  <2>2. CASE call' = [call EXCEPT ![p].pc = "notify", ![p].todo = todo, ![p].pushing = NoId]
    BY <1>2, <2>2 DEF Call
  <2> QED BY <1>3, <2>1, <2>2 DEF ContinueNotify
<1>4. \/ /\ th.in_degrees # 0 /\ tasks' = [tasks EXCEPT ![h] = th]
         /\ \E todo : ContinueNotify(p, todo)
      \/ \E o \in Recruitments(h, th) :
           /\ RecruitNode(h, o) /\ tasks' = [tasks EXCEPT ![h] = o.th] /\ th.in_degrees = 0
           /\ \/ \E todo : ContinueNotify(p, todo)
              \/ /\ Ready(o.th)
                 /\ \E todo : call' = [call EXCEPT ![p].pc = "notifyPush",
                                         ![p].todo = todo, ![p].pushing = h]
  BY DEF NotifyDependent, TheTask
<1> HIDE DEF th
<1>5. ASSUME NEW g \in TaskHandler, tasks' = [tasks EXCEPT ![h] = g],
             NeedsRecruiter(g) => HasRecruiter(h)', NEW t \in Task, Present(t)
      PROVE  HandlerKept(t)
  <2>1. tasks'[t] = IF t = h THEN g ELSE tasks[t]
    BY <1>2, <1>5
  <2>2. CASE t # h
    BY <1>5, <2>1, <2>2, SameHandler
  <2>3. CASE t = h
    BY <1>1, <1>5, <2>1, <2>3, NoTaskAssumption DEF HandlerKept, Present
  <2> QED BY <2>2, <2>3
<1>6. CASE /\ th.in_degrees # 0 /\ tasks' = [tasks EXCEPT ![h] = th]
           /\ \E todo : ContinueNotify(p, todo)
  BY <1>2, <1>3, <1>5, <1>6 DEF NeedsRecruiter
<1>7. ASSUME NEW o \in Recruitments(h, th), RecruitNode(h, o), tasks' = [tasks EXCEPT ![h] = o.th]
      PROVE  /\ \A t \in Task : Present(t) => HandlerKept(t)
             /\ Ready(o.th) => SettledHandler(tasks'[h])
  <2>1. o.th \in TaskHandler
    BY <1>1, <1>7, Recruited
  <2>2. /\ NeedsRecruiter(o.th) => \E r \in Request : Enlists(r, h, o.th)
        /\ Ready(o.th) => o.th.request = NoRequest
    BY <1>1, <1>7, RecruitedWaits
  <2>3. ASSUME NEW r \in Request, Enlists(r, h, o.th) PROVE HasRecruiter(h)'
    <3>1. recruiter'[r] = [pc |-> "spawned", task |-> h]
      BY <2>3, InvParts DEF Enlists
    <3> QED BY <3>1 DEF HasRecruiter
  <2>4. tasks'[h] = o.th
    BY <1>2, <1>7
  <2>5. Ready(o.th) => SettledHandler(tasks'[h])
    BY <2>2, <2>4 DEF Ready, SettledHandler
  <2>6. \A t \in Task : Present(t) => HandlerKept(t)
    BY <1>5, <1>7, <2>1, <2>2, <2>3
  <2> QED BY <2>5, <2>6
<1>8. ASSUME NEW todo,
             call' = [call EXCEPT ![p].pc = "notifyPush", ![p].todo = todo, ![p].pushing = h]
      PROVE  call'[p].pushing = h
  BY <1>2, <1>8 DEF Call
<1>9. ASSUME NEW o \in Recruitments(h, th),
             RecruitNode(h, o), tasks' = [tasks EXCEPT ![h] = o.th],
             \/ \E todo : ContinueNotify(p, todo)
             \/ /\ Ready(o.th)
                /\ \E todo : call' = [call EXCEPT ![p].pc = "notifyPush",
                                        ![p].todo = todo, ![p].pushing = h]
      PROVE  /\ \A t \in Task : Present(t) => HandlerKept(t)
             /\ call'[p].pc = "notifyPush" => call'[p].pushing = h /\ SettledHandler(tasks'[h])
  BY <1>3, <1>7, <1>8, <1>9
<1> QED BY <1>4, <1>6, <1>9

\* A handler that is inserted.
LEMMA InsertHandlers ==
  ASSUME ManagerInv, TrackInv, OneJob, OneChain, NEW p \in Thread, InsertTask(p), InCall(p)
  PROVE  \E u \in Task :
           /\ u = call[p].task /\ ~Released(u) /\ Present(u)'
           /\ \A t \in Task : Present(t) => HandlerKept(t)
           /\ call'[p].ready => SettledHandler(tasks'[u])
           /\ NeedsRecruiter(tasks'[u]) => HasRecruiter(u)'
<1> DEFINE th == call[p].th
<1>1. PICK u \in Task : u = call[p].task
  BY AtPoint DEF InsertTask, WithTask, CallPoint
<1>2. /\ call[p].pc = "insert" /\ tasks' = [tasks EXCEPT ![u] = th]
      /\ Return(p, TRUE, Ready(th))
  BY <1>1 DEF InsertTask, At, TheTask
<1>3. /\ Accepting(p) /\ ~Present(u) /\ th \in TaskHandler
      /\ tasks \in [Task -> TaskHandler \cup {NoTask}]
  BY <1>1, <1>2, FirstPoints, ThreadParts, InvParts
  DEF Validating, CallSound, HandlerSound, DraftSound
<1>4. /\ NeedsRecruiter(th) => HasRecruiter(u)
      /\ Ready(th) => th.request = NoRequest
  BY <1>1, <1>2 DEF OneChain, OnceDraft
<1>5. call'[p].ready => Ready(th)
  BY <1>2, ThreadParts DEF Return, NoCall
<1>6. \A t \in Task : tasks'[t] = IF t = u THEN th ELSE tasks[t]
  BY <1>2, <1>3
<1>7. ~Released(u)
  BY <1>3 DEF OneChain, Settled
<1>8. ASSUME NEW t \in Task, Present(t) PROVE HandlerKept(t)
  BY <1>3, <1>6, <1>8, SameHandler
<1>9. HasRecruiter(u) => HasRecruiter(u)'
  BY RecruitersInCall
<1> HIDE DEF th
<1>10. call'[p].ready => SettledHandler(tasks'[u])
  BY <1>4, <1>5, <1>6 DEF Ready, SettledHandler
<1>11. Present(u)'
  BY <1>3, <1>6, NoTaskAssumption DEF Present
<1> QED BY <1>1, <1>4, <1>6, <1>7, <1>8, <1>9, <1>10, <1>11

LEMMA DraftInCall ==
  ASSUME ManagerInv, TrackInv, NodesKnown, OneJob, OneChain, NEW p \in Thread, InCall(p)
  PROVE  \A q \in Thread : OnceDraft(q)'
<1>1. CallMove(p) /\ CallStep(p)
  BY InCallMoves, InCallPoint
<1>2. \A t \in Task : HasRecruiter(t) => HasRecruiter(t)'
  BY RecruitersInCall
<1>3. ASSUME NEW q \in Thread, q # p PROVE OnceDraft(q)'
  <2>1. call'[q] = call[q] /\ OnceDraft(q)
    BY <1>1, <1>3 DEF CallMove, OneChain
  <2>2. call[q].pc = "insert" => call[q].task \in Task
    BY ThreadParts DEF CallSound, WithTask, CallPoint
  <2>3. ASSUME call[q].pc = "insert", HasRecruiter(call[q].task)
        PROVE  \E r \in Request : /\ recruiter'[r].task = call[q].task
                                  /\ recruiter'[r].pc \in {"spawned", "waiting", "panicked"}
    <3>1. PICK t \in Task : t = call[q].task
      BY <2>2, <2>3
    <3> QED BY <1>2, <2>3, <3>1 DEF HasRecruiter
  <2> QED BY <2>1, <2>3 DEF OnceDraft, HasRecruiter
<1>4. OnceDraft(p)'
  <2> SUFFICES ASSUME call'[p].pc = "insert"
               PROVE  /\ NeedsRecruiter(call'[p].th) =>
                           \E r \in Request : /\ recruiter'[r].task = call'[p].task
                                              /\ recruiter'[r].pc = "spawned"
                      /\ Ready(call'[p].th) => call'[p].th.request = NoRequest
    BY DEF OnceDraft, HasRecruiter
  <2> DEFINE u == call[p].task
  <2>1. /\ call'[p].task = u
        /\ \/ call[p].pc = "recruit"
           \/ call[p].pc = "deps"
    BY <1>1, FirstPoints DEF CallMove, WithTask, CallPoint, Validating
  <2>2. CASE call[p].pc = "deps"
    <3> DEFINE th == [call[p].th EXCEPT !.deps = [d \in Needs[u] |-> FALSE],
                                        !.in_degrees = Cardinality(Needs[u])]
    <3>1. /\ ValidateDependencies(p) /\ call[p].th \in TaskHandler /\ u \in Task
          /\ Needs[u] # {} /\ call[p] \in Call /\ call \in [Thread -> Call]
      BY <1>1, <2>2, ThreadParts
      DEF CallStep, ValidateTask, AddTask, CloneHandler, RecruitForNew, InsertTask, UpdateTask,
      RetryTask, RetryPush, FailTask, DoneTask, NotifyNobody, NotifyDependent, NotifyPush, At,
      CallSound, DraftSound, NodesKnown, WithTask, CallPoint
    <3>2. Cardinality(Needs[u]) # 0
      BY <3>1, TaskConstantsAssumption, FS_EmptySet
    <3>3. th.in_degrees # 0
      BY <3>1, <3>2 DEF TaskHandler
    <3> HIDE DEF th
    <3>4. Build(p, "insert", th) \/ Return(p, FALSE, FALSE)
      BY <3>1 DEF ValidateDependencies, TheTask, th
    <3>5. call'[p].th = th
      <4>1. CASE Build(p, "insert", th)
        BY <3>1, <4>1 DEF Build, Call
      <4>2. CASE Return(p, FALSE, FALSE)
        BY <3>1, <4>2 DEF Return, NoCall
      <4> QED BY <3>4, <4>1, <4>2
    <3> QED BY <3>3, <3>5 DEF NeedsRecruiter, Ready
  <2>3. CASE call[p].pc = "recruit"
    <3> DEFINE th == call[p].th
    <3>1. /\ RecruitForNew(p) /\ HandlerSound(u, th, completed) /\ u \in Task
          /\ th.request = NoRequest /\ call[p] \in Call /\ call \in [Thread -> Call]
      BY <1>1, <2>3, ThreadParts
      DEF CallStep, ValidateTask, AddTask, CloneHandler, ValidateDependencies, InsertTask, UpdateTask,
      RetryTask, RetryPush, FailTask, DoneTask, NotifyNobody, NotifyDependent, NotifyPush, At,
      CallSound, OneJob, FirstDraft, WithTask, CallPoint
    <3>2. PICK o \in Recruitments(u, th) :
            RecruitNode(u, o) /\ (Build(p, "insert", o.th) \/ Return(p, FALSE, FALSE))
      BY <3>1 DEF RecruitForNew, TheTask
    <3>3. /\ NeedsRecruiter(o.th) => \E r \in Request : Enlists(r, u, o.th)
          /\ Ready(o.th) => o.th.request = NoRequest
      BY <3>1, <3>2, RecruitedWaits
    <3>4. call'[p].th = o.th
      <4>1. CASE Build(p, "insert", o.th)
        BY <3>1, <4>1 DEF Build, Call
      <4>2. CASE Return(p, FALSE, FALSE)
        BY <3>1, <4>2 DEF Return, NoCall
      <4> QED BY <3>2, <4>1, <4>2
    <3>5. ASSUME NEW r \in Request, Enlists(r, u, o.th)
          PROVE  recruiter'[r].task = u /\ recruiter'[r].pc = "spawned"
      BY <3>5, InvParts DEF Enlists
    <3> QED BY <2>1, <3>3, <3>4, <3>5
  <2> QED BY <2>1, <2>2, <2>3
<1> QED BY <1>3, <1>4

\* What a step inside TasksManagement queues was released before.
LEMMA QueueInCall ==
  ASSUME ManagerInv, NEW p \in Thread, InCall(p), NEW t \in Task, Queued(t)'
  PROVE  \/ Queued(t)
         \/ call[p].pc = "retryPush" /\ t = call[p].task
         \/ call[p].pc = "notifyPush" /\ t = call[p].pushing
<1>1. CallStep(p) /\ task_queue \in Seq(Task)
  BY InCallPoint, InvParts
<1>2. ASSUME NEW u \in Task, Push(u), popped' = popped PROVE Queued(t) \/ t = u
  <2>1. /\ Len(task_queue) \in Nat /\ DOMAIN task_queue = 1..Len(task_queue)
        /\ DOMAIN task_queue' = 1..(Len(task_queue) + 1)
        /\ \A i \in 1..Len(task_queue) : task_queue'[i] = task_queue[i]
        /\ task_queue'[Len(task_queue) + 1] = u
    BY <1>1, <1>2, AppendProperties, LenProperties DEF Push
  <2> QED BY <1>2, <2>1 DEF Queued, ToSet
<1>3. CASE RetryPush(p)
  <2>1. call[p].pc = "retryPush" /\ call[p].task \in Task /\ Push(call[p].task) /\ popped' = popped
    BY <1>3, ThreadParts DEF RetryPush, At, TheTask, CallSound, WithTask, CallPoint
  <2> QED BY <1>2, <2>1
<1>4. CASE NotifyPush(p)
  <2>1. /\ call[p].pc = "notifyPush" /\ call[p].pushing \in Task /\ Push(call[p].pushing)
        /\ popped' = popped
    BY <1>4, ThreadParts DEF NotifyPush, At, CallSound
  <2> QED BY <1>2, <2>1
<1>5. CASE UNCHANGED <<task_queue, popped>>
  <2>1. task_queue' = task_queue /\ popped' = popped
    BY <1>5
  <2> QED BY <2>1 DEF Queued, ToSet
<1> QED BY <1>1, <1>3, <1>4, <1>5
    DEF CallStep, ValidateTask, AddTask, CloneHandler, ValidateDependencies, InsertTask,
    RecruitForNew, UpdateTask, RetryTask, FailTask, DoneTask, NotifyNobody, NotifyDependent

LEMMA ReleasedInCall ==
  ASSUME ManagerInv, TrackInv, OneJob, NEW p \in Thread, InCall(p), NEW t \in Task, Released(t)'
  PROVE  \/ Released(t)
         \/ call[p].pc = "insert" /\ t = call[p].task /\ call'[p].ready
         \/ call[p].pc = "notify" /\ call'[p].pc = "notifyPush" /\ t = call'[p].pushing
<1>1. dispatches' = dispatches
  BY DEF InCall
<1>2. ASSUME NEW q \in Thread, InHand(q, t)', ~Released(t)
      PROVE  \/ call[p].pc = "insert" /\ t = call[p].task /\ call'[p].ready
             \/ call[p].pc = "notify" /\ call'[p].pc = "notifyPush" /\ t = call'[p].pushing
  BY <1>2, HandsInCall DEF Released
<1>3. ASSUME NEW q \in Thread, Follows(q, t)' PROVE Released(t)
  BY <1>3, HandsInCall DEF Released
<1>4. ASSUME NEW r \in Request, Recruits(r, t)' PROVE Released(t)
  BY <1>4, RecruitersInCall DEF Released
<1>5. Queued(t)' => Released(t)
  BY QueueInCall DEF Released, InHand, Follows, At
<1>6. dispatches'[t] > 0 => Released(t)
  BY <1>1 DEF Released
<1> QED BY <1>2, <1>3, <1>4, <1>5, <1>6 DEF Released

\* The table, once every handler is kept:
LEMMA SettledInCall ==
  ASSUME ManagerInv, TrackInv, OneJob, OneChain, NEW p \in Thread, InCall(p),
         \A t \in Task : Present(t) => HandlerKept(t), NEW t \in Task
  PROVE  /\ Released(t) => Settled(t)'
         /\ Present(t) => (AwaitsNode(t)' => HasRecruiter(t)')
         /\ Present(t)' => Present(t) \/ (call[p].pc = "insert" /\ t = call[p].task)
<1>1. /\ KeysMove(p) /\ thread' = thread /\ spent' = spent
      /\ HasRecruiter(t) => HasRecruiter(t)'
  BY InCallMoves, InCallPoint, RecruitersInCall
<1>2. Present(t)' => Present(t) \/ (call[p].pc = "insert" /\ t = call[p].task)
  BY <1>1 DEF KeysMove
<1>3. ASSUME Released(t) PROVE Settled(t)'
  <2>1. Settled(t)
    BY <1>3 DEF OneChain
  <2>2. CASE Present(t)
    <3>1. Present(t)' /\ SettledHandler(tasks'[t])
      BY <1>3, <2>2 DEF HandlerKept
    <3> QED BY <1>1, <2>1, <3>1 DEF Settled, Present
  <2>3. CASE ~Present(t)
    <3>1. \A q \in Thread : ~Accepting(q) /\ ~Accepting(q)'
      BY <1>1, <2>1, <2>3 DEF Settled, Accepting
    <3>2. ~Present(t)'
      BY <1>2, <2>3, <3>1, FirstPoints DEF Validating
    <3> QED BY <1>1, <2>1, <3>1, <3>2 DEF Settled
  <2> QED BY <2>2, <2>3
<1>4. ASSUME Present(t), AwaitsNode(t)' PROVE HasRecruiter(t)'
  <2>1. NeedsRecruiter(tasks[t]) \/ HasRecruiter(t)'
    BY <1>4 DEF HandlerKept, AwaitsNode
  <2> QED BY <1>1, <1>4, <2>1 DEF OneChain, AwaitsNode
<1> QED BY <1>2, <1>3, <1>4

LEMMA OnceInCall ==
  ASSUME ManagerInv, TrackInv, NodesKnown, OneJob, OneChain, NEW p \in Thread, InCall(p)
  PROVE  OneChain'
<1>1. CallStep(p) /\ thread' = thread /\ spent' = spent
  BY InCallPoint
<1>2. \A q \in Thread : OnceDraft(q)'
  BY DraftInCall
<1>3. ASSUME call[p].pc \notin {"insert", "notify"}, \A t \in Task : Present(t) => HandlerKept(t)
      PROVE  OneChain'
  <2>1. ASSUME NEW t \in Task PROVE Released(t)' => Settled(t)'
    BY <1>3, ReleasedInCall, SettledInCall
  <2>2. ASSUME NEW t \in Task PROVE AwaitsNode(t)' => HasRecruiter(t)'
    <3>1. AwaitsNode(t)' => Present(t)'
      BY DEF AwaitsNode
    <3> QED BY <1>3, <3>1, SettledInCall
  <2> QED BY <1>2, <2>1, <2>2 DEF OneChain
<1>4. CASE \/ ValidateTask(p) \/ AddTask(p) \/ CloneHandler(p) \/ ValidateDependencies(p)
           \/ RecruitForNew(p) \/ NotifyPush(p)
  <2>1. tasks' = tasks /\ call[p].pc \notin {"insert", "notify"}
    BY <1>4 DEF ValidateTask, AddTask, CloneHandler, ValidateDependencies, RecruitForNew,
       NotifyPush, At
  <2> QED BY <1>3, <2>1, SameHandler
<1>5. CASE UpdateTask(p) \/ RetryTask(p) \/ RetryPush(p) \/ FailTask(p) \/ DoneTask(p)
  <2>1. call[p].pc \notin {"insert", "notify"}
    BY <1>5 DEF UpdateTask, RetryTask, RetryPush, FailTask, DoneTask, At
  <2> QED BY <1>3, <1>5, <2>1, PlainHandlers
<1>6. CASE NotifyNobody(p)
  <2>1. /\ \A t \in Task : Present(t) => HandlerKept(t)
        /\ call[p].pc = "notify" /\ call'[p].pc # "notifyPush"
    <3>1. tasks' = tasks /\ call[p].pc = "notify" /\ Return(p, TRUE, FALSE)
      BY <1>6 DEF NotifyNobody, At
    <3>2. call'[p].pc = "returned"
      BY <3>1, ThreadParts DEF Return, NoCall
    <3> QED BY <3>1, <3>2, SameHandler
  <2>2. ASSUME NEW t \in Task PROVE Released(t)' => Settled(t)'
    BY <2>1, ReleasedInCall, SettledInCall
  <2>3. ASSUME NEW t \in Task PROVE AwaitsNode(t)' => HasRecruiter(t)'
    <3>1. AwaitsNode(t)' => Present(t)'
      BY DEF AwaitsNode
    <3> QED BY <2>1, <3>1, SettledInCall
  <2> QED BY <1>2, <2>2, <2>3 DEF OneChain
<1>7. CASE InsertTask(p)
  <2>1. PICK u \in Task :
          /\ u = call[p].task /\ ~Released(u) /\ Present(u)'
          /\ \A t \in Task : Present(t) => HandlerKept(t)
          /\ call'[p].ready => SettledHandler(tasks'[u])
          /\ NeedsRecruiter(tasks'[u]) => HasRecruiter(u)'
    BY <1>7, InsertHandlers
  <2>2. call[p].pc = "insert" /\ spent.submits = 1
    BY <1>7, FirstPoints DEF InsertTask, At, Validating
  <2>3. call'[p].ready => Settled(u)'
    BY <1>1, <2>1, <2>2 DEF Settled
  <2>4. ASSUME NEW t \in Task PROVE Released(t)' => Settled(t)'
    BY <2>1, <2>2, <2>3, ReleasedInCall, SettledInCall
  <2>5. ASSUME NEW t \in Task PROVE AwaitsNode(t)' => HasRecruiter(t)'
    <3>1. CASE t = u
      BY <2>1, <3>1 DEF AwaitsNode
    <3>2. CASE t # u
      <4>1. AwaitsNode(t)' => Present(t)'
        BY DEF AwaitsNode
      <4> QED BY <2>1, <3>2, <4>1, SettledInCall
    <3> QED BY <3>1, <3>2
  <2> QED BY <1>2, <2>4, <2>5 DEF OneChain
<1>8. ASSUME NEW h \in Task, NotifyDependent(p, h) PROVE OneChain'
  <2>1. /\ \A t \in Task : Present(t) => HandlerKept(t)
        /\ call'[p].pc = "notifyPush" => call'[p].pushing = h /\ SettledHandler(tasks'[h])
    BY <1>8, NotifyHandlers
  <2>2. call[p].pc = "notify" /\ Present(h) /\ spent.submits = 1
    <3>1. Present(h)
      BY <1>8, CountsDown
    <3> QED BY <1>8, <3>1 DEF NotifyDependent, At, OneJob, FirstHandler
  <2>3. call'[p].pc = "notifyPush" => Settled(h)'
    <3>1. Present(h)'
      BY <2>1, <2>2 DEF HandlerKept
    <3> QED BY <1>1, <2>1, <2>2, <3>1 DEF Settled
  <2>4. ASSUME NEW t \in Task PROVE Released(t)' => Settled(t)'
    BY <2>1, <2>2, <2>3, ReleasedInCall, SettledInCall
  <2>5. ASSUME NEW t \in Task PROVE AwaitsNode(t)' => HasRecruiter(t)'
    <3>1. AwaitsNode(t)' => Present(t)'
      BY DEF AwaitsNode
    <3> QED BY <2>1, <2>2, <3>1, SettledInCall
  <2> QED BY <1>2, <2>4, <2>5 DEF OneChain
<1> QED BY <1>1, <1>4, <1>5, <1>6, <1>7, <1>8 DEF CallStep


\* Outside of TasksManagement: what thread p, the queue and the nodes get.
LEMMA ReleasedThread ==
  ASSUME NEW p \in Thread,
         \A r \in Request : recruiter'[r].pc = "pushing" => recruiter'[r] = recruiter[r],
         \A q \in Thread \ {p} : thread'[q] = thread[q] /\ call'[q] = call[q],
         NEW t \in Task, Released(t)'
  PROVE  \/ Released(t)
         \/ InHand(p, t)' \/ Follows(p, t)' \/ Queued(t)' \/ dispatches'[t] > 0
<1>1. ASSUME NEW q \in Thread \ {p} PROVE /\ InHand(q, t)' => InHand(q, t)
                                          /\ Follows(q, t)' => Follows(q, t)
  BY <1>1 DEF InHand, Follows, Accepting, At, Running
<1>2. \A r \in Request : Recruits(r, t)' => Recruits(r, t)
  BY DEF Recruits
<1> QED BY <1>1, <1>2 DEF Released

\* When it gets nothing that was not released, and leaves the table alone:
LEMMA OnceThread ==
  ASSUME OneChain, NEW p \in Thread, UNCHANGED <<tasks, recruiter>>,
         spent'.submits = spent.submits,
         \A q \in Thread \ {p} : thread'[q] = thread[q] /\ call'[q] = call[q],
         Accepting(p)' => Accepting(p), call'[p].pc # "insert",
         \A t \in Task : InHand(p, t)' \/ Follows(p, t)' \/ Queued(t)' \/ dispatches'[t] > 0
                           => Released(t)
  PROVE  OneChain'
<1>1. ASSUME NEW t \in Task, Released(t)' PROVE Settled(t)'
  <2>1. Released(t)
    BY <1>1, ReleasedThread
  <2>2. \A q \in Thread : Accepting(q)' => Accepting(q)
    BY DEF Accepting
  <2>3. Settled(t)
    BY <2>1 DEF OneChain
  <2> QED BY <2>2, <2>3 DEF Settled, Present
<1>2. \A t \in Task : AwaitsNode(t)' => HasRecruiter(t)'
  BY DEF OneChain, AwaitsNode, HasRecruiter, Present
<1>3. \A q \in Thread : OnceDraft(q)'
  BY DEF OneChain, OnceDraft, HasRecruiter
<1> QED BY <1>1, <1>2, <1>3 DEF OneChain

\* The thread ends:
LEMMA OnceEnds ==
  ASSUME ManagerInv, OneChain, NEW p \in Thread, Ends(p), UNCHANGED <<tasks, recruiter, dispatches>>,
         spent'.submits = spent.submits, \A t \in Task : Queued(t)' => Released(t)
  PROVE  OneChain'
<1>1. thread \in [Thread -> ThreadState] /\ call \in [Thread -> Call]
  BY ThreadParts
<1>2. /\ \A q \in Thread \ {p} : thread'[q] = thread[q] /\ call'[q] = call[q]
      /\ thread'[p].kind = "idle" /\ thread'[p].at = "calling" /\ call'[p].pc = "free"
  BY <1>1 DEF Ends, Idle, NoCall
<1>3. ~Accepting(p)' /\ \A t \in Task : ~InHand(p, t)' /\ ~Follows(p, t)'
  BY <1>2 DEF InHand, Follows, Accepting, At, Running
<1>4. \A t \in Task : dispatches'[t] > 0 => Released(t)
  BY DEF Released
<1> QED BY <1>2, <1>3, <1>4, OnceThread

\* No thread moves:
LEMMA OnceStill ==
  ASSUME OneChain, UNCHANGED <<thread, call, tasks, recruiter, dispatches>>,
         spent'.submits = spent.submits, \A t \in Task : Queued(t)' => Queued(t)
  PROVE  OneChain'
<1>1. ASSUME NEW t \in Task PROVE Released(t)' => Released(t)
  BY DEF Released, InHand, Follows, Recruits, Accepting, At, Running
<1>2. \A t \in Task : Released(t)' => Settled(t)'
  BY <1>1 DEF OneChain, Settled, Present, Accepting
<1>3. \A t \in Task : AwaitsNode(t)' => HasRecruiter(t)'
  BY DEF OneChain, AwaitsNode, HasRecruiter, Present
<1>4. \A q \in Thread : OnceDraft(q)'
  BY DEF OneChain, OnceDraft, HasRecruiter
<1> QED BY <1>2, <1>3, <1>4 DEF OneChain


LEMMA OnceEndings ==
  ASSUME ManagerInv, OneChain, NEW p \in Thread,
         AcceptJob(p) \/ AcceptPanics(p) \/ ClientHangsUp(p) \/ UpdateEnds(p) \/ NoReceiver(p)
  PROVE  OneChain'
<1>1. /\ Ends(p) /\ UNCHANGED <<tasks, recruiter, dispatches, popped>>
      /\ spent'.submits = spent.submits
  BY InvParts DEF AcceptJob, PushTasks, AcceptPanics, ClientHangsUp, UpdateEnds, NoReceiver,
     historyVars
<1>2. ASSUME NEW t \in Task, Queued(t)' PROVE Released(t)
  <2>1. CASE task_queue' = task_queue
    BY <1>1, <1>2, <2>1 DEF Queued, Released
  <2>2. CASE AcceptJob(p)
    <3>1. /\ Accepting(p) /\ thread[p].accepted \in Seq(Task) /\ task_queue \in Seq(Task)
          /\ task_queue' = task_queue \o thread[p].accepted
      BY <2>2, ThreadParts, InvParts DEF AcceptJob, PushTasks
    <3> DEFINE acc == thread[p].accepted
    <3> HIDE DEF acc
    <3>2. acc \in Seq(Task) /\ task_queue' = task_queue \o acc
      BY <3>1 DEF acc
    <3>3. ASSUME t \in ToSet(task_queue \o acc) PROVE t \in ToSet(task_queue) \/ t \in ToSet(acc)
      <4>1. /\ Len(acc) \in Nat /\ DOMAIN acc = 1..Len(acc)
            /\ Len(task_queue) \in Nat /\ DOMAIN task_queue = 1..Len(task_queue)
            /\ DOMAIN (task_queue \o acc) = 1..(Len(task_queue) + Len(acc))
        BY <3>1, <3>2, ConcatProperties, LenProperties
      <4>2. \A i \in 1..(Len(task_queue) + Len(acc)) :
              (task_queue \o acc)[i] = IF i <= Len(task_queue) THEN task_queue[i]
                                       ELSE acc[i - Len(task_queue)]
        BY <3>1, <3>2, ConcatProperties
      <4>3. PICK i \in 1..(Len(task_queue) + Len(acc)) : (task_queue \o acc)[i] = t
        BY <3>3, <4>1 DEF ToSet
      <4>4. \/ i \in 1..Len(task_queue) /\ task_queue[i] = t
            \/ i - Len(task_queue) \in 1..Len(acc) /\ acc[i - Len(task_queue)] = t
        BY <4>1, <4>2, <4>3
      <4> QED BY <4>1, <4>4 DEF ToSet
    <3>4. t \in ToSet(acc) => InHand(p, t)
      BY <3>1 DEF InHand, acc
    <3>5. Queued(t) \/ t \in ToSet(acc)
      BY <1>1, <1>2, <3>2, <3>3 DEF Queued
    <3> QED BY <3>4, <3>5 DEF Released
  <2> QED BY <2>1, <2>2 DEF AcceptPanics, ClientHangsUp, UpdateEnds, NoReceiver
<1> QED BY <1>1, <1>2, OnceEnds

\* run_task and the reports.
LEMMA OnceRuns ==
  ASSUME ManagerInv, OneChain, NEW p \in Thread,
         \/ SendTask(p) \/ SendFails(p) \/ RunContinues(p) \/ RunNextTask(p)
         \/ (\E d \in Task : CollectInput(p, d))
         \/ \E t \in Task : \E i \in DOMAIN executing[t] : ReportArrives(p, t, i)
  PROVE  OneChain'
<1>1. /\ thread \in [Thread -> ThreadState] /\ call \in [Thread -> Call]
      /\ thread[p] \in ThreadState /\ Idle.kind = "idle" /\ Idle.at = "calling"
      /\ spent \in [{"submits", "announces", "errors", "hangups"} -> Nat]
      /\ dispatches \in [Task -> Nat] /\ popped \in Task \cup {NoId}
  BY ThreadParts, InvParts DEF Idle, ManagerInv, DomainManagerTypeOK
<1>2. UNCHANGED <<tasks, recruiter, task_queue>> /\ (popped' = popped \/ popped' = NoId)
  BY DEF SendTask, SendFails, RunContinues, RunNextTask, TakeNextTask,
     CollectInput, ReportArrives, AnotherBranch, CancelNextTask
<1>3. spent'.submits = spent.submits
  BY <1>1 DEF SendTask, SendFails, RunContinues, RunNextTask, CollectInput, ReportArrives
<1>4. \A t \in Task : Queued(t)' => Queued(t)
  BY <1>2, NullsAssumption DEF Queued
<1>5. CASE UNCHANGED <<thread, call, dispatches>>
  BY <1>2, <1>3, <1>4, <1>5, OnceStill
<1>6. ASSUME \A q \in Thread \ {p} : thread'[q] = thread[q] /\ call'[q] = call[q],
             thread'[p].kind \in {"run", "update"}, call'[p].pc \in {"free", "update", "retry"},
             \A t \in Task : thread'[p].at \in {"inputs", "failing"} /\ thread'[p].task = t
                               => Released(t),
             \A t \in Task : call'[p].pc \in {"update", "retry"} /\ call'[p].task = t
                               => Released(t),
             \A t \in Task : dispatches'[t] > 0 => Released(t)
      PROVE  OneChain'
  <2>2. ~Accepting(p)' /\ call'[p].pc # "insert"
    BY <1>6 DEF Accepting
  <2>3. ASSUME NEW t \in Task, InHand(p, t)' PROVE Released(t)
    BY <1>6, <2>3 DEF InHand, Accepting, At, Running
  <2>4. ASSUME NEW t \in Task, Follows(p, t)' PROVE Released(t)
    BY <1>6, <2>4 DEF Follows
  <2>5. \A t \in Task : Queued(t)' => Released(t)
    BY <1>4 DEF Released
  <2> QED BY <1>2, <1>3, <1>6, <2>2, <2>3, <2>4, <2>5, OnceThread
<1>7. ASSUME NEW s, NEW c, thread' = [thread EXCEPT ![p] = s], call' = [call EXCEPT ![p] = c]
       PROVE  /\ thread'[p] = s /\ call'[p] = c
              /\ \A q \in Thread \ {p} : thread'[q] = thread[q] /\ call'[q] = call[q]
  BY <1>1, <1>7
<1>8. dispatches' = dispatches => \A t \in Task : dispatches'[t] > 0 => Released(t)
  BY DEF Released
<1> DEFINE Holds(s, c) ==
             /\ s.kind \in {"run", "update"} /\ c.pc \in {"free", "update", "retry"}
             /\ \A t \in Task : s.at \in {"inputs", "failing"} /\ s.task = t => Released(t)
             /\ \A t \in Task : c.pc \in {"update", "retry"} /\ c.task = t => Released(t)
           SentReleased == \A t \in Task : dispatches'[t] > 0 => Released(t)
<1>9. ASSUME NEW s, NEW c, thread' = [thread EXCEPT ![p] = s], call' = [call EXCEPT ![p] = c],
              Holds(s, c), SentReleased
       PROVE  OneChain'
  <2>1. thread'[p] = s /\ call'[p] = c
    BY <1>7, <1>9
  <2>2. \A q \in Thread \ {p} : thread'[q] = thread[q] /\ call'[q] = call[q]
    BY <1>7, <1>9
  <2> QED BY <1>6, <1>9, <2>1, <2>2
<1> HIDE DEF Holds, SentReleased
<1>10. CASE RunNextTask(p)
  <2>1. CASE Present(popped)
    <3> DEFINE s == [Idle EXCEPT !.kind = "run", !.at = "inputs", !.task = popped,
                             !.snapshot = tasks[popped],
                             !.inputs = IF popped \in NeedsOutputs THEN DOMAIN tasks[popped].deps
                                        ELSE {}]
    <3>1. Spawn(p, s, NoCall) /\ s.kind = "run" /\ s.at = "inputs" /\ s.task = popped
      BY <1>10, <2>1 DEF RunNextTask, Idle
    <3> HIDE DEF s
    <3>2. \A t \in Task : s.task = t => Released(t)
      BY <3>1 DEF Released, Queued
    <3> DEFINE c == NoCall
    <3>3. c.pc = "free" /\ dispatches' = dispatches
      BY <1>10 DEF RunNextTask, NoCall, historyVars
    <3>4. thread' = [thread EXCEPT ![p] = s] /\ call' = [call EXCEPT ![p] = c]
      BY <3>1 DEF Spawn
    <3> HIDE DEF c
    <3>5. Holds(s, c) /\ SentReleased
      BY <1>8, <3>1, <3>2, <3>3 DEF Holds, SentReleased
    <3> QED BY <1>9, <3>4, <3>5, Zenon
  <2>2. CASE ~Present(popped)
    BY <1>5, <1>10, <2>2 DEF RunNextTask, historyVars
  <2> QED BY <2>1, <2>2
<1>11. ASSUME NEW t \in Task, NEW i \in DOMAIN executing[t], ReportArrives(p, t, i)
      PROVE  OneChain'
  <2> DEFINE m == ExecutionReport(executing[t][i].node, Head(executing[t][i].left))
             s == [Idle EXCEPT !.kind = "update"]
  <2>1. Spawn(p, s, UpdateCall(t, m)) /\ dispatches' = dispatches
    BY <1>11 DEF ReportArrives
  <2>2. s.kind = "update" /\ s.at = "calling"
    BY DEF Idle
  <2> HIDE DEF m, s
  <2> DEFINE c == UpdateCall(t, m)
  <2>3. c.pc = "update" /\ c.task = t
    BY DEF UpdateCall, NoCall
  <2>4. dispatches[t] > 0
    <3>1. executing[t] # <<>>
      BY <1>11
    <3> QED BY <3>1 DEF ManagerInv, ReportsSound
  <2>5. Released(t)
    BY <2>4 DEF Released
  <2>6. thread' = [thread EXCEPT ![p] = s] /\ call' = [call EXCEPT ![p] = c]
    BY <2>1 DEF Spawn
  <2> HIDE DEF c
  <2>7. Holds(s, c) /\ SentReleased
    BY <1>8, <2>1, <2>2, <2>3, <2>5 DEF Holds, SentReleased
  <2> QED BY <1>9, <2>6, <2>7, Zenon
<1>12. ASSUME NEW d \in Task, CollectInput(p, d) PROVE OneChain'
  <2>1. Running(p, "inputs") /\ dispatches' = dispatches
    BY <1>12 DEF CollectInput
  <2>2. CASE Ends(p)
    <3>1. \A t \in Task : Queued(t)' => Released(t)
      BY <1>4 DEF Released
    <3> QED BY <1>2, <1>3, <2>1, <2>2, <3>1, OnceEnds
  <2>3. CASE thread' = [thread EXCEPT ![p].inputs = @ \ {d}] /\ call' = call
    <3> DEFINE s == [thread[p] EXCEPT !.inputs = @ \ {d}]
               c == call[p]
    <3>1. s.kind = "run" /\ s.at = "inputs" /\ s.task = thread[p].task
      BY <1>1, <2>1 DEF Running, ThreadState
    <3>2. thread' = [thread EXCEPT ![p] = s] /\ call' = [call EXCEPT ![p] = c]
      BY <1>1, <2>3
    <3> HIDE DEF s
    <3>3. c.pc = "free"
      BY <2>1, ThreadParts DEF Running, ThreadSound
    <3>4. \A t \in Task : s.task = t => Released(t)
      BY <2>1, <3>1 DEF Released, InHand
    <3> HIDE DEF c
    <3>5. Holds(s, c) /\ SentReleased
      BY <1>8, <2>1, <3>1, <3>3, <3>4 DEF Holds, SentReleased
    <3> QED BY <1>9, <3>2, <3>5, Zenon
  <2> QED BY <1>12, <2>2, <2>3 DEF CollectInput
<1>13. CASE SendTask(p) \/ SendFails(p)
  <2> DEFINE u == thread[p].task
  <2>1. Running(p, "inputs") /\ u \in Task
    BY <1>13, ThreadParts DEF SendTask, SendFails, ReadyToSend, Running, ThreadSound
  <2>2. Released(u)
    BY <2>1 DEF Released, InHand
  <2>3. \A m : UpdateCall(u, m).pc = "update" /\ UpdateCall(u, m).task = u
    BY DEF UpdateCall, NoCall
  <2>4. PICK c : call' = [call EXCEPT ![p] = c] /\ c.pc = "update" /\ c.task = u
    <3>1. CASE SendTask(p)
      <4>1. PICK m : call' = [call EXCEPT ![p] = UpdateCall(u, m)]
        BY <3>1, Zenon DEF SendTask
      <4> QED BY <2>3, <4>1, Zenon
    <3>2. CASE SendFails(p)
      <4>1. PICK m : call' = [call EXCEPT ![p] = UpdateCall(u, m)]
        BY <3>2, Zenon DEF SendFails
      <4> QED BY <2>3, <4>1, Zenon
    <3> QED BY <1>13, <3>1, <3>2
  <2>5. ASSUME NEW t \in Task, dispatches'[t] > 0 PROVE Released(t)
    <3>1. t = u \/ dispatches'[t] = dispatches[t]
      BY <1>1, <1>13, <2>1 DEF SendTask, SendFails, historyVars
    <3> QED BY <2>2, <2>5, <3>1 DEF Released
  <2>6. PICK s : /\ thread' = [thread EXCEPT ![p] = s] /\ s.kind = "run"
                 /\ s.at \in {"calling", "failing"} /\ (s.at = "failing" => s.task = u)
    <3>1. CASE SendTask(p)
      <4>1. /\ [Idle EXCEPT !.kind = "run"].kind = "run"
            /\ [Idle EXCEPT !.kind = "run"].at = "calling"
        BY DEF Idle
      <4> QED BY <3>1, <4>1 DEF SendTask
    <3>2. CASE SendFails(p)
      <4>1. /\ [Idle EXCEPT !.kind = "run", !.at = "failing", !.task = u].kind = "run"
            /\ [Idle EXCEPT !.kind = "run", !.at = "failing", !.task = u].at = "failing"
            /\ [Idle EXCEPT !.kind = "run", !.at = "failing", !.task = u].task = u
        BY DEF Idle
      <4> QED BY <3>2, <4>1 DEF SendFails
    <3> QED BY <1>13, <3>1, <3>2
  <2> HIDE DEF u
  <2>7. Holds(s, c) /\ SentReleased
    BY <2>2, <2>4, <2>5, <2>6 DEF Holds, SentReleased
  <2> QED BY <1>9, <2>4, <2>6, <2>7, Zenon
<1>14. CASE RunContinues(p)
  <2>1. thread[p].kind = "run" /\ dispatches' = dispatches
    BY <1>14 DEF RunContinues, historyVars
  <2>2. CASE Ends(p)
    <3>1. \A t \in Task : Queued(t)' => Released(t)
      BY <1>4 DEF Released
    <3> QED BY <1>2, <1>3, <2>1, <2>2, <3>1, OnceEnds
  <2>3. CASE thread[p].at = "failing"
    <3> DEFINE s == [thread[p] EXCEPT !.at = "calling"]
               u == thread[p].task
    <3>1. s.kind = "run" /\ s.at = "calling"
      BY <1>1, <2>1 DEF ThreadState
    <3> DEFINE c == RetryCall(u)
    <3>2. thread' = [thread EXCEPT ![p] = s] /\ call' = [call EXCEPT ![p] = c]
      BY <1>1, <1>14, <2>3 DEF RunContinues
    <3> HIDE DEF s
    <3>3. c.pc = "retry" /\ c.task = u
      BY DEF RetryCall, NoCall
    <3>4. \A t \in Task : u = t => Released(t)
      BY <2>3 DEF Released, Follows
    <3> HIDE DEF u, c
    <3>5. Holds(s, c) /\ SentReleased
      BY <1>8, <2>1, <3>1, <3>3, <3>4 DEF Holds, SentReleased
    <3> QED BY <1>9, <3>2, <3>5, Zenon
  <2> QED BY <1>14, <2>2, <2>3 DEF RunContinues
<1> QED BY <1>10, <1>11, <1>12, <1>13, <1>14


LEMMA OnceAccepts ==
  ASSUME ManagerInv, OneChain, NEW p \in Thread, AcceptNext(p)
  PROVE  OneChain'
<1> DEFINE th == thread[p]
           u == JobTasks[th.job][th.index]
           acc == IF call[p].ready THEN Append(th.accepted, u) ELSE th.accepted
<1>1. /\ Accepting(p) /\ call[p].pc = "returned" /\ th \in ThreadState
      /\ UNCHANGED <<tasks, recruiter, spent, task_queue, popped, dispatches>>
      /\ thread \in [Thread -> ThreadState] /\ call \in [Thread -> Call]
      /\ th.accepted \in Seq(Task) /\ u \in Task
  <2>1. th.kind = "accept" /\ th.at = "calling"
    BY DEF AcceptNext, Accepting
  <2>2. th.job \in Job /\ th.index \in DOMAIN JobTasks[th.job]
    BY <2>1, ThreadParts DEF ThreadSound
  <2>3. u \in Task
    BY <2>2, JobsAssumption, ElementOfSeq, LenProperties
  <2> HIDE DEF u
  <2> QED BY <2>3, ThreadParts DEF AcceptNext, At, historyVars
<1>2. /\ \A q \in Thread \ {p} : thread'[q] = thread[q] /\ call'[q] = call[q]
      /\ thread'[p].kind = "accept" /\ thread'[p].at # "failing"
      /\ call'[p].pc \in {"free", "validate"}
      /\ \/ thread'[p].accepted = th.accepted
         \/ call[p].ok /\ thread'[p].accepted = acc
  <2> DEFINE list == JobTasks[th.job]
  <2>1. NoCall.pc = "free" /\ ValidateCall(list[th.index + 1]).pc = "validate"
    BY DEF NoCall, ValidateCall
  <2>2. CASE ~call[p].ok
    <3>1. /\ thread' = [thread EXCEPT ![p].at = "reject"]
          /\ call' = [call EXCEPT ![p] = NoCall]
      BY <2>2 DEF AcceptNext
    <3> QED BY <1>1, <2>1, <3>1 DEF ThreadState, Accepting
  <2>3. CASE call[p].ok /\ th.index = Len(list)
    <3>1. /\ thread' = [thread EXCEPT ![p].at = "respond", ![p].accepted = acc]
          /\ call' = [call EXCEPT ![p] = NoCall]
      BY <2>3 DEF AcceptNext
    <3> HIDE DEF acc
    <3> QED BY <1>1, <2>1, <2>3, <3>1 DEF ThreadState, Accepting
  <2>4. CASE call[p].ok /\ th.index # Len(list)
    <3>1. /\ thread' = [thread EXCEPT ![p].index = @ + 1, ![p].accepted = acc]
          /\ call' = [call EXCEPT ![p] = ValidateCall(list[th.index + 1])]
      BY <2>4 DEF AcceptNext
    <3>2. th.at = "calling"
      BY DEF AcceptNext
    <3> HIDE DEF acc
    <3> QED BY <1>1, <2>1, <2>4, <3>1, <3>2 DEF ThreadState, Accepting
  <2> QED BY <2>2, <2>3, <2>4
<1>3. ASSUME NEW t \in Task, t \in ToSet(thread'[p].accepted) PROVE Released(t)
  <2>1. CASE t \in ToSet(th.accepted)
    BY <1>1, <2>1 DEF Released, InHand
  <2>2. CASE t \notin ToSet(th.accepted)
    <3>1. call[p].ok /\ call[p].ready /\ t \in ToSet(Append(th.accepted, u))
      BY <1>2, <1>3, <2>2
    <3>2. t = u
      <4> DEFINE s == th.accepted
      <4>1. s \in Seq(Task) /\ u \in Task
        BY <1>1
      <4> HIDE DEF s, u
      <4>2. /\ Len(s) \in Nat /\ DOMAIN s = 1..Len(s)
            /\ DOMAIN Append(s, u) = 1..(Len(s) + 1)
            /\ \A i \in 1..Len(s) : Append(s, u)[i] = s[i]
            /\ Append(s, u)[Len(s) + 1] = u
        BY <4>1, LenProperties, AppendProperties
      <4> QED BY <2>2, <3>1, <4>2 DEF ToSet, s
    <3> QED BY <1>1, <3>1, <3>2 DEF Released, InHand, At
  <2> QED BY <2>1, <2>2
<1>4. ASSUME NEW t \in Task, InHand(p, t)' PROVE Released(t)
  BY <1>2, <1>3, <1>4 DEF InHand, Accepting, At, Running
<1>5. ASSUME NEW t \in Task PROVE ~Follows(p, t)'
  BY <1>2 DEF Follows
<1>6. \A t \in Task : Queued(t)' \/ dispatches'[t] > 0 => Released(t)
  BY <1>1 DEF Released, Queued
<1> QED BY <1>1, <1>2, <1>4, <1>5, <1>6, OnceThread

\* The first submission finds nothing released.
LEMMA OnceArrives ==
  ASSUME ManagerInv, OneChain, NEW p \in Thread, NEW j \in Job, JobArrives(p, j),
         spent'.submits <= 1
  PROVE  OneChain'
<1>1. /\ thread \in [Thread -> ThreadState] /\ call \in [Thread -> Call]
      /\ UNCHANGED <<tasks, recruiter, task_queue, dispatches>> /\ popped' = NoId
      /\ spent.submits # 1
  <2>1. spent.submits \in Nat /\ spent'.submits = spent.submits + 1
    BY InvParts DEF JobArrives
  <2> QED BY <2>1, ThreadParts DEF JobArrives, AnotherBranch, CancelNextTask
<1>2. \A t \in Task : ~Released(t)
  BY <1>1 DEF OneChain, Settled
<1>3. /\ \A q \in Thread \ {p} : thread'[q] = thread[q] /\ call'[q] = call[q]
      /\ call'[p].pc \in {"free", "validate"}
      /\ thread'[p].accepted = <<>> /\ thread'[p].kind = "accept"
      /\ thread'[p].at # "failing"
  <2>1. CASE JobTasks[j] = <<>>
    <3> DEFINE s == [Idle EXCEPT !.kind = "accept", !.at = "respond", !.job = j]
    <3>1. s.accepted = <<>> /\ s.kind = "accept" /\ s.at = "respond" /\ NoCall.pc = "free"
      BY DEF Idle, NoCall
    <3>2. thread' = [thread EXCEPT ![p] = s] /\ call' = [call EXCEPT ![p] = NoCall]
      BY <2>1 DEF JobArrives, Spawn
    <3> HIDE DEF s
    <3> QED BY <1>1, <3>1, <3>2
  <2>2. CASE JobTasks[j] # <<>>
    <3> DEFINE s == [Idle EXCEPT !.kind = "accept", !.job = j, !.index = 1]
               c == ValidateCall(JobTasks[j][1])
    <3>1. c.pc = "validate" /\ s.accepted = <<>> /\ s.kind = "accept" /\ s.at = "calling"
      BY DEF Idle, NoCall, ValidateCall
    <3>2. thread' = [thread EXCEPT ![p] = s] /\ call' = [call EXCEPT ![p] = c]
      BY <2>2 DEF JobArrives, Spawn
    <3> HIDE DEF s, c
    <3> QED BY <1>1, <3>1, <3>2
  <2> QED BY <2>1, <2>2
<1>4. ASSUME NEW t \in Task PROVE ~Released(t)'
  <2>1. ~InHand(p, t)' /\ ~Follows(p, t)'
    BY <1>3 DEF InHand, Follows, Accepting, At, Running, ToSet
  <2>2. ~Queued(t)' /\ ~(dispatches'[t] > 0)
    BY <1>1, <1>2, NullsAssumption DEF Queued, Released
  <2> QED BY <1>1, <1>2, <1>3, <2>1, <2>2, ReleasedThread
<1>5. \A t \in Task : AwaitsNode(t)' => HasRecruiter(t)'
  BY <1>1 DEF OneChain, AwaitsNode, HasRecruiter, Present
<1>6. \A q \in Thread : OnceDraft(q)'
  BY <1>1, <1>3 DEF OneChain, OnceDraft, HasRecruiter
<1> QED BY <1>4, <1>5, <1>6 DEF OneChain

LEMMA OnceLoop ==
  ASSUME ManagerInv, OneChain,
         \/ \E g \in Registrar : InRegistration(g)
         \/ MonitorJob \/ PopTask \/ NothingToRun \/ WakeUp \/ OtherEvent
         \/ \E g \in Registrar, a \in Announcements : NodeAnnounced(g, a)
         \/ UNCHANGED vars
  PROVE  OneChain'
<1>1. UNCHANGED <<thread, call, tasks, recruiter, dispatches>>
  BY DEF InRegistration, MonitorJob, MonitorTasks, MonitorEnds, PopTask, PopNextTask,
     NothingToRun, WakeUp, OtherEvent, NodeAnnounced, tasksVars, loopVars, historyVars, vars
<1>2. spent' = spent \/ spent' = [spent EXCEPT !.announces = @ + 1]
  BY DEF InRegistration, MonitorJob, PopTask, NothingToRun, WakeUp, OtherEvent, NodeAnnounced,
     loopVars, vars
<1>3. spent'.submits = spent.submits
  BY <1>2, InvParts
<1>4. ASSUME NEW t \in Task, Queued(t)' PROVE Queued(t)
  <2>1. CASE PopTask
    <3>1. /\ task_queue \in Seq(Task) /\ task_queue # <<>>
          /\ popped' = Head(task_queue) /\ task_queue' = Tail(task_queue)
      BY <2>1, InvParts DEF PopTask, PopNextTask
    <3>2. /\ Len(task_queue) \in Nat \ {0} /\ DOMAIN task_queue = 1..Len(task_queue)
          /\ Head(task_queue) = task_queue[1]
          /\ DOMAIN Tail(task_queue) = 1..(Len(task_queue) - 1)
          /\ \A i \in 1..(Len(task_queue) - 1) : Tail(task_queue)[i] = task_queue[i + 1]
      BY <3>1, LenProperties, HeadTailProperties, EmptySeq
    <3> QED BY <1>4, <3>1, <3>2 DEF Queued, ToSet
  <2>2. CASE task_queue' = task_queue /\ popped' \in {popped, NoId}
    BY <1>4, <2>2, NullsAssumption DEF Queued
  <2> QED BY <2>1, <2>2
      DEF InRegistration, MonitorJob, MonitorTasks, MonitorEnds, NothingToRun, WakeUp,
      OtherEvent, NodeAnnounced, AnotherBranch, CancelNextTask, tasksVars, vars
<1> QED BY <1>1, <1>3, <1>4, OnceStill


\* remove_job takes away all there is, and nobody accepts anything any more.
LEMMA OnceRemoves ==
  ASSUME ManagerInv, TrackInv, OneJob, OneChain, NEW p \in Thread, RejectJob(p)
  PROVE  OneChain'
<1> DEFINE ids == ToSet(JobList(p))
<1>1. /\ Accepting(p) /\ spent' = spent
      /\ tasks' = [t \in Task |-> IF t \in ids THEN NoTask ELSE tasks[t]]
      /\ \E R : recruiter' = [r \in Request |->
           IF r \in R /\ recruiter[r].pc \in {"spawned", "waiting"}
           THEN [recruiter[r] EXCEPT !.pc = "aborted"] ELSE recruiter[r]]
      /\ UNCHANGED <<task_queue, popped, dispatches>>
  BY DEF RejectJob, RemoveJob, AbortRecruiters, JobList, historyVars
<1>2. /\ \A q \in Thread \ {p} : thread'[q] = thread[q] /\ call'[q] = call[q]
      /\ thread'[p].kind = "idle" /\ thread'[p].at = "calling" /\ call'[p].pc = "free"
  <2>1. thread \in [Thread -> ThreadState] /\ call \in [Thread -> Call]
    BY ThreadParts
  <2> QED BY <2>1 DEF RejectJob, Ends, Idle, NoCall
<1>3. First(p)
  BY DEF OneJob
<1>4. spent'.submits = 1 /\ \A q \in Thread : ~Accepting(q)'
  BY <1>1, <1>2, <1>3 DEF First, Accepting
<1>5. \A t \in Task : ~Present(t)'
  BY <1>1, <1>3 DEF First, Present
<1>6. \A r \in Request : recruiter'[r].pc = "pushing" => recruiter'[r] = recruiter[r]
  <2>1. recruiter \in [Request -> Recruiter]
    BY InvParts
  <2> QED BY <1>1, <2>1 DEF Recruiter
<1>7. ASSUME NEW q \in Thread PROVE OnceDraft(q)'
  <2>1. CASE q = p
    BY <1>2, <2>1 DEF OnceDraft
  <2>2. CASE q # p
    <3>1. call[q].pc # "insert"
      BY <1>1, <2>2, FirstPoints DEF Validating
    <3> QED BY <1>2, <2>2, <3>1 DEF OnceDraft
  <2> QED BY <2>1, <2>2
<1> QED BY <1>4, <1>5, <1>7 DEF OneChain, Settled, AwaitsNode

\* A recruiter: it waits or panics, ...
LEMMA OnceWaits ==
  ASSUME ManagerInv, OneChain, NEW r \in Request, NEW pc \in {"waiting", "panicked"},
         UNCHANGED <<thread, call, tasks, spent, task_queue, popped, dispatches>>,
         recruiter' = [recruiter EXCEPT ![r].pc = pc]
  PROVE  OneChain'
<1>1. /\ recruiter \in [Request -> Recruiter]
      /\ recruiter'[r].pc = pc /\ recruiter'[r].task = recruiter[r].task
      /\ \A q \in Request \ {r} : recruiter'[q] = recruiter[q]
  BY InvParts DEF Recruiter
<1>2. ASSUME NEW t, HasRecruiter(t) PROVE HasRecruiter(t)'
  BY <1>1, <1>2 DEF HasRecruiter
<1>3. ASSUME NEW t \in Task, Released(t)' PROVE Released(t)
  <2>1. \A q \in Request : Recruits(q, t)' => Recruits(q, t)
    BY <1>1 DEF Recruits
  <2>2. \A q \in Thread : (InHand(q, t)' => InHand(q, t)) /\ (Follows(q, t)' => Follows(q, t))
    BY DEF InHand, Follows, Accepting, At, Running
  <2> QED BY <1>3, <2>1, <2>2 DEF Released, Queued
<1>4. \A t \in Task : Released(t)' => Settled(t)'
  BY <1>3 DEF OneChain, Settled, Present, Accepting
<1>5. ASSUME NEW t \in Task, AwaitsNode(t)' PROVE HasRecruiter(t)'
  <2>1. HasRecruiter(t)
    BY <1>5 DEF OneChain, AwaitsNode, Present
  <2> QED BY <1>2, <2>1
<1>6. ASSUME NEW q \in Thread PROVE OnceDraft(q)'
  <2>1. OnceDraft(q) /\ call' = call
    BY DEF OneChain
  <2>2. ASSUME HasRecruiter(call[q].task)
        PROVE  \E s \in Request : /\ recruiter'[s].task = call[q].task
                                  /\ recruiter'[s].pc \in {"spawned", "waiting", "panicked"}
    BY <1>1, <2>2 DEF HasRecruiter
  <2> QED BY <2>1, <2>2 DEF OnceDraft, HasRecruiter
<1> QED BY <1>4, <1>5, <1>6 DEF OneChain

\* ... queues its task, ...
LEMMA OnceQueues ==
  ASSUME ManagerInv, OneChain, NEW r \in Request, RecruiterPush(r),
         UNCHANGED <<thread, spent, dispatches>>
  PROVE  OneChain'
<1> DEFINE u == recruiter[r].task
<1>1. /\ recruiter \in [Request -> Recruiter] /\ recruiter[r].pc = "pushing" /\ u \in Task
      /\ recruiter' = [recruiter EXCEPT ![r].pc = "ended"]
      /\ UNCHANGED <<tasks, popped, call>> /\ Push(u)
  BY InvParts DEF RecruiterPush, RecruiterSound
<1>2. /\ recruiter'[r].pc = "ended"
      /\ \A q \in Request \ {r} : recruiter'[q] = recruiter[q]
  BY <1>1 DEF Recruiter
<1>3. \A q \in Request : recruiter[q].pc \in {"spawned", "waiting", "panicked"}
        => recruiter'[q] = recruiter[q]
  BY <1>1, <1>2
<1> HIDE DEF u
<1>4. ASSUME NEW t \in Task, Queued(t)' PROVE Queued(t) \/ t = u
  <2>1. /\ Len(task_queue) \in Nat /\ DOMAIN task_queue = 1..Len(task_queue)
        /\ DOMAIN task_queue' = 1..(Len(task_queue) + 1)
        /\ \A i \in 1..Len(task_queue) : task_queue'[i] = task_queue[i]
        /\ task_queue'[Len(task_queue) + 1] = u
    BY <1>1, InvParts, AppendProperties, LenProperties DEF Push
  <2> QED BY <1>1, <1>4, <2>1 DEF Queued, ToSet
<1>5. Recruits(r, u)
  BY <1>1 DEF Recruits, u
<1>6. ASSUME NEW t \in Task, Released(t)' PROVE Released(t)
  <2>1. \A q \in Request : Recruits(q, t)' => Recruits(q, t)
    BY <1>2 DEF Recruits
  <2>2. \A q \in Thread : (InHand(q, t)' => InHand(q, t)) /\ (Follows(q, t)' => Follows(q, t))
    BY <1>1 DEF InHand, Follows, Accepting, At, Running
  <2> QED BY <1>1, <1>4, <1>5, <1>6, <2>1, <2>2 DEF Released
<1>7. \A t \in Task : Released(t)' => Settled(t)'
  BY <1>1, <1>6 DEF OneChain, Settled, Present, Accepting
<1>8. \A t \in Task : AwaitsNode(t)' => HasRecruiter(t)'
  <2> SUFFICES ASSUME NEW t \in Task, AwaitsNode(t)' PROVE HasRecruiter(t)'
    OBVIOUS
  <2>1. HasRecruiter(t)
    BY <1>1 DEF OneChain, AwaitsNode, Present
  <2> QED BY <1>3, <2>1 DEF HasRecruiter
<1>9. ASSUME NEW q \in Thread PROVE OnceDraft(q)'
  <2>1. OnceDraft(q) /\ call' = call
    BY <1>1 DEF OneChain
  <2>2. ASSUME HasRecruiter(call[q].task)
        PROVE  \E s \in Request : /\ recruiter'[s].task = call[q].task
                                  /\ recruiter'[s].pc \in {"spawned", "waiting", "panicked"}
    BY <1>3, <2>2 DEF HasRecruiter
  <2> QED BY <2>1, <2>2 DEF OnceDraft, HasRecruiter
<1> QED BY <1>7, <1>8, <1>9 DEF OneChain

\* ... or gets the node its handler waits for, which had not been released.
LEMMA OnceResumes ==
  ASSUME ManagerInv, TrackInv, NodesKnown, OneJob, OneChain, NEW r \in Request,
         RecruiterResume(r), UNCHANGED <<thread, spent, dispatches>>,
         Present(recruiter[r].task)
  PROVE  OneChain'
<1>1. PICK t \in Task : t = recruiter[r].task
  BY InvParts DEF RecruiterResume, RecruiterSound
<1>2. /\ recruiter \in [Request -> Recruiter] /\ tasks \in [Task -> TaskHandler \cup {NoTask}]
      /\ recruiter[r].pc = "waiting" /\ channel[r].node \in Node
      /\ tasks' = [tasks EXCEPT ![t].receiver = channel[r].node, ![t].request = NoRequest]
      /\ recruiter' = [recruiter EXCEPT ![r].pc = "pushing"]
      /\ UNCHANGED <<task_queue, popped, call>>
  BY <1>1, InvParts DEF RecruiterResume, TakeNode, NodesKnown
<1>3. /\ recruiter'[r].pc = "pushing" /\ recruiter'[r].task = t
      /\ \A q \in Request \ {r} : recruiter'[q] = recruiter[q]
  BY <1>1, <1>2 DEF Recruiter
<1>4. tasks[t].request = r /\ tasks[t].in_degrees = 0 /\ spent.submits = 1
  <2>1. Kept(r) /\ FirstHandler(t)
    BY <1>2 DEF OneJob
  <2>2. ASSUME NEW p \in Thread, Inserts(p, r) PROVE FALSE
    <3>1. Validating(p) /\ call[p].task = t
      BY <1>1, <2>2 DEF Inserts, Validating
    <3> QED BY <1>1, <3>1, FirstPoints
  <2>3. tasks[t].request = r /\ r # NoRequest
    BY <1>1, <1>2, <2>1, <2>2, NullsAssumption DEF Kept
  <2>4. tasks[t] \in TaskHandler
    BY <1>1, <1>2 DEF Present
  <2> QED BY <1>1, <2>1, <2>3, <2>4 DEF FirstHandler, Unrecruited, TaskHandler
<1>5. Present(t) /\ Present(t)' /\ SettledHandler(tasks'[t])
  <2>1. Present(t) /\ tasks[t] \in TaskHandler /\ channel[r].node # NoNode
    BY <1>1, <1>2, NoNodeAssumption DEF Present
  <2>2. /\ tasks'[t] = [tasks[t] EXCEPT !.receiver = channel[r].node, !.request = NoRequest]
        /\ tasks'[t] \in TaskHandler
    BY <1>2, <2>1 DEF TaskHandler
  <2>3. Present(t)'
    BY <2>2, NoTaskAssumption DEF Present
  <2> QED BY <1>4, <2>1, <2>2, <2>3 DEF SettledHandler, TaskHandler
<1>6. \A u \in Task \ {t} : tasks'[u] = tasks[u]
  BY <1>2
<1>7. ASSUME NEW u \in Task \ {t}, Released(u)' PROVE Released(u)
  <2>1. \A q \in Request : Recruits(q, u)' => Recruits(q, u)
    BY <1>3, <1>7 DEF Recruits
  <2>2. \A q \in Thread : (InHand(q, u)' => InHand(q, u)) /\ (Follows(q, u)' => Follows(q, u))
    BY <1>2 DEF InHand, Follows, Accepting, At, Running
  <2> QED BY <1>2, <1>7, <2>1, <2>2 DEF Released, Queued
<1>8. ASSUME NEW u \in Task, Released(u)' PROVE Settled(u)'
  <2>1. CASE u = t
    BY <1>4, <1>5, <2>1 DEF Settled
  <2>2. CASE u # t
    <3>1. Settled(u)
      BY <1>7, <1>8, <2>2 DEF OneChain
    <3> QED BY <1>6, <2>2, <3>1 DEF Settled, Present, Accepting
  <2> QED BY <2>1, <2>2
<1>9. ASSUME NEW u \in Task \ {t}, HasRecruiter(u) PROVE HasRecruiter(u)'
  <2>1. PICK q \in Request : recruiter[q].task = u /\ recruiter[q].pc \in {"spawned", "waiting", "panicked"}
    BY <1>9 DEF HasRecruiter
  <2>2. q # r
    BY <1>1, <2>1
  <2> QED BY <1>3, <2>1, <2>2 DEF HasRecruiter
<1>10. ASSUME NEW u \in Task, AwaitsNode(u)' PROVE HasRecruiter(u)'
  <2>1. u # t
    BY <1>5, <1>10 DEF AwaitsNode, NeedsRecruiter, SettledHandler
  <2>2. HasRecruiter(u)
    BY <1>6, <1>10, <2>1 DEF OneChain, AwaitsNode, Present
  <2> QED BY <1>9, <2>1, <2>2
<1>11. ASSUME NEW q \in Thread PROVE OnceDraft(q)'
  <2> SUFFICES ASSUME call'[q].pc = "insert" PROVE OnceDraft(q)'
    BY DEF OnceDraft
  <2>1. OnceDraft(q) /\ call' = call
    BY <1>2 DEF OneChain
  <2>2. PICK u \in Task \ {t} : u = call[q].task
    BY <1>5, <2>1, FirstPoints DEF Validating
  <2>3. NeedsRecruiter(call[q].th) => HasRecruiter(u)'
    BY <1>9, <2>1, <2>2 DEF OnceDraft
  <2> QED BY <2>1, <2>2, <2>3 DEF OnceDraft, HasRecruiter
<1> QED BY <1>8, <1>10, <1>11 DEF OneChain

LEMMA OnceRecruiter ==
  ASSUME ManagerInv, TrackInv, NodesKnown, OneJob, OneChain, NEW r \in Request, InRecruiter(r)
  PROVE  OneChain'
<1>1. UNCHANGED <<thread, spent, dispatches>> /\ RecruiterStep(r)
  BY DEF InRecruiter, loopVars, historyVars
<1>2. CASE RecruiterRequest(r)
  BY <1>1, <1>2, OnceWaits DEF RecruiterRequest
<1>3. CASE RecruiterResume(r)
  <2>1. CASE ~Present(recruiter[r].task)
    BY <1>1, <1>3, <2>1, OnceWaits DEF RecruiterResume
  <2> QED BY <1>1, <1>3, <2>1, OnceResumes
<1>4. CASE RecruiterPush(r)
  BY <1>1, <1>4, OnceQueues
<1> QED BY <1>1, <1>2, <1>3, <1>4 DEF RecruiterStep

-----------------------------------------------------------------------------
LEMMA OnceInit == Init => OnceInv
<1> SUFFICES ASSUME Init PROVE OneChain
  BY DEF OnceInv
<1>1. /\ \A p \in Thread : thread[p] = Idle /\ call[p] = NoCall
      /\ \A t \in Task : ~Present(t) /\ dispatches[t] = 0 /\ ~Queued(t)
      /\ \A r \in Request : recruiter[r].pc = "unused"
  BY NullsAssumption DEF Init, TasksInit, Present, Queued, ToSet
<1>2. \A p \in Thread : /\ thread[p].kind = "idle" /\ thread[p].at = "calling"
                        /\ call[p].pc = "free"
  BY <1>1 DEF Idle, NoCall
<1>3. \A t \in Task : ~Released(t)
  BY <1>1, <1>2 DEF Released, InHand, Follows, Recruits, Accepting, At, Running
<1> QED BY <1>1, <1>2, <1>3 DEF OneChain, AwaitsNode, OnceDraft

LEMMA SubmitsGrow ==
  ASSUME ManagerInv, [Next]_vars
  PROVE  spent.submits \in Nat /\ spent'.submits \in Nat /\ spent.submits <= spent'.submits
<1>1. \/ spent' = spent
      \/ \E c \in {"submits", "announces", "errors", "hangups"} : spent' = [spent EXCEPT ![c] = @ + 1]
  <2>1. CASE LoopStep
    BY <2>1 DEF LoopStep, PopTask, RunNextTask, NothingToRun, WakeUp, loopVars
  <2>2. CASE Arrival
    BY <2>2 DEF Arrival, JobArrives, NodeAnnounced, OtherEvent, loopVars
  <2>3. ASSUME NEW p \in Thread, ThreadStep(p) \/ SendFails(p) \/ ClientHangsUp(p)
        PROVE  spent' = spent \/ \E c \in {"errors", "hangups"} : spent' = [spent EXCEPT ![c] = @ + 1]
    BY <2>3 DEF ThreadStep, InCall, AcceptNext, AcceptJob, RejectJob, AcceptPanics, UpdateEnds,
       CollectInput, NoReceiver, SendTask, RunContinues, SendFails, ClientHangsUp, loopVars
  <2>4. CASE \E p \in Thread, t \in Task : \E i \in DOMAIN executing[t] : ReportArrives(p, t, i)
    BY <2>4 DEF ReportArrives
  <2>5. CASE \/ \E r \in Request : InRecruiter(r)
             \/ \E g \in Registrar : InRegistration(g)
             \/ MonitorJob \/ UNCHANGED vars
    BY <2>5 DEF InRecruiter, InRegistration, MonitorJob, loopVars, vars
  <2> QED BY <2>1, <2>2, <2>3, <2>4, <2>5 DEF Next
<1>2. spent \in [{"submits", "announces", "errors", "hangups"} -> Nat]
  BY InvParts
<1> QED BY <1>1, <1>2

LEMMA OnceStep ==
  ManagerInv /\ TrackInv /\ RejectInv /\ NodesKnown /\ OnceInv /\ [Next]_vars => OnceInv'
<1> SUFFICES ASSUME ManagerInv, TrackInv, RejectInv, NodesKnown, OnceInv, [Next]_vars,
                    DistinctNames, spent'.submits <= 1
             PROVE  OneChain'
  BY DEF OnceInv, DistinctNames
<1>1. CASE spent.submits <= 1
  <2>1. OneJob /\ OneChain
    BY <1>1 DEF RejectInv, OnceInv
  <2>2. CASE LoopStep
    BY <2>1, <2>2, OnceLoop, OnceRuns DEF LoopStep
  <2>3. CASE Arrival
    BY <2>1, <2>3, OnceArrives, OnceLoop DEF Arrival
  <2>4. ASSUME NEW p \in Thread, ThreadStep(p) \/ SendFails(p) \/ ClientHangsUp(p)
        PROVE  OneChain'
    BY <2>1, <2>4, OnceInCall, OnceAccepts, OnceRemoves, OnceEndings, OnceRuns DEF ThreadStep
  <2>5. CASE \E p \in Thread, t \in Task : \E i \in DOMAIN executing[t] : ReportArrives(p, t, i)
    BY <2>1, <2>5, OnceRuns
  <2>6. CASE \E r \in Request : InRecruiter(r)
    BY <2>1, <2>6, OnceRecruiter
  <2>7. CASE (\E g \in Registrar : InRegistration(g)) \/ MonitorJob \/ UNCHANGED vars
    BY <2>1, <2>7, OnceLoop
  <2> QED BY <2>2, <2>3, <2>4, <2>5, <2>6, <2>7 DEF Next
<1>2. spent.submits <= spent'.submits
  BY SubmitsGrow
<1>3. spent.submits \in Nat /\ spent'.submits \in Nat
  BY SubmitsGrow
<1> QED BY <1>1, <1>2, <1>3

LEMMA OnceInvariant == Spec => []OnceInv
BY OnceInit, OnceStep, KnownInvariant, RejectInvariant, TrackInvariant, ManagerInvariant, PTL DEF Spec


\* A task that waits for a node has a thread that waits for one, in a job that
\* is submitted once: whoever finds it ready, validate_task or the Done loop,
\* spawns one at once when no node is known (recruit_node), before anybody else
\* can see the handler, and only that thread ends the wait.
THEOREM WaitingTasksHaveRecruiters == Spec => []WaitingTaskHasRecruiter
<1>1. OnceInv => WaitingTaskHasRecruiter
  <2> SUFFICES ASSUME OnceInv, OneSubmission PROVE WaitingTaskHasRecruiter
    BY DEF WaitingTaskHasRecruiter
  <2>1. \A t \in Task : AwaitsNode(t) => HasRecruiter(t)
    BY DEF OnceInv, OneSubmission, DistinctNames, OneChain
  <2> QED BY <2>1 DEF WaitingTaskHasRecruiter, AwaitsNode, NeedsRecruiter, HasRecruiter
<1> QED BY <1>1, OnceInvariant, PTL


-----------------------------------------------------------------------------
(* How often a task is sent, when one job is submitted once.               *)

\* Who has t in its hands, and the places of t in the queue, where 0 is that
\* of the id get_next_task has popped.
Hands(t) == {p \in Thread : InHand(p, t)} \cup {r \in Request : Recruits(r, t)}

Place(i) == IF i = 0 THEN popped ELSE task_queue[i]
Places(t) == {i \in 0 .. Len(task_queue) : Place(i) = t}

Counted(t) ==
  /\ IsFiniteSet(Hands(t))
  /\ dispatches[t] + Cardinality(Hands(t)) + Cardinality(Places(t)) <= 1 + retried[t]

CountInv == DistinctNames /\ spent.submits <= 1 => \A t \in Task : Counted(t)

\* What accept_job has collected: each task once, none that is still to come.
CollectedOnce(p) == Accepting(p) =>
  /\ IsInjective(thread[p].accepted)
  /\ thread[p].at = "calling" =>
       \A i \in DOMAIN thread[p].accepted :
         \E k \in DOMAIN JobList(p) : k < thread[p].index /\ thread[p].accepted[i] = JobList(p)[k]

CollectInv == DistinctNames => \A p \in Thread : CollectedOnce(p)

\* A step sends, queues, takes from the queue, finds ready or retries a task,
\* or nothing of it: none is in more hands or places for it than it may be.
HistoryKept(t) == dispatches'[t] = dispatches[t] /\ retried'[t] = retried[t]
NothingTaken(t) == Hands(t)' \subseteq Hands(t) /\ Places(t)' \subseteq Places(t) /\ HistoryKept(t)

CountMove(t) ==
  \/ NothingTaken(t)
  \/ /\ \E h \in Hands(t) : Hands(t)' \subseteq Hands(t) \ {h}
     /\ \E k : Places(t)' \subseteq Places(t) \cup {k}
     /\ HistoryKept(t)
  \/ /\ \E h \in Hands(t) : Hands(t)' \subseteq Hands(t) \ {h}
     /\ Places(t)' \subseteq Places(t)
     /\ dispatches'[t] = dispatches[t] + 1 /\ retried'[t] = retried[t]
  \/ /\ \E k \in Places(t) : Places(t)' \subseteq Places(t) \ {k}
     /\ \E h : Hands(t)' \subseteq Hands(t) \cup {h}
     /\ HistoryKept(t)
  \/ /\ ~Released(t)
     /\ \E h : Hands(t)' \subseteq Hands(t) \cup {h}
     /\ Places(t)' \subseteq Places(t) /\ HistoryKept(t)
  \/ /\ Hands(t)' \subseteq Hands(t)
     /\ \E k : Places(t)' \subseteq Places(t) \cup {k}
     /\ dispatches'[t] = dispatches[t] /\ retried'[t] = retried[t] + 1

LEMMA SetCounts ==
  ASSUME NEW S, IsFiniteSet(S), NEW T
  PROVE  /\ Cardinality(S) \in Nat
         /\ T \subseteq S =>
              IsFiniteSet(T) /\ Cardinality(T) \in Nat /\ Cardinality(T) <= Cardinality(S)
         /\ \A x \in S : T \subseteq S \ {x} =>
              IsFiniteSet(T) /\ Cardinality(T) \in Nat /\ Cardinality(T) + 1 <= Cardinality(S)
         /\ \A x : T \subseteq S \cup {x} =>
              IsFiniteSet(T) /\ Cardinality(T) \in Nat /\ Cardinality(T) <= Cardinality(S) + 1
<1>1. Cardinality(S) \in Nat
  BY FS_CardinalityType
<1>2. ASSUME NEW U, IsFiniteSet(U), T \subseteq U
      PROVE  IsFiniteSet(T) /\ Cardinality(T) \in Nat /\ Cardinality(T) <= Cardinality(U)
  BY <1>2, FS_Subset, FS_CardinalityType
<1>3. ASSUME NEW x \in S, T \subseteq S \ {x}
      PROVE  IsFiniteSet(T) /\ Cardinality(T) \in Nat /\ Cardinality(T) + 1 <= Cardinality(S)
  <2>1. IsFiniteSet(S \ {x}) /\ Cardinality(S \ {x}) = Cardinality(S) - 1
    BY FS_RemoveElement
  <2> QED BY <1>1, <1>2, <1>3, <2>1
<1>4. ASSUME NEW x, T \subseteq S \cup {x}
      PROVE  IsFiniteSet(T) /\ Cardinality(T) \in Nat /\ Cardinality(T) <= Cardinality(S) + 1
  <2> DEFINE U == S \cup {x}
  <2>1. IsFiniteSet(U) /\ Cardinality(U) = IF x \in S THEN Cardinality(S) ELSE Cardinality(S) + 1
    BY FS_AddElement
  <2> HIDE DEF U
  <2>2. Cardinality(U) \in Nat /\ Cardinality(U) <= Cardinality(S) + 1
    BY <1>1, <2>1
  <2>3. T \subseteq U
    BY <1>4 DEF U
  <2> QED BY <1>1, <1>2, <2>1, <2>2, <2>3
<1> QED BY <1>1, <1>2, <1>3, <1>4

LEMMA PlacesCount ==
  ASSUME ManagerInv, NEW t
  PROVE  IsFiniteSet(Places(t)) /\ Cardinality(Places(t)) \in Nat
<1>1. Len(task_queue) \in Nat
  BY InvParts, LenProperties
<1>2. IsFiniteSet(0 .. Len(task_queue))
  BY <1>1, FS_Interval
<1>3. Places(t) \subseteq 0 .. Len(task_queue)
  BY DEF Places
<1> QED BY <1>2, <1>3, SetCounts

LEMMA NothingYet ==
  ASSUME ManagerInv, NEW t \in Task, ~Released(t)
  PROVE  Hands(t) = {} /\ Places(t) = {} /\ dispatches[t] = 0
<1>1. Hands(t) = {}
  BY DEF Hands, Released
<1>2. Places(t) = {}
  <2>1. /\ task_queue \in Seq(Task) /\ Len(task_queue) \in Nat
        /\ DOMAIN task_queue = 1 .. Len(task_queue)
    BY InvParts, LenProperties
  <2>2. popped # t /\ \A i \in 1 .. Len(task_queue) : task_queue[i] # t
    BY <2>1 DEF Released, Queued, ToSet
  <2> QED BY <2>1, <2>2 DEF Places, Place
<1>3. dispatches[t] \in Nat /\ ~(dispatches[t] > 0)
  BY DEF Released, ManagerInv, DomainManagerTypeOK
<1> QED BY <1>1, <1>2, <1>3

LEMMA CountedAfter ==
  ASSUME ManagerInv, NEW t \in Task, Counted(t), CountMove(t)
  PROVE  Counted(t)'
<1> DEFINE H == Hands(t)  P == Places(t)
           h1 == Hands(t)'  q1 == Places(t)'
           d == dispatches[t]  e == retried[t]
<1>1. /\ d \in Nat /\ e \in Nat /\ IsFiniteSet(H) /\ IsFiniteSet(P)
      /\ Cardinality(H) \in Nat /\ Cardinality(P) \in Nat
      /\ d + Cardinality(H) + Cardinality(P) <= 1 + e
  BY PlacesCount, FS_CardinalityType DEF Counted, ManagerInv, DomainManagerTypeOK
<1>2. SUFFICES /\ IsFiniteSet(h1)
               /\ dispatches'[t] + Cardinality(h1) + Cardinality(q1) <= 1 + retried'[t]
  BY DEF Counted
<1>3. ASSUME ~Released(t) PROVE H = {} /\ P = {} /\ d = 0
  BY <1>3, NothingYet
<1>4. Cardinality({}) = 0
  BY FS_EmptySet
<1>5. /\ h1 \subseteq H => IsFiniteSet(h1) /\ Cardinality(h1) \in Nat /\ Cardinality(h1) <= Cardinality(H)
      /\ \A x \in H : h1 \subseteq H \ {x} =>
           IsFiniteSet(h1) /\ Cardinality(h1) \in Nat /\ Cardinality(h1) + 1 <= Cardinality(H)
      /\ \A x : h1 \subseteq H \cup {x} =>
           IsFiniteSet(h1) /\ Cardinality(h1) \in Nat /\ Cardinality(h1) <= Cardinality(H) + 1
  BY <1>1, SetCounts
<1>6. /\ q1 \subseteq P => Cardinality(q1) \in Nat /\ Cardinality(q1) <= Cardinality(P)
      /\ \A x \in P : q1 \subseteq P \ {x} =>
           Cardinality(q1) \in Nat /\ Cardinality(q1) + 1 <= Cardinality(P)
      /\ \A x : q1 \subseteq P \cup {x} =>
           Cardinality(q1) \in Nat /\ Cardinality(q1) <= Cardinality(P) + 1
  BY <1>1, SetCounts
<1>7. \/ /\ h1 \subseteq H /\ q1 \subseteq P
         /\ dispatches'[t] = d /\ retried'[t] = e
      \/ /\ \E h \in H : h1 \subseteq H \ {h}
         /\ \E k : q1 \subseteq P \cup {k}
         /\ dispatches'[t] = d /\ retried'[t] = e
      \/ /\ \E h \in H : h1 \subseteq H \ {h}
         /\ q1 \subseteq P
         /\ dispatches'[t] = d + 1 /\ retried'[t] = e
      \/ /\ \E k \in P : q1 \subseteq P \ {k}
         /\ \E h : h1 \subseteq H \cup {h}
         /\ dispatches'[t] = d /\ retried'[t] = e
      \/ /\ ~Released(t) /\ q1 \subseteq P
         /\ \E h : h1 \subseteq H \cup {h}
         /\ dispatches'[t] = d /\ retried'[t] = e
      \/ /\ h1 \subseteq H
         /\ \E k : q1 \subseteq P \cup {k}
         /\ dispatches'[t] = d /\ retried'[t] = e + 1
  BY DEF CountMove, NothingTaken, HistoryKept
<1> HIDE DEF H, P, h1, q1, d, e
<1> QED BY <1>1, <1>2, <1>3, <1>4, <1>5, <1>6, <1>7


\* The places of a task in the queue when it is left alone, or pushed to.
LEMMA PlacesStay ==
  ASSUME task_queue' = task_queue, popped' = popped \/ popped' = NoId, NEW t \in Task
  PROVE  Places(t)' \subseteq Places(t)
BY NullsAssumption DEF Places, Place

LEMMA PlacesPushed ==
  ASSUME ManagerInv, NEW u \in Task, Push(u), popped' = popped, NEW t \in Task
  PROVE  /\ Places(t)' \subseteq Places(t) \cup {Len(task_queue) + 1}
         /\ t # u => Places(t)' \subseteq Places(t)
<1>1. /\ Len(task_queue) \in Nat /\ Len(task_queue') = Len(task_queue) + 1
      /\ \A i \in 1 .. Len(task_queue) : task_queue'[i] = task_queue[i]
      /\ task_queue'[Len(task_queue) + 1] = u
  BY InvParts, AppendProperties, LenProperties DEF Push
<1>2. ASSUME NEW i \in Places(t)' PROVE i \in Places(t) \/ (i = Len(task_queue) + 1 /\ t = u)
  <2>1. i \in 0 .. Len(task_queue) + 1 /\ t = IF i = 0 THEN popped ELSE task_queue'[i]
    BY <1>1 DEF Places, Place
  <2> QED BY <1>1, <2>1 DEF Places, Place
<1> QED BY <1>2

LEMMA PlacesPopped ==
  ASSUME ManagerInv, PopNextTask, NEW t \in Task
  PROVE  Cardinality(Places(t)') \in Nat /\ Cardinality(Places(t)') <= Cardinality(Places(t))
<1>1. /\ popped = NoId /\ popped' = Head(task_queue) /\ task_queue' = Tail(task_queue)
      /\ task_queue \in Seq(Task) /\ task_queue # <<>>
  BY InvParts DEF PopNextTask, QueueFree
<1>2. /\ Len(task_queue) \in Nat \ {0} /\ Len(task_queue') = Len(task_queue) - 1
      /\ popped' = task_queue[1]
      /\ \A i \in 1 .. Len(task_queue) - 1 : task_queue'[i] = task_queue[i + 1]
  BY <1>1, LenProperties, HeadTailProperties, EmptySeq
<1> DEFINE S == Places(t)'
           f == [i \in S |-> i + 1]
<1>3. \A i \in S : i \in Nat /\ i + 1 \in Places(t)
  <2> SUFFICES ASSUME NEW i \in S PROVE i \in Nat /\ i + 1 \in Places(t)
    OBVIOUS
  <2>1. i \in 0 .. Len(task_queue) - 1 /\ t = IF i = 0 THEN popped' ELSE task_queue'[i]
    BY <1>2 DEF Places, Place
  <2>2. i \in Nat /\ i + 1 \in 1 .. Len(task_queue) /\ task_queue[i + 1] = t
    BY <1>2, <2>1
  <2> QED BY <1>2, <2>2 DEF Places, Place
<1> HIDE DEF S
<1>4. f \in Injection(S, Places(t))
  BY <1>3 DEF Injection, IsInjective
<1>5. IsFiniteSet(Places(t))
  BY PlacesCount
<1> HIDE DEF f
<1>6. Cardinality(S) \in Nat /\ Cardinality(S) <= Cardinality(Places(t))
  BY <1>4, <1>5, FS_Injection, FS_CardinalityType
<1> QED BY <1>6 DEF S

\* The hands a task is in when one thread moves.
LEMMA HandsThread ==
  ASSUME NEW p \in Thread,
         \A r \in Request : recruiter'[r].pc = "pushing" => recruiter'[r] = recruiter[r],
         \A q \in Thread \ {p} : thread'[q] = thread[q] /\ call'[q] = call[q],
         NEW t \in Task
  PROVE  /\ Hands(t)' \subseteq Hands(t) \cup {p}
         /\ ~InHand(p, t)' => Hands(t)' \subseteq Hands(t) \ {p}
         /\ (InHand(p, t)' => InHand(p, t)) => Hands(t)' \subseteq Hands(t)
         /\ InHand(p, t) => p \in Hands(t)
<1>1. ASSUME NEW q \in Thread \ {p} PROVE InHand(q, t)' => InHand(q, t)
  BY <1>1 DEF InHand, Accepting, At, Running
<1>2. \A r \in Request : Recruits(r, t)' => Recruits(r, t) /\ r # p
  BY NullsAssumption DEF Recruits
<1>3. p \in Hands(t)' => InHand(p, t)'
  BY NullsAssumption DEF Hands
<1> QED BY <1>1, <1>2, <1>3 DEF Hands

LEMMA NothingInHand ==
  ASSUME NEW p \in Thread, NEW t, thread'[p].kind \in {"idle", "run", "update"},
         thread'[p].at # "inputs", call'[p].pc \in {"free", "update", "retry"}
  PROVE  ~InHand(p, t)'
BY DEF InHand, Accepting, At, Running

\* Inside TasksManagement:
LEMMA CountInCall ==
  ASSUME ManagerInv, TrackInv, OneJob, OneChain, NEW p \in Thread, InCall(p), NEW t \in Task
  PROVE  CountMove(t)
<1>1. /\ CallStep(p) /\ thread' = thread /\ dispatches' = dispatches
      /\ retried' = IF call[p].pc = "retryPush" THEN [retried EXCEPT ![call[p].task] = @ + 1]
                    ELSE retried
      /\ retried \in [Task -> Nat]
  BY InCallPoint DEF InCall, At, TheTask, ManagerInv, DomainManagerTypeOK
<1>2. Hands(t)' \subseteq Hands(t) \cup {p}
  <2>1. \A q \in Thread \ {p} : InHand(q, t)' => InHand(q, t)
    BY HandsInCall
  <2>2. \A r \in Request : Recruits(r, t)' => Recruits(r, t)
    BY RecruitersInCall
  <2> QED BY <2>1, <2>2 DEF Hands
<1>3. /\ (InHand(p, t)' => InHand(p, t)) => Hands(t)' \subseteq Hands(t)
      /\ ~InHand(p, t)' => Hands(t)' \subseteq Hands(t) \ {p}
      /\ InHand(p, t) => p \in Hands(t)
  <2>1. p \in Hands(t)' => InHand(p, t)'
    BY NullsAssumption DEF Hands
  <2> QED BY <1>2, <2>1 DEF Hands
<1>4. /\ InHand(p, t)' =>
           \/ InHand(p, t) /\ call[p].pc # "notifyPush"
           \/ call[p].pc = "insert" /\ t = call[p].task /\ call'[p].ready
           \/ call[p].pc = "notify" /\ call'[p].pc = "notifyPush" /\ t = call'[p].pushing
  BY HandsInCall
<1>5. CASE UNCHANGED <<task_queue, popped>> /\ call[p].pc # "retryPush"
  <2>1. Places(t)' \subseteq Places(t) /\ HistoryKept(t)
    BY <1>1, <1>5, PlacesStay DEF HistoryKept
  <2>2. ASSUME InHand(p, t)', ~InHand(p, t) PROVE ~Released(t)
    <3>1. CASE InsertTask(p)
      BY <1>4, <2>2, <3>1, InsertHandlers DEF InsertTask, At
    <3>2. CASE \E h \in Task : NotifyDependent(p, h)
      <4>1. PICK h \in Task : NotifyDependent(p, h)
        BY <3>2
      <4>2. call[p].pc = "notify"
        BY <4>1 DEF NotifyDependent, At
      <4>3. t = h
        BY <1>4, <2>2, <4>1, <4>2, NotifyHandlers
      <4> QED BY <4>1, <4>3, NotReleasedYet
    <3>3. CASE NotifyNobody(p)
      <4>1. call[p].pc = "notify" /\ call'[p].pc = "returned"
        BY <3>3, ThreadParts DEF NotifyNobody, At, Return, NoCall
      <4> QED BY <1>4, <2>2, <4>1
    <3>4. CASE call[p].pc \notin {"insert", "notify"}
      BY <1>4, <2>2, <3>4
    <3> QED BY <1>1, <3>1, <3>2, <3>3, <3>4
        DEF CallStep, ValidateTask, AddTask, CloneHandler, ValidateDependencies, RecruitForNew,
        UpdateTask, RetryTask, RetryPush, FailTask, DoneTask, NotifyPush, At
  <2> QED BY <1>2, <1>3, <2>1, <2>2 DEF CountMove, NothingTaken
<1>6. CASE RetryPush(p)
  <2>1. PICK u \in Task : u = call[p].task
    BY <1>6, ThreadParts DEF RetryPush, At, CallSound, WithTask, CallPoint
  <2>2. call[p].pc = "retryPush" /\ Push(u) /\ popped' = popped
    BY <1>6, <2>1 DEF RetryPush, At, TheTask
  <2>3. Hands(t)' \subseteq Hands(t)
    BY <1>3, <1>4, <2>2
  <2>4. /\ Places(t)' \subseteq Places(t) \cup {Len(task_queue) + 1}
        /\ t # u => Places(t)' \subseteq Places(t)
    BY <2>2, PlacesPushed
  <2>5. retried'[t] = IF t = u THEN retried[t] + 1 ELSE retried[t]
    BY <1>1, <2>1, <2>2
  <2> QED BY <1>1, <2>3, <2>4, <2>5 DEF CountMove, NothingTaken, HistoryKept
<1>7. CASE NotifyPush(p)
  <2>1. PICK u \in Task : u = call[p].pushing
    BY <1>7, ThreadParts DEF NotifyPush, At, CallSound
  <2>2. call[p].pc = "notifyPush" /\ Push(u) /\ popped' = popped
    BY <1>7, <2>1 DEF NotifyPush, At
  <2>3. Hands(t)' \subseteq Hands(t) \ {p} /\ (t = u => p \in Hands(t))
    BY <1>3, <1>4, <2>1, <2>2 DEF InHand, At
  <2>4. /\ Places(t)' \subseteq Places(t) \cup {Len(task_queue) + 1}
        /\ t # u => Places(t)' \subseteq Places(t)
    BY <2>2, PlacesPushed
  <2>5. HistoryKept(t)
    BY <1>1, <2>2 DEF HistoryKept
  <2> QED BY <2>3, <2>4, <2>5 DEF CountMove, NothingTaken
<1> QED BY <1>1, <1>5, <1>6, <1>7
    DEF CallStep, ValidateTask, AddTask, CloneHandler, ValidateDependencies, InsertTask,
    RecruitForNew, UpdateTask, RetryTask, FailTask, DoneTask, NotifyNobody, NotifyDependent, At


\* The threads: one that gets nothing, ...
LEMMA CountQuiet ==
  ASSUME NEW p \in Thread,
         \A r \in Request : recruiter'[r].pc = "pushing" => recruiter'[r] = recruiter[r],
         \A q \in Thread \ {p} : thread'[q] = thread[q] /\ call'[q] = call[q],
         UNCHANGED <<task_queue, dispatches, retried>>, popped' = popped \/ popped' = NoId,
         NEW t \in Task, InHand(p, t)' => InHand(p, t)
  PROVE  CountMove(t)
BY HandsThread, PlacesStay DEF CountMove, NothingTaken, HistoryKept

LEMMA CountEnds ==
  ASSUME ManagerInv, NEW p \in Thread, Ends(p),
         \A r \in Request : recruiter'[r].pc = "pushing" => recruiter'[r] = recruiter[r],
         UNCHANGED <<task_queue, dispatches, retried>>, popped' = popped \/ popped' = NoId,
         NEW t \in Task
  PROVE  CountMove(t)
<1>1. thread \in [Thread -> ThreadState] /\ call \in [Thread -> Call]
  BY ThreadParts
<1>2. /\ \A q \in Thread \ {p} : thread'[q] = thread[q] /\ call'[q] = call[q]
      /\ thread'[p].kind = "idle" /\ thread'[p].at = "calling" /\ call'[p].pc = "free"
  BY <1>1 DEF Ends, Idle, NoCall
<1> QED BY <1>2, CountQuiet, NothingInHand

\* ... those of accept_job, which queues each task it has collected once, ...
LEMMA CountAccepts ==
  ASSUME ManagerInv, NEW p \in Thread, AcceptNext(p), NEW t \in Task
  PROVE  CountMove(t)
<1> DEFINE th == thread[p]
           u == JobTasks[th.job][th.index]
           acc == IF call[p].ready THEN Append(th.accepted, u) ELSE th.accepted
<1>1. /\ Accepting(p) /\ th.at = "calling" /\ call[p].pc = "returned" /\ th \in ThreadState
      /\ UNCHANGED <<recruiter, task_queue, popped, dispatches, retried>>
      /\ thread \in [Thread -> ThreadState] /\ call \in [Thread -> Call]
      /\ th.accepted \in Seq(Task) /\ u \in Task
  <2>1. th.kind = "accept" /\ th.at = "calling"
    BY DEF AcceptNext, Accepting
  <2>2. th.job \in Job /\ th.index \in DOMAIN JobTasks[th.job]
    BY <2>1, ThreadParts DEF ThreadSound
  <2>3. u \in Task
    BY <2>2, JobsAssumption, ElementOfSeq, LenProperties
  <2> HIDE DEF u
  <2> QED BY <2>3, ThreadParts DEF AcceptNext, At, historyVars
<1>2. /\ \A q \in Thread \ {p} : thread'[q] = thread[q] /\ call'[q] = call[q]
      /\ thread'[p].kind = "accept" /\ call'[p].pc \in {"free", "validate"}
      /\ \/ thread'[p].accepted = th.accepted
         \/ call[p].ok /\ thread'[p].accepted = acc
  <2> DEFINE list == JobTasks[th.job]
  <2>1. NoCall.pc = "free" /\ ValidateCall(list[th.index + 1]).pc = "validate"
    BY DEF NoCall, ValidateCall
  <2>2. CASE ~call[p].ok
    <3>1. /\ thread' = [thread EXCEPT ![p].at = "reject"]
          /\ call' = [call EXCEPT ![p] = NoCall]
      BY <2>2 DEF AcceptNext
    <3> QED BY <1>1, <2>1, <3>1 DEF ThreadState, Accepting
  <2>3. CASE call[p].ok /\ th.index = Len(list)
    <3>1. /\ thread' = [thread EXCEPT ![p].at = "respond", ![p].accepted = acc]
          /\ call' = [call EXCEPT ![p] = NoCall]
      BY <2>3 DEF AcceptNext
    <3> HIDE DEF acc
    <3> QED BY <1>1, <2>1, <2>3, <3>1 DEF ThreadState, Accepting
  <2>4. CASE call[p].ok /\ th.index # Len(list)
    <3>1. /\ thread' = [thread EXCEPT ![p].index = @ + 1, ![p].accepted = acc]
          /\ call' = [call EXCEPT ![p] = ValidateCall(list[th.index + 1])]
      BY <2>4 DEF AcceptNext
    <3> HIDE DEF acc
    <3> QED BY <1>1, <2>1, <2>4, <3>1 DEF ThreadState, Accepting
  <2> QED BY <2>2, <2>3, <2>4
<1>3. ASSUME InHand(p, t)' PROVE InHand(p, t)
  <2>1. t \in ToSet(thread'[p].accepted)
    BY <1>2, <1>3 DEF InHand, Accepting, At, Running
  <2>2. CASE t \in ToSet(th.accepted)
    BY <1>1, <2>2 DEF InHand
  <2>3. CASE t \notin ToSet(th.accepted)
    <3>1. call[p].ok /\ call[p].ready /\ t \in ToSet(Append(th.accepted, u))
      BY <1>2, <2>1, <2>3
    <3>2. t = u
      <4> DEFINE s == th.accepted
      <4>1. s \in Seq(Task) /\ u \in Task
        BY <1>1
      <4> HIDE DEF s, u
      <4>2. /\ Len(s) \in Nat /\ DOMAIN s = 1..Len(s)
            /\ DOMAIN Append(s, u) = 1..(Len(s) + 1)
            /\ \A i \in 1..Len(s) : Append(s, u)[i] = s[i]
            /\ Append(s, u)[Len(s) + 1] = u
        BY <4>1, LenProperties, AppendProperties
      <4> QED BY <2>3, <3>1, <4>2 DEF ToSet, s
    <3> QED BY <1>1, <3>1, <3>2 DEF InHand, At
  <2> QED BY <2>2, <2>3
<1> QED BY <1>1, <1>2, <1>3, CountQuiet

LEMMA CountPushes ==
  ASSUME ManagerInv, NEW p \in Thread, AcceptJob(p), CollectedOnce(p), NEW t \in Task
  PROVE  CountMove(t)
<1> DEFINE acc == thread[p].accepted
<1>1. /\ Accepting(p) /\ acc \in Seq(Task) /\ task_queue \in Seq(Task) /\ IsInjective(acc)
      /\ task_queue' = task_queue \o acc /\ popped' = popped /\ Ends(p)
      /\ UNCHANGED <<recruiter, dispatches, retried>>
  BY ThreadParts, InvParts DEF AcceptJob, PushTasks, CollectedOnce, historyVars
<1>2. /\ \A q \in Thread \ {p} : thread'[q] = thread[q] /\ call'[q] = call[q]
      /\ thread'[p].kind = "idle" /\ thread'[p].at = "calling" /\ call'[p].pc = "free"
  <2>1. thread \in [Thread -> ThreadState] /\ call \in [Thread -> Call]
    BY ThreadParts
  <2> QED BY <1>1, <2>1 DEF Ends, Idle, NoCall
<1>3. Hands(t)' \subseteq Hands(t) \ {p} /\ (t \in ToSet(acc) => p \in Hands(t))
  <2>1. t \in ToSet(acc) => InHand(p, t)
    BY <1>1 DEF InHand
  <2> HIDE DEF acc
  <2>2. ~InHand(p, t)'
    BY <1>2, NothingInHand
  <2>3. \A r \in Request : recruiter'[r].pc = "pushing" => recruiter'[r] = recruiter[r]
    BY <1>1
  <2>4. /\ ~InHand(p, t)' => Hands(t)' \subseteq Hands(t) \ {p}
        /\ InHand(p, t) => p \in Hands(t)
    BY <1>2, <2>3, HandsThread
  <2> QED BY <2>1, <2>2, <2>4
<1>4. HistoryKept(t)
  BY <1>1 DEF HistoryKept
<1> HIDE DEF acc
<1>5. /\ Len(task_queue) \in Nat /\ Len(acc) \in Nat /\ DOMAIN acc = 1 .. Len(acc)
      /\ Len(task_queue') = Len(task_queue) + Len(acc)
      /\ \A i \in 1 .. Len(task_queue) + Len(acc) :
           task_queue'[i] = IF i <= Len(task_queue) THEN task_queue[i]
                            ELSE acc[i - Len(task_queue)]
  BY <1>1, ConcatProperties, LenProperties
<1>6. ASSUME NEW i \in Places(t)'
      PROVE  i \in Places(t) \/ \E k \in DOMAIN acc : i = Len(task_queue) + k /\ t = acc[k]
  <2>1. i \in 0 .. Len(task_queue) + Len(acc) /\ t = IF i = 0 THEN popped ELSE task_queue'[i]
    BY <1>1, <1>5 DEF Places, Place
  <2>2. CASE i <= Len(task_queue)
    BY <1>5, <2>1, <2>2 DEF Places, Place
  <2>3. CASE i > Len(task_queue)
    <3>1. /\ i - Len(task_queue) \in 1 .. Len(acc) /\ t = acc[i - Len(task_queue)]
          /\ i = Len(task_queue) + (i - Len(task_queue))
      BY <1>5, <2>1, <2>3
    <3> QED BY <1>5, <3>1
  <2> QED BY <1>5, <2>1, <2>2, <2>3
<1>7. CASE t \in ToSet(acc)
  <2>1. PICK k \in DOMAIN acc : t = acc[k]
    BY <1>7 DEF ToSet
  <2>2. \A j \in DOMAIN acc : t = acc[j] => j = k
    BY <1>1, <2>1 DEF IsInjective
  <2>3. Places(t)' \subseteq Places(t) \cup {Len(task_queue) + k}
    BY <1>6, <2>2
  <2> QED BY <1>3, <1>4, <1>7, <2>3 DEF CountMove
<1>8. CASE t \notin ToSet(acc)
  <2>1. Places(t)' \subseteq Places(t)
    BY <1>6, <1>8 DEF ToSet
  <2> QED BY <1>3, <1>4, <2>1 DEF CountMove, NothingTaken
<1> QED BY <1>7, <1>8

LEMMA CountArrives ==
  ASSUME ManagerInv, NEW p \in Thread, NEW j \in Job, JobArrives(p, j), NEW t \in Task
  PROVE  CountMove(t)
<1>1. /\ thread \in [Thread -> ThreadState] /\ call \in [Thread -> Call]
      /\ UNCHANGED <<recruiter, task_queue, dispatches, retried>> /\ popped' = NoId
  BY ThreadParts DEF JobArrives, AnotherBranch, CancelNextTask
<1>2. ASSUME NEW s, NEW c, s.accepted = <<>>, s.kind = "accept", c.pc \in {"free", "validate"},
             thread' = [thread EXCEPT ![p] = s], call' = [call EXCEPT ![p] = c]
      PROVE  CountMove(t)
  <2>1. /\ \A q \in Thread \ {p} : thread'[q] = thread[q] /\ call'[q] = call[q]
        /\ thread'[p] = s /\ call'[p] = c
    BY <1>1, <1>2
  <2>2. ~InHand(p, t)'
    BY <1>2, <2>1 DEF InHand, Accepting, At, Running, ToSet
  <2> QED BY <1>1, <2>1, <2>2, CountQuiet
<1>3. CASE JobTasks[j] = <<>>
  <2> DEFINE s == [Idle EXCEPT !.kind = "accept", !.at = "respond", !.job = j]
             c == NoCall
  <2>1. s.accepted = <<>> /\ s.kind = "accept" /\ c.pc = "free"
    BY DEF Idle, NoCall
  <2>2. thread' = [thread EXCEPT ![p] = s] /\ call' = [call EXCEPT ![p] = c]
    BY <1>3 DEF JobArrives, Spawn
  <2> HIDE DEF s, c
  <2> QED BY <1>2, <2>1, <2>2
<1>4. CASE JobTasks[j] # <<>>
  <2> DEFINE s == [Idle EXCEPT !.kind = "accept", !.job = j, !.index = 1]
             c == ValidateCall(JobTasks[j][1])
  <2>1. s.accepted = <<>> /\ s.kind = "accept" /\ c.pc = "validate"
    BY DEF Idle, NoCall, ValidateCall
  <2>2. thread' = [thread EXCEPT ![p] = s] /\ call' = [call EXCEPT ![p] = c]
    BY <1>4 DEF JobArrives, Spawn
  <2> HIDE DEF s, c
  <2> QED BY <1>2, <2>1, <2>2
<1> QED BY <1>3, <1>4

LEMMA CountRemoves ==
  ASSUME ManagerInv, NEW p \in Thread, RejectJob(p), NEW t \in Task
  PROVE  CountMove(t)
<1>1. /\ Ends(p) /\ UNCHANGED <<task_queue, popped, dispatches, retried>>
      /\ \E R : AbortRecruiters(R)
  BY DEF RejectJob, RemoveJob, historyVars
<1>2. \A r \in Request : recruiter'[r].pc = "pushing" => recruiter'[r] = recruiter[r]
  <2>1. recruiter \in [Request -> Recruiter]
    BY InvParts
  <2> QED BY <1>1, <2>1 DEF AbortRecruiters, Recruiter
<1> QED BY <1>1, <1>2, CountEnds

\* ... run_task's, which takes a task from the queue and sends it or does not, ...
LEMMA CountTakes ==
  ASSUME ManagerInv, NEW p \in Thread, RunNextTask(p), NEW t \in Task
  PROVE  CountMove(t)
<1>1. /\ thread \in [Thread -> ThreadState] /\ call \in [Thread -> Call]
      /\ UNCHANGED <<recruiter, task_queue, dispatches, retried>>
      /\ popped # NoId /\ popped' = NoId
  BY ThreadParts DEF RunNextTask, TakeNextTask, historyVars
<1>2. \A r \in Request : recruiter'[r].pc = "pushing" => recruiter'[r] = recruiter[r]
  BY <1>1
<1>3. CASE ~Present(popped)
  <2>1. UNCHANGED <<thread, call>>
    BY <1>3 DEF RunNextTask
  <2>2. InHand(p, t)' => InHand(p, t)
    BY <2>1 DEF InHand, Accepting, At, Running
  <2>3. \A q \in Thread \ {p} : thread'[q] = thread[q] /\ call'[q] = call[q]
    BY <2>1
  <2> QED BY <1>1, <1>2, <2>2, <2>3, CountQuiet
<1>4. CASE Present(popped)
  <2> DEFINE s == [Idle EXCEPT !.kind = "run", !.at = "inputs", !.task = popped,
                           !.snapshot = tasks[popped],
                           !.inputs = IF popped \in NeedsOutputs THEN DOMAIN tasks[popped].deps
                                      ELSE {}]
             c == NoCall
  <2>1. s.kind = "run" /\ s.at = "inputs" /\ s.task = popped /\ c.pc = "free"
    BY DEF Idle, NoCall
  <2>2. thread' = [thread EXCEPT ![p] = s] /\ call' = [call EXCEPT ![p] = c]
    BY <1>4 DEF RunNextTask, Spawn
  <2> HIDE DEF s, c
  <2>3. /\ \A q \in Thread \ {p} : thread'[q] = thread[q] /\ call'[q] = call[q]
        /\ thread'[p] = s /\ call'[p] = c
    BY <1>1, <2>2
  <2>4. CASE t = popped
    <3>1. Hands(t)' \subseteq Hands(t) \cup {p}
      BY <1>2, <2>3, HandsThread
    <3>2. 0 \in Places(t) /\ Places(t)' \subseteq Places(t) \ {0}
      <4>1. Len(task_queue) \in Nat
        BY InvParts, LenProperties
      <4> QED BY <1>1, <2>4, <4>1, NullsAssumption DEF Places, Place
    <3> QED BY <1>1, <3>1, <3>2 DEF CountMove, HistoryKept
  <2>5. CASE t # popped
    <3>1. ~InHand(p, t)'
      BY <2>1, <2>3, <2>5 DEF InHand, Accepting, At, Running
    <3> QED BY <1>1, <1>2, <2>3, <3>1, CountQuiet
  <2> QED BY <2>4, <2>5
<1> QED BY <1>3, <1>4

LEMMA CountSends ==
  ASSUME ManagerInv, NEW p \in Thread, SendTask(p), NEW t \in Task
  PROVE  CountMove(t)
<1> DEFINE u == thread[p].task
<1>1. /\ thread \in [Thread -> ThreadState] /\ call \in [Thread -> Call]
      /\ dispatches \in [Task -> Nat] /\ Running(p, "inputs")
      /\ UNCHANGED <<recruiter, task_queue, popped, retried>>
      /\ dispatches' = [dispatches EXCEPT ![u] = @ + 1]
  BY ThreadParts DEF SendTask, ReadyToSend, ManagerInv, DomainManagerTypeOK
<1>2. /\ \A q \in Thread \ {p} : thread'[q] = thread[q] /\ call'[q] = call[q]
      /\ thread'[p].kind = "run" /\ thread'[p].at = "calling" /\ call'[p].pc = "update"
  <2> DEFINE s == [Idle EXCEPT !.kind = "run"]
             c == UpdateCall(u, [status |-> "PENDING", receiver |-> thread[p].snapshot.receiver,
                                 output |-> thread[p].snapshot.output])
  <2>1. s.kind = "run" /\ s.at = "calling" /\ c.pc = "update"
    BY DEF Idle, UpdateCall, NoCall
  <2>2. thread' = [thread EXCEPT ![p] = s] /\ call' = [call EXCEPT ![p] = c]
    BY DEF SendTask
  <2> HIDE DEF s, c
  <2> QED BY <1>1, <2>1, <2>2
<1>3. ~InHand(p, t)'
  BY <1>2, NothingInHand
<1>4. \A r \in Request : recruiter'[r].pc = "pushing" => recruiter'[r] = recruiter[r]
  BY <1>1
<1>5. /\ Hands(t)' \subseteq Hands(t) \ {p}
      /\ InHand(p, t) => p \in Hands(t)
  BY <1>2, <1>3, <1>4, HandsThread
<1>6. Places(t)' \subseteq Places(t)
  BY <1>1, PlacesStay
<1>7. CASE t = u
  <2>1. InHand(p, t)
    BY <1>1, <1>7 DEF InHand
  <2>2. dispatches'[t] = dispatches[t] + 1 /\ retried'[t] = retried[t]
    BY <1>1, <1>7
  <2> QED BY <1>5, <1>6, <2>1, <2>2 DEF CountMove
<1>8. CASE t # u
  <2>1. HistoryKept(t)
    BY <1>1, <1>8 DEF HistoryKept
  <2> QED BY <1>5, <1>6, <2>1 DEF CountMove, NothingTaken
<1> QED BY <1>7, <1>8

LEMMA CountFails ==
  ASSUME ManagerInv, NEW p \in Thread, SendFails(p), NEW t \in Task
  PROVE  CountMove(t)
<1> DEFINE u == thread[p].task
           s == [Idle EXCEPT !.kind = "run", !.at = "failing", !.task = u]
           c == UpdateCall(u, [status |-> "FAILED", receiver |-> thread[p].snapshot.receiver,
                               output |-> "error"])
<1>1. /\ thread \in [Thread -> ThreadState] /\ call \in [Thread -> Call]
      /\ UNCHANGED <<recruiter, task_queue, popped, dispatches, retried>>
  BY ThreadParts DEF SendFails, historyVars
<1>2. thread' = [thread EXCEPT ![p] = s] /\ call' = [call EXCEPT ![p] = c]
  BY DEF SendFails
<1>3. s.kind = "run" /\ s.at = "failing" /\ c.pc = "update"
  BY DEF Idle, UpdateCall, NoCall
<1> HIDE DEF s, c
<1>4. /\ \A q \in Thread \ {p} : thread'[q] = thread[q] /\ call'[q] = call[q]
      /\ thread'[p] = s /\ call'[p] = c
  BY <1>1, <1>2
<1>5. ~InHand(p, t)'
  BY <1>3, <1>4, NothingInHand
<1>6. \A r \in Request : recruiter'[r].pc = "pushing" => recruiter'[r] = recruiter[r]
  BY <1>1
<1> QED BY <1>1, <1>4, <1>5, <1>6, CountQuiet

LEMMA CountContinues ==
  ASSUME ManagerInv, NEW p \in Thread, RunContinues(p), NEW t \in Task
  PROVE  CountMove(t)
<1>1. /\ thread \in [Thread -> ThreadState] /\ call \in [Thread -> Call]
      /\ thread[p] \in ThreadState /\ thread[p].kind = "run"
      /\ UNCHANGED <<recruiter, task_queue, popped, dispatches, retried>>
  BY ThreadParts DEF RunContinues, historyVars
<1>2. \A r \in Request : recruiter'[r].pc = "pushing" => recruiter'[r] = recruiter[r]
  BY <1>1
<1>3. CASE Ends(p)
  BY <1>1, <1>2, <1>3, CountEnds
<1>4. CASE thread[p].at = "failing"
  <2> DEFINE s == [thread[p] EXCEPT !.at = "calling"]
             c == RetryCall(thread[p].task)
  <2>1. s.kind = "run" /\ s.at = "calling" /\ c.pc = "retry"
    BY <1>1 DEF ThreadState, RetryCall, NoCall
  <2>2. thread' = [thread EXCEPT ![p] = s] /\ call' = [call EXCEPT ![p] = c]
    BY <1>1, <1>4 DEF RunContinues
  <2> HIDE DEF s, c
  <2>3. /\ \A q \in Thread \ {p} : thread'[q] = thread[q] /\ call'[q] = call[q]
        /\ thread'[p] = s /\ call'[p] = c
    BY <1>1, <2>2
  <2>4. ~InHand(p, t)'
    BY <2>1, <2>3, NothingInHand
  <2> QED BY <1>1, <1>2, <2>3, <2>4, CountQuiet
<1> QED BY <1>3, <1>4 DEF RunContinues

LEMMA CountCollects ==
  ASSUME ManagerInv, NEW p \in Thread, NEW d \in Task, CollectInput(p, d), NEW t \in Task
  PROVE  CountMove(t)
<1>1. /\ thread \in [Thread -> ThreadState] /\ call \in [Thread -> Call]
      /\ thread[p] \in ThreadState /\ Running(p, "inputs")
      /\ UNCHANGED <<recruiter, task_queue, popped, dispatches, retried>>
  BY ThreadParts DEF CollectInput
<1>2. \A r \in Request : recruiter'[r].pc = "pushing" => recruiter'[r] = recruiter[r]
  BY <1>1
<1>3. CASE Ends(p)
  BY <1>1, <1>2, <1>3, CountEnds
<1>4. CASE thread' = [thread EXCEPT ![p].inputs = @ \ {d}] /\ call' = call
  <2> DEFINE s == [thread[p] EXCEPT !.inputs = @ \ {d}]
  <2>1. s.kind = "run" /\ s.at = "inputs" /\ s.task = thread[p].task
    BY <1>1 DEF Running, ThreadState
  <2>2. thread' = [thread EXCEPT ![p] = s]
    BY <1>1, <1>4
  <2> HIDE DEF s
  <2>3. /\ \A q \in Thread \ {p} : thread'[q] = thread[q] /\ call'[q] = call[q]
        /\ thread'[p] = s /\ call'[p] = call[p]
    BY <1>1, <1>4, <2>2
  <2>4. call[p].pc = "free"
    BY <1>1, ThreadParts DEF Running, ThreadSound
  <2>5. InHand(p, t)' => InHand(p, t)
    BY <1>1, <2>1, <2>3, <2>4 DEF InHand, Accepting, At, Running
  <2> QED BY <1>1, <1>2, <2>3, <2>5, CountQuiet
<1> QED BY <1>3, <1>4 DEF CollectInput

\* ... those of reports, ...
LEMMA CountReports ==
  ASSUME ManagerInv, NEW p \in Thread, NEW u \in Task, NEW i \in DOMAIN executing[u],
         ReportArrives(p, u, i), NEW t \in Task
  PROVE  CountMove(t)
<1> DEFINE s == [Idle EXCEPT !.kind = "update"]
           c == UpdateCall(u, ExecutionReport(executing[u][i].node, Head(executing[u][i].left)))
<1>1. /\ thread \in [Thread -> ThreadState] /\ call \in [Thread -> Call]
      /\ UNCHANGED <<recruiter, task_queue, dispatches, retried>> /\ popped' = NoId
  BY ThreadParts DEF ReportArrives, AnotherBranch, CancelNextTask
<1>2. thread' = [thread EXCEPT ![p] = s] /\ call' = [call EXCEPT ![p] = c]
  BY DEF ReportArrives, Spawn
<1>3. s.kind = "update" /\ s.at = "calling" /\ c.pc = "update"
  BY DEF Idle, UpdateCall, NoCall
<1> HIDE DEF s, c
<1>4. /\ \A q \in Thread \ {p} : thread'[q] = thread[q] /\ call'[q] = call[q]
      /\ thread'[p] = s /\ call'[p] = c
  BY <1>1, <1>2
<1>5. ~InHand(p, t)'
  BY <1>3, <1>4, NothingInHand
<1>6. \A r \in Request : recruiter'[r].pc = "pushing" => recruiter'[r] = recruiter[r]
  BY <1>1
<1> QED BY <1>1, <1>4, <1>5, <1>6, CountQuiet

\* ... and those that are over.
LEMMA CountEndings ==
  ASSUME ManagerInv, NEW p \in Thread,
         AcceptPanics(p) \/ ClientHangsUp(p) \/ UpdateEnds(p) \/ NoReceiver(p), NEW t \in Task
  PROVE  CountMove(t)
<1>1. Ends(p) /\ UNCHANGED <<recruiter, task_queue, popped, dispatches, retried>>
  BY DEF AcceptPanics, ClientHangsUp, UpdateEnds, NoReceiver, historyVars
<1>2. \A r \in Request : recruiter'[r].pc = "pushing" => recruiter'[r] = recruiter[r]
  BY <1>1
<1> QED BY <1>1, <1>2, CountEnds

\* The recruiters: one that waits or panics, ...
LEMMA CountStill ==
  ASSUME \A q \in Thread : thread'[q] = thread[q] /\ call'[q] = call[q],
         \A r \in Request : recruiter'[r].pc = "pushing" => recruiter'[r] = recruiter[r],
         UNCHANGED <<task_queue, dispatches, retried>>, popped' = popped \/ popped' = NoId,
         NEW t \in Task
  PROVE  CountMove(t)
<1>1. \A q \in Thread : InHand(q, t)' => InHand(q, t)
  BY DEF InHand, Accepting, At, Running
<1>2. \A r \in Request : Recruits(r, t)' => Recruits(r, t)
  BY DEF Recruits
<1>3. Hands(t)' \subseteq Hands(t)
  BY <1>1, <1>2 DEF Hands
<1> QED BY <1>3, PlacesStay DEF CountMove, NothingTaken, HistoryKept

\* ... one that queues its task, and one that got a node for it.
LEMMA CountQueues ==
  ASSUME ManagerInv, NEW r \in Request, RecruiterPush(r),
         UNCHANGED <<thread, dispatches, retried>>, NEW t \in Task
  PROVE  CountMove(t)
<1>1. PICK u \in Task : u = recruiter[r].task
  BY InvParts DEF RecruiterPush, RecruiterSound
<1>2. /\ recruiter \in [Request -> Recruiter] /\ recruiter[r].pc = "pushing"
      /\ recruiter' = [recruiter EXCEPT ![r].pc = "ended"]
      /\ UNCHANGED <<popped, call>> /\ Push(u)
  BY <1>1, InvParts DEF RecruiterPush
<1>3. recruiter'[r].pc = "ended" /\ \A q \in Request \ {r} : recruiter'[q] = recruiter[q]
  BY <1>2 DEF Recruiter
<1>4. \A q \in Thread : InHand(q, t)' => InHand(q, t) /\ q # r
  BY <1>2, NullsAssumption DEF InHand, Accepting, At, Running
<1>5. \A q \in Request : Recruits(q, t)' => Recruits(q, t) /\ q # r
  BY <1>3 DEF Recruits
<1>6. Hands(t)' \subseteq Hands(t) \ {r} /\ (t = u => r \in Hands(t))
  BY <1>1, <1>2, <1>4, <1>5 DEF Hands, Recruits
<1>7. /\ Places(t)' \subseteq Places(t) \cup {Len(task_queue) + 1}
      /\ t # u => Places(t)' \subseteq Places(t)
  BY <1>2, PlacesPushed
<1> QED BY <1>6, <1>7 DEF CountMove, NothingTaken, HistoryKept

LEMMA CountResumes ==
  ASSUME ManagerInv, TrackInv, OneJob, OneChain, NEW r \in Request, RecruiterResume(r),
         UNCHANGED <<thread, dispatches, retried>>, Present(recruiter[r].task), NEW t \in Task
  PROVE  CountMove(t)
<1>1. PICK u \in Task : u = recruiter[r].task
  BY InvParts DEF RecruiterResume, RecruiterSound
<1>2. /\ recruiter \in [Request -> Recruiter] /\ tasks \in [Task -> TaskHandler \cup {NoTask}]
      /\ recruiter[r].pc = "waiting"
      /\ recruiter' = [recruiter EXCEPT ![r].pc = "pushing"]
      /\ UNCHANGED <<task_queue, popped, call>>
  BY <1>1, InvParts DEF RecruiterResume, TakeNode
<1>3. /\ recruiter'[r].pc = "pushing" /\ recruiter'[r].task = u
      /\ \A q \in Request \ {r} : recruiter'[q] = recruiter[q]
  BY <1>1, <1>2 DEF Recruiter
<1>4. ~Released(u)
  <2>1. Kept(r) /\ (Released(u) => Settled(u))
    BY <1>2 DEF OneJob, OneChain
  <2>2. ASSUME NEW p \in Thread, Inserts(p, r) PROVE FALSE
    <3>1. Validating(p) /\ call[p].task = u
      BY <1>1, <2>2 DEF Inserts, Validating
    <3> QED BY <1>1, <3>1, FirstPoints
  <2>3. tasks[u].request = r /\ r # NoRequest
    BY <1>1, <1>2, <2>1, <2>2, NullsAssumption DEF Kept
  <2> QED BY <1>1, <2>1, <2>3 DEF Settled, SettledHandler
<1>5. \A q \in Thread : InHand(q, t)' => InHand(q, t)
  BY <1>2 DEF InHand, Accepting, At, Running
<1>6. \A q \in Request : Recruits(q, t)' => Recruits(q, t) \/ (q = r /\ t = u)
  BY <1>3 DEF Recruits
<1>7. Hands(t)' \subseteq Hands(t) \cup {r} /\ (t # u => Hands(t)' \subseteq Hands(t))
  BY <1>5, <1>6 DEF Hands
<1>8. Places(t)' \subseteq Places(t) /\ HistoryKept(t)
  BY <1>2, PlacesStay DEF HistoryKept
<1> QED BY <1>4, <1>7, <1>8 DEF CountMove, NothingTaken

LEMMA CountRecruiter ==
  ASSUME ManagerInv, TrackInv, OneJob, OneChain, NEW r \in Request, InRecruiter(r),
         NEW t \in Task
  PROVE  CountMove(t)
<1>1. UNCHANGED <<thread, dispatches, retried>> /\ RecruiterStep(r)
  BY DEF InRecruiter, loopVars, historyVars
<1>2. ASSUME NEW pc \in {"waiting", "panicked"}, recruiter' = [recruiter EXCEPT ![r].pc = pc],
             UNCHANGED <<call, task_queue, popped>>
      PROVE  CountMove(t)
  <2>1. \A q \in Request : recruiter'[q].pc = "pushing" => recruiter'[q] = recruiter[q]
    <3>1. recruiter \in [Request -> Recruiter]
      BY InvParts
    <3> QED BY <1>2, <3>1 DEF Recruiter
  <2>2. \A q \in Thread : thread'[q] = thread[q] /\ call'[q] = call[q]
    BY <1>1, <1>2
  <2> QED BY <1>1, <1>2, <2>1, <2>2, CountStill
<1>3. CASE RecruiterRequest(r)
  BY <1>2, <1>3 DEF RecruiterRequest
<1>4. CASE RecruiterResume(r)
  <2>1. CASE ~Present(recruiter[r].task)
    BY <1>2, <1>4, <2>1 DEF RecruiterResume
  <2> QED BY <1>1, <1>4, <2>1, CountResumes
<1>5. CASE RecruiterPush(r)
  BY <1>1, <1>5, CountQueues
<1> QED BY <1>1, <1>3, <1>4, <1>5 DEF RecruiterStep

\* The loop.
LEMMA CountPops ==
  ASSUME ManagerInv, PopTask, NEW t \in Task, Counted(t)
  PROVE  Counted(t)'
<1>1. PopNextTask /\ UNCHANGED <<thread, call, recruiter, dispatches, retried>>
  BY DEF PopTask, PopNextTask, loopVars, historyVars
<1>2. Hands(t)' = Hands(t)
  BY <1>1 DEF Hands, InHand, Recruits, Accepting, At, Running
<1>3. /\ Cardinality(Places(t)') <= Cardinality(Places(t))
      /\ Cardinality(Places(t)') \in Nat /\ Cardinality(Places(t)) \in Nat
  BY <1>1, PlacesPopped, PlacesCount
<1>4. dispatches[t] \in Nat /\ retried[t] \in Nat
  BY DEF ManagerInv, DomainManagerTypeOK
<1>5. /\ IsFiniteSet(Hands(t)) /\ Cardinality(Hands(t)) \in Nat
      /\ dispatches[t] + Cardinality(Hands(t)) + Cardinality(Places(t)) <= 1 + retried[t]
  BY FS_CardinalityType DEF Counted
<1>6. dispatches[t] + Cardinality(Hands(t)) + Cardinality(Places(t)') <= 1 + retried[t]
  BY <1>3, <1>4, <1>5
<1> QED BY <1>1, <1>2, <1>5, <1>6 DEF Counted

LEMMA CountLoop ==
  ASSUME \/ \E g \in Registrar : InRegistration(g)
         \/ MonitorJob \/ NothingToRun \/ WakeUp \/ OtherEvent
         \/ \E g \in Registrar, a \in Announcements : NodeAnnounced(g, a)
         \/ UNCHANGED vars,
         NEW t \in Task
  PROVE  CountMove(t)
<1>1. /\ UNCHANGED <<thread, call, recruiter, task_queue, dispatches, retried>>
      /\ popped' = popped \/ popped' = NoId
  BY DEF InRegistration, MonitorJob, MonitorTasks, MonitorEnds, NothingToRun, WakeUp,
     OtherEvent, NodeAnnounced, AnotherBranch, CancelNextTask, tasksVars, loopVars,
     historyVars, vars
<1> QED BY <1>1, CountStill

\* accept_job collects a task at most once.
LEMMA CollectAccepts ==
  ASSUME ManagerInv, DistinctNames, NEW p \in Thread, AcceptNext(p), CollectedOnce(p)
  PROVE  CollectedOnce(p)'
<1> DEFINE th == thread[p]
           list == JobTasks[th.job]
           u == list[th.index]
           acc == IF call[p].ready THEN Append(th.accepted, u) ELSE th.accepted
<1>1. /\ Accepting(p) /\ th.at = "calling" /\ th \in ThreadState
      /\ thread \in [Thread -> ThreadState] /\ th.accepted \in Seq(Task)
      /\ th.job \in Job /\ th.index \in DOMAIN list /\ list \in Seq(Task)
      /\ u \in Task /\ th.index \in Nat /\ IsInjective(list)
  <2>1. th.kind = "accept" /\ th.at = "calling"
    BY DEF AcceptNext, Accepting
  <2>2. th.job \in Job /\ th.index \in DOMAIN JobTasks[th.job]
    BY <2>1, ThreadParts DEF ThreadSound
  <2>3. u \in Task
    BY <2>2, JobsAssumption, ElementOfSeq, LenProperties
  <2> HIDE DEF u
  <2> QED BY <2>1, <2>2, <2>3, JobsAssumption, ThreadParts
          DEF Accepting, DistinctNames, ThreadState
<1>2. /\ thread'[p].job = th.job
      /\ \/ thread'[p].accepted = th.accepted /\ thread'[p].at # "calling"
         \/ thread'[p].accepted = acc /\ thread'[p].at # "calling"
         \/ thread'[p].accepted = acc /\ thread'[p].index = th.index + 1
  <2>2. CASE ~call[p].ok
    <3>1. thread' = [thread EXCEPT ![p].at = "reject"]
      BY <2>2 DEF AcceptNext
    <3> QED BY <1>1, <3>1 DEF ThreadState
  <2>3. CASE call[p].ok /\ th.index = Len(list)
    <3>1. thread' = [thread EXCEPT ![p].at = "respond", ![p].accepted = acc]
      BY <2>3 DEF AcceptNext
    <3> HIDE DEF acc
    <3> QED BY <1>1, <3>1 DEF ThreadState
  <2>4. CASE call[p].ok /\ th.index # Len(list)
    <3>1. thread' = [thread EXCEPT ![p].index = @ + 1, ![p].accepted = acc]
      BY <2>4 DEF AcceptNext
    <3> HIDE DEF acc
    <3> QED BY <1>1, <3>1 DEF ThreadState
  <2> QED BY <2>2, <2>3, <2>4
<1>3. /\ IsInjective(th.accepted)
      /\ \A i \in DOMAIN th.accepted :
           \E k \in DOMAIN list : k < th.index /\ th.accepted[i] = list[k]
  BY <1>1 DEF CollectedOnce, JobList
<1> DEFINE s == th.accepted  n == th.index
<1>4. /\ s \in Seq(Task) /\ u \in Task /\ Len(s) \in Nat /\ DOMAIN s = 1..Len(s)
      /\ DOMAIN Append(s, u) = 1..(Len(s) + 1)
      /\ \A i \in 1..Len(s) : Append(s, u)[i] = s[i]
      /\ Append(s, u)[Len(s) + 1] = u
  <2>1. s \in Seq(Task) /\ u \in Task
    BY <1>1
  <2> HIDE DEF s, u
  <2> QED BY <2>1, LenProperties, AppendProperties
<1>5. DOMAIN list \subseteq Nat
  BY <1>1, LenProperties
<1>6. \A i \in DOMAIN s : s[i] # u
  BY <1>1, <1>3, <1>5 DEF IsInjective
<1>7. IsInjective(acc)
  <2>1. IsInjective(Append(s, u))
    <3> SUFFICES ASSUME NEW i \in 1..(Len(s) + 1), NEW k \in 1..(Len(s) + 1),
                        Append(s, u)[i] = Append(s, u)[k]
                 PROVE  i = k
      BY <1>4 DEF IsInjective
    <3>1. CASE i \in 1..Len(s) /\ k \in 1..Len(s)
      BY <1>3, <1>4, <3>1 DEF IsInjective
    <3>2. CASE i \in 1..Len(s) /\ k = Len(s) + 1
      <4> HIDE DEF u, s
      <4> QED BY <1>4, <1>6, <3>2
    <3>3. CASE k \in 1..Len(s) /\ i = Len(s) + 1
      <4> HIDE DEF u, s
      <4> QED BY <1>4, <1>6, <3>3
    <3> QED BY <1>4, <3>1, <3>2, <3>3
  <2> QED BY <1>3, <2>1
<1>8. \A i \in DOMAIN acc : \E k \in DOMAIN list : k < n + 1 /\ acc[i] = list[k]
  <2>1. \A i \in DOMAIN s : \E k \in DOMAIN list : k < n + 1 /\ s[i] = list[k]
    BY <1>1, <1>3, <1>5
  <2>2. \A i \in 1..(Len(s) + 1) : i \in 1..Len(s) \/ i = Len(s) + 1
    BY <1>4
  <2>3. n \in DOMAIN list /\ n < n + 1 /\ u = list[n]
    BY <1>1
  <2>4. acc = Append(s, u) \/ acc = s
    OBVIOUS
  <2> HIDE DEF s, u, n, acc, list
  <2> QED BY <1>4, <2>1, <2>2, <2>3, <2>4
<1>9. JobList(p)' = list
  BY <1>2 DEF JobList
<1> HIDE DEF acc, list, s
<1>10. IsInjective(thread'[p].accepted)
  BY <1>2, <1>3, <1>7
<1>11. ASSUME thread'[p].at = "calling"
       PROVE  \A i \in DOMAIN thread'[p].accepted :
                \E k \in DOMAIN list : k < thread'[p].index /\ thread'[p].accepted[i] = list[k]
  BY <1>2, <1>8, <1>11
<1> QED BY <1>9, <1>10, <1>11 DEF CollectedOnce

LEMMA CollectArrives ==
  ASSUME ManagerInv, NEW p \in Thread, NEW j \in Job, JobArrives(p, j)
  PROVE  CollectedOnce(p)'
<1>1. thread \in [Thread -> ThreadState]
  BY ThreadParts
<1>2. PICK s : thread' = [thread EXCEPT ![p] = s] /\ s.accepted = <<>>
  <2>1. /\ [Idle EXCEPT !.kind = "accept", !.at = "respond", !.job = j].accepted = <<>>
        /\ [Idle EXCEPT !.kind = "accept", !.job = j, !.index = 1].accepted = <<>>
    BY DEF Idle
  <2> QED BY <2>1 DEF JobArrives, Spawn
<1>3. thread'[p].accepted = <<>>
  BY <1>1, <1>2
<1> QED BY <1>3 DEF CollectedOnce, IsInjective

\* No other step touches what is collected.
LEMMA CollectKept ==
  ASSUME ManagerInv, [Next]_vars, NEW p \in Thread,
         ~AcceptNext(p), \A j \in Job : ~JobArrives(p, j), CollectedOnce(p)
  PROVE  CollectedOnce(p)'
<1>1. thread \in [Thread -> ThreadState] /\ Idle.kind = "idle"
  BY ThreadParts DEF Idle
<1>2. thread'[p] = thread[p] \/ thread'[p].kind # "accept"
  <2>1. ASSUME NEW q \in Thread, NEW s, thread' = [thread EXCEPT ![q] = s],
               q = p => s.kind # "accept"
        PROVE  thread'[p] = thread[p] \/ thread'[p].kind # "accept"
    BY <1>1, <2>1
  <2>2. ASSUME NEW q \in Thread, Ends(q)
        PROVE  thread'[p] = thread[p] \/ thread'[p].kind # "accept"
    BY <1>1, <2>1, <2>2 DEF Ends
  <2>3. CASE LoopStep
    <3>1. ASSUME NEW q \in Thread, RunNextTask(q), thread' # thread
          PROVE  thread'[p] = thread[p] \/ thread'[p].kind # "accept"
      <4> DEFINE s == [Idle EXCEPT !.kind = "run", !.at = "inputs", !.task = popped,
                               !.snapshot = tasks[popped],
                               !.inputs = IF popped \in NeedsOutputs THEN DOMAIN tasks[popped].deps
                                          ELSE {}]
      <4>1. thread' = [thread EXCEPT ![q] = s] /\ s.kind = "run"
        BY <3>1 DEF RunNextTask, Spawn, Idle
      <4> HIDE DEF s
      <4> QED BY <2>1, <4>1
    <3> QED BY <2>3, <3>1 DEF LoopStep, PopTask, NothingToRun, WakeUp, loopVars
  <2>4. CASE Arrival
    <3>1. ASSUME NEW q \in Thread, NEW j \in Job, JobArrives(q, j)
          PROVE  thread'[p] = thread[p]
      <4>1. PICK s : thread' = [thread EXCEPT ![q] = s] /\ q # p
        BY <3>1 DEF JobArrives, Spawn
      <4> QED BY <1>1, <4>1
    <3> QED BY <2>4, <3>1 DEF Arrival, NodeAnnounced, OtherEvent, loopVars
  <2>5. ASSUME NEW q \in Thread, ThreadStep(q) \/ SendFails(q) \/ ClientHangsUp(q)
        PROVE  thread'[p] = thread[p] \/ thread'[p].kind # "accept"
    <3>1. CASE AcceptNext(q)
      <4>1. q # p
        BY <3>1
      <4>2. CASE ~call[q].ok
        BY <1>1, <3>1, <4>1, <4>2 DEF AcceptNext
      <4>3. CASE call[q].ok /\ thread[q].index = Len(JobTasks[thread[q].job])
        BY <1>1, <3>1, <4>1, <4>3 DEF AcceptNext
      <4>4. CASE call[q].ok /\ thread[q].index # Len(JobTasks[thread[q].job])
        BY <1>1, <3>1, <4>1, <4>4 DEF AcceptNext
      <4> QED BY <4>2, <4>3, <4>4
    <3>2. CASE SendTask(q)
      <4> DEFINE s == [Idle EXCEPT !.kind = "run"]
      <4>1. thread' = [thread EXCEPT ![q] = s] /\ s.kind = "run"
        BY <3>2 DEF SendTask, Idle
      <4> HIDE DEF s
      <4> QED BY <2>1, <4>1
    <3>3. CASE SendFails(q)
      <4> DEFINE s == [Idle EXCEPT !.kind = "run", !.at = "failing", !.task = thread[q].task]
      <4>1. thread' = [thread EXCEPT ![q] = s] /\ s.kind = "run"
        BY <3>3 DEF SendFails, Idle
      <4> HIDE DEF s
      <4> QED BY <2>1, <4>1
    <3>4. CASE RunContinues(q) /\ ~Ends(q)
      <4> DEFINE s == [thread[q] EXCEPT !.at = "calling"]
      <4>1. thread' = [thread EXCEPT ![q] = s] /\ s.kind = "run"
        BY <1>1, <3>4 DEF RunContinues, ThreadState
      <4> HIDE DEF s
      <4> QED BY <2>1, <4>1
    <3>5. ASSUME NEW d \in Task, CollectInput(q, d), ~Ends(q)
          PROVE  thread'[p] = thread[p] \/ thread'[p].kind # "accept"
      <4> DEFINE s == [thread[q] EXCEPT !.inputs = @ \ {d}]
      <4>1. thread' = [thread EXCEPT ![q] = s] /\ s.kind = "run"
        BY <1>1, <3>5 DEF CollectInput, Running, ThreadState
      <4> HIDE DEF s
      <4> QED BY <2>1, <4>1
    <3>6. CASE InCall(q)
      BY <3>6 DEF InCall, loopVars
    <3> QED BY <2>2, <2>5, <3>1, <3>2, <3>3, <3>4, <3>5, <3>6
        DEF ThreadStep, AcceptJob, RejectJob, AcceptPanics, UpdateEnds, NoReceiver, ClientHangsUp
  <2>6. ASSUME NEW q \in Thread, NEW t \in Task, NEW i \in DOMAIN executing[t],
               ReportArrives(q, t, i)
        PROVE  thread'[p] = thread[p] \/ thread'[p].kind # "accept"
    <3> DEFINE s == [Idle EXCEPT !.kind = "update"]
    <3>1. thread' = [thread EXCEPT ![q] = s] /\ s.kind = "update"
      BY <2>6 DEF ReportArrives, Spawn, Idle
    <3> HIDE DEF s
    <3> QED BY <2>1, <3>1
  <2>7. CASE \/ \E r \in Request : InRecruiter(r)
             \/ \E g \in Registrar : InRegistration(g)
             \/ MonitorJob \/ UNCHANGED vars
    BY <2>7 DEF InRecruiter, InRegistration, MonitorJob, loopVars, vars
  <2> QED BY <2>3, <2>4, <2>5, <2>6, <2>7 DEF Next
<1> QED BY <1>2 DEF CollectedOnce, Accepting, JobList

LEMMA CollectStep == ManagerInv /\ CollectInv /\ [Next]_vars => CollectInv'
<1> SUFFICES ASSUME ManagerInv, CollectInv, [Next]_vars, DistinctNames, NEW p \in Thread
             PROVE  CollectedOnce(p)'
  BY DEF CollectInv, DistinctNames
<1>1. CollectedOnce(p)
  BY DEF CollectInv
<1> QED BY <1>1, CollectAccepts, CollectArrives, CollectKept

LEMMA CollectInvariant == Spec => []CollectInv
<1>1. Init => CollectInv
  BY DEF Init, Idle, CollectInv, CollectedOnce, Accepting
<1> QED BY <1>1, CollectStep, ManagerInvariant, PTL DEF Spec

LEMMA CountInit == Init => CountInv
<1> SUFFICES ASSUME Init, NEW t \in Task PROVE Counted(t)
  BY DEF CountInv
<1>1. /\ \A p \in Thread : thread[p] = Idle /\ call[p] = NoCall
      /\ task_queue = <<>> /\ popped = NoId /\ dispatches[t] = 0 /\ retried[t] = 0
      /\ \A r \in Request : recruiter[r].pc = "unused"
  BY DEF Init, TasksInit
<1>2. \A p \in Thread : /\ thread[p].kind = "idle" /\ thread[p].at = "calling"
                        /\ call[p].pc = "free"
  BY <1>1 DEF Idle, NoCall
<1>3. Hands(t) = {}
  BY <1>1, <1>2 DEF Hands, InHand, Recruits, Accepting, At, Running
<1>4. Places(t) = {}
  BY <1>1, NullsAssumption, EmptySeq DEF Places, Place
<1> QED BY <1>1, <1>3, <1>4, FS_EmptySet DEF Counted

LEMMA CountStep ==
  ManagerInv /\ TrackInv /\ RejectInv /\ OnceInv /\ CollectInv /\ CountInv /\ [Next]_vars
    => CountInv'
<1> SUFFICES ASSUME ManagerInv, TrackInv, RejectInv, OnceInv, CollectInv, CountInv, [Next]_vars,
                    DistinctNames, spent'.submits <= 1, NEW t \in Task
             PROVE  Counted(t)'
  BY DEF CountInv, DistinctNames
<1>1. spent.submits <= 1
  <2>1. /\ spent.submits \in Nat /\ spent'.submits \in Nat
        /\ spent.submits <= spent'.submits
    BY SubmitsGrow
  <2> QED BY <2>1
<1>2. OneJob /\ OneChain /\ Counted(t) /\ \A p \in Thread : CollectedOnce(p)
  BY <1>1 DEF RejectInv, OnceInv, CollectInv, CountInv
<1>3. CountMove(t) \/ PopTask
  <2>1. CASE LoopStep
    BY <2>1, CountTakes, CountLoop DEF LoopStep
  <2>2. CASE Arrival
    BY <2>2, CountArrives, CountLoop DEF Arrival
  <2>3. ASSUME NEW p \in Thread, ThreadStep(p) \/ SendFails(p) \/ ClientHangsUp(p)
        PROVE  CountMove(t)
    BY <1>2, <2>3, CountInCall, CountAccepts, CountPushes, CountRemoves, CountEndings,
       CountCollects, CountSends, CountFails, CountContinues DEF ThreadStep
  <2>4. CASE \E p \in Thread, u \in Task : \E i \in DOMAIN executing[u] : ReportArrives(p, u, i)
    BY <2>4, CountReports
  <2>5. CASE \E r \in Request : InRecruiter(r)
    BY <1>2, <2>5, CountRecruiter
  <2>6. CASE (\E g \in Registrar : InRegistration(g)) \/ MonitorJob \/ UNCHANGED vars
    BY <2>6, CountLoop
  <2> QED BY <2>1, <2>2, <2>3, <2>4, <2>5, <2>6 DEF Next
<1> QED BY <1>2, <1>3, CountedAfter, CountPops

LEMMA CountInvariant == Spec => []CountInv
BY CountInit, CountStep, CollectInvariant, OnceInvariant, RejectInvariant, TrackInvariant,
   ManagerInvariant, PTL DEF Spec

\* A job that is submitted once sends each of its tasks once, and once more for
\* each time a failed sending or a RETRY report queued it: what is sent, in hand
\* and in the queue is never more than one and the retries, since a task is
\* found ready by one of validate_task, its recruiter and the Done loop only.
THEOREM TasksSentOncePerCause == Spec => []SentOncePerCause
<1>1. ManagerInv /\ CountInv => SentOncePerCause
  <2> SUFFICES ASSUME ManagerInv, CountInv, OneSubmission, NEW t \in Task
               PROVE  dispatches[t] <= 1 + retried[t]
    BY DEF SentOncePerCause
  <2>1. Counted(t)
    BY DEF CountInv, OneSubmission, DistinctNames
  <2>2. /\ dispatches[t] \in Nat /\ retried[t] \in Nat
        /\ Cardinality(Hands(t)) \in Nat /\ Cardinality(Places(t)) \in Nat
    BY <2>1, PlacesCount, FS_CardinalityType DEF Counted, ManagerInv, DomainManagerTypeOK
  <2> QED BY <2>1, <2>2 DEF Counted
<1> QED BY <1>1, CountInvariant, ManagerInvariant, PTL
=============================================================================
