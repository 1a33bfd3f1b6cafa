--------------------------- MODULE DomainCluster ----------------------------
(***************************************************************************)
(* A program that uses a domain: DomainCluster's methods, the loop of      *)
(* InnerDomainCluster that handles one command or one network event at a   *)
(* time (cluster.rs:55), the channels of task updates it fills for the     *)
(* program, and the program's other calls of its Networking.               *)
(***************************************************************************)
EXTENDS Networking

CONSTANTS
  User,          \* calls of DomainCluster's methods: those in Topic submit a
                 \* job, and name its topic; the others monitor or fail
  NoUser,
  Loop,          \* the loop, as a caller of Client
  Plan,          \* other callers -> what calls they may make, one by one
  UpdateBuffer   \* buffer of a channel of updates: 3072

Client == Caller \ {Loop}

ASSUME ClusterAssumption ==
  /\ Loop \in Caller
  /\ Topic \subseteq User /\ NoUser \notin User
  /\ UpdateBuffer \in Nat
  /\ Plan \in [Client -> Seq(SUBSET {"send", "timed", "handler", "publish"})]
  /\ \A c \in Client : \A i \in 1..Len(Plan[c]) - 1 : "timed" \notin Plan[c][i]

VARIABLES
  requests,   \* the channel of commands to the loop: whose they are
  loop,       \* where the loop is, and for which user
  user,       \* user -> how far its call is
  jobs,       \* users whose topic the loop knows
  closed,     \* users whose channel of updates was closed at once
  updates,    \* user -> its channel of updates: their numbers
  read,       \* user -> the number of the last update it read
  calls       \* other caller -> calls it made

clusterVars == <<requests, loop, user, jobs, closed, updates, read, calls>>
vars == <<netVars, clusterVars>>

ClusterTypeOK ==
  /\ NetTypeOK
  /\ requests \in Seq(User)
  /\ loop \in [pc : {"select", "submit", "subscribe", "publish", "monitor",
                     "flush", "panicked"},
               of : User \cup {NoUser}]
  /\ user \in [User -> {"idle", "waiting", "served", "left", "panicked"}]
  /\ jobs \subseteq Topic /\ closed \subseteq Topic
  /\ updates \in [Topic -> Seq(1..MaxArrivals)]
  /\ \A u \in Topic : Len(updates[u]) <= UpdateBuffer + 1
  /\ read \in [Topic -> 0..MaxArrivals]
  /\ calls \in [Client -> Nat]

Selecting == [pc |-> "select", of |-> NoUser]

ClusterInit ==
  /\ NetInit
  /\ requests = <<>>
  /\ loop = Selecting
  /\ user = [u \in User |-> "idle"]
  /\ jobs = {} /\ closed = {}
  /\ updates = [u \in Topic |-> <<>>]
  /\ read = [u \in Topic |-> 0]
  /\ calls = [c \in Client |-> 0]

-----------------------------------------------------------------------------
\* The program

\* What a step leaves alone that sends a command or gets the answer to one.
NetKept == UNCHANGED <<opener, swarm, held, events, subscribed, arrived, news>>

\* submit_job and monitor_jobs wait for the loop's answer, fail_task does not.
Request(u) ==
  /\ user[u] = "idle"
  /\ IF loop.pc = "panicked"
     THEN user' = [user EXCEPT ![u] = "panicked"] /\ UNCHANGED requests
     ELSE /\ requests' = Append(requests, u)
          /\ \/ user' = [user EXCEPT ![u] = "waiting"]
             \/ u \notin Topic /\ user' = [user EXCEPT ![u] = "served"]
  /\ UNCHANGED <<netVars, loop, jobs, closed, updates, read, calls>>

ReadUpdate(u) ==
  /\ user[u] = "served" /\ updates[u] # <<>>
  /\ read' = [read EXCEPT ![u] = Head(updates[u])]
  /\ updates' = [updates EXCEPT ![u] = Tail(@)]
  /\ UNCHANGED <<netVars, requests, loop, user, jobs, closed, calls>>

\* The receiver is dropped, as produce does after its first update.
Leave(u) ==
  /\ user[u] = "served"
  /\ user' = [user EXCEPT ![u] = "left"]
  /\ updates' = [updates EXCEPT ![u] = <<>>]
  /\ UNCHANGED <<netVars, requests, loop, jobs, closed, read, calls>>

\* A program's next call, after the one before returned; only a publish that
\* failed does not keep it from going on.
ClientCall(c) ==
  /\ calls[c] < Len(Plan[c])
  /\ \/ call[c].pc \in {"idle", "ok"}
     \/ call[c].pc = "error" /\ call[c].kind = "publish"
  /\ \E kind \in Plan[c][calls[c] + 1] : SendCommand(c, kind, NoTopic, FALSE)
  /\ calls' = [calls EXCEPT ![c] = @ + 1]
  /\ NetKept
  /\ UNCHANGED <<requests, loop, user, jobs, closed, updates, read>>

-----------------------------------------------------------------------------
\* The loop

LoopCalls(kind, topic, pc, u) ==
  /\ SendCommand(Loop, kind, topic, FALSE)
  /\ loop' = [pc |-> pc, of |-> u]
  /\ NetKept

\* fail_task's caller does not wait for the loop.
TakeCommand ==
  /\ loop.pc = "select" /\ requests # <<>>
  /\ requests' = Tail(requests)
  /\ LET u == Head(requests)
     IN  \/ u \in Topic /\ LoopCalls("send", NoTopic, "submit", u)
         \/ /\ u \notin Topic
            /\ IF user[u] = "waiting"
               THEN LoopCalls("send", NoTopic, "monitor", u)
               ELSE LoopCalls("publish", NoTopic, "publish", u)
  /\ UNCHANGED <<user, jobs, closed, updates, read, calls>>

\* The call for which the loop is at pc has returned; it is over then.
Returned(pc, result) ==
  /\ loop.pc = pc /\ call[Loop].pc = result
  /\ call' = [call EXCEPT ![Loop] = NoCall]
  /\ NetKept /\ UNCHANGED commands

Serve(u) ==
  /\ user' = [user EXCEPT ![u] = "served"]
  /\ loop' = Selecting

\* Mutant: the senders of answers outlive the loop.
LoopPanicsSilently ==
  /\ loop' = [loop EXCEPT !.pc = "panicked"]
  /\ requests' = <<>>
  /\ jobs' = {}
  /\ UNCHANGED <<user, closed, updates, read, calls>>

\* The commands, the senders of answers and of updates end with the loop.
LoopPanics ==
  /\ loop' = [loop EXCEPT !.pc = "panicked"]
  /\ user' = [u \in User |-> IF user[u] = "waiting" THEN "panicked" ELSE user[u]]
  /\ requests' = <<>>
  /\ jobs' = {}
  /\ UNCHANGED <<closed, updates, read, calls>>

SubmitFails ==
  /\ Returned("submit", "error")
  /\ closed' = closed \cup {loop.of}
  /\ Serve(loop.of)
  /\ UNCHANGED <<requests, jobs, updates, read, calls>>

\* The manager accepted the job: its topic is subscribed to afterwards.
ResponseRead ==
  /\ loop.pc = "submit" /\ call[Loop].pc = "ok"
  /\ LoopCalls("subscribe", loop.of, "subscribe", loop.of)
  /\ UNCHANGED <<requests, user, jobs, closed, updates, read, calls>>

\* It did not, or the stream broke.
ResponseBroken == Returned("submit", "ok") /\ LoopPanics

Subscribed ==
  /\ Returned("subscribe", "ok")
  /\ jobs' = jobs \cup {loop.of}
  /\ Serve(loop.of)
  /\ UNCHANGED <<requests, closed, updates, read, calls>>

NotSubscribed == Returned("subscribe", "error") /\ LoopPanics

PublishReturned ==
  /\ \E result \in {"ok", "error"} : Returned("publish", result)
  /\ loop' = Selecting
  /\ UNCHANGED <<requests, user, jobs, closed, updates, read, calls>>

Monitored ==
  /\ Returned("monitor", "ok")
  /\ Serve(loop.of)
  /\ UNCHANGED <<requests, jobs, closed, updates, read, calls>>

NotMonitored == Returned("monitor", "error") /\ LoopPanics

\* Mutant: an update for which a channel has no room is dropped (try_send).
HandleEventOrDrop ==
  /\ loop.pc = "select" /\ events # <<>>
  /\ events' = Tail(events)
  /\ LET u == Head(events).topic
         takes == u \in jobs /\ user[u] # "left" /\ Len(updates[u]) <= UpdateBuffer
     IN  updates' = IF takes THEN [updates EXCEPT ![u] = Append(@, Head(events).n)]
                    ELSE updates
  /\ UNCHANGED <<commands, call, opener, swarm, held, subscribed, arrived, news>>
  /\ UNCHANGED <<requests, loop, user, jobs, closed, read, calls>>

\* An update goes to the channel of its job; the loop waits until that has
\* room for another one.  A channel nobody has any more is forgotten.
HandleEvent ==
  /\ loop.pc = "select" /\ events # <<>>
  /\ events' = Tail(events)
  /\ LET u == Head(events).topic
     IN  \/ /\ u \notin jobs
            /\ UNCHANGED <<jobs, updates, loop>>
         \/ /\ u \in jobs /\ user[u] = "left"
            /\ jobs' = jobs \ {u}
            /\ UNCHANGED <<updates, loop>>
         \/ /\ u \in jobs /\ user[u] # "left"
            /\ updates' = [updates EXCEPT ![u] = Append(@, Head(events).n)]
            /\ loop' = IF Len(updates'[u]) > UpdateBuffer
                       THEN [pc |-> "flush", of |-> u] ELSE Selecting
            /\ UNCHANGED jobs
  /\ UNCHANGED <<commands, call, opener, swarm, held, subscribed, arrived, news>>
  /\ UNCHANGED <<requests, user, closed, read, calls>>

Flushed ==
  /\ loop.pc = "flush"
  /\ Len(updates[loop.of]) <= UpdateBuffer
  /\ loop' = Selecting
  /\ UNCHANGED <<netVars, requests, user, jobs, closed, updates, read, calls>>

LoopReturns ==
  \/ SubmitFails \/ Subscribed \/ NotSubscribed
  \/ PublishReturned \/ Monitored \/ NotMonitored \/ Flushed

-----------------------------------------------------------------------------
ClusterNext ==
  \/ NetNext /\ UNCHANGED clusterVars
  \/ \E u \in User : Request(u)
  \/ \E u \in Topic : ReadUpdate(u) \/ Leave(u)
  \/ \E c \in Client : ClientCall(c)
  \/ TakeCommand \/ HandleEvent \/ LoopReturns \/ ResponseRead \/ ResponseBroken

\* Both loops pick what is ready at random (select!).  Searches, dials and
\* attempts to open a stream end one way or another, and timers run out.
\* Nothing makes the program call, read or leave, the manager answer, or
\* anything arrive from the network.
ClusterFairness ==
  /\ SF_vars(TakeCommand) /\ SF_vars(HandleEvent) /\ WF_vars(LoopReturns)
  /\ SF_vars((HandleCommand \/ ThreadPanics) /\ UNCHANGED clusterVars)
  /\ WF_vars(ThreadResumes /\ UNCHANGED clusterVars)
  /\ \A c \in Caller :
       /\ SF_vars(OpenerStep(c) /\ UNCHANGED clusterVars)
       /\ WF_vars((RetrySend(c) \/ TimeOut(c)) /\ UNCHANGED clusterVars)

ClusterSpec == ClusterInit /\ [][ClusterNext]_vars /\ ClusterFairness

-----------------------------------------------------------------------------
\* What the loop knows and gossipsub is subscribed to when submit_job returns:
\* either the channel of updates is closed and its reader sees the end, or
\* the job's updates will reach it.  A subscription that the network thread's
\* end swallowed counts as made (client.rs:82), but no update comes any more.
ReturnedIsServed ==
  \A u \in Topic :
    user[u] = "served" =>
      \/ u \in closed
      \/ u \in jobs /\ (u \in subscribed \/ swarm = "panicked")
      \/ loop.pc = "panicked"

\* What is between the swarm and the reader of u, the oldest first.
Way(u) ==
  [i \in DOMAIN updates[u] |-> [topic |-> u, n |-> updates[u][i]]] \o events \o held

InOrder(way, u, first, last) ==
  LET mine == {i \in DOMAIN way : way[i].topic = u}
  IN  /\ \A i, j \in mine : i < j => way[i].n < way[j].n
      /\ {way[i].n : i \in mine} = first..last

\* No update of a job is lost, doubled or overtaken on its way through both
\* channels, from the subscription on and also while submit_job has not
\* returned, as long as its reader keeps the channel (cluster.rs:94 to 104).
UpdatesInOrder ==
  \A u \in Topic :
    user[u] # "left" => InOrder(Way(u), u, read[u] + 1, arrived[u])

\* The thread waits for room in the event channel that the loop would have to
\* make, and the loop waits for something else.
Embraced == swarm = "sending" /\ Full /\ loop.pc # "select"

\* A search that failed is not answered (libp2p.rs:498).
Abandoned(c) == call[c].pc = "waiting" /\ opener[c].pc = "abandoned"

\* submit_job and monitor_jobs return, or panic, unless the loop is stuck: it
\* and the thread wait for each other, the search for the manager failed, the
\* manager accepted the stream and does not answer, or a program does not
\* read its updates.  None of these waits has a limit (cluster.rs:129).  Every
\* other call of Client returns, or its search failed, or the thread waits for
\* a loop that does not read events.
CallsReturn ==
  /\ \A u \in User :
       <>[](user[u] = "waiting" =>
              \/ Embraced \/ Abandoned(Loop)
              \/ loop.pc = "submit" /\ call[Loop].pc = "ok"
              \/ loop.pc = "flush")
  /\ \A c \in Client :
       <>[](call[c].pc \in {"waiting", "pausing"} => Embraced \/ Abandoned(c))
=============================================================================
