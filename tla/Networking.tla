---------------------------- MODULE Networking ------------------------------
(***************************************************************************)
(* A program's own network: the calls of Client (client.rs), the network   *)
(* thread that handles one command or one event of the swarm at a time     *)
(* (libp2p.rs:410), and the tasks it spawns to open streams.  Commands go  *)
(* to the thread through one channel; events come back through another     *)
(* that is bounded, and that the thread waits for.                         *)
(***************************************************************************)
EXTENDS Naturals, Sequences

CONSTANTS
  Caller,        \* who calls Client's methods, each one call at a time
  Topic,         \* topics that may be subscribed to
  NoTopic,
  EventBuffer,   \* the event channel's buffer: 8
  MaxRetries,    \* of retry_with_delay: 3
  MaxNews,       \* bound: nodes the swarm identifies
  MaxArrivals    \* bound: messages that arrive on a topic

ASSUME NetworkingAssumption ==
  /\ EventBuffer \in Nat /\ MaxRetries \in Nat
  /\ MaxNews \in Nat /\ MaxArrivals \in Nat
  /\ NoTopic \notin Topic

VARIABLES
  commands,     \* the command channel: who sent them
  call,         \* caller -> its call of a method of Client
  opener,       \* caller -> the task open_stream of its call of send
  swarm,        \* the network thread: waits for room in the event channel?
  held,         \* the event it could not put into the channel yet
  events,       \* the event channel
  subscribed,   \* topics gossipsub is subscribed to
  arrived,      \* topic -> messages that arrived so far
  news          \* nodes identified so far

netVars == <<commands, call, opener, swarm, held, events, subscribed,
             arrived, news>>

\* A send with a timeout, or with 0, which is none (utils/src/lib.rs:106).
Sends == {"send", "timed"}

Call == [kind : Sends \cup {"handler", "subscribe", "publish"},
         topic : Topic \cup {NoTopic}, last : BOOLEAN,
         pc : {"idle", "waiting", "pausing", "ok", "error"}]

Opener == [pc : {"none", "finding", "abandoned", "dialing", "opening"},
           retries : 0..MaxRetries]

\* What the thread tells the program; n numbers the messages of a topic.
Event == [topic : Topic \cup {NoTopic}, n : 0..MaxArrivals]

NewNodeRegistered == [topic |-> NoTopic, n |-> 0]

NoCall == [kind |-> "send", topic |-> NoTopic, last |-> FALSE, pc |-> "idle"]

NoOpener == [pc |-> "none", retries |-> 0]

NetTypeOK ==
  /\ commands \in Seq(Caller)
  /\ call \in [Caller -> Call]
  /\ opener \in [Caller -> Opener]
  /\ swarm \in {"running", "sending", "panicked"}
  /\ held \in Seq(Event) /\ Len(held) <= 1
  /\ events \in Seq(Event) /\ Len(events) <= EventBuffer + 1
  /\ subscribed \subseteq Topic
  /\ arrived \in [Topic -> 0..MaxArrivals]
  /\ news \in 0..MaxNews

NetInit ==
  /\ commands = <<>>
  /\ call = [c \in Caller |-> NoCall]
  /\ opener = [c \in Caller |-> NoOpener]
  /\ swarm = "running"
  /\ held = <<>> /\ events = <<>>
  /\ subscribed = {}
  /\ arrived = [t \in Topic |-> 0]
  /\ news = 0

-----------------------------------------------------------------------------
\* Client: a method sends a command and waits for the answer to it.

\* The thread's end closes the channel: a command cannot be sent any more.
SendCommand(c, kind, topic, last) ==
  LET made == [kind |-> kind, topic |-> topic, last |-> last,
               pc |-> IF swarm = "panicked" THEN "error" ELSE "waiting"]
  IN  /\ call' = [call EXCEPT ![c] = made]
      /\ commands' = IF swarm = "panicked" THEN commands ELSE Append(commands, c)

\* A call that timed out does not wait for its answer.
Answered(c, result) ==
  IF call[c].pc = "waiting"
  THEN [call EXCEPT ![c].pc = result, ![c].last = FALSE] ELSE call

\* retry_send tries a second and last time to find addresses.
RetrySend(c) ==
  /\ call[c].pc = "pausing"
  /\ SendCommand(c, call[c].kind, NoTopic, TRUE)
  /\ UNCHANGED <<opener, swarm, held, events, subscribed, arrived, news>>

\* Mutant: a timeout is tried again, as missing addresses are.
TimeOutRetries(c) ==
  /\ call[c].pc = "waiting" /\ call[c].kind = "timed"
  /\ call' = Answered(c, IF call[c].last THEN "error" ELSE "pausing")
  /\ UNCHANGED <<commands, opener, swarm, held, events, subscribed, arrived, news>>

\* Only the caller stops: the command and the task go on.
TimeOut(c) ==
  /\ call[c].pc = "waiting" /\ call[c].kind = "timed"
  /\ call' = Answered(c, "error")
  /\ UNCHANGED <<commands, opener, swarm, held, events, subscribed, arrived, news>>

-----------------------------------------------------------------------------
\* The network thread: commands

\* One message more than the buffer has room for, and the sender is parked.
Full == Len(events) > EventBuffer

\* The peer is connected, or is dialed, or has to be found first.
HandleSend(c) ==
  /\ call[c].kind \in Sends
  /\ \E pc \in {"finding", "dialing", "opening"} :
       opener' = [opener EXCEPT ![c] = [pc |-> pc, retries |-> 0]]
  /\ UNCHANGED <<call, events, subscribed>>

\* add_stream_protocol when the event channel takes the event.
HandleSetStreamHandler(c) ==
  /\ call[c].kind = "handler" /\ ~Full
  /\ events' = Append(events, NewNodeRegistered)
  /\ call' = Answered(c, "ok")
  /\ UNCHANGED <<opener, subscribed>>

\* Mutant: what gossipsub returns is ignored.
HandleSubscribeRegardless(c) ==
  /\ call[c].kind = "subscribe"
  /\ subscribed' \in {subscribed, subscribed \cup {call[c].topic}}
  /\ call' = Answered(c, "ok")
  /\ UNCHANGED <<opener, events>>

\* An answer to Subscribe is an error; without one it was successful.
HandleSubscribe(c) ==
  /\ call[c].kind = "subscribe"
  /\ \/ /\ subscribed' = subscribed \cup {call[c].topic}
        /\ call' = Answered(c, "ok")
     \/ call' = Answered(c, "error") /\ UNCHANGED subscribed
  /\ UNCHANGED <<opener, events>>

HandlePublish(c) ==
  /\ call[c].kind = "publish"
  /\ \E result \in {"ok", "error"} : call' = Answered(c, result)
  /\ UNCHANGED <<opener, events, subscribed>>

HandleCommand ==
  /\ swarm = "running" /\ commands # <<>>
  /\ LET c == Head(commands)
     IN  \/ HandleSend(c) \/ HandleSetStreamHandler(c)
         \/ HandleSubscribe(c) \/ HandlePublish(c)
  /\ commands' = Tail(commands)
  /\ UNCHANGED <<swarm, held, arrived, news>>

\* What callers see when the thread drops their commands: send and
\* set_stream_handler fail, subscribe and publish take it for success.
Canceled(c) ==
  IF call[c].kind \in {"subscribe", "publish"} THEN "ok" ELSE "error"

\* try_send does not wait: its unwrap ends the thread, with the commands in
\* its channel and the senders of its searches.
ThreadPanics ==
  /\ swarm = "running" /\ commands # <<>>
  /\ call[Head(commands)].kind = "handler" /\ Full
  /\ swarm' = "panicked"
  /\ commands' = <<>>
  /\ call' = [c \in Caller |->
       IF call[c].pc = "waiting" /\ \E i \in DOMAIN commands : commands[i] = c
       THEN [call[c] EXCEPT !.pc = Canceled(c)] ELSE call[c]]
  /\ opener' = [c \in Caller |->
       IF opener[c].pc \in {"finding", "abandoned"}
       THEN [opener[c] EXCEPT !.pc = "dialing"] ELSE opener[c]]
  /\ UNCHANGED <<held, events, subscribed, arrived, news>>

-----------------------------------------------------------------------------
\* The network thread: events of the swarm

\* event_sender.send(..).await returns when the channel has taken the event
\* and has room again.
Put(queue, e) ==
  /\ events' = Append(queue, e)
  /\ swarm' = IF Len(events') > EventBuffer THEN "sending" ELSE "running"

\* Mutant: the thread does not wait for room.
EmitUnbounded(e) ==
  /\ swarm = "running"
  /\ events' = Append(events, e)
  /\ UNCHANGED <<commands, call, opener, swarm, held, subscribed>>

Emit(e) ==
  /\ swarm = "running"
  /\ IF Full
     THEN held' = <<e>> /\ swarm' = "sending" /\ UNCHANGED events
     ELSE Put(events, e) /\ UNCHANGED held
  /\ UNCHANGED <<commands, call, opener, subscribed>>

NodeIdentified ==
  /\ news < MaxNews
  /\ Emit(NewNodeRegistered)
  /\ news' = news + 1
  /\ UNCHANGED arrived

MessageArrives(t) ==
  /\ t \in subscribed /\ arrived[t] < MaxArrivals
  /\ Emit([topic |-> t, n |-> arrived[t] + 1])
  /\ arrived' = [arrived EXCEPT ![t] = @ + 1]
  /\ UNCHANGED news

ThreadResumes ==
  /\ swarm = "sending" /\ ~Full
  /\ IF held = <<>> THEN swarm' = "running" /\ UNCHANGED events
                    ELSE Put(events, Head(held))
  /\ held' = <<>>
  /\ UNCHANGED <<commands, call, opener, subscribed, arrived, news>>

-----------------------------------------------------------------------------
\* The task open_stream of a call of send

OpenerOnly ==
  UNCHANGED <<commands, swarm, held, events, subscribed, arrived, news>>

\* GetClosestPeers(Err) leaves the request where it is: nobody answers it.
SearchEnds(c) ==
  /\ opener[c].pc = "finding" /\ swarm = "running"
  /\ \/ /\ opener' = [opener EXCEPT ![c].pc = "dialing"]
        /\ UNCHANGED call
     \/ /\ opener' = [opener EXCEPT ![c] = NoOpener]
        /\ call' = Answered(c, IF call[c].last THEN "error" ELSE "pausing")
     \/ /\ opener' = [opener EXCEPT ![c].pc = "abandoned"]
        /\ UNCHANGED call
  /\ OpenerOnly

\* Without a connection the stream waits for the swarm to make one.
Connects(c) ==
  /\ opener[c].pc = "dialing" /\ swarm = "running"
  /\ opener' = [opener EXCEPT ![c].pc = "opening"]
  /\ UNCHANGED call /\ OpenerOnly

\* A stream is there and the message is written.
Opens(c) ==
  /\ opener[c].pc = "opening"
  /\ opener' = [opener EXCEPT ![c] = NoOpener]
  /\ call' = Answered(c, "ok")
  /\ OpenerOnly

\* Opening or writing fails, also for want of the swarm; retry_with_delay.
OpenFails(c) ==
  /\ \/ opener[c].pc = "opening"
     \/ opener[c].pc = "dialing" /\ swarm # "sending"
  /\ IF opener[c].retries < MaxRetries
     THEN /\ \E pc \in {"dialing", "opening"} :
               opener' = [opener EXCEPT ![c].pc = pc, ![c].retries = @ + 1]
          /\ UNCHANGED call
     ELSE /\ opener' = [opener EXCEPT ![c] = NoOpener]
          /\ call' = Answered(c, "error")
  /\ OpenerOnly

OpenerStep(c) == SearchEnds(c) \/ Connects(c) \/ Opens(c) \/ OpenFails(c)

-----------------------------------------------------------------------------
NetNext ==
  \/ HandleCommand \/ ThreadPanics
  \/ NodeIdentified \/ (\E t \in Topic : MessageArrives(t)) \/ ThreadResumes
  \/ \E c \in Caller : RetrySend(c) \/ TimeOut(c) \/ OpenerStep(c)

-----------------------------------------------------------------------------
\* Someone waits for what is done for the call, or it timed out (client.rs:19).
Awaited(c) ==
  \/ call[c].pc = "waiting"
  \/ call[c].kind = "timed" /\ call[c].pc = "error"

\* A call is attempted once at a time, also when retry_send tries again: its
\* command is in the channel once, or its stream is being opened, and nothing
\* of this is left when the call returns, unless its timeout made it return.
OneAttemptAtATime ==
  \A c \in Caller :
    /\ \A i, j \in DOMAIN commands : commands[i] = c /\ commands[j] = c => i = j
    /\ \A i \in DOMAIN commands :
         commands[i] = c => Awaited(c) /\ opener[c].pc = "none"
    /\ opener[c].pc # "none" => Awaited(c) /\ call[c].kind \in Sends

=============================================================================
