------------------------ MODULE DomainClusterProofs -------------------------
(***************************************************************************)
(* For any callers, topics, buffers and retries: calls are attempted once  *)
(* at a time, also when they are tried again, and a submission returns     *)
(* after its topic was subscribed to or its channel of updates closed; the *)
(* updates of a job are read in order, once, and none is lost.             *)
(***************************************************************************)
EXTENDS DomainCluster, SequenceTheorems, TLAPS

(* Only a send is tried again, and a subscription is to a topic. *)
CallsFit ==
  \A c \in Caller :
    /\ call[c].pc = "pausing" => call[c].kind \in Sends
    /\ call[c].kind = "subscribe" => call[c].topic \in Topic

(* A message of a topic has a number. *)
Numbered ==
  /\ \A i \in DOMAIN events : events[i].topic \in Topic => events[i].n # 0
  /\ \A i \in DOMAIN held : held[i].topic \in Topic => held[i].n # 0

NetInv == NetTypeOK /\ OneAttemptAtATime /\ CallsFit /\ Numbered

(* The loop waits for the call that it made for its user. *)
LoopCall ==
  /\ call[Loop].kind # "timed"
  /\ loop.pc \in {"select", "flush", "panicked"} => call[Loop] = NoCall
  /\ loop.pc = "submit" => call[Loop].kind = "send" /\ loop.of \in Topic
  /\ loop.pc = "subscribe" =>
       /\ call[Loop].kind = "subscribe" /\ call[Loop].topic = loop.of
       /\ loop.of \in Topic
       /\ call[Loop].pc = "ok" => loop.of \in subscribed \/ swarm = "panicked"
  /\ loop.pc = "publish" => call[Loop].kind = "publish"
  /\ loop.pc = "monitor" => call[Loop].kind = "send" /\ loop.of \in User \ Topic
  /\ loop.pc = "flush" => loop.of \in Topic

(* A channel of updates without room keeps the loop waiting for it. *)
FullIsFlushed ==
  \A u \in Topic : Len(updates[u]) > UpdateBuffer => loop = [pc |-> "flush", of |-> u]

ClusterInv ==
  NetInv /\ ClusterTypeOK /\ LoopCall /\ FullIsFlushed /\ ReturnedIsServed

-----------------------------------------------------------------------------
(* An answer reaches a call that waits, and no other. *)
LEMMA AnsweredFacts ==
    ASSUME NetTypeOK, NEW c \in Caller, NEW result \in {"pausing", "ok", "error"}
    PROVE  /\ Answered(c, result) \in [Caller -> Call]
           /\ \A d \in Caller : d # c => Answered(c, result)[d] = call[d]
           /\ Answered(c, result)[c].kind = call[c].kind
           /\ Answered(c, result)[c].topic = call[c].topic
           /\ call[c].pc = "waiting" => Answered(c, result)[c].pc = result
           /\ call[c].pc # "waiting" => Answered(c, result)[c] = call[c]
  BY DEF NetTypeOK, Call, Answered

(* A caller that is awaited by nobody has no command and no task. *)
LEMMA NotAwaited ==
    ASSUME NetInv, NEW c \in Caller, ~Awaited(c)
    PROVE  (\A i \in DOMAIN commands : commands[i] # c) /\ opener[c].pc = "none"
  BY DEF NetInv, OneAttemptAtATime

(* What a caller sends is a command like all others. *)
LEMMA SendCommandInv ==
    ASSUME NetInv, NEW c \in Caller, ~Awaited(c),
           NEW kind \in Sends \cup {"handler", "subscribe", "publish"},
           NEW topic \in Topic \cup {NoTopic}, NEW last \in BOOLEAN,
           kind = "subscribe" => topic \in Topic,
           SendCommand(c, kind, topic, last), NetKept
    PROVE  /\ NetInv'
           /\ call'[c].kind = kind /\ call'[c].topic = topic
           /\ call'[c].pc \in {"waiting", "error"}
           /\ \A d \in Caller : d # c => call'[d] = call[d]
<1> DEFINE made == [kind |-> kind, topic |-> topic, last |-> last,
                    pc |-> IF swarm = "panicked" THEN "error" ELSE "waiting"]
<1>1. /\ call' = [call EXCEPT ![c] = made]
      /\ commands' = IF swarm = "panicked" THEN commands ELSE Append(commands, c)
      /\ UNCHANGED <<opener, swarm, held, events, subscribed, arrived, news>>
  BY DEF SendCommand, NetKept
<1>2. /\ call \in [Caller -> Call] /\ commands \in Seq(Caller) /\ made \in Call
      /\ (\A i \in DOMAIN commands : commands[i] # c) /\ opener[c].pc = "none"
  BY NotAwaited DEF NetInv, NetTypeOK, Call
<1>3. call'[c] = made /\ \A d \in Caller : d # c => call'[d] = call[d]
  BY <1>1, <1>2
<1>4. NetTypeOK'
  BY <1>1, <1>2 DEF NetInv, NetTypeOK
<1>5. OneAttemptAtATime'
  <2>1. CASE swarm = "panicked"
    BY <1>1, <1>2, <1>3, <2>1 DEF NetInv, OneAttemptAtATime, Awaited
  <2>2. CASE swarm # "panicked"
    <3>1. commands' = Append(commands, c)
      BY <1>1, <2>2
    <3>2. /\ DOMAIN commands' = 1..Len(commands) + 1
          /\ \A i \in 1..Len(commands) : commands'[i] = commands[i]
          /\ commands'[Len(commands) + 1] = c
      BY <1>2, <3>1
    <3>3. Awaited(c)'
      BY <1>3, <2>2 DEF Awaited
    <3>4. \A d \in Caller : d # c => Awaited(d)' = Awaited(d)
      BY <1>3 DEF Awaited
    <3>5. \A d \in Caller : d # c =>
            /\ \A i, j \in DOMAIN commands' : commands'[i] = d /\ commands'[j] = d => i = j
            /\ \A i \in DOMAIN commands' :
                 commands'[i] = d => Awaited(d)' /\ opener'[d].pc = "none"
            /\ opener'[d].pc # "none" => Awaited(d)' /\ call'[d].kind \in Sends
      BY <1>1, <1>2, <1>3, <3>2, <3>4 DEF NetInv, OneAttemptAtATime
    <3>6. /\ \A i, j \in DOMAIN commands' : commands'[i] = c /\ commands'[j] = c => i = j
          /\ opener'[c].pc = "none"
      BY <1>1, <1>2, <3>2
    <3>7. QED
      BY <3>3, <3>5, <3>6 DEF OneAttemptAtATime
  <2>3. QED
    BY <2>1, <2>2
<1>6. CallsFit' /\ Numbered'
  BY <1>1, <1>3 DEF NetInv, CallsFit, Numbered
<1>7. QED
  BY <1>3, <1>4, <1>5, <1>6 DEF NetInv

(* A call whose result was taken is over. *)
LEMMA CallOverInv ==
    ASSUME NetInv, NEW c \in Caller, ~Awaited(c),
           call' = [call EXCEPT ![c] = NoCall], NetKept, UNCHANGED commands
    PROVE  NetInv' /\ call'[c] = NoCall
<1>1. call \in [Caller -> Call] /\ NoCall \in Call
  BY DEF NetInv, NetTypeOK, Call, NoCall, Sends
<1>2. call'[c] = NoCall /\ \A d \in Caller : d # c => call'[d] = call[d]
  BY <1>1
<1>3. (\A i \in DOMAIN commands : commands[i] # c) /\ opener[c].pc = "none"
  BY NotAwaited
<1>4. NetTypeOK'
  BY <1>1 DEF NetInv, NetTypeOK, NetKept
<1>5. OneAttemptAtATime' /\ CallsFit' /\ Numbered'
  BY <1>2, <1>3 DEF NetInv, OneAttemptAtATime, CallsFit, Numbered, Awaited, NetKept, NoCall
<1>6. QED
  BY <1>2, <1>4, <1>5 DEF NetInv

-----------------------------------------------------------------------------
(* What a step of the network does to calls: those that returned keep their   *)
(* result, and a subscription that returned well was made, or the thread is   *)
(* gone.                                                                      *)
CallsGoOn ==
  /\ subscribed \subseteq subscribed'
  /\ swarm = "panicked" => swarm' = "panicked"
  /\ \A c \in Caller :
       /\ call'[c].kind = call[c].kind
       /\ call[c].pc \notin {"waiting", "pausing"} => call'[c] = call[c]
       /\ call[c].kind = "subscribe" =>
            /\ call'[c].topic = call[c].topic
            /\ call'[c].pc = "ok" /\ call[c].pc # "ok" =>
                 call[c].topic \in subscribed' \/ swarm' = "panicked"

(* The command that is handled is its caller's only one, and no other goes. *)
LEMMA HeadFacts ==
    ASSUME NetInv, commands # <<>>, commands' = Tail(commands), NEW c, c = Head(commands)
    PROVE  /\ c \in Caller /\ Awaited(c) /\ opener[c].pc = "none"
           /\ commands' \in Seq(Caller)
           /\ \A i \in DOMAIN commands' :
                i + 1 \in DOMAIN commands /\ commands'[i] = commands[i + 1] /\ commands'[i] # c
<1>1. commands \in Seq(Caller) /\ 1 \in DOMAIN commands /\ c = commands[1] /\ c \in Caller
  BY DEF NetInv, NetTypeOK
<1>2. commands' \in Seq(Caller) /\ \A i \in DOMAIN commands' :
        i \in Nat /\ i # 0 /\ i + 1 \in DOMAIN commands /\ commands'[i] = commands[i + 1]
  BY <1>1
<1>3. \A i, j \in DOMAIN commands : commands[i] = c /\ commands[j] = c => i = j
  BY <1>1 DEF NetInv, OneAttemptAtATime
<1>4. Awaited(c) /\ opener[c].pc = "none"
  BY <1>1 DEF NetInv, OneAttemptAtATime
<1>5. QED
  BY <1>1, <1>2, <1>3, <1>4

(* After a command was handled, its caller has no command; the other callers' *)
(* commands, calls and tasks are as before.                                   *)
LEMMA HandledInv ==
    ASSUME NetInv, commands # <<>>, commands' = Tail(commands), NEW c, c = Head(commands),
           \A d \in Caller : d # c => call'[d] = call[d] /\ opener'[d] = opener[d],
           opener'[c].pc # "none" => Awaited(c)' /\ call'[c].kind \in Sends
    PROVE  OneAttemptAtATime'
<1>1. \A i \in DOMAIN commands' :
        i \in Nat /\ i + 1 \in DOMAIN commands /\ commands'[i] = commands[i + 1] /\ commands'[i] # c
  BY HeadFacts DEF NetInv, NetTypeOK
<1>2. SUFFICES ASSUME NEW d \in Caller
               PROVE  /\ \A i, j \in DOMAIN commands' :
                           commands'[i] = d /\ commands'[j] = d => i = j
                      /\ \A i \in DOMAIN commands' :
                           commands'[i] = d => Awaited(d)' /\ opener'[d].pc = "none"
                      /\ opener'[d].pc # "none" => Awaited(d)' /\ call'[d].kind \in Sends
  BY DEF OneAttemptAtATime
<1>3. CASE d = c
  BY <1>1, <1>3
<1>4. CASE d # c
  <2>1. Awaited(d)' = Awaited(d) /\ call'[d] = call[d] /\ opener'[d] = opener[d]
    BY <1>4 DEF Awaited
  <2>2. \A i, j \in DOMAIN commands' : commands'[i] = d /\ commands'[j] = d => i + 1 = j + 1
    BY <1>1 DEF NetInv, OneAttemptAtATime
  <2>3. \A i, j \in DOMAIN commands' : commands'[i] = d /\ commands'[j] = d => i = j
    BY <1>1, <2>2
  <2>4. /\ \A i \in DOMAIN commands' : commands'[i] = d => Awaited(d)' /\ opener'[d].pc = "none"
        /\ opener'[d].pc # "none" => Awaited(d)' /\ call'[d].kind \in Sends
    BY <1>1, <2>1 DEF NetInv, OneAttemptAtATime
  <2>5. QED
    BY <2>3, <2>4
<1>5. QED
  BY <1>3, <1>4

(* An event at the end of a channel that has room. *)
LEMMA AppendedFacts ==
    ASSUME NetInv, ~Full, NEW e \in Event, e.topic \in Topic => e.n # 0,
           events' = Append(events, e)
    PROVE  /\ events' \in Seq(Event) /\ Len(events') <= EventBuffer + 1
           /\ \A i \in DOMAIN events' : events'[i].topic \in Topic => events'[i].n # 0
<1>1. events \in Seq(Event) /\ Len(events) <= EventBuffer /\ EventBuffer \in Nat
  BY NetworkingAssumption DEF NetInv, NetTypeOK, Full
<1>2. /\ events' \in Seq(Event) /\ Len(events') = Len(events) + 1
      /\ \A i \in DOMAIN events' : (i \in DOMAIN events /\ events'[i] = events[i]) \/ events'[i] = e
  BY <1>1
<1>3. QED
  BY <1>1, <1>2 DEF NetInv, Numbered

LEMMA NewNodeFacts ==
    NewNodeRegistered \in Event /\ NewNodeRegistered.topic \notin Topic
  BY NetworkingAssumption DEF NewNodeRegistered, Event

LEMMA AnsweredGoesOn ==
    ASSUME NetInv, NEW c \in Caller, NEW result \in {"pausing", "ok", "error"},
           call' = Answered(c, result), result = "pausing" => call[c].kind \in Sends,
           subscribed \subseteq subscribed', swarm = "panicked" => swarm' = "panicked",
           result = "ok" /\ call[c].kind = "subscribe" => call[c].topic \in subscribed'
    PROVE  call' \in [Caller -> Call] /\ CallsFit' /\ CallsGoOn
<1>1. /\ call' \in [Caller -> Call]
      /\ \A d \in Caller : d # c => call'[d] = call[d]
      /\ call'[c].kind = call[c].kind /\ call'[c].topic = call[c].topic
      /\ call[c].pc = "waiting" => call'[c].pc = result
      /\ call[c].pc # "waiting" => call'[c] = call[c]
  BY AnsweredFacts DEF NetInv
<1>2. CallsFit'
  BY <1>1 DEF NetInv, CallsFit
<1>3. CallsGoOn
  BY <1>1 DEF CallsGoOn
<1>4. QED
  BY <1>1, <1>2, <1>3

LEMMA HandleCommandInv ==
    ASSUME NetInv, HandleCommand
    PROVE  NetInv' /\ CallsGoOn
<1> DEFINE c == Head(commands)
<1>1. /\ swarm = "running" /\ commands # <<>> /\ commands' = Tail(commands)
      /\ UNCHANGED <<swarm, held, arrived, news>>
  BY DEF HandleCommand
<1>2. c \in Caller /\ Awaited(c) /\ opener[c].pc = "none" /\ commands' \in Seq(Caller)
  BY <1>1, HeadFacts
<1>3. NetTypeOK /\ opener \in [Caller -> Opener] /\ call \in [Caller -> Call]
  BY DEF NetInv, NetTypeOK
<1>4. CASE HandleSend(c)
  <2>1. PICK pc \in {"finding", "dialing", "opening"} :
          opener' = [opener EXCEPT ![c] = [pc |-> pc, retries |-> 0]]
    BY <1>4 DEF HandleSend
  <2>2. call[c].kind \in Sends /\ UNCHANGED <<call, events, subscribed>>
    BY <1>4 DEF HandleSend
  <2>3. opener' \in [Caller -> Opener] /\ \A d \in Caller : d # c => opener'[d] = opener[d]
    BY <1>2, <1>3, <2>1, NetworkingAssumption DEF Opener
  <2>4. OneAttemptAtATime'
    BY <1>1, <1>2, <2>2, <2>3, HandledInv DEF Awaited
  <2>5. QED
    BY <1>1, <1>2, <2>2, <2>3, <2>4 DEF NetInv, NetTypeOK, CallsFit, Numbered, CallsGoOn
<1>5. CASE HandleSetStreamHandler(c)
  <2>1. /\ ~Full /\ events' = Append(events, NewNodeRegistered)
        /\ call' = Answered(c, "ok") /\ UNCHANGED <<opener, subscribed>> /\ call[c].kind = "handler"
    BY <1>5 DEF HandleSetStreamHandler
  <2>2. OneAttemptAtATime'
    BY <1>1, <1>2, <1>3, <2>1, HandledInv, AnsweredFacts
  <2>3. QED
    <3>1. call' \in [Caller -> Call] /\ CallsFit' /\ CallsGoOn
      BY <1>1, <1>2, <2>1, AnsweredGoesOn
    <3>2. /\ events' \in Seq(Event) /\ Len(events') <= EventBuffer + 1
          /\ \A i \in DOMAIN events' : events'[i].topic \in Topic => events'[i].n # 0
      BY <2>1, AppendedFacts, NewNodeFacts
    <3>3. QED
      BY <1>1, <1>2, <2>1, <2>2, <3>1, <3>2 DEF NetInv, NetTypeOK, Numbered
<1>6. CASE HandleSubscribe(c)
  <2>1. PICK result \in {"ok", "error"} :
          /\ call' = Answered(c, result) /\ UNCHANGED <<opener, events>>
          /\ IF result = "ok" THEN subscribed' = subscribed \cup {call[c].topic}
                              ELSE subscribed' = subscribed
    BY <1>6 DEF HandleSubscribe
  <2>2. call[c].kind = "subscribe"
    BY <1>6 DEF HandleSubscribe
  <2>3. OneAttemptAtATime'
    BY <1>1, <1>2, <1>3, <2>1, HandledInv, AnsweredFacts
  <2>4. QED
    <3>1. subscribed \subseteq subscribed' /\ subscribed' \subseteq Topic
      BY <1>2, <1>3, <2>1, <2>2 DEF NetInv, NetTypeOK, CallsFit
    <3>2. call' \in [Caller -> Call] /\ CallsFit' /\ CallsGoOn
      BY <1>1, <1>2, <2>1, <3>1, AnsweredGoesOn
    <3>3. QED
      BY <1>1, <1>2, <2>1, <2>3, <3>1, <3>2 DEF NetInv, NetTypeOK, Numbered
<1>7. CASE HandlePublish(c)
  <2>1. PICK result \in {"ok", "error"} : call' = Answered(c, result)
    BY <1>7 DEF HandlePublish
  <2>2. UNCHANGED <<opener, events, subscribed>> /\ call[c].kind = "publish"
    BY <1>7 DEF HandlePublish
  <2>3. OneAttemptAtATime'
    BY <1>1, <1>2, <1>3, <2>1, <2>2, HandledInv, AnsweredFacts
  <2>4. QED
    <3>1. call' \in [Caller -> Call] /\ CallsFit' /\ CallsGoOn
      BY <1>1, <1>2, <2>1, <2>2, AnsweredGoesOn
    <3>2. QED
      BY <1>1, <1>2, <2>2, <2>3, <3>1 DEF NetInv, NetTypeOK, Numbered
<1>8. QED
  BY <1>4, <1>5, <1>6, <1>7 DEF HandleCommand

(* What keeps the commands and gives nobody a task keeps the attempts, if     *)
(* those that are awaited still are.                                          *)
LEMMA AttemptsKept ==
    ASSUME NetInv, UNCHANGED commands,
           \A c \in Caller : call'[c].kind = call[c].kind,
           \A c \in Caller :
             \/ opener'[c].pc = opener[c].pc /\ (Awaited(c) => Awaited(c)')
             \/ opener[c].pc # "none" /\ opener'[c].pc = "none"
             \/ opener[c].pc # "none" /\ (Awaited(c) => Awaited(c)')
    PROVE  OneAttemptAtATime'
  BY DEF NetInv, OneAttemptAtATime

LEMMA ThreadPanicsInv ==
    ASSUME NetInv, ThreadPanics
    PROVE  NetInv' /\ CallsGoOn
<1> DEFINE dropped(c) == call[c].pc = "waiting" /\ \E i \in DOMAIN commands : commands[i] = c
<1>1. /\ swarm' = "panicked" /\ commands' = <<>>
      /\ UNCHANGED <<held, events, subscribed, arrived, news>>
  BY DEF ThreadPanics
<1>2. /\ call' = [c \in Caller |->
            IF dropped(c) THEN [call[c] EXCEPT !.pc = Canceled(c)] ELSE call[c]]
      /\ opener' = [c \in Caller |->
            IF opener[c].pc \in {"finding", "abandoned"}
            THEN [opener[c] EXCEPT !.pc = "dialing"] ELSE opener[c]]
  BY DEF ThreadPanics
<1>3. call \in [Caller -> Call] /\ opener \in [Caller -> Opener]
  BY DEF NetInv, NetTypeOK
<1>4. /\ call' \in [Caller -> Call]
      /\ \A c \in Caller : call'[c].kind = call[c].kind /\ call'[c].topic = call[c].topic
      /\ \A c \in Caller : ~dropped(c) => call'[c] = call[c]
      /\ \A c \in Caller : dropped(c) => call'[c].pc \in {"ok", "error"}
  BY <1>2, <1>3 DEF Call, Canceled
<1>5. /\ opener' \in [Caller -> Opener]
      /\ \A c \in Caller : opener'[c].pc = "none" <=> opener[c].pc = "none"
  BY <1>2, <1>3 DEF Opener
<1>6. OneAttemptAtATime'
  <2>1. \A c \in Caller : opener[c].pc # "none" => call'[c] = call[c]
    BY <1>4 DEF NetInv, OneAttemptAtATime
  <2>2. QED
    BY <1>1, <1>5, <2>1 DEF NetInv, OneAttemptAtATime, Awaited
<1>7. CallsFit' /\ CallsGoOn
  BY <1>1, <1>4 DEF NetInv, CallsFit, CallsGoOn
<1>8. NetTypeOK' /\ Numbered'
  BY <1>1, <1>4, <1>5 DEF NetInv, NetTypeOK, Numbered
<1>9. QED
  BY <1>6, <1>7, <1>8 DEF NetInv

(* What does not change commands, calls or tasks keeps what is said of them.  *)
LEMMA CallsUntouched ==
    ASSUME NetInv, UNCHANGED <<commands, call, opener, subscribed>>,
           swarm = "panicked" => swarm' = "panicked"
    PROVE  OneAttemptAtATime' /\ CallsFit' /\ CallsGoOn
  BY DEF NetInv, OneAttemptAtATime, Awaited, CallsFit, CallsGoOn

LEMMA EmitInv ==
    ASSUME NetInv, NEW e \in Event, e.topic \in Topic => e.n # 0, Emit(e),
           arrived' \in [Topic -> 0..MaxArrivals], news' \in 0..MaxNews
    PROVE  NetInv' /\ CallsGoOn
<1>1. swarm = "running" /\ UNCHANGED <<commands, call, opener, subscribed>>
  BY DEF Emit
<1>2. OneAttemptAtATime' /\ CallsFit' /\ CallsGoOn
  BY <1>1, CallsUntouched
<1>3. CASE Full
  <2>1. held' = <<e>> /\ swarm' = "sending" /\ UNCHANGED events
    BY <1>3 DEF Emit
  <2>2. QED
    BY <1>1, <1>2, <2>1 DEF NetInv, NetTypeOK, Numbered
<1>4. CASE ~Full
  <2>1. /\ events' = Append(events, e) /\ UNCHANGED held
        /\ swarm' \in {"sending", "running"}
    BY <1>4 DEF Emit, Put
  <2>2. /\ events' \in Seq(Event) /\ Len(events') <= EventBuffer + 1
        /\ \A i \in DOMAIN events' : events'[i].topic \in Topic => events'[i].n # 0
    BY <1>4, <2>1, AppendedFacts
  <2>3. QED
    BY <1>1, <1>2, <2>1, <2>2 DEF NetInv, NetTypeOK, Numbered
<1>5. QED
  BY <1>3, <1>4

LEMMA NodeIdentifiedInv ==
    ASSUME NetInv, NodeIdentified
    PROVE  NetInv' /\ CallsGoOn
<1>1. news' \in 0..MaxNews /\ arrived' \in [Topic -> 0..MaxArrivals]
  BY NetworkingAssumption DEF NodeIdentified, NetInv, NetTypeOK
<1>2. QED
  BY <1>1, EmitInv, NewNodeFacts DEF NodeIdentified

LEMMA MessageArrivesInv ==
    ASSUME NetInv, NEW t \in Topic, MessageArrives(t)
    PROVE  NetInv' /\ CallsGoOn
<1> DEFINE e == [topic |-> t, n |-> arrived[t] + 1]
<1>1. arrived[t] \in 0..MaxArrivals /\ arrived[t] + 1 \in 1..MaxArrivals
  BY NetworkingAssumption DEF MessageArrives, NetInv, NetTypeOK
<1>2. news' \in 0..MaxNews /\ arrived' \in [Topic -> 0..MaxArrivals]
  BY <1>1 DEF MessageArrives, NetInv, NetTypeOK
<1>3. e \in Event /\ e.n # 0 /\ Emit(e)
  BY <1>1 DEF Event, MessageArrives
<1>4. QED
  BY <1>2, <1>3, EmitInv

LEMMA ThreadResumesInv ==
    ASSUME NetInv, ThreadResumes
    PROVE  NetInv' /\ CallsGoOn
<1>1. /\ swarm = "sending" /\ ~Full /\ held' = <<>>
      /\ UNCHANGED <<commands, call, opener, subscribed, arrived, news>>
  BY DEF ThreadResumes
<1>2. OneAttemptAtATime' /\ CallsFit' /\ CallsGoOn
  BY <1>1, CallsUntouched
<1>3. CASE held = <<>>
  <2>1. swarm' = "running" /\ UNCHANGED events
    BY <1>3 DEF ThreadResumes
  <2>2. QED
    BY <1>1, <1>2, <2>1 DEF NetInv, NetTypeOK, Numbered
<1>4. CASE held # <<>>
  <2>1. events' = Append(events, Head(held)) /\ swarm' \in {"sending", "running"}
    BY <1>4 DEF ThreadResumes, Put
  <2>2. Head(held) \in Event /\ (Head(held).topic \in Topic => Head(held).n # 0)
    BY <1>4 DEF NetInv, NetTypeOK, Numbered
  <2>3. /\ events' \in Seq(Event) /\ Len(events') <= EventBuffer + 1
        /\ \A i \in DOMAIN events' : events'[i].topic \in Topic => events'[i].n # 0
    BY <1>1, <2>1, <2>2, AppendedFacts
  <2>4. QED
    BY <1>1, <1>2, <2>1, <2>3 DEF NetInv, NetTypeOK, Numbered
<1>5. QED
  BY <1>3, <1>4

(* The second attempt of a send is like its first. *)
LEMMA RetrySendInv ==
    ASSUME NetInv, NEW c \in Caller, RetrySend(c)
    PROVE  NetInv' /\ CallsGoOn
<1>1. /\ call[c].pc = "pausing" /\ NetKept
      /\ SendCommand(c, call[c].kind, NoTopic, TRUE)
  BY DEF RetrySend, NetKept
<1>2. call[c].kind \in Sends /\ call[c].kind # "subscribe" /\ ~Awaited(c)
  BY <1>1 DEF NetInv, CallsFit, Sends, Awaited
<1>3. /\ NetInv' /\ call'[c].kind = call[c].kind
      /\ \A d \in Caller : d # c => call'[d] = call[d]
  BY <1>1, <1>2, SendCommandInv
<1>4. QED
  BY <1>1, <1>2, <1>3 DEF CallsGoOn, NetKept

LEMMA TimeOutInv ==
    ASSUME NetInv, NEW c \in Caller, TimeOut(c)
    PROVE  NetInv' /\ CallsGoOn
<1>1. /\ call[c].pc = "waiting" /\ call[c].kind = "timed" /\ call' = Answered(c, "error")
      /\ UNCHANGED <<commands, opener, swarm, held, events, subscribed, arrived, news>>
  BY DEF TimeOut
<1>2. call' \in [Caller -> Call] /\ CallsFit' /\ CallsGoOn
  BY <1>1, AnsweredGoesOn
<1>3. /\ \A d \in Caller : d # c => call'[d] = call[d]
      /\ call'[c].kind = "timed" /\ call'[c].pc = "error"
  BY <1>1, AnsweredFacts DEF NetInv
<1>4. \A d \in Caller : Awaited(d) => Awaited(d)'
  BY <1>3 DEF Awaited
<1>5. OneAttemptAtATime'
  BY <1>1, <1>3, <1>4, AttemptsKept
<1>6. QED
  BY <1>1, <1>2, <1>5 DEF NetInv, NetTypeOK, Numbered

(* A step of the task either goes on with the attempt or ends it. *)
LEMMA OpenerGoesOnInv ==
    ASSUME NetInv, NEW c \in Caller, opener[c].pc # "none", NEW next \in Opener,
           opener' = [opener EXCEPT ![c] = next], UNCHANGED call, OpenerOnly
    PROVE  NetInv' /\ CallsGoOn
<1>1. opener \in [Caller -> Opener]
  BY DEF NetInv, NetTypeOK
<1>2. /\ opener' \in [Caller -> Opener]
      /\ \A d \in Caller : d # c => opener'[d] = opener[d]
  BY <1>1
<1>3. OneAttemptAtATime'
  BY <1>2, AttemptsKept DEF OpenerOnly, Awaited
<1>4. QED
  BY <1>2, <1>3 DEF OpenerOnly, NetInv, NetTypeOK, CallsFit, Numbered, CallsGoOn

LEMMA OpenerEndsInv ==
    ASSUME NetInv, NEW c \in Caller, opener[c].pc # "none",
           NEW result \in {"pausing", "ok", "error"}, call' = Answered(c, result),
           opener' = [opener EXCEPT ![c] = NoOpener], OpenerOnly
    PROVE  NetInv' /\ CallsGoOn
<1>1. opener \in [Caller -> Opener] /\ call[c].kind \in Sends
  BY DEF NetInv, NetTypeOK, OneAttemptAtATime
<1>2. /\ opener' \in [Caller -> Opener] /\ opener'[c].pc = "none"
      /\ \A d \in Caller : d # c => opener'[d] = opener[d]
  BY <1>1, NetworkingAssumption DEF NoOpener, Opener
<1>3. call' \in [Caller -> Call] /\ CallsFit' /\ CallsGoOn
  BY <1>1, AnsweredGoesOn DEF OpenerOnly, Sends
<1>4. /\ \A d \in Caller : d # c => call'[d] = call[d]
      /\ call'[c].kind = call[c].kind
  BY AnsweredFacts DEF NetInv
<1>5. OneAttemptAtATime'
  BY <1>2, <1>4, AttemptsKept DEF OpenerOnly, Awaited
<1>6. QED
  BY <1>2, <1>3, <1>5 DEF OpenerOnly, NetInv, NetTypeOK, Numbered

LEMMA OpenerStepInv ==
    ASSUME NetInv, NEW c \in Caller, OpenerStep(c)
    PROVE  NetInv' /\ CallsGoOn
<1>1. opener \in [Caller -> Opener] /\ opener[c] \in Opener
  BY DEF NetInv, NetTypeOK
<1>2. ASSUME NEW pc \in {"dialing", "abandoned", "opening"}
      PROVE  [opener[c] EXCEPT !.pc = pc] \in Opener
  BY <1>1 DEF Opener
<1>3. CASE SearchEnds(c)
  <2>1. opener[c].pc # "none" /\ OpenerOnly
    BY <1>3 DEF SearchEnds
  <2>2. CASE \E pc \in {"dialing", "abandoned"} :
               opener' = [opener EXCEPT ![c].pc = pc] /\ UNCHANGED call
    <3>1. PICK pc \in {"dialing", "abandoned"} :
            opener' = [opener EXCEPT ![c] = [opener[c] EXCEPT !.pc = pc]] /\ UNCHANGED call
      BY <2>2
    <3>2. QED
      BY <1>2, <2>1, <3>1, OpenerGoesOnInv
  <2>3. CASE \E result \in {"error", "pausing"} :
               opener' = [opener EXCEPT ![c] = NoOpener] /\ call' = Answered(c, result)
    BY <2>1, <2>3, OpenerEndsInv
  <2>4. QED
    BY <1>3, <2>2, <2>3 DEF SearchEnds
<1>4. CASE Connects(c)
  <2>1. /\ opener[c].pc # "none" /\ OpenerOnly /\ UNCHANGED call
        /\ opener' = [opener EXCEPT ![c] = [opener[c] EXCEPT !.pc = "opening"]]
    BY <1>4 DEF Connects
  <2>2. QED
    BY <1>2, <2>1, OpenerGoesOnInv
<1>5. CASE Opens(c)
  BY <1>5, OpenerEndsInv DEF Opens
<1>6. CASE OpenFails(c)
  <2>1. opener[c].pc # "none" /\ OpenerOnly
    BY <1>6 DEF OpenFails
  <2>2. CASE opener[c].retries < MaxRetries
    <3>1. PICK pc \in {"dialing", "opening"} :
            /\ opener' = [opener EXCEPT ![c] = [pc |-> pc, retries |-> opener[c].retries + 1]]
            /\ UNCHANGED call
      BY <1>1, <1>6, <2>2 DEF OpenFails, Opener
    <3>2. [pc |-> pc, retries |-> opener[c].retries + 1] \in Opener
      BY <1>1, <2>2, NetworkingAssumption DEF Opener
    <3>3. QED
      BY <2>1, <3>1, <3>2, OpenerGoesOnInv
  <2>3. CASE ~(opener[c].retries < MaxRetries)
    BY <1>6, <2>1, <2>3, OpenerEndsInv DEF OpenFails
  <2>4. QED
    BY <2>2, <2>3
<1>7. QED
  BY <1>3, <1>4, <1>5, <1>6 DEF OpenerStep

(* Every step of the network keeps what its calls rely on. *)
LEMMA NetNextInv ==
    ASSUME NetInv, NetNext
    PROVE  NetInv' /\ CallsGoOn
  BY HandleCommandInv, ThreadPanicsInv, NodeIdentifiedInv, MessageArrivesInv,
     ThreadResumesInv, RetrySendInv, TimeOutInv, OpenerStepInv DEF NetNext

-----------------------------------------------------------------------------
(* The network goes on under a loop that waits. *)
LEMMA NetStepInv ==
    ASSUME ClusterInv, NetNext, UNCHANGED clusterVars
    PROVE  ClusterInv'
<1>1. NetInv' /\ CallsGoOn
  BY NetNextInv DEF ClusterInv
<1>2. LoopCall'
  <2>1. /\ UNCHANGED loop /\ call'[Loop].kind = call[Loop].kind
        /\ call[Loop] = NoCall => call'[Loop] = NoCall
    BY <1>1, ClusterAssumption DEF clusterVars, CallsGoOn, NoCall
  <2>2. QED
    BY <1>1, <2>1, ClusterAssumption DEF ClusterInv, LoopCall, CallsGoOn
<1>3. ClusterTypeOK' /\ FullIsFlushed'
  BY <1>1 DEF ClusterInv, NetInv, ClusterTypeOK, FullIsFlushed, clusterVars
<1>4. ReturnedIsServed'
  BY <1>1 DEF ClusterInv, CallsGoOn, ReturnedIsServed, clusterVars
<1>5. QED
  BY <1>1, <1>2, <1>3, <1>4 DEF ClusterInv

(* A step of the program that leaves the network alone. *)
LEMMA NetUntouched ==
    ASSUME NetInv, UNCHANGED netVars
    PROVE  NetInv'
  BY DEF netVars, NetInv, NetTypeOK, OneAttemptAtATime, Awaited, CallsFit, Numbered

LEMMA RequestInv ==
    ASSUME ClusterInv, NEW u \in User, Request(u)
    PROVE  ClusterInv'
<1>1. /\ UNCHANGED <<netVars, loop, jobs, closed, updates, read, calls>>
      /\ requests' \in {requests, Append(requests, u)}
      /\ \/ user' = [user EXCEPT ![u] = "panicked"]
         \/ user' = [user EXCEPT ![u] = "waiting"]
         \/ u \notin Topic /\ user' = [user EXCEPT ![u] = "served"]
  BY DEF Request
<1>2. NetInv'
  BY <1>1, NetUntouched DEF ClusterInv
<1>3. /\ user' \in [User -> {"idle", "waiting", "served", "left", "panicked"}]
      /\ \A v \in Topic : user'[v] = "served" => user[v] = "served"
  <2>1. user \in [User -> {"idle", "waiting", "served", "left", "panicked"}]
    BY DEF ClusterInv, ClusterTypeOK
  <2>2. QED
    BY <1>1, <2>1, ClusterAssumption
<1>4. ClusterTypeOK' /\ FullIsFlushed'
  <2>1. requests' \in Seq(User)
    <3>1. requests \in Seq(User)
      BY DEF ClusterInv, ClusterTypeOK
    <3>2. Append(requests, u) \in Seq(User)
      BY <3>1
    <3>3. QED
      BY <1>1, <3>1, <3>2
  <2>2. QED
    BY <1>1, <1>2, <1>3, <2>1 DEF ClusterInv, NetInv, ClusterTypeOK, FullIsFlushed
<1>5. LoopCall' /\ ReturnedIsServed'
  BY <1>1, <1>3 DEF ClusterInv, LoopCall, ReturnedIsServed, netVars
<1>6. QED
  BY <1>2, <1>4, <1>5 DEF ClusterInv

LEMMA HeadTail ==
    ASSUME NEW S, NEW s \in Seq(S), s # <<>>
    PROVE  /\ Head(s) \in S /\ Tail(s) \in Seq(S)
           /\ Len(Tail(s)) = Len(s) - 1 /\ Len(s) \in Nat
           /\ \A i \in DOMAIN Tail(s) : i + 1 \in DOMAIN s /\ Tail(s)[i] = s[i + 1]
  OBVIOUS

LEMMA ReadUpdateInv ==
    ASSUME ClusterInv, NEW u \in Topic, ReadUpdate(u)
    PROVE  ClusterInv'
<1>1. /\ UNCHANGED <<netVars, requests, loop, user, jobs, closed, calls>>
      /\ updates[u] # <<>> /\ updates' = [updates EXCEPT ![u] = Tail(updates[u])]
      /\ read' = [read EXCEPT ![u] = Head(updates[u])]
  BY DEF ReadUpdate
<1>2. NetInv'
  BY <1>1, NetUntouched DEF ClusterInv
<1>3. /\ updates \in [Topic -> Seq(1..MaxArrivals)]
      /\ Head(updates[u]) \in 0..MaxArrivals /\ Tail(updates[u]) \in Seq(1..MaxArrivals)
      /\ Len(Tail(updates[u])) = Len(updates[u]) - 1 /\ Len(updates[u]) \in Nat
  <2>1. updates[u] \in Seq(1..MaxArrivals) /\ updates \in [Topic -> Seq(1..MaxArrivals)]
    BY DEF ClusterInv, ClusterTypeOK
  <2>2. Head(updates[u]) \in 1..MaxArrivals /\ Tail(updates[u]) \in Seq(1..MaxArrivals)
    BY <1>1, <2>1, HeadTail
  <2>3. Len(Tail(updates[u])) = Len(updates[u]) - 1 /\ Len(updates[u]) \in Nat
    BY <1>1, <2>1, HeadTail
  <2>4. 1..MaxArrivals \subseteq 0..MaxArrivals
    BY NetworkingAssumption
  <2>5. QED
    BY <2>1, <2>2, <2>3, <2>4
<1>4. /\ updates' \in [Topic -> Seq(1..MaxArrivals)]
      /\ read' \in [Topic -> 0..MaxArrivals]
      /\ \A v \in Topic : Len(updates'[v]) <= Len(updates[v]) /\ Len(updates[v]) \in Nat
      /\ \A v \in Topic : Len(updates'[v]) \in Nat
  BY <1>1, <1>3 DEF ClusterInv, ClusterTypeOK
<1>5. ClusterTypeOK'
  BY <1>1, <1>2, <1>4, ClusterAssumption DEF ClusterInv, NetInv, ClusterTypeOK
<1>6. FullIsFlushed'
  BY <1>1, <1>4, ClusterAssumption DEF ClusterInv, FullIsFlushed
<1>7. LoopCall' /\ ReturnedIsServed'
  BY <1>1 DEF ClusterInv, LoopCall, ReturnedIsServed, netVars
<1>8. QED
  BY <1>2, <1>5, <1>6, <1>7 DEF ClusterInv

LEMMA LeaveInv ==
    ASSUME ClusterInv, NEW u \in Topic, Leave(u)
    PROVE  ClusterInv'
<1>1. /\ UNCHANGED <<netVars, requests, loop, jobs, closed, read, calls>>
      /\ user' = [user EXCEPT ![u] = "left"] /\ updates' = [updates EXCEPT ![u] = <<>>]
  BY DEF Leave
<1>2. NetInv'
  BY <1>1, NetUntouched DEF ClusterInv
<1>3. /\ user' \in [User -> {"idle", "waiting", "served", "left", "panicked"}]
      /\ \A v \in Topic : user'[v] = "served" => user[v] = "served"
  BY <1>1, ClusterAssumption DEF ClusterInv, ClusterTypeOK
<1>4. /\ updates' \in [Topic -> Seq(1..MaxArrivals)]
      /\ updates'[u] = <<>> /\ \A v \in Topic : v # u => updates'[v] = updates[v]
  BY <1>1 DEF ClusterInv, ClusterTypeOK
<1>5. ClusterTypeOK' /\ FullIsFlushed'
  BY <1>1, <1>2, <1>3, <1>4, ClusterAssumption
  DEF ClusterInv, NetInv, ClusterTypeOK, FullIsFlushed
<1>6. LoopCall' /\ ReturnedIsServed'
  BY <1>1, <1>3 DEF ClusterInv, LoopCall, ReturnedIsServed, netVars
<1>7. QED
  BY <1>2, <1>5, <1>6 DEF ClusterInv

(* The program's own calls do not touch the loop's. *)
LEMMA ClientCallInv ==
    ASSUME ClusterInv, NEW c \in Client, ClientCall(c)
    PROVE  ClusterInv'
<1>1. PICK kind \in Plan[c][calls[c] + 1] : SendCommand(c, kind, NoTopic, FALSE)
  BY DEF ClientCall
<1>2. /\ NetKept /\ calls' = [calls EXCEPT ![c] = calls[c] + 1]
      /\ UNCHANGED <<requests, loop, user, jobs, closed, updates, read>>
  BY DEF ClientCall
<1>3. /\ calls \in [Client -> Nat] /\ Plan[c] \in Seq(SUBSET {"send", "timed", "handler", "publish"})
      /\ calls[c] + 1 \in DOMAIN Plan[c]
  <2>1. /\ calls \in [Client -> Nat] /\ calls[c] < Len(Plan[c])
        /\ Plan[c] \in Seq(SUBSET {"send", "timed", "handler", "publish"})
    BY ClusterAssumption DEF ClientCall, ClusterInv, ClusterTypeOK
  <2>2. QED
    BY <2>1
<1>4. kind \in {"send", "timed", "handler", "publish"}
  BY <1>1, <1>3
<1>5. c \in Caller /\ c # Loop /\ ~Awaited(c)
  BY DEF Client, ClientCall, Awaited
<1>6. NetInv' /\ call'[Loop] = call[Loop]
  BY <1>1, <1>2, <1>4, <1>5, SendCommandInv, ClusterAssumption DEF ClusterInv, Sends
<1>7. ClusterTypeOK' /\ FullIsFlushed'
  BY <1>2, <1>3, <1>6 DEF ClusterInv, NetInv, ClusterTypeOK, FullIsFlushed
<1>8. LoopCall' /\ ReturnedIsServed'
  BY <1>2, <1>6 DEF ClusterInv, LoopCall, ReturnedIsServed, NetKept
<1>9. QED
  BY <1>6, <1>7, <1>8 DEF ClusterInv

-----------------------------------------------------------------------------
(* A loop whose call has returned, or that has none, is awaited by nobody. *)
LEMMA LoopNotAwaited ==
    ASSUME LoopCall, loop.pc = "select" \/ call[Loop].pc \in {"ok", "error"}
    PROVE  ~Awaited(Loop)
  BY DEF LoopCall, Awaited, NoCall

(* A loop that makes a call for a user. *)
LEMMA LoopCallsInv ==
    ASSUME ClusterInv, ~Awaited(Loop), loop.pc # "flush",
           NEW kind \in {"send", "subscribe", "publish"}, NEW topic \in Topic \cup {NoTopic},
           NEW pc, NEW u \in User, LoopCalls(kind, topic, pc, u),
           \/ pc = "submit" /\ kind = "send" /\ u \in Topic
           \/ pc = "subscribe" /\ kind = "subscribe" /\ u \in Topic /\ topic = u
           \/ pc = "publish" /\ kind = "publish"
           \/ pc = "monitor" /\ kind = "send" /\ u \in User \ Topic,
           requests' \in Seq(User), loop.pc # "panicked",
           UNCHANGED <<user, jobs, closed, updates, read, calls>>
    PROVE  ClusterInv'
<1>1. SendCommand(Loop, kind, topic, FALSE) /\ NetKept /\ loop' = [pc |-> pc, of |-> u]
  BY DEF LoopCalls
<1>2. /\ NetInv' /\ call'[Loop].kind = kind /\ call'[Loop].topic = topic
      /\ call'[Loop].pc \in {"waiting", "error"}
  BY <1>1, SendCommandInv, ClusterAssumption DEF ClusterInv, Sends
<1>3. loop' \in [pc : {"select", "submit", "subscribe", "publish", "monitor",
                       "flush", "panicked"}, of : User \cup {NoUser}]
  BY <1>1
<1>4. ClusterTypeOK'
  BY <1>2, <1>3 DEF ClusterInv, NetInv, ClusterTypeOK
<1>5. LoopCall'
  BY <1>1, <1>2 DEF LoopCall
<1>6. FullIsFlushed' /\ ReturnedIsServed'
  BY <1>1 DEF ClusterInv, FullIsFlushed, ReturnedIsServed, NetKept
<1>7. QED
  BY <1>2, <1>4, <1>5, <1>6 DEF ClusterInv

LEMMA TakeCommandInv ==
    ASSUME ClusterInv, TakeCommand
    PROVE  ClusterInv'
<1> DEFINE u == Head(requests)
<1>1. /\ loop.pc = "select" /\ requests # <<>> /\ requests' = Tail(requests)
      /\ UNCHANGED <<user, jobs, closed, updates, read, calls>>
  BY DEF TakeCommand
<1>2. u \in User /\ requests' \in Seq(User) /\ ~Awaited(Loop)
  BY <1>1, LoopNotAwaited DEF ClusterInv, ClusterTypeOK
<1>3. CASE u \in Topic /\ LoopCalls("send", NoTopic, "submit", u)
  BY <1>1, <1>2, <1>3, LoopCallsInv
<1>4. CASE u \notin Topic /\ LoopCalls("send", NoTopic, "monitor", u)
  BY <1>1, <1>2, <1>4, LoopCallsInv
<1>5. CASE LoopCalls("publish", NoTopic, "publish", u)
  BY <1>1, <1>2, <1>5, LoopCallsInv
<1>6. QED
  BY <1>3, <1>4, <1>5 DEF TakeCommand

LEMMA ResponseReadInv ==
    ASSUME ClusterInv, ResponseRead
    PROVE  ClusterInv'
<1>1. /\ loop.pc = "submit" /\ call[Loop].pc = "ok"
      /\ LoopCalls("subscribe", loop.of, "subscribe", loop.of)
      /\ UNCHANGED <<requests, user, jobs, closed, updates, read, calls>>
  BY DEF ResponseRead
<1>2. loop.of \in Topic /\ loop.of \in User /\ requests' \in Seq(User) /\ ~Awaited(Loop)
  BY <1>1, LoopNotAwaited, ClusterAssumption DEF ClusterInv, LoopCall, ClusterTypeOK
<1>3. QED
  BY <1>1, <1>2, LoopCallsInv

(* The loop takes a result. *)
LEMMA ReturnedInv ==
    ASSUME ClusterInv, NEW pc, NEW result \in {"ok", "error"}, Returned(pc, result)
    PROVE  NetInv' /\ call'[Loop] = NoCall /\ UNCHANGED <<subscribed, swarm>>
  BY LoopNotAwaited, CallOverInv, ClusterAssumption DEF ClusterInv, Returned, NetKept

(* A loop that took a result and selects again, with at most one user served. *)
LEMMA SelectsAgainInv ==
    ASSUME ClusterInv, NEW pc, NEW result \in {"ok", "error"}, Returned(pc, result),
           loop.pc \notin {"flush", "panicked"}, loop' = Selecting,
           UNCHANGED <<requests, updates, read, calls>>,
           jobs \subseteq jobs' /\ jobs' \subseteq Topic,
           closed \subseteq closed' /\ closed' \subseteq Topic,
           user' \in [User -> {"idle", "waiting", "served", "left", "panicked"}],
           \A v \in Topic : user'[v] = "served" =>
             \/ user[v] = "served" \/ v \in closed'
             \/ v \in jobs' /\ (v \in subscribed \/ swarm = "panicked")
    PROVE  ClusterInv'
<1>1. NetInv' /\ call'[Loop] = NoCall /\ UNCHANGED <<subscribed, swarm>>
  BY ReturnedInv
<1>2. ClusterTypeOK'
  BY <1>1 DEF ClusterInv, NetInv, ClusterTypeOK, Selecting
<1>3. LoopCall'
  BY <1>1 DEF LoopCall, Selecting, NoCall
<1>4. FullIsFlushed' /\ ReturnedIsServed'
  BY <1>1 DEF ClusterInv, FullIsFlushed, ReturnedIsServed
<1>5. QED
  BY <1>1, <1>2, <1>3, <1>4 DEF ClusterInv

(* The end of the loop excuses those it does not serve. *)
LEMMA LoopPanicsInv ==
    ASSUME ClusterInv, NEW pc, NEW result \in {"ok", "error"}, Returned(pc, result),
           loop.pc # "flush", LoopPanics
    PROVE  ClusterInv'
<1>1. NetInv' /\ call'[Loop] = NoCall
  BY ReturnedInv
<1>2. /\ loop' = [loop EXCEPT !.pc = "panicked"] /\ requests' = <<>> /\ jobs' = {}
      /\ UNCHANGED <<closed, updates, read, calls>>
      /\ user' = [v \in User |-> IF user[v] = "waiting" THEN "panicked" ELSE user[v]]
  BY DEF LoopPanics
<1>3. /\ loop'.pc = "panicked"
      /\ loop' \in [pc : {"select", "submit", "subscribe", "publish", "monitor",
                         "flush", "panicked"}, of : User \cup {NoUser}]
  BY <1>2 DEF ClusterInv, ClusterTypeOK
<1>4. user' \in [User -> {"idle", "waiting", "served", "left", "panicked"}]
  BY <1>2 DEF ClusterInv, ClusterTypeOK
<1>5. ClusterTypeOK'
  BY <1>1, <1>2, <1>3, <1>4 DEF ClusterInv, NetInv, ClusterTypeOK
<1>6. LoopCall'
  BY <1>1, <1>3 DEF LoopCall, NoCall
<1>7. FullIsFlushed'
  BY <1>2 DEF ClusterInv, FullIsFlushed
<1>8. ReturnedIsServed'
  BY <1>3 DEF ReturnedIsServed
<1>9. QED
  BY <1>1, <1>5, <1>6, <1>7, <1>8 DEF ClusterInv

(* The user of the present call is served, or nobody is. *)
LEMMA ServeFacts ==
    ASSUME ClusterInv, NEW u \in User, Serve(u)
    PROVE  /\ loop' = Selecting
           /\ user' \in [User -> {"idle", "waiting", "served", "left", "panicked"}]
           /\ \A v \in User : v # u => user'[v] = user[v]
  BY DEF ClusterInv, ClusterTypeOK, Serve

LEMMA FlushedInv ==
    ASSUME ClusterInv, Flushed
    PROVE  ClusterInv'
<1>1. /\ loop.pc = "flush" /\ Len(updates[loop.of]) <= UpdateBuffer /\ loop' = Selecting
      /\ UNCHANGED <<netVars, requests, user, jobs, closed, updates, read, calls>>
  BY DEF Flushed
<1>2. NetInv'
  BY <1>1, NetUntouched DEF ClusterInv
<1>3. LoopCall'
  BY <1>1 DEF ClusterInv, LoopCall, Selecting, netVars, NoCall
<1>4. ClusterTypeOK'
  BY <1>1, <1>2 DEF ClusterInv, NetInv, ClusterTypeOK, Selecting
<1>5. FullIsFlushed'
  <2>1. \A u \in Topic : ~(Len(updates[u]) > UpdateBuffer)
    <3>1. SUFFICES ASSUME NEW u \in Topic, Len(updates[u]) > UpdateBuffer
                   PROVE  FALSE
      OBVIOUS
    <3>2. loop.of = u /\ Len(updates[u]) \in Nat
      BY <3>1 DEF ClusterInv, FullIsFlushed, ClusterTypeOK
    <3>3. QED
      BY <1>1, <3>1, <3>2, ClusterAssumption
  <2>2. QED
    BY <1>1, <2>1 DEF FullIsFlushed
<1>6. ReturnedIsServed'
  BY <1>1 DEF ClusterInv, ReturnedIsServed, netVars
<1>7. QED
  BY <1>2, <1>3, <1>4, <1>5, <1>6 DEF ClusterInv

LEMMA LoopReturnsInv ==
    ASSUME ClusterInv, LoopReturns
    PROVE  ClusterInv'
<1>1. CASE SubmitFails
  <2>1. /\ Returned("submit", "error") /\ loop.pc = "submit"
        /\ closed' = closed \cup {loop.of} /\ Serve(loop.of)
        /\ UNCHANGED <<requests, jobs, updates, read, calls>>
    BY <1>1 DEF SubmitFails, Returned
  <2>2. loop.of \in Topic /\ loop.of \in User /\ jobs \subseteq Topic /\ closed \subseteq Topic
    BY <2>1, ClusterAssumption DEF ClusterInv, LoopCall, ClusterTypeOK
  <2>3. QED
    BY <2>1, <2>2, ServeFacts, SelectsAgainInv, ClusterAssumption
<1>2. CASE Subscribed
  <2>1. /\ Returned("subscribe", "ok") /\ loop.pc = "subscribe" /\ call[Loop].pc = "ok"
        /\ jobs' = jobs \cup {loop.of} /\ Serve(loop.of)
        /\ UNCHANGED <<requests, closed, updates, read, calls>>
    BY <1>2 DEF Subscribed, Returned
  <2>2. /\ loop.of \in Topic /\ loop.of \in User /\ jobs \subseteq Topic /\ closed \subseteq Topic
        /\ loop.of \in subscribed \/ swarm = "panicked"
    BY <2>1, ClusterAssumption DEF ClusterInv, LoopCall, ClusterTypeOK
  <2>3. QED
    BY <2>1, <2>2, ServeFacts, SelectsAgainInv, ClusterAssumption
<1>3. CASE NotSubscribed
  BY <1>3, LoopPanicsInv DEF NotSubscribed, Returned
<1>4. CASE PublishReturned
  <2>1. PICK result \in {"ok", "error"} : Returned("publish", result)
    BY <1>4 DEF PublishReturned
  <2>2. /\ loop.pc = "publish" /\ loop' = Selecting
        /\ UNCHANGED <<requests, user, jobs, closed, updates, read, calls>>
    BY <1>4, <2>1 DEF PublishReturned, Returned
  <2>3. /\ jobs \subseteq Topic /\ closed \subseteq Topic
        /\ user \in [User -> {"idle", "waiting", "served", "left", "panicked"}]
    BY DEF ClusterInv, ClusterTypeOK
  <2>4. QED
    BY <2>1, <2>2, <2>3, SelectsAgainInv
<1>5. CASE Monitored
  <2>1. /\ Returned("monitor", "ok") /\ loop.pc = "monitor" /\ Serve(loop.of)
        /\ UNCHANGED <<requests, jobs, closed, updates, read, calls>>
    BY <1>5 DEF Monitored, Returned
  <2>2. loop.of \in User \ Topic /\ jobs \subseteq Topic /\ closed \subseteq Topic
    BY <2>1 DEF ClusterInv, LoopCall, ClusterTypeOK
  <2>3. QED
    BY <2>1, <2>2, ServeFacts, SelectsAgainInv, ClusterAssumption
<1>6. CASE NotMonitored
  BY <1>6, LoopPanicsInv DEF NotMonitored, Returned
<1>7. CASE Flushed
  BY <1>7, FlushedInv
<1>8. QED
  BY <1>1, <1>2, <1>3, <1>4, <1>5, <1>6, <1>7 DEF LoopReturns

LEMMA ResponseBrokenInv ==
    ASSUME ClusterInv, ResponseBroken
    PROVE  ClusterInv'
  BY LoopPanicsInv DEF ResponseBroken, Returned

(* The loop takes the oldest event, which may be an update of a job. *)
LEMMA HandleEventInv ==
    ASSUME ClusterInv, HandleEvent
    PROVE  ClusterInv'
<1> DEFINE u == Head(events).topic
           n == Head(events).n
<1>1. /\ loop.pc = "select" /\ events # <<>> /\ events' = Tail(events)
      /\ UNCHANGED <<commands, call, opener, swarm, held, subscribed, arrived, news>>
      /\ UNCHANGED <<requests, user, closed, read, calls>>
  BY DEF HandleEvent
<1>2. /\ Head(events) \in Event /\ events' \in Seq(Event) /\ Len(events') <= EventBuffer + 1
      /\ \A i \in DOMAIN events' : events'[i].topic \in Topic => events'[i].n # 0
      /\ u \in Topic => n # 0
  <2>1. events \in Seq(Event) /\ Len(events) <= EventBuffer + 1 /\ Head(events) = events[1]
    BY DEF ClusterInv, NetInv, NetTypeOK
  <2>2. /\ Head(events) \in Event /\ Tail(events) \in Seq(Event) /\ 1 \in DOMAIN events
        /\ Len(Tail(events)) = Len(events) - 1 /\ Len(events) \in Nat
        /\ \A i \in DOMAIN Tail(events) :
             i + 1 \in DOMAIN events /\ Tail(events)[i] = events[i + 1]
    BY <1>1, <2>1, HeadTail
  <2>3. \A i \in DOMAIN events : events[i].topic \in Topic => events[i].n # 0
    BY DEF ClusterInv, NetInv, Numbered
  <2>4. QED
    BY <1>1, <2>1, <2>2, <2>3, NetworkingAssumption
<1>3. NetInv'
  <2>1. OneAttemptAtATime' /\ CallsFit'
    BY <1>1, CallsUntouched DEF ClusterInv
  <2>2. QED
    BY <1>1, <1>2, <2>1 DEF ClusterInv, NetInv, NetTypeOK, Numbered
<1>4. /\ call[Loop] = NoCall /\ UNCHANGED call
      /\ \A v \in Topic : ~(Len(updates[v]) > UpdateBuffer)
      /\ jobs \subseteq Topic /\ updates \in [Topic -> Seq(1..MaxArrivals)]
  BY <1>1 DEF ClusterInv, LoopCall, FullIsFlushed, ClusterTypeOK
<1>5. CASE /\ UNCHANGED <<updates, loop>>
           /\ \/ u \notin jobs /\ UNCHANGED jobs
              \/ user[u] = "left" /\ jobs' = jobs \ {u}
  <2>1. LoopCall' /\ FullIsFlushed'
    BY <1>1, <1>4, <1>5 DEF ClusterInv, LoopCall, FullIsFlushed
  <2>2. ClusterTypeOK' /\ ReturnedIsServed'
    BY <1>1, <1>3, <1>4, <1>5 DEF ClusterInv, NetInv, ClusterTypeOK, ReturnedIsServed
  <2>3. QED
    BY <1>3, <2>1, <2>2 DEF ClusterInv
<1>6. CASE /\ u \in jobs /\ updates' = [updates EXCEPT ![u] = Append(updates[u], n)]
           /\ loop' = IF Len(updates'[u]) > UpdateBuffer
                      THEN [pc |-> "flush", of |-> u] ELSE Selecting
           /\ UNCHANGED jobs
  <2>1. u \in Topic /\ u \in User /\ n \in 1..MaxArrivals
    BY <1>2, <1>4, <1>6, ClusterAssumption, NetworkingAssumption DEF Event
  <2>2. updates[u] \in Seq(1..MaxArrivals)
    BY <1>4, <2>1
  <2>3. /\ Append(updates[u], n) \in Seq(1..MaxArrivals)
        /\ Len(Append(updates[u], n)) = Len(updates[u]) + 1 /\ Len(updates[u]) \in Nat
    BY <2>1, <2>2
  <2>4. /\ updates' \in [Topic -> Seq(1..MaxArrivals)]
        /\ updates'[u] = Append(updates[u], n)
        /\ \A v \in Topic : v # u => updates'[v] = updates[v]
    BY <1>4, <1>6, <2>1, <2>3
  <2>5. \A v \in Topic : Len(updates'[v]) <= UpdateBuffer + 1
    <3>1. ~(Len(updates[u]) > UpdateBuffer) /\ Len(updates[u]) \in Nat /\ UpdateBuffer \in Nat
      BY <1>4, <2>1, <2>3, ClusterAssumption
    <3>2. Len(updates'[u]) <= UpdateBuffer + 1
      BY <2>3, <2>4, <3>1
    <3>3. QED
      BY <2>4, <3>2 DEF ClusterInv, ClusterTypeOK
  <2>6. FullIsFlushed'
    BY <1>4, <1>6, <2>4 DEF FullIsFlushed
  <2>7. LoopCall'
    BY <1>4, <1>6, <2>1 DEF LoopCall, Selecting, NoCall
  <2>8. ClusterTypeOK'
    BY <1>1, <1>3, <1>6, <2>1, <2>4, <2>5 DEF ClusterInv, NetInv, ClusterTypeOK, Selecting
  <2>9. ReturnedIsServed'
    BY <1>1, <1>6 DEF ClusterInv, ReturnedIsServed
  <2>10. QED
    BY <1>3, <2>6, <2>7, <2>8, <2>9 DEF ClusterInv
<1>7. QED
  BY <1>5, <1>6 DEF HandleEvent

-----------------------------------------------------------------------------
LEMMA ClusterInitInv == ClusterInit => ClusterInv
<1> SUFFICES ASSUME ClusterInit PROVE ClusterInv
  OBVIOUS
<1>1. NetTypeOK
  BY NetworkingAssumption
  DEF ClusterInit, NetInit, NetTypeOK, Call, NoCall, Sends, Opener, NoOpener
<1>2. OneAttemptAtATime /\ CallsFit /\ Numbered
  BY DEF ClusterInit, NetInit, OneAttemptAtATime, CallsFit, Numbered, NoCall, NoOpener
<1>3. ClusterTypeOK
  BY <1>1, NetworkingAssumption, ClusterAssumption DEF ClusterInit, ClusterTypeOK, Selecting
<1>4. LoopCall
  BY ClusterAssumption DEF ClusterInit, NetInit, LoopCall, Selecting, NoCall
<1>5. FullIsFlushed
  BY ClusterAssumption DEF ClusterInit, FullIsFlushed
<1>6. ReturnedIsServed
  BY ClusterAssumption DEF ClusterInit, ReturnedIsServed
<1>7. QED
  BY <1>1, <1>2, <1>3, <1>4, <1>5, <1>6 DEF ClusterInv, NetInv

LEMMA ClusterNextInv == ClusterInv /\ [ClusterNext]_vars => ClusterInv'
<1> SUFFICES ASSUME ClusterInv, [ClusterNext]_vars PROVE ClusterInv'
  OBVIOUS
<1>1. CASE UNCHANGED vars
  <2>1. UNCHANGED netVars /\ UNCHANGED clusterVars
    BY <1>1 DEF vars
  <2>2. NetInv'
    BY <2>1, NetUntouched DEF ClusterInv
  <2>3. QED
    BY <2>1, <2>2 DEF ClusterInv, NetInv, ClusterTypeOK, LoopCall, FullIsFlushed,
                      ReturnedIsServed, netVars, clusterVars
<1>2. CASE ClusterNext
  BY <1>2, NetStepInv, RequestInv, ReadUpdateInv, LeaveInv, ClientCallInv, TakeCommandInv,
     HandleEventInv, LoopReturnsInv, ResponseReadInv, ResponseBrokenInv DEF ClusterNext
<1>3. QED
  BY <1>1, <1>2

(* Every reachable state of a program, its loop and its network satisfies the *)
(* inductive invariant.                                                       *)
THEOREM ClusterInvariant == ClusterSpec => []ClusterInv
<1>1. ClusterInit => ClusterInv
  BY ClusterInitInv
<1>2. ClusterInv /\ [ClusterNext]_vars => ClusterInv'
  BY ClusterNextInv
<1>3. QED
  BY <1>1, <1>2, PTL DEF ClusterSpec

(* The variables of the network and of the loop keep their types, and neither *)
(* channel ever holds more than one message beyond its buffer.                *)
THEOREM ClusterTypeCorrect == ClusterSpec => []ClusterTypeOK
  BY ClusterInvariant, PTL DEF ClusterInv

(* A call of Client is attempted once at a time: when send tries again, when  *)
(* its timeout strikes and when the network thread ends, no command and no    *)
(* task of an earlier attempt is left for a caller that goes on.              *)
THEOREM CallsAreAttemptedOnce == ClusterSpec => []OneAttemptAtATime
<1>1. ClusterInv => OneAttemptAtATime
  BY DEF ClusterInv, NetInv
<1>2. QED
  BY <1>1, ClusterInvariant, PTL

(* When submit_job returns, the updates of its job reach its reader, or their *)
(* channel was closed, or the loop or the network thread is gone.             *)
THEOREM SubmittedIsServed == ClusterSpec => []ReturnedIsServed
  BY ClusterInvariant, PTL DEF ClusterInv

-----------------------------------------------------------------------------
(* Updates: those of a job reach the reader of its channel once, in the    *)
(* order in which they arrived, and none is lost, from the subscription on *)

(* Only a thread that waits for room has an event in its hands. *)
HeldIsSending == held # <<>> => swarm = "sending"

(* The loop is the only one that subscribes. *)
OnlyLoopSubscribes == \A c \in Client : call[c].kind # "subscribe"

(* A submission is asked for once, and its caller waits until it is served. *)
SubmittedOnce ==
  /\ \A i \in DOMAIN requests : requests[i] \in Topic => user[requests[i]] = "waiting"
  /\ \A i, j \in DOMAIN requests :
       requests[i] \in Topic /\ requests[i] = requests[j] => i = j
  /\ loop.pc \in {"submit", "subscribe"} =>
       /\ user[loop.of] = "waiting"
       /\ \A i \in DOMAIN requests : requests[i] # loop.of

(* Whose topic is subscribed to is known to the loop, or will be next. *)
SubscribedIsKnown ==
  \A u \in Topic :
    u \in subscribed =>
      \/ u \in jobs \/ user[u] = "left" \/ loop.pc = "panicked"
      \/ loop.pc = "subscribe" /\ loop.of = u /\ call[Loop].pc = "ok"

(* Nothing arrives before the subscription or is read before it arrives. *)
ArrivedIsSubscribed ==
  \A u \in Topic :
    /\ arrived[u] # 0 => u \in subscribed
    /\ read[u] <= arrived[u]

OrderInv ==
  /\ ClusterInv /\ HeldIsSending /\ OnlyLoopSubscribes /\ SubmittedOnce
  /\ SubscribedIsKnown /\ ArrivedIsSubscribed /\ UpdatesInOrder

-----------------------------------------------------------------------------
Joined(w, s, t) == w = s \o t

LEMMA JoinedFacts ==
    ASSUME NEW s \in Seq(Event), NEW t \in Seq(Event), NEW w, Joined(w, s, t)
    PROVE  /\ w \in Seq(Event) /\ Len(w) = Len(s) + Len(t)
           /\ Len(s) \in Nat /\ Len(t) \in Nat
           /\ \A i \in 1..Len(s) : w[i] = s[i]
           /\ \A i \in 1..Len(t) : w[Len(s) + i] = t[i]
  BY DEF Joined

(* The updates of a channel as messages of its topic. *)
LEMMA UpdatesAsEvents ==
    ASSUME NEW u \in Topic, NEW q \in Seq(1..MaxArrivals),
           NEW s, s = [i \in DOMAIN q |-> [topic |-> u, n |-> q[i]]]
    PROVE  /\ s \in Seq(Event) /\ Len(s) = Len(q)
           /\ \A i \in 1..Len(q) : s[i] = [topic |-> u, n |-> q[i]]
<1>1. Len(q) \in Nat /\ DOMAIN q = 1..Len(q) /\ \A i \in 1..Len(q) : q[i] \in 0..MaxArrivals
  <2>1. \A i \in 1..Len(q) : q[i] \in 1..MaxArrivals
    BY ElementOfSeq
  <2>2. 1..MaxArrivals \subseteq 0..MaxArrivals
    BY NetworkingAssumption
  <2>3. QED
    BY <2>1, <2>2
<1>2. \A i \in 1..Len(q) : [topic |-> u, n |-> q[i]] \in Event
  BY <1>1 DEF Event
<1>3. s \in [1..Len(q) -> Event] /\ \A i \in 1..Len(q) : s[i] = [topic |-> u, n |-> q[i]]
  BY <1>1, <1>2
<1>4. QED
  BY <1>1, <1>3

(* Three channels seen as one. *)
WayOf(w, q, e, h, u) ==
  /\ w \in Seq(Event) /\ Len(w) = Len(q) + Len(e) + Len(h)
  /\ Len(q) \in Nat /\ Len(e) \in Nat /\ Len(h) \in Nat
  /\ \A i \in 1..Len(q) : w[i] = [topic |-> u, n |-> q[i]]
  /\ \A i \in 1..Len(e) : w[Len(q) + i] = e[i]
  /\ \A i \in 1..Len(h) : w[Len(q) + Len(e) + i] = h[i]

LEMMA WayFacts ==
    ASSUME NEW u \in Topic, NEW q \in Seq(1..MaxArrivals),
           NEW e \in Seq(Event), NEW h \in Seq(Event)
    PROVE  WayOf([i \in DOMAIN q |-> [topic |-> u, n |-> q[i]]] \o e \o h, q, e, h, u)
<1>1. PICK s : s = [i \in DOMAIN q |-> [topic |-> u, n |-> q[i]]]
  OBVIOUS
<1>2. PICK t : Joined(t, s, e)
  BY DEF Joined
<1>3. PICK w : Joined(w, t, h)
  BY DEF Joined
<1>4. /\ s \in Seq(Event) /\ Len(s) = Len(q)
      /\ \A i \in 1..Len(q) : s[i] = [topic |-> u, n |-> q[i]]
  BY <1>1, UpdatesAsEvents
<1>5. /\ t \in Seq(Event) /\ Len(t) = Len(q) + Len(e)
      /\ Len(q) \in Nat /\ Len(e) \in Nat
      /\ \A i \in 1..Len(q) : t[i] = [topic |-> u, n |-> q[i]]
      /\ \A i \in 1..Len(e) : t[Len(q) + i] = e[i]
  <2>1. t \in Seq(Event) /\ Len(t) = Len(q) + Len(e) /\ Len(q) \in Nat /\ Len(e) \in Nat
    BY <1>2, <1>4, JoinedFacts
  <2>2. \A i \in 1..Len(s) : t[i] = s[i]
    BY <1>2, <1>4, JoinedFacts
  <2>3. \A i \in 1..Len(e) : t[Len(s) + i] = e[i]
    BY <1>2, <1>4, JoinedFacts
  <2>4. \A i \in 1..Len(q) : t[i] = [topic |-> u, n |-> q[i]]
    BY <1>4, <2>2, Zenon
  <2>5. \A i \in 1..Len(e) : t[Len(q) + i] = e[i]
    BY <1>4, <2>3, Zenon
  <2>6. QED
    BY <2>1, <2>4, <2>5, Zenon
<1>6. /\ w \in Seq(Event) /\ Len(w) = Len(q) + Len(e) + Len(h)
      /\ Len(q) \in Nat /\ Len(e) \in Nat /\ Len(h) \in Nat
      /\ \A i \in 1..Len(q) : w[i] = [topic |-> u, n |-> q[i]]
      /\ \A i \in 1..Len(e) : w[Len(q) + i] = e[i]
      /\ \A i \in 1..Len(h) : w[Len(q) + Len(e) + i] = h[i]
  <2>1. t \in Seq(Event)
    BY <1>5
  <2>2. w \in Seq(Event) /\ Len(w) = Len(t) + Len(h) /\ Len(h) \in Nat
    BY <1>3, <2>1, JoinedFacts
  <2>3. \A i \in 1..Len(t) : w[i] = t[i]
    BY <1>3, <2>1, JoinedFacts
  <2>4. \A i \in 1..Len(h) : w[Len(t) + i] = h[i]
    BY <1>3, <2>1, JoinedFacts
  <2>5. \A i \in 1..Len(q) : i \in 1..Len(t)
    BY <1>5
  <2>6. \A i \in 1..Len(e) : Len(q) + i \in 1..Len(t)
    BY <1>5
  <2>7. QED
    BY <1>5, <2>2, <2>3, <2>4, <2>5, <2>6
<1>7. [i \in DOMAIN q |-> [topic |-> u, n |-> q[i]]] \o e \o h = w
  BY <1>1, <1>2, <1>3, Zenon DEF Joined
<1>8. WayOf(w, q, e, h, u)
  BY <1>6 DEF WayOf
<1>9. QED
  BY <1>7, <1>8, Zenon

(* The same messages in the same places are in the same order. *)
LEMMA SameInOrder ==
    ASSUME NEW u, NEW first, NEW last, NEW v \in Seq(Event), NEW w \in Seq(Event),
           Len(w) = Len(v), \A i \in 1..Len(v) : w[i] = v[i], InOrder(v, u, first, last)
    PROVE  InOrder(w, u, first, last)
<1>1. w = v
  BY SeqEqual
<1>2. QED
  BY <1>1

(* A message of another topic goes unnoticed, and the next one of the topic   *)
(* is the last one then.                                                      *)
LEMMA AppendedInOrder ==
    ASSUME NEW u, NEW first \in Nat, NEW last \in Nat, NEW v \in Seq(Event), NEW w \in Seq(Event),
           Len(w) = Len(v) + 1, \A i \in 1..Len(v) : w[i] = v[i], InOrder(v, u, first, last)
    PROVE  /\ w[Len(v) + 1].topic # u => InOrder(w, u, first, last)
           /\ /\ w[Len(v) + 1].topic = u /\ w[Len(v) + 1].n = last + 1 /\ first <= last + 1
              => InOrder(w, u, first, last + 1)
<1> DEFINE mine(s) == {i \in DOMAIN s : s[i].topic = u}
           z == Len(v) + 1
<1>1. Len(v) \in Nat /\ DOMAIN v = 1..Len(v) /\ DOMAIN w = 1..z /\ z \in DOMAIN w /\ z \notin DOMAIN v
  OBVIOUS
<1>2. /\ \A i, j \in mine(v) : i < j => v[i].n < v[j].n
      /\ {v[i].n : i \in mine(v)} = first..last
  BY DEF InOrder
<1>3. \A i \in DOMAIN w : i = z \/ (i \in DOMAIN v /\ w[i] = v[i] /\ i < z)
  BY <1>1
<1>4. CASE w[z].topic # u
  <2>1. \A i : i \in mine(w) <=> i \in mine(v)
    BY <1>1, <1>3, <1>4
  <2>2. \A i \in mine(v) : w[i] = v[i]
    BY <1>1
  <2>3. QED
    BY <1>2, <1>4, <2>1, <2>2 DEF InOrder
<1>5. CASE w[z].topic = u /\ w[z].n = last + 1 /\ first <= last + 1
  <2>1. \A i : i \in mine(w) <=> i \in mine(v) \/ i = z
    BY <1>1, <1>3, <1>5
  <2>2. \A i \in mine(v) : w[i] = v[i] /\ i < z /\ i \in Nat /\ w[i].n \in first..last
    BY <1>1, <1>2
  <2>3. \A i, j \in mine(w) : i < j => w[i].n < w[j].n
    BY <1>1, <1>2, <1>5, <2>1, <2>2
  <2>4. \A i \in mine(w) : w[i].n \in first..last + 1
    BY <1>5, <2>1, <2>2
  <2>5. ASSUME NEW m \in first..last + 1 PROVE \E i \in mine(w) : w[i].n = m
    <3>1. CASE m = last + 1
      BY <1>5, <2>1, <3>1
    <3>2. CASE m # last + 1
      <4>1. m \in first..last
        BY <3>2
      <4>2. PICK i \in mine(v) : v[i].n = m
        BY <1>2, <4>1
      <4>3. QED
        BY <2>1, <2>2, <4>2
    <3>3. QED
      BY <3>1, <3>2
  <2>6. {w[i].n : i \in mine(w)} = first..last + 1
    BY <2>4, <2>5
  <2>7. QED
    BY <1>5, <2>3, <2>6 DEF InOrder
<1>6. QED
  BY <1>4, <1>5

(* A message of another topic that is taken away leaves the rest in order. *)
LEMMA RemovedInOrder ==
    ASSUME NEW u, NEW first, NEW last, NEW v \in Seq(Event), NEW w \in Seq(Event),
           NEW k \in 1..Len(v), v[k].topic # u, Len(w) = Len(v) - 1,
           \A i \in 1..Len(w) : w[i] = IF i < k THEN v[i] ELSE v[i + 1],
           InOrder(v, u, first, last)
    PROVE  InOrder(w, u, first, last)
<1> DEFINE mine(s) == {i \in DOMAIN s : s[i].topic = u}
           old(i) == IF i < k THEN i ELSE i + 1
<1>1. Len(v) \in Nat /\ DOMAIN v = 1..Len(v) /\ DOMAIN w = 1..Len(w) /\ k \in Nat
  OBVIOUS
<1>2. /\ \A i, j \in mine(v) : i < j => v[i].n < v[j].n
      /\ {v[i].n : i \in mine(v)} = first..last
  BY DEF InOrder
<1>3. \A i \in DOMAIN w : old(i) \in DOMAIN v /\ w[i] = v[old(i)]
  BY <1>1
<1>4. \A i, j \in DOMAIN w : i < j => old(i) < old(j)
  BY <1>1
<1>5. \A j \in mine(v) : \E i \in DOMAIN w : old(i) = j
  <2>1. SUFFICES ASSUME NEW j \in mine(v) PROVE \E i \in DOMAIN w : old(i) = j
    OBVIOUS
  <2>2. j \in 1..Len(v) /\ j # k
    BY <1>1
  <2>3. CASE j < k
    BY <1>1, <2>2, <2>3
  <2>4. CASE j > k
    <3>1. j - 1 \in DOMAIN w /\ old(j - 1) = j
      BY <1>1, <2>2, <2>4
    <3>2. QED
      BY <3>1
  <2>5. QED
    BY <1>1, <2>2, <2>3, <2>4
<1> HIDE DEF old
<1>6. \A i \in DOMAIN w : i \in mine(w) <=> old(i) \in mine(v)
  BY <1>3
<1>7. \A i, j \in mine(w) : i < j => w[i].n < w[j].n
  BY <1>2, <1>3, <1>4, <1>6
<1>8. \A i \in mine(w) : w[i].n \in first..last
  BY <1>2, <1>3, <1>6
<1>9. ASSUME NEW m \in first..last PROVE \E i \in mine(w) : w[i].n = m
  <2>1. PICK j \in mine(v) : v[j].n = m
    BY <1>2
  <2>2. PICK i \in DOMAIN w : old(i) = j
    BY <1>5
  <2>3. QED
    BY <1>3, <1>6, <2>1, <2>2
<1>10. {w[i].n : i \in mine(w)} = first..last
  BY <1>8, <1>9
<1>11. QED
  BY <1>7, <1>10 DEF InOrder

(* The oldest message of the topic is the first of those expected. *)
LEMMA FirstInOrder ==
    ASSUME NEW u, NEW first \in Nat, NEW last \in Nat, NEW v \in Seq(Event), NEW w \in Seq(Event),
           v # <<>>, v[1].topic = u, Len(w) = Len(v) - 1, \A i \in 1..Len(w) : w[i] = v[i + 1],
           InOrder(v, u, first, last)
    PROVE  v[1].n \in first..last /\ InOrder(w, u, v[1].n + 1, last)
<1> DEFINE mine(s) == {i \in DOMAIN s : s[i].topic = u}
           n == v[1].n
<1>1. Len(v) \in Nat /\ Len(v) # 0 /\ DOMAIN v = 1..Len(v) /\ DOMAIN w = 1..Len(w)
  OBVIOUS
<1>2. /\ \A i, j \in mine(v) : i < j => v[i].n < v[j].n
      /\ {v[i].n : i \in mine(v)} = first..last
  BY DEF InOrder
<1>3. 1 \in mine(v) /\ n \in first..last
  BY <1>1, <1>2
<1>4. \A i \in DOMAIN w : i \in Nat /\ i + 1 \in DOMAIN v /\ w[i] = v[i + 1] /\ 1 < i + 1
  BY <1>1
<1>5. \A i \in mine(w) : i + 1 \in mine(v) /\ n < w[i].n /\ w[i].n \in first..last
  BY <1>2, <1>3, <1>4
<1>6. \A i, j \in mine(w) : i < j => w[i].n < w[j].n
  <2>1. SUFFICES ASSUME NEW i \in mine(w), NEW j \in mine(w), i < j PROVE w[i].n < w[j].n
    OBVIOUS
  <2>2. i + 1 < j + 1 /\ i + 1 \in mine(v) /\ j + 1 \in mine(v)
    BY <1>4, <1>5, <2>1
  <2>3. QED
    BY <1>2, <1>4, <2>2
<1>7. \A i \in mine(w) : w[i].n \in n + 1..last
  BY <1>3, <1>5
<1>8. ASSUME NEW m \in n + 1..last PROVE \E i \in mine(w) : w[i].n = m
  <2>1. m \in first..last /\ m # n
    BY <1>3
  <2>2. PICK j \in mine(v) : v[j].n = m
    BY <1>2, <2>1
  <2>3. j # 1 /\ j \in 1..Len(v)
    BY <1>1, <2>1, <2>2
  <2>4. j - 1 \in DOMAIN w /\ w[j - 1] = v[j]
    BY <1>1, <2>3
  <2>5. QED
    BY <2>2, <2>4
<1>9. {w[i].n : i \in mine(w)} = n + 1..last
  BY <1>7, <1>8
<1>10. QED
  BY <1>3, <1>6, <1>9 DEF InOrder

-----------------------------------------------------------------------------
(* The way of the updates, now and after a step. *)
LEMMA WayNow ==
    ASSUME ClusterInv, NEW u \in Topic
    PROVE  WayOf(Way(u), updates[u], events, held, u)
<1>1. updates[u] \in Seq(1..MaxArrivals) /\ events \in Seq(Event) /\ held \in Seq(Event)
  BY DEF ClusterInv, ClusterTypeOK, NetInv, NetTypeOK
<1>2. QED
  BY <1>1, WayFacts, Zenon DEF Way

LEMMA WayNext ==
    ASSUME ClusterInv', NEW u \in Topic
    PROVE  WayOf(Way(u)', updates'[u], events', held', u)
<1>1. updates'[u] \in Seq(1..MaxArrivals) /\ events' \in Seq(Event) /\ held' \in Seq(Event)
  BY DEF ClusterInv, ClusterTypeOK, NetInv, NetTypeOK
<1>2. QED
  BY <1>1, WayFacts, Zenon DEF Way

(* An event joins the others at the end of the channel or in the thread's hands. *)
Emitted(e) ==
  /\ held = <<>>
  /\ \/ events' = Append(events, e) /\ held' = <<>>
     \/ events' = events /\ held' = <<e>>

LEMMA EmittedInOrder ==
    ASSUME ClusterInv, ClusterInv', NEW e \in Event, Emitted(e), UNCHANGED updates,
           NEW u \in Topic, NEW first \in Nat, NEW last \in Nat, InOrder(Way(u), u, first, last)
    PROVE  /\ e.topic # u => InOrder(Way(u)', u, first, last)
           /\ e.topic = u /\ e.n = last + 1 /\ first <= last + 1
              => InOrder(Way(u)', u, first, last + 1)
<1>1. PICK v : v = Way(u)
  OBVIOUS
<1>2. PICK w : w = Way(u)'
  OBVIOUS
<1>3. PICK q : q = updates[u] /\ q = updates'[u]
  OBVIOUS
<1>4. WayOf(v, q, events, held, u) /\ WayOf(w, q, events', held', u)
  BY <1>1, <1>2, <1>3, WayNow, WayNext
<1>5. events \in Seq(Event) /\ Len(events) \in Nat
  BY DEF ClusterInv, NetInv, NetTypeOK
<1>6. /\ v \in Seq(Event) /\ w \in Seq(Event) /\ Len(v) = Len(q) + Len(events)
      /\ Len(w) = Len(v) + 1 /\ Len(q) \in Nat
  <2>1. /\ v \in Seq(Event) /\ w \in Seq(Event) /\ Len(q) \in Nat
        /\ Len(v) = Len(q) + Len(events) + Len(held)
        /\ Len(w) = Len(q) + Len(events') + Len(held')
    BY <1>4 DEF WayOf
  <2>2. Len(held) = 0 /\ Len(events') + Len(held') = Len(events) + 1
    <3>1. CASE held = <<>> /\ events' = Append(events, e) /\ held' = <<>>
      BY <1>5, <3>1
    <3>2. CASE held = <<>> /\ events' = events /\ held' = <<e>>
      BY <1>5, <3>2
    <3>3. QED
      BY <3>1, <3>2 DEF Emitted
  <2>3. Len(events') \in Nat /\ Len(held') \in Nat
    BY <1>4 DEF WayOf
  <2>4. Len(w) = (Len(q) + Len(events)) + 1
    <3>1. PICK a \in Nat, b \in Nat, c \in Nat, h \in Nat :
             a = Len(q) /\ b = Len(events) /\ c = Len(events') /\ h = Len(held')
      BY <1>5, <2>1, <2>3, Zenon
    <3>2. c + h = b + 1
      BY <2>2, <3>1, Zenon
    <3>3. a + c + h = (a + b) + 1
      BY <3>2
    <3>4. QED
      BY <2>1, <3>1, <3>3, Zenon
  <2>5. Len(v) = Len(q) + Len(events)
    BY <1>5, <2>1, <2>2
  <2>6. QED
    BY <2>1, <2>4, <2>5
<1>7. \A i \in 1..Len(v) : w[i] = v[i]
  <2>1. SUFFICES ASSUME NEW i \in 1..Len(v) PROVE w[i] = v[i]
    OBVIOUS
  <2>2. CASE i \in 1..Len(q)
    BY <1>4, <2>2 DEF WayOf
  <2>3. CASE i \notin 1..Len(q)
    <3>1. PICK j \in 1..Len(events) : i = Len(q) + j
      <4>1. i - Len(q) \in 1..Len(events) /\ i = Len(q) + (i - Len(q))
        BY <1>5, <1>6, <2>3
      <4>2. QED
        BY <4>1
    <3>2. j \in 1..Len(events') /\ events'[j] = events[j]
      <4>1. CASE events' = Append(events, e)
        BY <1>5, <4>1, AppendProperties
      <4>2. CASE events' = events
        BY <4>2
      <4>3. QED
        BY <4>1, <4>2 DEF Emitted
    <3>3. QED
      BY <1>4, <3>1, <3>2 DEF WayOf
  <2>4. QED
    BY <2>2, <2>3
<1>8. w[Len(v) + 1] = e
  <2>1. CASE events' = Append(events, e)
    <3>1. Len(events) + 1 \in 1..Len(events') /\ events'[Len(events) + 1] = e
      BY <1>5, <2>1
    <3>2. w[Len(q) + (Len(events) + 1)] = e
      BY <1>4, <3>1 DEF WayOf
    <3>3. Len(q) + (Len(events) + 1) = Len(v) + 1
      BY <1>5, <1>6
    <3>4. QED
      BY <3>2, <3>3
  <2>2. CASE events' = events /\ held' = <<e>>
    <3>1. 1 \in 1..Len(held') /\ held'[1] = e
      BY <2>2
    <3>2. w[Len(q) + Len(events') + 1] = e
      BY <1>4, <3>1 DEF WayOf
    <3>3. QED
      BY <1>6, <2>2, <3>2
  <2>3. QED
    BY <2>1, <2>2 DEF Emitted
<1>9. InOrder(v, u, first, last)
  BY <1>1
<1>10. /\ e.topic # u => InOrder(w, u, first, last)
       /\ e.topic = u /\ e.n = last + 1 /\ first <= last + 1 => InOrder(w, u, first, last + 1)
  BY <1>6, <1>7, <1>8, <1>9, AppendedInOrder
<1>11. QED
  BY <1>2, <1>10

(* What the thread had in its hands goes to the end of the channel. *)
Resumed == held # <<>> /\ held' = <<>> /\ events' = Append(events, Head(held))

LEMMA ResumedInOrder ==
    ASSUME ClusterInv, ClusterInv', Resumed, UNCHANGED updates,
           NEW u \in Topic, NEW first, NEW last, InOrder(Way(u), u, first, last)
    PROVE  InOrder(Way(u)', u, first, last)
<1>1. PICK v : v = Way(u)
  OBVIOUS
<1>2. PICK w : w = Way(u)'
  OBVIOUS
<1>3. PICK q : q = updates[u] /\ q = updates'[u]
  OBVIOUS
<1>4. WayOf(v, q, events, held, u) /\ WayOf(w, q, events', held', u)
  BY <1>1, <1>2, <1>3, WayNow, WayNext
<1>5. /\ events \in Seq(Event) /\ Len(events) \in Nat
      /\ Len(held) = 1 /\ Head(held) = held[1]
  <2>1. events \in Seq(Event) /\ held \in Seq(Event) /\ Len(held) <= 1
    BY DEF ClusterInv, NetInv, NetTypeOK
  <2>2. Len(held) \in Nat /\ Len(held) # 0 /\ Len(held) <= 1
    BY <2>1, EmptySeq DEF Resumed
  <2>3. Len(held) = 1
    <3>1. \A n \in Nat : n # 0 /\ n <= 1 => n = 1
      OBVIOUS
    <3>2. QED
      BY <2>2, <3>1, Zenon
  <2>4. Len(events) \in Nat /\ Head(held) = held[1]
    BY <2>1, <2>3
  <2>5. QED
    BY <2>1, <2>3, <2>4
<1>6. /\ v \in Seq(Event) /\ w \in Seq(Event) /\ Len(q) \in Nat
      /\ Len(v) = Len(q) + Len(events) + 1 /\ Len(w) = Len(v)
  <2>1. /\ v \in Seq(Event) /\ w \in Seq(Event) /\ Len(q) \in Nat
        /\ Len(v) = Len(q) + Len(events) + Len(held)
        /\ Len(w) = Len(q) + Len(events') + Len(held')
    BY <1>4 DEF WayOf
  <2>2. Len(events') = Len(events) + 1 /\ Len(held') = 0
    BY <1>5 DEF Resumed
  <2>3. QED
    BY <1>5, <2>1, <2>2
<1>7. \A i \in 1..Len(v) : w[i] = v[i]
  <2>1. SUFFICES ASSUME NEW i \in 1..Len(v) PROVE w[i] = v[i]
    OBVIOUS
  <2>2. CASE i \in 1..Len(q)
    BY <1>4, <2>2 DEF WayOf
  <2>3. CASE i \notin 1..Len(q)
    <3>1. PICK j \in 1..Len(events) + 1 : i = Len(q) + j
      <4>1. i - Len(q) \in 1..Len(events) + 1 /\ i = Len(q) + (i - Len(q))
        BY <1>5, <1>6, <2>3
      <4>2. QED
        BY <4>1
    <3>2. j \in 1..Len(events') /\ w[i] = events'[j]
      <4>1. j \in 1..Len(events')
        BY <1>5 DEF Resumed
      <4>2. QED
        BY <1>4, <3>1, <4>1 DEF WayOf
    <3>3. CASE j \in 1..Len(events)
      <4>1. events'[j] = events[j]
        BY <1>5, <3>3 DEF Resumed
      <4>2. v[i] = events[j]
        BY <1>4, <3>1, <3>3 DEF WayOf
      <4>3. QED
        BY <3>2, <4>1, <4>2
    <3>4. CASE j = Len(events) + 1
      <4>1. events'[j] = held[1]
        BY <1>5, <3>4 DEF Resumed
      <4>2. 1 \in 1..Len(held) /\ i = Len(q) + Len(events) + 1
        BY <1>5, <1>6, <3>1, <3>4
      <4>3. v[i] = held[1]
        BY <1>4, <4>2 DEF WayOf
      <4>4. QED
        BY <3>2, <4>1, <4>3
    <3>5. QED
      BY <1>5, <3>3, <3>4
  <2>4. QED
    BY <2>2, <2>3
<1>8. QED
  BY <1>1, <1>2, <1>6, <1>7, SameInOrder

-----------------------------------------------------------------------------
(* What a step of the network does to the updates on their way. *)
NetEffect ==
  \/ UNCHANGED <<events, held, arrived>>
  \/ Resumed /\ UNCHANGED arrived
  \/ \E e \in Event : e.topic \notin Topic /\ Emitted(e) /\ UNCHANGED arrived
  \/ \E t \in subscribed :
       /\ [topic |-> t, n |-> arrived[t] + 1] \in Event
       /\ Emitted([topic |-> t, n |-> arrived[t] + 1])
       /\ arrived' = [arrived EXCEPT ![t] = arrived[t] + 1]

LEMMA EmitEffect ==
    ASSUME HeldIsSending, NEW e, Emit(e)
    PROVE  HeldIsSending' /\ Emitted(e) /\ UNCHANGED subscribed
<1>1. swarm = "running" /\ held = <<>> /\ UNCHANGED subscribed
  BY DEF HeldIsSending, Emit
<1>2. CASE Full
  BY <1>1, <1>2 DEF Emit, Emitted, HeldIsSending
<1>3. CASE ~Full
  BY <1>1, <1>3 DEF Emit, Put, Emitted, HeldIsSending
<1>4. QED
  BY <1>2, <1>3

(* Only the loop's own call can add a topic, and it returns well then. *)
Subscribes ==
  \A u \in subscribed' :
    \/ u \in subscribed
    \/ call[Loop].kind = "subscribe" /\ call[Loop].topic = u /\ call'[Loop].pc = "ok"

LEMMA HandleCommandEffect ==
    ASSUME NetInv, HeldIsSending, OnlyLoopSubscribes, HandleCommand
    PROVE  HeldIsSending' /\ NetEffect /\ Subscribes
<1> DEFINE c == Head(commands)
<1>1. /\ swarm = "running" /\ commands # <<>> /\ commands' = Tail(commands)
      /\ UNCHANGED <<swarm, held, arrived>> /\ held = <<>>
  BY DEF HandleCommand, HeldIsSending
<1>2. c \in Caller /\ Awaited(c)
  BY <1>1, HeadFacts
<1>3. HeldIsSending'
  BY <1>1 DEF HeldIsSending
<1>4. CASE HandleSend(c)
  BY <1>1, <1>3, <1>4 DEF HandleSend, NetEffect, Subscribes
<1>5. CASE HandleSetStreamHandler(c)
  <2>1. events' = Append(events, NewNodeRegistered) /\ UNCHANGED subscribed
    BY <1>5 DEF HandleSetStreamHandler
  <2>2. Emitted(NewNodeRegistered)
    BY <1>1, <2>1 DEF Emitted
  <2>3. QED
    BY <1>1, <1>3, <2>1, <2>2, NewNodeFacts DEF NetEffect, Subscribes
<1>6. CASE HandleSubscribe(c)
  <2>1. call[c].kind = "subscribe" /\ UNCHANGED events
    BY <1>6 DEF HandleSubscribe
  <2>2. c = Loop /\ call[c].pc = "waiting"
    BY <1>2, <2>1 DEF OnlyLoopSubscribes, Client, Awaited
  <2>3. CASE UNCHANGED subscribed
    BY <1>1, <1>3, <2>1, <2>3 DEF NetEffect, Subscribes
  <2>4. CASE subscribed' = subscribed \cup {call[c].topic} /\ call' = Answered(c, "ok")
    <3>1. call'[Loop].pc = "ok"
      BY <1>2, <2>2, <2>4, AnsweredFacts DEF NetInv
    <3>2. QED
      BY <1>1, <1>3, <2>1, <2>2, <2>4, <3>1 DEF NetEffect, Subscribes
  <2>5. QED
    BY <1>6, <2>3, <2>4 DEF HandleSubscribe
<1>7. CASE HandlePublish(c)
  BY <1>1, <1>3, <1>7 DEF HandlePublish, NetEffect, Subscribes
<1>8. QED
  BY <1>4, <1>5, <1>6, <1>7 DEF HandleCommand

LEMMA NetNextEffect ==
    ASSUME NetInv, HeldIsSending, OnlyLoopSubscribes, NetNext
    PROVE  HeldIsSending' /\ NetEffect /\ Subscribes
<1>1. CASE HandleCommand
  BY <1>1, HandleCommandEffect
<1>2. CASE ThreadPanics
  BY <1>2 DEF ThreadPanics, HeldIsSending, NetEffect, Subscribes
<1>3. CASE NodeIdentified
  BY <1>3, EmitEffect, NewNodeFacts DEF NodeIdentified, NetEffect, Subscribes
<1>4. ASSUME NEW t \in Topic, MessageArrives(t)
      PROVE  HeldIsSending' /\ NetEffect /\ Subscribes
  <2> DEFINE e == [topic |-> t, n |-> arrived[t] + 1]
  <2>1. /\ t \in subscribed /\ Emit(e) /\ arrived[t] < MaxArrivals
        /\ arrived' = [arrived EXCEPT ![t] = arrived[t] + 1]
    BY <1>4 DEF MessageArrives
  <2>2. e \in Event
    <3>1. arrived[t] \in 0..MaxArrivals /\ arrived[t] + 1 \in 0..MaxArrivals
      BY <2>1, NetworkingAssumption DEF NetInv, NetTypeOK
    <3>2. QED
      BY <3>1 DEF Event
  <2>3. HeldIsSending' /\ Emitted(e) /\ UNCHANGED subscribed
    BY <2>1, EmitEffect
  <2>4. QED
    BY <2>1, <2>2, <2>3 DEF NetEffect, Subscribes
<1>5. CASE ThreadResumes
  <2>1. /\ swarm = "sending" /\ held' = <<>> /\ UNCHANGED <<subscribed, arrived>>
        /\ \/ held = <<>> /\ UNCHANGED events
           \/ held # <<>> /\ events' = Append(events, Head(held))
    BY <1>5 DEF ThreadResumes, Put
  <2>2. QED
    BY <2>1 DEF HeldIsSending, NetEffect, Resumed, Subscribes
<1>6. ASSUME NEW c \in Caller, RetrySend(c) \/ TimeOut(c) \/ OpenerStep(c)
      PROVE  HeldIsSending' /\ NetEffect /\ Subscribes
  <2>1. UNCHANGED <<swarm, held, events, subscribed, arrived>>
    BY <1>6 DEF RetrySend, TimeOut, OpenerStep, SearchEnds, Connects, Opens, OpenFails, OpenerOnly
  <2>2. QED
    BY <2>1 DEF HeldIsSending, NetEffect, Subscribes
<1>7. QED
  BY <1>1, <1>2, <1>3, <1>4, <1>5, <1>6 DEF NetNext

(* The updates are in order after every step of the network. *)
LEMMA NetStepOrder ==
    ASSUME OrderInv, NetNext, UNCHANGED clusterVars
    PROVE  OrderInv'
<1>1. ClusterInv' /\ NetInv /\ CallsGoOn
  BY NetStepInv, NetNextInv DEF OrderInv, ClusterInv
<1>2. HeldIsSending' /\ NetEffect /\ Subscribes
  BY NetNextEffect DEF OrderInv, ClusterInv
<1>3. OnlyLoopSubscribes' /\ SubmittedOnce'
  BY <1>1 DEF OrderInv, OnlyLoopSubscribes, Client, CallsGoOn, SubmittedOnce, clusterVars
<1>4. SubscribedIsKnown'
  <2>1. SUFFICES ASSUME NEW u \in Topic, u \in subscribed'
                 PROVE  \/ u \in jobs \/ user[u] = "left" \/ loop.pc = "panicked"
                        \/ loop.pc = "subscribe" /\ loop.of = u /\ call'[Loop].pc = "ok"
    BY DEF SubscribedIsKnown, clusterVars
  <2>2. CASE u \in subscribed
    BY <1>1, <2>2, ClusterAssumption DEF OrderInv, SubscribedIsKnown, CallsGoOn
  <2>3. CASE u \notin subscribed
    <3>1. call[Loop].kind = "subscribe" /\ call[Loop].topic = u /\ call'[Loop].pc = "ok"
      BY <1>2, <2>1, <2>3 DEF Subscribes
    <3>2. loop.pc \in {"subscribe", "panicked"}
      BY <3>1 DEF OrderInv, ClusterInv, ClusterTypeOK, LoopCall, NoCall
    <3>3. QED
      BY <3>1, <3>2 DEF OrderInv, ClusterInv, LoopCall
  <2>4. QED
    BY <2>2, <2>3
<1>5. \A u \in Topic : arrived[u] \in Nat /\ read[u] \in Nat /\ read[u] <= arrived[u]
  BY NetworkingAssumption
  DEF OrderInv, ClusterInv, ClusterTypeOK, NetInv, NetTypeOK, ArrivedIsSubscribed
<1>6. ArrivedIsSubscribed' /\ UpdatesInOrder'
  <2>1. UNCHANGED <<updates, read, user>> /\ subscribed \subseteq subscribed'
    BY <1>1 DEF clusterVars, CallsGoOn
  <2>2. SUFFICES ASSUME NEW u \in Topic
                 PROVE  /\ arrived'[u] # 0 => u \in subscribed'
                        /\ read[u] <= arrived'[u]
                        /\ user[u] # "left" => InOrder(Way(u)', u, read[u] + 1, arrived'[u])
    BY <2>1 DEF ArrivedIsSubscribed, UpdatesInOrder
  <2>3. /\ arrived[u] # 0 => u \in subscribed
        /\ user[u] # "left" => InOrder(Way(u), u, read[u] + 1, arrived[u])
        /\ arrived[u] \in Nat /\ read[u] \in Nat /\ read[u] <= arrived[u]
    BY <1>5 DEF OrderInv, ArrivedIsSubscribed, UpdatesInOrder
  <2>4. CASE UNCHANGED <<events, held, arrived>>
    BY <2>1, <2>3, <2>4 DEF Way
  <2>5. CASE Resumed /\ UNCHANGED arrived
    BY <1>1, <2>1, <2>3, <2>5, ResumedInOrder DEF OrderInv
  <2>6. ASSUME NEW e \in Event, e.topic \notin Topic, Emitted(e), UNCHANGED arrived
        PROVE  /\ arrived'[u] # 0 => u \in subscribed'
               /\ read[u] <= arrived'[u]
               /\ user[u] # "left" => InOrder(Way(u)', u, read[u] + 1, arrived'[u])
    BY <1>1, <2>1, <2>3, <2>6, EmittedInOrder DEF OrderInv
  <2>7. ASSUME NEW t \in subscribed, [topic |-> t, n |-> arrived[t] + 1] \in Event,
               Emitted([topic |-> t, n |-> arrived[t] + 1]),
               arrived' = [arrived EXCEPT ![t] = arrived[t] + 1]
        PROVE  /\ arrived'[u] # 0 => u \in subscribed'
               /\ read[u] <= arrived'[u]
               /\ user[u] # "left" => InOrder(Way(u)', u, read[u] + 1, arrived'[u])
    <3>1. arrived \in [Topic -> 0..MaxArrivals] /\ t \in Topic /\ ClusterInv
      BY DEF OrderInv, ClusterInv, NetInv, NetTypeOK
    <3>2. arrived'[u] = IF u = t THEN arrived[u] + 1 ELSE arrived[u]
      BY <2>7, <3>1
    <3>3. CASE u = t
      <4>1. PICK e \in Event : e = [topic |-> t, n |-> arrived[t] + 1]
        BY <2>7
      <4>2. Emitted(e) /\ e.topic = u /\ e.n = arrived[u] + 1 /\ read[u] + 1 <= arrived[u] + 1
        BY <2>3, <2>7, <3>3, <4>1
      <4>3. user[u] # "left" => InOrder(Way(u)', u, read[u] + 1, arrived[u] + 1)
        BY <1>1, <2>1, <2>3, <3>1, <4>2, EmittedInOrder
      <4>4. QED
        BY <2>1, <2>3, <3>2, <3>3, <4>3
    <3>4. CASE u # t
      <4>1. PICK e \in Event : e = [topic |-> t, n |-> arrived[t] + 1]
        BY <2>7
      <4>2. user[u] # "left" => InOrder(Way(u)', u, read[u] + 1, arrived[u])
        BY <1>1, <2>1, <2>3, <2>7, <3>1, <3>4, <4>1, EmittedInOrder
      <4>3. QED
        BY <2>1, <2>3, <3>2, <3>4, <4>2
    <3>5. QED
      BY <3>3, <3>4
  <2>8. QED
    BY <1>2, <2>4, <2>5, <2>6, <2>7 DEF NetEffect
<1>7. QED
  BY <1>1, <1>2, <1>3, <1>4, <1>6 DEF OrderInv

-----------------------------------------------------------------------------
(* What a step of the program or of the loop leaves alone. *)
ChannelsKept ==
  /\ UNCHANGED <<events, held, arrived, subscribed, read>>
  /\ \A u \in Topic :
       user'[u] # "left" => user[u] # "left" /\ updates'[u] = updates[u]

LEMMA KeptInOrder ==
    ASSUME OrderInv, ChannelsKept
    PROVE  ArrivedIsSubscribed' /\ UpdatesInOrder'
<1>1. ArrivedIsSubscribed'
  BY DEF OrderInv, ChannelsKept, ArrivedIsSubscribed
<1>2. SUFFICES ASSUME NEW u \in Topic, user'[u] # "left"
               PROVE  InOrder(Way(u)', u, read'[u] + 1, arrived'[u])
  BY <1>1 DEF UpdatesInOrder
<1>3. user[u] # "left" /\ updates'[u] = updates[u]
  BY <1>2 DEF ChannelsKept
<1>4. Way(u)' = Way(u)
  BY <1>3 DEF ChannelsKept, Way
<1>5. InOrder(Way(u), u, read[u] + 1, arrived[u])
  BY <1>3 DEF OrderInv, UpdatesInOrder
<1>6. QED
  BY <1>4, <1>5 DEF ChannelsKept

(* The thread handed the first event to the loop. *)
Taken == events # <<>> /\ events' = Tail(events) /\ UNCHANGED held

(* The way of the updates of v loses its first event, or the event moves from *)
(* one channel to the other.                                                  *)
LEMMA TakenInOrder ==
    ASSUME ClusterInv, ClusterInv', Taken,
           NEW u \in Topic, NEW first, NEW last, InOrder(Way(u), u, first, last)
    PROVE  /\ Head(events).topic # u /\ updates'[u] = updates[u]
              => InOrder(Way(u)', u, first, last)
           /\ Head(events).topic = u /\ updates'[u] = Append(updates[u], Head(events).n)
              => InOrder(Way(u)', u, first, last)
           /\ Head(events).topic = u => Head(events).n \in first..last
<1>1. PICK v : v = Way(u)
  OBVIOUS
<1>2. PICK w : w = Way(u)'
  OBVIOUS
<1>3. PICK q : q = updates[u]
  OBVIOUS
<1>4. PICK p : p = updates'[u]
  OBVIOUS
<1>5. WayOf(v, q, events, held, u) /\ WayOf(w, p, events', held', u)
  BY <1>1, <1>2, <1>3, <1>4, WayNow, WayNext
<1>6. PICK e \in Event : e = Head(events) /\ e = events[1]
  BY DEF ClusterInv, NetInv, NetTypeOK, Taken
<1>7. /\ Len(events) \in Nat /\ Len(events) # 0 /\ Len(events') = Len(events) - 1
      /\ \A i \in 1..Len(events') : events'[i] = events[i + 1]
      /\ held' = held
  BY DEF ClusterInv, NetInv, NetTypeOK, Taken
<1>8. q \in Seq(1..MaxArrivals) /\ p \in Seq(1..MaxArrivals)
  BY <1>3, <1>4 DEF ClusterInv, ClusterTypeOK
<1>9. /\ v \in Seq(Event) /\ w \in Seq(Event) /\ Len(q) \in Nat /\ Len(held) \in Nat
      /\ Len(p) \in Nat
      /\ Len(v) = Len(q) + Len(events) + Len(held)
      /\ Len(w) = Len(p) + Len(events') + Len(held)
  BY <1>5, <1>7 DEF WayOf
<1> DEFINE k == Len(q) + 1
<1>11. k \in 1..Len(v) /\ v[k] = e /\ InOrder(v, u, first, last)
  <2>1. 1 \in 1..Len(events)
    BY <1>7
  <2>2. QED
    BY <1>1, <1>5, <1>6, <1>7, <1>9, <2>1 DEF WayOf
<1>12. ASSUME e.topic # u, p = q PROVE InOrder(w, u, first, last)
  <2>1. Len(w) = Len(v) - 1
    BY <1>7, <1>9, <1>12
  <2>2. ASSUME NEW i \in 1..Len(w) PROVE w[i] = IF i < k THEN v[i] ELSE v[i + 1]
    <3>1. CASE i \in 1..Len(q)
      <4>1. w[i] = v[i]
        BY <1>5, <1>12, <3>1 DEF WayOf
      <4>2. i < k
        BY <1>9, <3>1
      <4>3. QED
        BY <4>1, <4>2
    <3>2. CASE i \in Len(q) + 1..Len(q) + Len(events')
      <4>1. PICK j \in 1..Len(events') : i = Len(q) + j
        <5>1. i - Len(q) \in 1..Len(events') /\ i = Len(q) + (i - Len(q))
          BY <1>7, <1>9, <3>2
        <5>2. QED
          BY <5>1
      <4>2. w[i] = events'[j] /\ events'[j] = events[j + 1]
        BY <1>5, <1>7, <1>12, <4>1 DEF WayOf
      <4>3. j + 1 \in 1..Len(events) /\ i + 1 = Len(q) + (j + 1) /\ ~(i < k)
        BY <1>7, <1>9, <4>1
      <4>4. v[Len(q) + (j + 1)] = events[j + 1]
        BY <1>5, <4>3 DEF WayOf
      <4>5. QED
        BY <4>2, <4>3, <4>4
    <3>3. CASE i \in Len(q) + Len(events') + 1..Len(w)
      <4>1. PICK j \in 1..Len(held) : i = Len(q) + Len(events') + j
        <5>1. /\ i - (Len(q) + Len(events')) \in 1..Len(held)
              /\ i = Len(q) + Len(events') + (i - (Len(q) + Len(events')))
          BY <1>7, <1>9, <1>12, <3>3
        <5>2. QED
          BY <5>1
      <4>2. w[i] = held[j]
        BY <1>5, <1>7, <1>12, <4>1 DEF WayOf
      <4>3. i + 1 = Len(q) + Len(events) + j /\ ~(i < k)
        BY <1>7, <1>9, <4>1
      <4>4. v[Len(q) + Len(events) + j] = held[j]
        BY <1>5, <4>1 DEF WayOf
      <4>5. QED
        BY <4>2, <4>3, <4>4
    <3>4. QED
      BY <1>7, <1>9, <3>1, <3>2, <3>3
  <2>3. QED
    BY <1>9, <1>11, <1>12, <2>1, <2>2, RemovedInOrder
<1>13. ASSUME e.topic = u, p = Append(q, e.n) PROVE InOrder(w, u, first, last)
  <2>1. Len(p) = Len(q) + 1 /\ (\A i \in 1..Len(q) : p[i] = q[i]) /\ p[Len(q) + 1] = e.n
    <3>1. e.n \in Nat
      BY DEF Event
    <3>2. QED
      BY <1>8, <1>13, <3>1
  <2>2. Len(w) = Len(v)
    BY <1>7, <1>9, <2>1
  <2>3. e = [topic |-> u, n |-> e.n]
    BY <1>13 DEF Event
  <2>4. ASSUME NEW i \in 1..Len(v) PROVE w[i] = v[i]
    <3>1. CASE i \in 1..Len(q)
      <4>1. i \in 1..Len(p) /\ p[i] = q[i]
        BY <1>9, <2>1, <3>1
      <4>2. v[i] = [topic |-> u, n |-> q[i]]
        BY <1>5, <3>1 DEF WayOf
      <4>3. w[i] = [topic |-> u, n |-> p[i]]
        BY <1>5, <4>1 DEF WayOf
      <4>4. QED
        BY <4>1, <4>2, <4>3
    <3>2. CASE i = k
      <4>1. k \in 1..Len(p) /\ p[k] = e.n
        BY <1>9, <2>1
      <4>2. w[k] = [topic |-> u, n |-> p[k]]
        BY <1>5, <4>1 DEF WayOf
      <4>3. QED
        BY <1>11, <2>3, <3>2, <4>1, <4>2
    <3>3. CASE i \in Len(q) + 2..Len(q) + Len(events)
      <4>1. PICK j \in 1..Len(events') : i = Len(p) + j /\ i = Len(q) + (j + 1)
        <5>1. /\ i - Len(p) \in 1..Len(events') /\ i = Len(p) + (i - Len(p))
              /\ i = Len(q) + ((i - Len(p)) + 1)
          BY <1>7, <1>9, <2>1, <3>3
        <5>2. QED
          BY <5>1
      <4>2. w[i] = events'[j] /\ events'[j] = events[j + 1]
        BY <1>5, <1>7, <4>1 DEF WayOf
      <4>3. j + 1 \in 1..Len(events)
        BY <1>7, <4>1
      <4>4. v[i] = events[j + 1]
        BY <1>5, <4>1, <4>3 DEF WayOf
      <4>5. QED
        BY <4>2, <4>4
    <3>4. CASE i \in Len(q) + Len(events) + 1..Len(v)
      <4>1. PICK j \in 1..Len(held) : i = Len(q) + Len(events) + j
        <5>1. /\ i - (Len(q) + Len(events)) \in 1..Len(held)
              /\ i = Len(q) + Len(events) + (i - (Len(q) + Len(events)))
          BY <1>7, <1>9, <3>4
        <5>2. QED
          BY <5>1
      <4>2. i = Len(p) + Len(events') + j
        BY <1>7, <1>9, <2>1, <4>1
      <4>3. w[i] = held[j]
        BY <1>5, <1>7, <4>2 DEF WayOf
      <4>4. v[i] = held[j]
        BY <1>5, <4>1 DEF WayOf
      <4>5. QED
        BY <4>3, <4>4
    <3>5. QED
      BY <1>7, <1>9, <3>1, <3>2, <3>3, <3>4
  <2>5. QED
    BY <1>9, <1>11, <2>2, <2>4, SameInOrder
<1>14. ASSUME e.topic = u PROVE e.n \in first..last
  <2>1. k \in {i \in DOMAIN v : v[i].topic = u}
    BY <1>9, <1>11, <1>14
  <2>2. {v[i].n : i \in {i \in DOMAIN v : v[i].topic = u}} = first..last
    BY <1>11 DEF InOrder
  <2>3. QED
    BY <1>11, <2>1, <2>2
<1>15. QED
  BY <1>2, <1>3, <1>4, <1>6, <1>12, <1>13, <1>14

-----------------------------------------------------------------------------
(* Such a step keeps the order, once what the loop knows is seen to be kept. *)
LEMMA KeptOrder ==
    ASSUME OrderInv, ClusterInv', ChannelsKept, UNCHANGED swarm,
           \A c \in Client : call'[c].kind # "subscribe",
           SubmittedOnce', SubscribedIsKnown'
    PROVE  OrderInv'
<1>1. HeldIsSending' /\ OnlyLoopSubscribes'
  BY DEF OrderInv, ChannelsKept, HeldIsSending, OnlyLoopSubscribes
<1>2. QED
  BY <1>1, KeptInOrder DEF OrderInv

(* The types of what these steps look at. *)
LEMMA ClusterTypes ==
    ASSUME ClusterInv
    PROVE  /\ requests \in Seq(User)
           /\ user \in [User -> {"idle", "waiting", "served", "left", "panicked"}]
           /\ loop.of \in User \cup {NoUser} /\ call \in [Caller -> Call]
           /\ updates \in [Topic -> Seq(1..MaxArrivals)]
           /\ read \in [Topic -> 0..MaxArrivals]
           /\ subscribed \subseteq Topic /\ arrived \in [Topic -> 0..MaxArrivals]
           /\ Topic \subseteq User /\ Loop \in Caller
  BY ClusterAssumption DEF ClusterInv, ClusterTypeOK, NetInv, NetTypeOK

LEMMA RequestOrder ==
    ASSUME OrderInv, ClusterInv', NEW u \in User, Request(u)
    PROVE  OrderInv'
<1>1. /\ UNCHANGED <<netVars, loop, jobs, closed, updates, read, calls>>
      /\ requests' \in {requests, Append(requests, u)}
      /\ \/ user' = [user EXCEPT ![u] = "panicked"]
         \/ user' = [user EXCEPT ![u] = "waiting"]
         \/ u \notin Topic /\ user' = [user EXCEPT ![u] = "served"]
      /\ user[u] = "idle"
      /\ \/ requests' = requests
         \/ \/ user'[u] = "waiting"
            \/ u \notin Topic
  BY ClusterTypes DEF Request, OrderInv
<1>2. /\ \A v \in User : v # u => user'[v] = user[v]
      /\ user'[u] # "left"
  BY <1>1, ClusterTypes DEF OrderInv
<1>3. ChannelsKept
  BY <1>1, <1>2, ClusterTypes DEF ChannelsKept, netVars, OrderInv
<1>4. SubscribedIsKnown'
  BY <1>1, <1>2, ClusterTypes DEF SubscribedIsKnown, netVars, OrderInv
<1>5. SubmittedOnce'
  <2>1. /\ \A i \in DOMAIN requests :
             requests[i] \in Topic => user'[requests[i]] = "waiting" /\ requests[i] # u
        /\ loop.pc \in {"submit", "subscribe"} =>
             user'[loop.of] = "waiting" /\ loop.of # u
    <3>1. /\ \A i \in DOMAIN requests : requests[i] \in User
          /\ loop.pc \in {"submit", "subscribe"} => loop.of \in User
      BY ClusterTypes DEF OrderInv, ClusterInv, LoopCall
    <3>2. QED
      BY <1>1, <1>2, <3>1 DEF OrderInv, SubmittedOnce
  <2>2. CASE requests' = requests
    BY <1>1, <2>1, <2>2 DEF OrderInv, SubmittedOnce
  <2>3. CASE requests' = Append(requests, u) /\ (user'[u] = "waiting" \/ u \notin Topic)
    <3>1. requests \in Seq(User)
      BY ClusterTypes DEF OrderInv
    <3>2. /\ DOMAIN requests' = 1..Len(requests) + 1 /\ DOMAIN requests = 1..Len(requests)
          /\ \A i \in 1..Len(requests) : requests'[i] = requests[i]
          /\ requests'[Len(requests) + 1] = u /\ Len(requests) \in Nat
      BY <2>3, <3>1
    <3>3. \A i \in DOMAIN requests' : i \in DOMAIN requests \/ i = Len(requests) + 1
      BY <3>2
    <3>4. \A i \in DOMAIN requests' : requests'[i] \in Topic => user'[requests'[i]] = "waiting"
      BY <2>1, <2>3, <3>2, <3>3
    <3>5. \A i, j \in DOMAIN requests' :
            requests'[i] \in Topic /\ requests'[i] = requests'[j] => i = j
      BY <2>1, <3>2, <3>3 DEF OrderInv, SubmittedOnce
    <3>6. loop'.pc \in {"submit", "subscribe"} =>
            /\ user'[loop'.of] = "waiting"
            /\ \A i \in DOMAIN requests' : requests'[i] # loop'.of
      BY <1>1, <2>1, <3>2, <3>3 DEF OrderInv, SubmittedOnce
    <3>7. QED
      BY <3>4, <3>5, <3>6 DEF SubmittedOnce
  <2>4. QED
    BY <1>1, <2>2, <2>3
<1>6. QED
  BY <1>1, <1>3, <1>4, <1>5, KeptOrder DEF netVars, OrderInv, OnlyLoopSubscribes

LEMMA LeaveOrder ==
    ASSUME OrderInv, ClusterInv', NEW u \in Topic, Leave(u)
    PROVE  OrderInv'
<1>1. /\ UNCHANGED <<netVars, requests, loop, jobs, closed, read, calls>>
      /\ user[u] = "served" /\ user' = [user EXCEPT ![u] = "left"]
      /\ updates' = [updates EXCEPT ![u] = <<>>]
  BY DEF Leave
<1>2. /\ \A v \in User : v # u => user'[v] = user[v]
      /\ user'[u] = "left" /\ \A v \in Topic : v # u => updates'[v] = updates[v]
  BY <1>1, ClusterTypes DEF OrderInv
<1>3. ChannelsKept
  BY <1>1, <1>2, ClusterTypes DEF ChannelsKept, netVars, OrderInv
<1>4. SubscribedIsKnown'
  BY <1>1, <1>2, ClusterTypes DEF SubscribedIsKnown, netVars, OrderInv
<1>5. SubmittedOnce'
  <2>1. /\ \A i \in DOMAIN requests : requests[i] \in User
        /\ loop.pc \in {"submit", "subscribe"} => loop.of \in User
    BY ClusterTypes DEF OrderInv, ClusterInv, LoopCall
  <2>2. QED
    BY <1>1, <1>2, <2>1 DEF OrderInv, SubmittedOnce
<1>6. QED
  BY <1>1, <1>3, <1>4, <1>5, KeptOrder DEF netVars, OrderInv, OnlyLoopSubscribes

LEMMA ClientCallOrder ==
    ASSUME OrderInv, ClusterInv', NEW c \in Client, ClientCall(c)
    PROVE  OrderInv'
<1>1. /\ NetKept /\ UNCHANGED <<requests, loop, user, jobs, closed, updates, read>>
      /\ calls[c] < Len(Plan[c])
  BY DEF ClientCall
<1>2. PICK kind \in Plan[c][calls[c] + 1] : SendCommand(c, kind, NoTopic, FALSE)
  BY DEF ClientCall
<1>3. kind # "subscribe"
  <2>1. calls[c] \in Nat /\ Plan[c] \in Seq(SUBSET {"send", "timed", "handler", "publish"})
    BY ClusterAssumption DEF OrderInv, ClusterInv, ClusterTypeOK
  <2>2. calls[c] + 1 \in 1..Len(Plan[c])
    BY <1>1, <2>1
  <2>3. Plan[c][calls[c] + 1] \in SUBSET {"send", "timed", "handler", "publish"}
    BY <2>1, <2>2
  <2>4. QED
    BY <2>3
<1>4. /\ c # Loop /\ call'[c].kind = kind
      /\ \A d \in Caller : d # c => call'[d] = call[d]
  BY <1>2, ClusterTypes DEF SendCommand, OrderInv, Client
<1>5. ChannelsKept
  BY <1>1 DEF ChannelsKept, NetKept
<1>6. SubmittedOnce'
  BY <1>1 DEF OrderInv, SubmittedOnce
<1>7. SubscribedIsKnown'
  BY <1>1, <1>4, ClusterTypes DEF OrderInv, SubscribedIsKnown, NetKept
<1>8. QED
  BY <1>1, <1>3, <1>4, <1>5, <1>6, <1>7, KeptOrder
  DEF OrderInv, OnlyLoopSubscribes, Client, NetKept

(* A call of the loop is nobody else's. *)
LEMMA LoopCallsFacts ==
    ASSUME OrderInv, NEW kind, NEW topic, NEW pc, NEW u, LoopCalls(kind, topic, pc, u)
    PROVE  /\ NetKept /\ loop' = [pc |-> pc, of |-> u]
           /\ \A c \in Client : call'[c].kind # "subscribe"
  BY ClusterTypes DEF LoopCalls, SendCommand, Client, OrderInv, OnlyLoopSubscribes

LEMMA TakeCommandOrder ==
    ASSUME OrderInv, ClusterInv', TakeCommand
    PROVE  OrderInv'
<1>1. PICK u \in User : u = Head(requests) /\ u = requests[1]
  BY ClusterTypes DEF TakeCommand, OrderInv
<1>2. /\ loop.pc = "select" /\ requests # <<>> /\ requests' = Tail(requests)
      /\ UNCHANGED <<user, jobs, closed, updates, read, calls>>
      /\ \/ u \in Topic /\ LoopCalls("send", NoTopic, "submit", u)
         \/ u \notin Topic /\ LoopCalls("send", NoTopic, "monitor", u)
         \/ u \notin Topic /\ LoopCalls("publish", NoTopic, "publish", u)
  BY <1>1 DEF TakeCommand
<1>3. /\ NetKept /\ \A c \in Client : call'[c].kind # "subscribe"
      /\ loop' = [pc |-> loop'.pc, of |-> u]
      /\ \/ u \in Topic /\ loop'.pc = "submit"
         \/ u \notin Topic /\ loop'.pc \in {"monitor", "publish"}
  BY <1>2, LoopCallsFacts
<1>4. ChannelsKept
  BY <1>2, <1>3 DEF ChannelsKept, NetKept
<1>5. SubscribedIsKnown'
  BY <1>2, <1>3 DEF OrderInv, SubscribedIsKnown, NetKept
<1>6. /\ 1 \in DOMAIN requests
      /\ \A i \in DOMAIN requests' :
           i \in Nat /\ i + 1 \in DOMAIN requests /\ i + 1 # 1 /\ requests'[i] = requests[i + 1]
  BY <1>2, ClusterTypes, HeadTail DEF OrderInv
<1>7. SubmittedOnce'
  <2>1. \A i \in DOMAIN requests' : requests'[i] \in Topic => user'[requests'[i]] = "waiting"
    BY <1>2, <1>6 DEF OrderInv, SubmittedOnce
  <2>2. \A i, j \in DOMAIN requests' :
          requests'[i] \in Topic /\ requests'[i] = requests'[j] => i = j
    <3>1. SUFFICES ASSUME NEW i \in DOMAIN requests', NEW j \in DOMAIN requests',
                          requests'[i] \in Topic, requests'[i] = requests'[j]
                   PROVE  i = j
      OBVIOUS
    <3>2. i + 1 = j + 1
      BY <1>6, <3>1 DEF OrderInv, SubmittedOnce
    <3>3. QED
      BY <1>6, <3>2
  <2>3. u \in Topic =>
          user'[u] = "waiting" /\ \A i \in DOMAIN requests' : requests'[i] # u
    BY <1>1, <1>2, <1>6 DEF OrderInv, SubmittedOnce
  <2>4. loop'.of = u /\ (loop'.pc \in {"submit", "subscribe"} => u \in Topic)
    BY <1>3
  <2>5. QED
    BY <2>1, <2>2, <2>3, <2>4 DEF SubmittedOnce
<1>8. QED
  BY <1>3, <1>4, <1>5, <1>7, KeptOrder DEF NetKept

LEMMA ResponseReadOrder ==
    ASSUME OrderInv, ClusterInv', ResponseRead
    PROVE  OrderInv'
<1>1. /\ loop.pc = "submit"
      /\ NetKept /\ \A c \in Client : call'[c].kind # "subscribe"
      /\ loop' = [pc |-> "subscribe", of |-> loop.of]
      /\ UNCHANGED <<requests, user, jobs, closed, updates, read, calls>>
  BY LoopCallsFacts DEF ResponseRead
<1>2. ChannelsKept /\ SubscribedIsKnown' /\ SubmittedOnce'
  BY <1>1 DEF ChannelsKept, NetKept, OrderInv, SubscribedIsKnown, SubmittedOnce
<1>3. QED
  BY <1>1, <1>2, KeptOrder DEF NetKept

-----------------------------------------------------------------------------
(* A call of the loop that is over was nobody else's. *)
LEMMA ReturnedFacts ==
    ASSUME OrderInv, NEW pc, NEW result, Returned(pc, result)
    PROVE  /\ loop.pc = pc /\ call[Loop].pc = result /\ NetKept
           /\ \A c \in Client : call'[c].kind # "subscribe"
  BY ClusterTypes DEF Returned, Client, OrderInv, OnlyLoopSubscribes

LEMMA LoopPanicsOrder ==
    ASSUME OrderInv, ClusterInv', LoopPanics, NetKept,
           \A c \in Client : call'[c].kind # "subscribe"
    PROVE  OrderInv'
<1>1. /\ loop'.pc = "panicked" /\ requests' = <<>> /\ UNCHANGED <<closed, updates, read>>
      /\ \A v \in User : user'[v] = "left" <=> user[v] = "left"
  BY ClusterTypes DEF LoopPanics, OrderInv, ClusterInv, ClusterTypeOK
<1>2. ChannelsKept
  BY <1>1, ClusterTypes DEF ChannelsKept, NetKept, OrderInv
<1>3. SubscribedIsKnown' /\ SubmittedOnce'
  BY <1>1 DEF SubscribedIsKnown, SubmittedOnce
<1>4. QED
  BY <1>2, <1>3, KeptOrder DEF NetKept

(* A call that is served, or not the loop's business, keeps the order. *)
LEMMA SelectsAgainOrder ==
    ASSUME OrderInv, ClusterInv', loop' = Selecting, NetKept,
           \A c \in Client : call'[c].kind # "subscribe",
           UNCHANGED <<requests, updates, read>>, jobs \subseteq jobs',
           loop.pc = "subscribe" => loop.of \in jobs', loop.pc # "panicked",
           \/ UNCHANGED user
           \/ /\ loop.of \in User /\ user' = [user EXCEPT ![loop.of] = "served"]
              /\ loop.pc \in {"submit", "subscribe"} \/ loop.of \notin Topic
    PROVE  OrderInv'
<1>1. \A v \in Topic :
        /\ user[v] = "left" => user'[v] = "left" \/ v = loop.of
        /\ user'[v] = "left" => user[v] = "left"
        /\ user[v] = "left" /\ v = loop.of => user'[v] = "left"
        /\ user'[v] # user[v] => v = loop.of /\ loop.pc \in {"submit", "subscribe"}
  BY ClusterTypes DEF OrderInv, SubmittedOnce
<1>2. ChannelsKept
  BY <1>1 DEF ChannelsKept, NetKept
<1>3. SubscribedIsKnown'
  BY <1>1 DEF OrderInv, SubscribedIsKnown, NetKept
<1>4. SubmittedOnce'
  BY <1>1 DEF OrderInv, SubmittedOnce, Selecting
<1>5. QED
  BY <1>2, <1>3, <1>4, KeptOrder DEF NetKept

LEMMA LoopReturnsOrder ==
    ASSUME OrderInv, ClusterInv', LoopReturns
    PROVE  OrderInv'
<1>1. /\ loop.pc \in {"submit", "subscribe", "monitor"} => loop.of \in User
      /\ loop.pc = "monitor" => loop.of \notin Topic
  BY ClusterTypes DEF OrderInv, ClusterInv, LoopCall
<1>2. CASE SubmitFails
  BY <1>1, <1>2, ReturnedFacts, SelectsAgainOrder DEF SubmitFails, Serve
<1>3. CASE Subscribed
  BY <1>1, <1>3, ReturnedFacts, SelectsAgainOrder DEF Subscribed, Serve
<1>4. CASE NotSubscribed
  BY <1>4, ReturnedFacts, LoopPanicsOrder DEF NotSubscribed
<1>5. CASE PublishReturned
  BY <1>5, ReturnedFacts, SelectsAgainOrder DEF PublishReturned
<1>6. CASE Monitored
  BY <1>1, <1>6, ReturnedFacts, SelectsAgainOrder DEF Monitored, Serve
<1>7. CASE NotMonitored
  BY <1>7, ReturnedFacts, LoopPanicsOrder DEF NotMonitored
<1>8. CASE Flushed
  <2>1. NetKept /\ UNCHANGED call
    BY <1>8 DEF Flushed, netVars, NetKept
  <2>2. QED
    BY <1>8, <2>1, SelectsAgainOrder DEF Flushed, OrderInv, OnlyLoopSubscribes
<1>9. QED
  BY <1>2, <1>3, <1>4, <1>5, <1>6, <1>7, <1>8 DEF LoopReturns

LEMMA ResponseBrokenOrder ==
    ASSUME OrderInv, ClusterInv', ResponseBroken
    PROVE  OrderInv'
  BY ReturnedFacts, LoopPanicsOrder DEF ResponseBroken

-----------------------------------------------------------------------------
(* A reader takes the oldest update. *)
LEMMA ReadInOrder ==
    ASSUME ClusterInv, ClusterInv', NEW u \in Topic, updates[u] # <<>>,
           updates'[u] = Tail(updates[u]), UNCHANGED <<events, held>>,
           NEW first \in Nat, NEW last \in Nat, InOrder(Way(u), u, first, last)
    PROVE  /\ Head(updates[u]) \in first..last
           /\ InOrder(Way(u)', u, Head(updates[u]) + 1, last)
<1>1. PICK v : v = Way(u)
  OBVIOUS
<1>2. PICK w : w = Way(u)'
  OBVIOUS
<1>3. PICK q \in Seq(1..MaxArrivals) : q = updates[u]
  BY ClusterTypes
<1>4. PICK p : p = updates'[u]
  OBVIOUS
<1>5. WayOf(v, q, events, held, u) /\ WayOf(w, p, events, held, u)
  BY <1>1, <1>2, <1>3, <1>4, WayNow, WayNext
<1>6. /\ Len(q) \in Nat /\ Len(q) # 0 /\ Len(p) = Len(q) - 1
      /\ \A i \in 1..Len(p) : p[i] = q[i + 1]
      /\ Head(q) = q[1]
  BY <1>3, <1>4
<1>7. /\ v \in Seq(Event) /\ w \in Seq(Event) /\ Len(events) \in Nat /\ Len(held) \in Nat
      /\ Len(v) = Len(q) + Len(events) + Len(held)
      /\ Len(w) = Len(p) + Len(events) + Len(held)
  BY <1>5 DEF WayOf
<1>8. /\ Len(v) # 0 /\ v # <<>> /\ v[1] = [topic |-> u, n |-> q[1]] /\ Len(w) = Len(v) - 1
  <2>1. 1 \in 1..Len(q)
    BY <1>6
  <2>2. v[1] = [topic |-> u, n |-> q[1]]
    BY <1>5, <2>1 DEF WayOf
  <2>3. Len(v) # 0 /\ Len(w) = Len(v) - 1
    BY <1>6, <1>7
  <2>4. QED
    BY <2>2, <2>3
<1>9. ASSUME NEW i \in 1..Len(w) PROVE w[i] = v[i + 1]
  <2>1. CASE i \in 1..Len(p)
    <3>1. i + 1 \in 1..Len(q) /\ p[i] = q[i + 1]
      BY <1>6, <2>1
    <3>2. w[i] = [topic |-> u, n |-> p[i]]
      BY <1>5, <2>1 DEF WayOf
    <3>3. v[i + 1] = [topic |-> u, n |-> q[i + 1]]
      BY <1>5, <3>1 DEF WayOf
    <3>4. QED
      BY <3>1, <3>2, <3>3
  <2>2. CASE i \in Len(p) + 1..Len(p) + Len(events)
    <3>1. PICK j \in 1..Len(events) : i = Len(p) + j /\ i + 1 = Len(q) + j
      <4>1. /\ i - Len(p) \in 1..Len(events) /\ i = Len(p) + (i - Len(p))
            /\ i + 1 = Len(q) + (i - Len(p))
        BY <1>6, <1>7, <2>2
      <4>2. QED
        BY <4>1
    <3>2. w[i] = events[j]
      BY <1>5, <3>1 DEF WayOf
    <3>3. v[i + 1] = events[j]
      BY <1>5, <3>1 DEF WayOf
    <3>4. QED
      BY <3>2, <3>3
  <2>3. CASE i \in Len(p) + Len(events) + 1..Len(w)
    <3>1. PICK j \in 1..Len(held) :
            i = Len(p) + Len(events) + j /\ i + 1 = Len(q) + Len(events) + j
      <4>1. /\ i - (Len(p) + Len(events)) \in 1..Len(held)
            /\ i = Len(p) + Len(events) + (i - (Len(p) + Len(events)))
            /\ i + 1 = Len(q) + Len(events) + (i - (Len(p) + Len(events)))
        BY <1>6, <1>7, <2>3
      <4>2. QED
        BY <4>1
    <3>2. w[i] = held[j]
      BY <1>5, <3>1 DEF WayOf
    <3>3. v[i + 1] = held[j]
      BY <1>5, <3>1 DEF WayOf
    <3>4. QED
      BY <3>2, <3>3
  <2>4. QED
    BY <1>6, <1>7, <2>1, <2>2, <2>3
<1>10. InOrder(v, u, first, last)
  BY <1>1
<1>11. v[1].topic = u /\ v[1].n = q[1]
  BY <1>8
<1>12. v[1].n \in first..last /\ InOrder(w, u, v[1].n + 1, last)
  BY <1>7, <1>8, <1>9, <1>10, <1>11, FirstInOrder
<1>13. QED
  BY <1>2, <1>3, <1>6, <1>11, <1>12

LEMMA ReadUpdateOrder ==
    ASSUME OrderInv, ClusterInv', NEW u \in Topic, ReadUpdate(u)
    PROVE  OrderInv'
<1>1. /\ user[u] = "served" /\ updates[u] # <<>>
      /\ read' = [read EXCEPT ![u] = Head(updates[u])]
      /\ updates' = [updates EXCEPT ![u] = Tail(updates[u])]
      /\ UNCHANGED <<netVars, requests, loop, user, jobs, closed, calls>>
  BY DEF ReadUpdate
<1>2. /\ UNCHANGED <<call, events, held, arrived, subscribed, swarm>>
      /\ \A v \in Topic : arrived[v] \in Nat /\ read[v] \in Nat
      /\ read \in [Topic -> 0..MaxArrivals] /\ updates \in [Topic -> Seq(1..MaxArrivals)]
  BY <1>1, ClusterTypes, NetworkingAssumption DEF OrderInv, netVars
<1>3. /\ read'[u] = Head(updates[u]) /\ updates'[u] = Tail(updates[u])
      /\ \A v \in Topic : v # u => read'[v] = read[v] /\ updates'[v] = updates[v]
  BY <1>1, <1>2
<1>4. HeldIsSending' /\ OnlyLoopSubscribes' /\ SubmittedOnce' /\ SubscribedIsKnown'
  BY <1>1, <1>2
  DEF OrderInv, HeldIsSending, OnlyLoopSubscribes, SubmittedOnce, SubscribedIsKnown
<1>5. /\ read'[u] \in read[u] + 1..arrived[u]
      /\ InOrder(Way(u)', u, read'[u] + 1, arrived'[u])
  <2>1. InOrder(Way(u), u, read[u] + 1, arrived[u]) /\ ClusterInv
    BY <1>1 DEF OrderInv, UpdatesInOrder
  <2>2. read[u] + 1 \in Nat
    BY <1>2
  <2>3. QED
    BY <1>1, <1>2, <1>3, <2>1, <2>2, ReadInOrder
<1>6. ArrivedIsSubscribed'
  <2>1. \A v \in Topic : /\ arrived[v] # 0 => v \in subscribed
                         /\ read[v] <= arrived[v]
    BY DEF OrderInv, ArrivedIsSubscribed
  <2>2. read'[u] <= arrived[u]
    BY <1>2, <1>5
  <2>3. \A v \in Topic : read'[v] <= arrived[v]
    BY <1>3, <2>1, <2>2
  <2>4. QED
    BY <1>2, <2>1, <2>3 DEF ArrivedIsSubscribed
<1>7. ASSUME NEW v \in Topic, v # u, user[v] # "left"
      PROVE  InOrder(Way(v)', v, read'[v] + 1, arrived'[v])
  <2>1. Way(v)' = Way(v)
    BY <1>2, <1>3, <1>7 DEF Way
  <2>2. QED
    BY <1>2, <1>3, <1>7, <2>1 DEF OrderInv, UpdatesInOrder
<1>8. UpdatesInOrder'
  BY <1>1, <1>5, <1>7 DEF UpdatesInOrder
<1>9. QED
  BY <1>4, <1>6, <1>8 DEF OrderInv

LEMMA HandleEventOrder ==
    ASSUME OrderInv, ClusterInv', HandleEvent
    PROVE  OrderInv'
<1>1. PICK t : t = Head(events).topic
  OBVIOUS
<1>2. /\ loop.pc = "select" /\ Taken
      /\ UNCHANGED <<call, swarm, held, subscribed, arrived, requests, user, read>>
      /\ loop'.pc \in {"select", "flush"}
      /\ \/ /\ t \notin jobs /\ UNCHANGED <<jobs, updates>>
         \/ /\ t \in jobs /\ user[t] = "left"
            /\ jobs' = jobs \ {t} /\ UNCHANGED updates
         \/ /\ t \in jobs /\ user[t] # "left"
            /\ updates' = [updates EXCEPT ![t] = Append(updates[t], Head(events).n)]
            /\ UNCHANGED jobs
  BY <1>1 DEF HandleEvent, Taken, Selecting
<1>3. HeldIsSending' /\ OnlyLoopSubscribes' /\ SubmittedOnce' /\ ArrivedIsSubscribed'
  BY <1>2
  DEF OrderInv, HeldIsSending, OnlyLoopSubscribes, SubmittedOnce, ArrivedIsSubscribed
<1>4. SubscribedIsKnown'
  BY <1>2 DEF OrderInv, SubscribedIsKnown
<1>5. SUFFICES ASSUME NEW u \in Topic, user[u] # "left"
               PROVE  InOrder(Way(u)', u, read[u] + 1, arrived[u])
  BY <1>2, <1>3, <1>4 DEF UpdatesInOrder, OrderInv
<1>6. InOrder(Way(u), u, read[u] + 1, arrived[u]) /\ ClusterInv
  BY <1>5 DEF OrderInv, UpdatesInOrder
<1>7. CASE t # u
  <2>1. updates'[u] = updates[u]
    BY <1>2, <1>7, ClusterTypes, <1>6
  <2>2. QED
    BY <1>1, <1>2, <1>6, <1>7, <2>1, TakenInOrder
<1>8. CASE t = u
  <2>1. Head(events).n \in read[u] + 1..arrived[u]
    BY <1>1, <1>2, <1>6, <1>8, TakenInOrder
  <2>2. arrived[u] # 0
    BY <1>6, <2>1, ClusterTypes, NetworkingAssumption
  <2>3. u \in jobs
    BY <1>2, <1>5, <2>2 DEF OrderInv, ArrivedIsSubscribed, SubscribedIsKnown
  <2>4. updates'[u] = Append(updates[u], Head(events).n)
    BY <1>2, <1>5, <1>6, <1>8, <2>3, ClusterTypes
  <2>5. QED
    BY <1>1, <1>2, <1>6, <1>8, <2>4, TakenInOrder
<1>9. QED
  BY <1>7, <1>8

-----------------------------------------------------------------------------
LEMMA OrderInit == ClusterInit => OrderInv
<1> SUFFICES ASSUME ClusterInit PROVE OrderInv
  OBVIOUS
<1>1. ClusterInv
  BY ClusterInitInv
<1>2. HeldIsSending /\ OnlyLoopSubscribes /\ SubmittedOnce
  BY DEF ClusterInit, NetInit, HeldIsSending, OnlyLoopSubscribes, SubmittedOnce, Client,
         NoCall, Selecting
<1>3. SubscribedIsKnown /\ ArrivedIsSubscribed
  BY DEF ClusterInit, NetInit, SubscribedIsKnown, ArrivedIsSubscribed
<1>4. UpdatesInOrder
  <2>1. SUFFICES ASSUME NEW u \in Topic PROVE InOrder(Way(u), u, 1, 0)
    BY DEF ClusterInit, NetInit, UpdatesInOrder
  <2>2. PICK w : w = Way(u)
    OBVIOUS
  <2>3. /\ updates[u] = <<>> /\ events = <<>> /\ held = <<>>
    BY DEF ClusterInit, NetInit
  <2>4. WayOf(w, <<>>, <<>>, <<>>, u)
    BY <1>1, <2>2, <2>3, WayNow
  <2>5. w \in Seq(Event) /\ Len(w) = 0
    BY <2>4 DEF WayOf
  <2>6. DOMAIN w = {} /\ 1..0 = {}
    BY <2>5
  <2>7. InOrder(w, u, 1, 0)
    BY <2>6 DEF InOrder
  <2>8. QED
    BY <2>2, <2>7
<1>5. QED
  BY <1>1, <1>2, <1>3, <1>4 DEF OrderInv

LEMMA OrderNext == OrderInv /\ [ClusterNext]_vars => OrderInv'
<1> SUFFICES ASSUME OrderInv, [ClusterNext]_vars PROVE OrderInv'
  OBVIOUS
<1>1. ClusterInv'
  BY ClusterNextInv DEF OrderInv
<1>2. CASE UNCHANGED vars
  <2>1. UNCHANGED netVars /\ UNCHANGED clusterVars
    BY <1>2 DEF vars
  <2>2. ChannelsKept /\ UNCHANGED swarm
    BY <2>1 DEF ChannelsKept, netVars, clusterVars
  <2>3. SubmittedOnce' /\ SubscribedIsKnown' /\ \A c \in Client : call'[c].kind # "subscribe"
    BY <2>1 DEF OrderInv, SubmittedOnce, SubscribedIsKnown, OnlyLoopSubscribes,
                netVars, clusterVars
  <2>4. QED
    BY <1>1, <2>2, <2>3, KeptOrder
<1>3. CASE ClusterNext
  BY <1>1, <1>3, NetStepOrder, RequestOrder, ReadUpdateOrder, LeaveOrder, ClientCallOrder,
     TakeCommandOrder, HandleEventOrder, LoopReturnsOrder, ResponseReadOrder,
     ResponseBrokenOrder DEF ClusterNext
<1>4. QED
  BY <1>2, <1>3

(* The updates of a job that is subscribed to are on their way to its reader, *)
(* each of them once and in the order in which they arrived: none is lost in  *)
(* the event channel, in the hands of the network thread while that channel   *)
(* is full, in the loop or in the job's own channel, also while submit_job    *)
(* has not returned (cluster.rs:94 to 104).                                   *)
THEOREM UpdatesReachTheirReader == ClusterSpec => []UpdatesInOrder
<1>1. ClusterInit => OrderInv
  BY OrderInit
<1>2. OrderInv /\ [ClusterNext]_vars => OrderInv'
  BY OrderNext
<1>3. OrderInv => UpdatesInOrder
  BY DEF OrderInv
<1>4. QED
  BY <1>1, <1>2, <1>3, PTL DEF ClusterSpec
=============================================================================
