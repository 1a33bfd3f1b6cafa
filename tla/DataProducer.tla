---------------------------- MODULE DataProducer ----------------------------
(***************************************************************************)
(* ReliableDataProducer (datastore/common.rs): pushes put data into a      *)
(* channel that a stream empties towards a data node; the node's answers   *)
(* reach a response thread, which keeps count and reports the progress.    *)
(*                                                                         *)
(* A push first sends and only then locks `pendings` and `total` to record *)
(* what it sent; the response thread locks both before it sends a          *)
(* percentage, and keeps them locked if the channel makes it wait.         *)
(***************************************************************************)
EXTENDS Integers, Sequences, FiniteSets

CONSTANTS
    Data,           \* ids of data; data_id_generator makes each only once
    Pushers,        \* users of a clone of the producer
    ProgressBuffer, \* buffer of the progress channel (100 in the code)
    Unwinds,        \* a panic drops what its thread holds: not in WebAssembly
    NoData

ASSUME DataAssumption ==
    /\ IsFiniteSet(Data)
    /\ NoData \notin Data
    /\ ProgressBuffer \in Nat
    /\ Unwinds \in BOOLEAN

VARIABLES
    uploads,      \* data sent by pushes, not yet written to the stream
    writing,      \* the receiver of that channel still exists
    connected,    \* answers still come back over the stream
    stored,       \* data the node has stored
    responses,    \* answers of the node on their way to the response thread
    pendings, total,
    progress,     \* percentages nobody has read yet
    progressOpen, \* the receiver of the progress channel is not closed
    responder,    \* the response thread
    pushing,      \* what a push has sent and not yet recorded
    recorded,     \* history: data whose push has returned Ok
    overtaken,    \* history: data answered before their push recorded them
    cleared       \* history: close has emptied `pendings`

transfer == <<uploads, writing, connected, stored>>
counts   == <<pendings, total>>
channel  == <<progress, progressOpen>>
history  == <<recorded, overtaken, cleared>>
producerVars ==
    <<transfer, responses, counts, channel, responder, pushing, history>>

Elements(s) == {s[i] : i \in 1..Len(s)}

Responder == {"receiving", "sending", "ended", "divided", "refused"}

ProducerTypeOK ==
    /\ uploads \in Seq(Data) /\ responses \in Seq(Data)
    /\ writing \in BOOLEAN /\ connected \in BOOLEAN
    /\ progressOpen \in BOOLEAN /\ cleared \in BOOLEAN
    /\ stored \subseteq Data /\ pendings \subseteq Data
    /\ recorded \subseteq Data /\ overtaken \subseteq Data
    /\ total \in Nat /\ progress \in Seq(Nat)
    /\ responder \in Responder
    /\ pushing \in [Pushers -> Data \cup {NoData}]

(* `produce` hands out a producer whether or not its job got a stream. *)
ProducerInit ==
    /\ uploads = <<>> /\ responses = <<>> /\ progress = <<>>
    /\ connected \in BOOLEAN /\ writing = connected
    /\ stored = {} /\ pendings = {} /\ total = 0
    /\ progressOpen = TRUE
    /\ responder = "receiving"
    /\ pushing = [p \in Pushers |-> NoData]
    /\ recorded = {} /\ overtaken = {} /\ cleared = FALSE

-----------------------------------------------------------------------------
(* Pushes                                                                  *)

Fresh(d) == d \notin recorded /\ \A p \in Pushers : pushing[p] # d

(* By the division, or by the expect of the send. *)
Panicked == responder \in {"divided", "refused"}

\* Mutant: the guards are taken once, before the loop over the answers.
LoopKeepsGuards == responder = "ended"

(* The response thread keeps both mutexes while its send waits, and for    *)
(* ever if it panics with them and nothing unwinds.                        *)
PendingsFree == responder # "sending" /\ (Panicked => Unwinds)

(* push, until its send has returned *)
Push(p, d) ==
    /\ writing /\ pushing[p] = NoData /\ Fresh(d)
    /\ uploads' = Append(uploads, d)
    /\ pushing' = [pushing EXCEPT ![p] = d]
    /\ UNCHANGED <<writing, connected, stored, responses, counts, channel,
                   responder, history>>

\* Mutant: only what is still missing is counted.
RecordInSet(p) ==
    /\ pushing[p] # NoData /\ PendingsFree
    /\ pendings' = pendings \cup {pushing[p]}
    /\ total' = IF pendings = {} THEN total + 1 ELSE total
    /\ recorded' = recorded \cup {pushing[p]}
    /\ pushing' = [pushing EXCEPT ![p] = NoData]
    /\ UNCHANGED <<transfer, responses, channel, responder, overtaken, cleared>>

(* push after its send: both mutexes are held until it returns *)
RecordPush(p) ==
    /\ pushing[p] # NoData /\ PendingsFree
    /\ pendings' = pendings \cup {pushing[p]}
    /\ total' = total + 1
    /\ recorded' = recorded \cup {pushing[p]}
    /\ pushing' = [pushing EXCEPT ![p] = NoData]
    /\ UNCHANGED <<transfer, responses, channel, responder, overtaken, cleared>>

PushFails(p) == pushing[p] = NoData /\ ~writing

IsCompleted == pendings = {}

-----------------------------------------------------------------------------
(* The response thread                                                     *)

\* Mutant: the difference is taken the other way round, without the answer at hand.
CompletedReversed == Cardinality(pendings) - total

(* usize arithmetic: see CountsAgree *)
Completed == total - Cardinality(pendings) + 1
Percent == (Completed * 100) \div total

ProgressEnded ==
    /\ progress = <<>>
    /\ ~progressOpen \/ responder = "ended" \/ (Panicked /\ Unwinds)

\* Mutant: an answer is taken for any id that is pending.
TakeAnyPending ==
    /\ responder = "receiving" /\ responses # <<>>
    /\ responses' = Tail(responses)
    /\ \E d \in pendings \cup {NoData} : pendings' = pendings \ {d}
    /\ overtaken' = overtaken \cup ({Head(responses)} \ recorded)
    /\ UNCHANGED <<transfer, total, progressOpen, pushing, recorded, cleared>>

\* Mutant: the id stays among those pending.
TakeWithoutRemove ==
    /\ responder = "receiving" /\ responses # <<>>
    /\ responses' = Tail(responses)
    /\ overtaken' = overtaken \cup ({Head(responses)} \ recorded)
    /\ UNCHANGED <<transfer, counts, progressOpen, pushing, recorded, cleared>>

TakeResponse ==
    /\ responder = "receiving" /\ responses # <<>>
    /\ responses' = Tail(responses)
    /\ pendings' = pendings \ {Head(responses)}
    /\ overtaken' = overtaken \cup ({Head(responses)} \ recorded)
    /\ UNCHANGED <<transfer, total, progressOpen, pushing, recorded, cleared>>

(* A message that exceeds the buffer is in the channel, but its send does  *)
(* not return before one is taken out.                                     *)
Respond ==
    /\ TakeResponse /\ total # 0 /\ progressOpen
    /\ progress' = Append(progress, Percent)
    /\ responder' = IF Len(progress) < ProgressBuffer
                    THEN "receiving" ELSE "sending"

(* Every push is yet to be recorded: the thread divides by zero. *)
RespondDivides ==
    /\ TakeResponse /\ total = 0
    /\ responder' = "divided"
    /\ UNCHANGED progress

(* The receiver is closed: expect("can't send progress") panics. *)
RespondRefused ==
    /\ TakeResponse /\ total # 0 /\ ~progressOpen
    /\ responder' = "refused"
    /\ UNCHANGED progress

ProgressSent ==
    /\ responder = "sending"
    /\ Len(progress) <= ProgressBuffer \/ ~progressOpen
    /\ responder' = "receiving"
    /\ UNCHANGED <<transfer, responses, counts, channel, pushing, history>>

ResponsesEnd ==
    /\ responder = "receiving" /\ responses = <<>> /\ ~connected
    /\ responder' = "ended"
    /\ UNCHANGED <<transfer, responses, counts, channel, pushing, history>>

-----------------------------------------------------------------------------
(* progress.next() and close                                               *)

ReadProgress ==
    /\ progress # <<>>
    /\ progress' = Tail(progress)
    /\ UNCHANGED <<transfer, responses, counts, progressOpen, responder,
                   pushing, history>>

(* close disconnects its own clone's sender, which changes nothing here *)
CloseProgress ==
    /\ progressOpen' = FALSE
    /\ UNCHANGED <<transfer, responses, counts, progress, responder, pushing,
                   history>>

ClearPendings ==
    /\ ~progressOpen /\ PendingsFree
    /\ pendings' = {} /\ cleared' = TRUE
    /\ UNCHANGED <<transfer, responses, total, channel, responder, pushing,
                   recorded, overtaken>>

-----------------------------------------------------------------------------
(* The way to the data node: write_to_stream, store_data_v1 and the reader *)
(* of answers, as Transfer promises them and Streams has them in detail    *)

Store ==
    /\ connected /\ uploads # <<>>
    /\ stored' = stored \cup {Head(uploads)}
    /\ responses' = Append(responses, Head(uploads))
    /\ uploads' = Tail(uploads)
    /\ UNCHANGED <<writing, connected, counts, channel, responder, pushing,
                   history>>

(* What arrived before the stream broke is still stored. *)
StoreUnanswered ==
    /\ ~connected /\ uploads # <<>>
    /\ stored' = stored \cup {Head(uploads)}
    /\ uploads' = Tail(uploads)
    /\ UNCHANGED <<writing, connected, responses, counts, channel, responder,
                   pushing, history>>

(* Answers under way may be lost, also later when nobody can read them. *)
StreamBreaks ==
    /\ connected \/ responses # <<>>
    /\ connected' = FALSE
    /\ \E n \in 0..Len(responses) : responses' = SubSeq(responses, 1, n)
    /\ UNCHANGED <<uploads, writing, stored, counts, channel, responder,
                   pushing, history>>

(* write_to_stream notices at a later write, and panics; of what it wrote  *)
(* the last may be lost, at once or when the node gives up.  A channel     *)
(* whose receiver is not dropped goes on accepting what nobody reads.      *)
WriterFails ==
    /\ ~connected /\ uploads # <<>>
    /\ writing' = (writing /\ ~Unwinds)
    /\ \E n \in 0..Len(uploads) :
          /\ (writing /\ Unwinds) \/ n < Len(uploads)
          /\ uploads' = SubSeq(uploads, 1, n)
    /\ UNCHANGED <<connected, stored, responses, counts, channel, responder,
                   pushing, history>>

TransferStep == Store \/ StoreUnanswered \/ WriterFails
Responding == Respond \/ RespondDivides \/ RespondRefused \/ ProgressSent
ResponderStep == Responding \/ ResponsesEnd

(* What goes on whatever the user does next. *)
ProducerStep ==
    \/ TransferStep \/ StreamBreaks \/ ResponderStep
    \/ \E p \in Pushers : RecordPush(p)

(* Everything users of clones may do, in any order. *)
ProducerNext ==
    \/ ProducerStep
    \/ \E p \in Pushers, d \in Data : Push(p, d)
    \/ ReadProgress \/ CloseProgress \/ ClearPendings

ProducerSpec == ProducerInit /\ [][ProducerNext]_producerVars

-----------------------------------------------------------------------------
(* Properties                                                              *)

(* There are never more pending ids than were counted, so the unsigned     *)
(* subtraction in the response thread cannot underflow (common.rs:73).     *)
CountsAgree == Cardinality(pendings) <= total

(* What the producer no longer reports as pending after its push returned  *)
(* is stored at the node, until close forgets everything: is_completed is  *)
(* never true too early (common.rs:112).                                   *)
ConfirmedIsStored == cleared \/ recorded \ pendings \subseteq stored

(* Pushed data stay pending for one of these reasons only: they or their   *)
(* answer are still on the way, the answer came before push recorded the   *)
(* id (common.rs:97 to 100), or the stream or the response thread is gone. *)
PendingHasReason ==
    \/ ~connected \/ responder = "ended" \/ Panicked
    \/ pendings \subseteq Elements(uploads) \cup Elements(responses) \cup overtaken

=============================================================================
