------------------------- MODULE DataProducerProofs -------------------------
(***************************************************************************)
(* For any number of data, of pushes at once and any buffer: the counters  *)
(* of the response thread agree and the producer never claims that         *)
(* something is stored which is not, whatever its users do; and what the   *)
(* browser example shows as completed is stored.                           *)
(***************************************************************************)
EXTENDS UploadBrowser, FiniteSetTheorems, TLAPS

USE DataAssumption

(* A node answers what it has stored. *)
AnsweredIsStored == Elements(responses) \subseteq stored

ProducerInv ==
    /\ ProducerTypeOK
    /\ CountsAgree
    /\ AnsweredIsStored
    /\ ConfirmedIsStored

-----------------------------------------------------------------------------
(* Lemmas about sequences, sets and numbers                                *)

(* What is left of a channel was in it before. *)
LEMMA TailElements ==
    ASSUME NEW s \in Seq(Data), s # <<>>
    PROVE  /\ Head(s) \in Data /\ Tail(s) \in Seq(Data)
           /\ Head(s) \in Elements(s)
           /\ Elements(Tail(s)) \subseteq Elements(s)
<1>1. Head(s) \in Data /\ Tail(s) \in Seq(Data) /\ Len(s) \in Nat \ {0}
      /\ Head(s) = s[1] /\ Len(Tail(s)) = Len(s) - 1
  OBVIOUS
<1>2. \A i \in 1..Len(Tail(s)) : Tail(s)[i] = s[i + 1]
  OBVIOUS
<1>3. QED
  BY <1>1, <1>2 DEF Elements

(* A message sent into a channel is behind those that were there. *)
LEMMA AppendElements ==
    ASSUME NEW s \in Seq(Data), NEW d \in Data
    PROVE  /\ Append(s, d) \in Seq(Data)
           /\ Elements(Append(s, d)) = Elements(s) \cup {d}
<1>1. Append(s, d) \in Seq(Data) /\ Len(Append(s, d)) = Len(s) + 1
      /\ Len(s) \in Nat /\ Append(s, d)[Len(s) + 1] = d
  OBVIOUS
<1>2. \A i \in 1..Len(s) : Append(s, d)[i] = s[i]
  OBVIOUS
<1>3. QED
  BY <1>1, <1>2 DEF Elements

(* A channel that loses its last messages keeps only some of them. *)
LEMMA PrefixElements ==
    ASSUME NEW s \in Seq(Data), NEW n \in 0..Len(s)
    PROVE  /\ SubSeq(s, 1, n) \in Seq(Data)
           /\ Elements(SubSeq(s, 1, n)) \subseteq Elements(s)
<1>1. SubSeq(s, 1, n) \in Seq(Data) /\ Len(SubSeq(s, 1, n)) = n
      /\ \A i \in 1..n : SubSeq(s, 1, n)[i] = s[i]
  OBVIOUS
<1>2. QED
  BY <1>1 DEF Elements

(* Recording an id counts it once more. *)
LEMMA RecordedCount ==
    ASSUME NEW S \in SUBSET Data, NEW d \in Data
    PROVE  /\ Cardinality(S) \in Nat
           /\ Cardinality(S \cup {d}) <= Cardinality(S) + 1
           /\ Cardinality(S \ {d}) <= Cardinality(S)
<1>1. IsFiniteSet(S)
  BY FS_Subset
<1>2. Cardinality(S) \in Nat
  BY <1>1, FS_CardinalityType
<1>3. Cardinality(S \cup {d}) = IF d \in S THEN Cardinality(S)
                               ELSE Cardinality(S) + 1
  BY <1>1, FS_AddElement, Zenon
<1>4. Cardinality(S \ {d}) = IF d \in S THEN Cardinality(S) - 1
                             ELSE Cardinality(S)
  BY <1>1, FS_RemoveElement, Zenon
<1>5. QED
  BY <1>2, <1>3, <1>4

(* A percentage is a natural number. *)
LEMMA QuotientIsNat ==
    ASSUME NEW a \in Nat, NEW b \in Nat \ {0}
    PROVE  a \div b \in Nat
  OBVIOUS

(* Under the invariant the response thread's arithmetic does not underflow. *)
LEMMA PercentIsNat ==
    ASSUME ProducerTypeOK, CountsAgree, total # 0
    PROVE  Percent \in Nat
<1>1. Cardinality(pendings) \in Nat
  <2>1. IsFiniteSet(pendings)
    BY FS_Subset DEF ProducerTypeOK
  <2>2. QED
    BY <2>1, FS_CardinalityType
<1>2. Completed * 100 \in Nat
  BY <1>1 DEF Completed, CountsAgree, ProducerTypeOK
<1>3. total \in Nat \ {0}
  BY DEF ProducerTypeOK
<1>4. QED
  BY <1>2, <1>3, QuotientIsNat DEF Percent

-----------------------------------------------------------------------------
(* Each step preserves the invariant                                       *)

(* A new producer has nothing pending and nothing counted. *)
LEMMA ProducerInitInv == ProducerInit => ProducerInv
<1> SUFFICES ASSUME ProducerInit PROVE ProducerInv
  OBVIOUS
<1>1. <<>> \in Seq(Data) /\ <<>> \in Seq(Nat)
  OBVIOUS
<1>2. ProducerTypeOK
  BY <1>1 DEF ProducerInit, ProducerTypeOK, Responder
<1>3. CountsAgree
  BY FS_EmptySet DEF ProducerInit, CountsAgree
<1>4. AnsweredIsStored /\ ConfirmedIsStored
  BY DEF ProducerInit, AnsweredIsStored, ConfirmedIsStored, Elements
<1>5. QED
  BY <1>2, <1>3, <1>4 DEF ProducerInv

(* A push sends; nothing is recorded yet. *)
LEMMA PushInv ==
    ASSUME ProducerInv, NEW p \in Pushers, NEW d \in Data, Push(p, d)
    PROVE  ProducerInv'
<1>1. Append(uploads, d) \in Seq(Data)
  BY AppendElements DEF ProducerInv, ProducerTypeOK
<1>2. QED
  BY <1>1 DEF Push, ProducerInv, ProducerTypeOK, CountsAgree, AnsweredIsStored,
     ConfirmedIsStored, Elements, counts, channel, history

(* A push records what it has sent: one more is pending, one more counted. *)
LEMMA RecordPushInv ==
    ASSUME ProducerInv, NEW p \in Pushers, RecordPush(p)
    PROVE  ProducerInv'
<1>1. pushing[p] \in Data
  BY DEF RecordPush, ProducerInv, ProducerTypeOK
<1>2. ProducerTypeOK'
  BY <1>1 DEF RecordPush, ProducerInv, ProducerTypeOK, transfer, channel
<1>3. CountsAgree'
  <2>1. /\ Cardinality(pendings) \in Nat
        /\ Cardinality(pendings \cup {pushing[p]}) <= Cardinality(pendings) + 1
        /\ Cardinality(pendings \cup {pushing[p]}) \in Nat
    BY <1>1, RecordedCount DEF ProducerInv, ProducerTypeOK
  <2>2. Cardinality(pendings) <= total /\ total \in Nat
    BY DEF ProducerInv, ProducerTypeOK, CountsAgree
  <2>3. pendings' = pendings \cup {pushing[p]} /\ total' = total + 1
    BY DEF RecordPush
  <2>4. QED
    BY <2>1, <2>2, <2>3 DEF CountsAgree
<1>4. AnsweredIsStored' /\ ConfirmedIsStored'
  BY DEF RecordPush, ProducerInv, AnsweredIsStored, ConfirmedIsStored, Elements,
     transfer
<1>5. QED
  BY <1>2, <1>3, <1>4 DEF ProducerInv

(* The response thread takes an answer off the ids that are pending. *)
LEMMA TakeResponseInv ==
    ASSUME ProducerInv, TakeResponse,
           responder' \in Responder, progress' \in Seq(Nat)
    PROVE  ProducerInv'
<1> DEFINE d == Head(responses)
<1>1. /\ d \in Data /\ Tail(responses) \in Seq(Data)
      /\ d \in Elements(responses)
      /\ Elements(Tail(responses)) \subseteq Elements(responses)
  BY TailElements DEF TakeResponse, ProducerInv, ProducerTypeOK
<1>2. ProducerTypeOK'
  BY <1>1 DEF TakeResponse, ProducerInv, ProducerTypeOK, transfer
<1>3. CountsAgree'
  <2>1. /\ Cardinality(pendings) \in Nat
        /\ Cardinality(pendings \ {d}) <= Cardinality(pendings)
        /\ Cardinality(pendings \ {d}) \in Nat
    BY <1>1, RecordedCount DEF ProducerInv, ProducerTypeOK
  <2>2. Cardinality(pendings) <= total /\ total \in Nat
    BY DEF ProducerInv, ProducerTypeOK, CountsAgree
  <2>3. pendings' = pendings \ {d} /\ total' = total
    BY DEF TakeResponse
  <2>4. QED
    BY <2>1, <2>2, <2>3 DEF CountsAgree
<1>4. AnsweredIsStored'
  BY <1>1 DEF TakeResponse, ProducerInv, AnsweredIsStored, Elements, transfer
<1>5. ConfirmedIsStored'
  <2>1. d \in stored
    BY <1>1 DEF ProducerInv, AnsweredIsStored
  <2>2. QED
    BY <2>1 DEF TakeResponse, ProducerInv, ConfirmedIsStored, transfer
<1>6. QED
  BY <1>2, <1>3, <1>4, <1>5 DEF ProducerInv

(* An answer leads to a percentage, a division by zero or a refused send. *)
LEMMA ResponderInv ==
    ASSUME ProducerInv, ResponderStep
    PROVE  ProducerInv'
<1>1. CASE Respond
  <2>1. Percent \in Nat
    BY <1>1, PercentIsNat DEF Respond, ProducerInv
  <2>2. progress' \in Seq(Nat)
    BY <1>1, <2>1 DEF Respond, ProducerInv, ProducerTypeOK
  <2>3. responder' \in Responder
    BY <1>1 DEF Respond, Responder
  <2>4. QED
    BY <1>1, <2>2, <2>3, TakeResponseInv DEF Respond
<1>2. CASE RespondDivides
  BY <1>2, TakeResponseInv
     DEF RespondDivides, ProducerInv, ProducerTypeOK, Responder
<1>3. CASE RespondRefused
  BY <1>3, TakeResponseInv
     DEF RespondRefused, ProducerInv, ProducerTypeOK, Responder
<1>4. CASE ProgressSent \/ ResponsesEnd
  BY <1>4 DEF ProgressSent, ResponsesEnd, ProducerInv, ProducerTypeOK,
     CountsAgree, AnsweredIsStored, ConfirmedIsStored, Elements, Responder,
     transfer, counts, channel, history
<1>5. QED
  BY <1>1, <1>2, <1>3, <1>4 DEF ResponderStep, Responding

(* Reading the progress, or closing, claims nothing new. *)
LEMMA UserInv ==
    ASSUME ProducerInv, ReadProgress \/ CloseProgress \/ ClearPendings
    PROVE  ProducerInv'
<1>1. CASE ReadProgress
  <2>1. Tail(progress) \in Seq(Nat)
    BY <1>1 DEF ReadProgress, ProducerInv, ProducerTypeOK
  <2>2. QED
    BY <1>1, <2>1 DEF ReadProgress, ProducerInv, ProducerTypeOK, CountsAgree,
       AnsweredIsStored, ConfirmedIsStored, Elements, transfer, counts, history
<1>2. CASE CloseProgress
  BY <1>2 DEF CloseProgress, ProducerInv, ProducerTypeOK, CountsAgree,
     AnsweredIsStored, ConfirmedIsStored, Elements, transfer, counts, history
<1>3. CASE ClearPendings
  <2>1. Cardinality({}) = 0
    BY FS_EmptySet
  <2>2. QED
    BY <1>3, <2>1 DEF ClearPendings, ProducerInv, ProducerTypeOK, CountsAgree,
       AnsweredIsStored, ConfirmedIsStored, Elements, transfer, channel
<1>4. QED
  BY <1>1, <1>2, <1>3

(* The node stores before it answers, and a broken stream adds nothing. *)
LEMMA TransferInv ==
    ASSUME ProducerInv, TransferStep \/ StreamBreaks
    PROVE  ProducerInv'
<1>1. CASE Store
  <2> DEFINE d == Head(uploads)
  <2>1. d \in Data /\ Tail(uploads) \in Seq(Data)
    BY <1>1, TailElements DEF Store, ProducerInv, ProducerTypeOK
  <2>2. /\ Append(responses, d) \in Seq(Data)
        /\ Elements(Append(responses, d)) = Elements(responses) \cup {d}
    BY <2>1, AppendElements DEF ProducerInv, ProducerTypeOK
  <2>3. ProducerTypeOK'
    BY <1>1, <2>1, <2>2 DEF Store, ProducerInv, ProducerTypeOK, counts, channel,
       history
  <2>4. AnsweredIsStored'
    <3>1. Elements(responses)' = Elements(Append(responses, d))
      BY <1>1 DEF Store, Elements
    <3>2. QED
      BY <1>1, <2>2, <3>1 DEF Store, ProducerInv, AnsweredIsStored
  <2>5. CountsAgree' /\ ConfirmedIsStored'
    BY <1>1 DEF Store, ProducerInv, CountsAgree, ConfirmedIsStored, counts,
       history
  <2>6. QED
    BY <2>3, <2>4, <2>5 DEF ProducerInv
<1>2. CASE StreamBreaks
  <2>1. PICK n \in 0..Len(responses) : responses' = SubSeq(responses, 1, n)
    BY <1>2 DEF StreamBreaks
  <2>2. /\ responses' \in Seq(Data)
        /\ Elements(responses)' \subseteq Elements(responses)
    <3>1. responses \in Seq(Data)
      BY DEF ProducerInv, ProducerTypeOK
    <3>2. /\ SubSeq(responses, 1, n) \in Seq(Data)
          /\ Elements(SubSeq(responses, 1, n)) \subseteq Elements(responses)
      BY <3>1, PrefixElements
    <3>3. Elements(responses)' = Elements(SubSeq(responses, 1, n))
      BY <2>1 DEF Elements
    <3>4. QED
      BY <2>1, <3>2, <3>3
  <2>3. QED
    BY <1>2, <2>2 DEF StreamBreaks, ProducerInv, ProducerTypeOK, CountsAgree,
       AnsweredIsStored, ConfirmedIsStored, counts, channel, history
<1>3. CASE WriterFails
  <2>1. PICK n \in 0..Len(uploads) : uploads' = SubSeq(uploads, 1, n)
    BY <1>3 DEF WriterFails
  <2>2. uploads' \in Seq(Data)
    BY <2>1, PrefixElements DEF ProducerInv, ProducerTypeOK
  <2>3. ProducerTypeOK'
    BY <1>3, <2>2 DEF WriterFails, ProducerInv, ProducerTypeOK, counts, channel,
       history
  <2>4. CountsAgree' /\ AnsweredIsStored' /\ ConfirmedIsStored'
    BY <1>3 DEF WriterFails, ProducerInv, CountsAgree, AnsweredIsStored,
       ConfirmedIsStored, Elements, counts, channel, history
  <2>5. QED
    BY <2>3, <2>4 DEF ProducerInv
<1>4. CASE StoreUnanswered
  <2>1. Head(uploads) \in Data /\ Tail(uploads) \in Seq(Data)
    BY <1>4, TailElements DEF StoreUnanswered, ProducerInv, ProducerTypeOK
  <2>2. ProducerTypeOK'
    BY <1>4, <2>1 DEF StoreUnanswered, ProducerInv, ProducerTypeOK, counts,
       channel, history
  <2>3. CountsAgree' /\ AnsweredIsStored' /\ ConfirmedIsStored'
    BY <1>4 DEF StoreUnanswered, ProducerInv, CountsAgree, AnsweredIsStored,
       ConfirmedIsStored, Elements, counts, channel, history
  <2>4. QED
    BY <2>2, <2>3 DEF ProducerInv
<1>5. QED
  BY <1>1, <1>2, <1>3, <1>4 DEF TransferStep

(* The invariant is inductive. *)
LEMMA ProducerStepInv == ProducerInv /\ [ProducerNext]_producerVars => ProducerInv'
<1> SUFFICES ASSUME ProducerInv, [ProducerNext]_producerVars
             PROVE  ProducerInv'
  OBVIOUS
<1>1. CASE UNCHANGED producerVars
  BY <1>1 DEF producerVars, ProducerInv, ProducerTypeOK, CountsAgree,
     AnsweredIsStored, ConfirmedIsStored, Elements, transfer, counts, channel,
     history
<1>2. CASE TransferStep \/ StreamBreaks
  BY <1>2, TransferInv
<1>3. CASE ResponderStep
  BY <1>3, ResponderInv
<1>4. ASSUME NEW p \in Pushers, RecordPush(p) PROVE ProducerInv'
  BY <1>4, RecordPushInv
<1>5. ASSUME NEW p \in Pushers, NEW d \in Data, Push(p, d) PROVE ProducerInv'
  BY <1>5, PushInv
<1>6. CASE ReadProgress \/ CloseProgress \/ ClearPendings
  BY <1>6, UserInv
<1>7. QED
  BY <1>1, <1>2, <1>3, <1>4, <1>5, <1>6 DEF ProducerNext, ProducerStep

-----------------------------------------------------------------------------
(* Why data are pending                                                    *)

OnTheWay == Elements(uploads) \cup Elements(responses) \cup overtaken

Answering == connected /\ responder \notin {"ended", "divided", "refused"}

(* What pushes have sent and not recorded yet is on the way as well, and   *)
(* no two pushes send the same: recording it makes nothing pending without *)
(* a reason, and an answer before the record is one that was overtaken.    *)
WayInv ==
    /\ connected => writing
    /\ Answering => /\ pendings \subseteq OnTheWay
                    /\ \A p \in Pushers :
                         pushing[p] # NoData => pushing[p] \in OnTheWay
    /\ \A p \in Pushers : pushing[p] # NoData => pushing[p] \notin recorded
    /\ \A p, q \in Pushers :
         pushing[p] # NoData /\ pushing[p] = pushing[q] => p = q

(* A channel holds its first message and what is left behind it. *)
LEMMA HeadAndTail ==
    ASSUME NEW s \in Seq(Data), s # <<>>
    PROVE  Elements(s) = {Head(s)} \cup Elements(Tail(s))
<1>1. /\ Len(s) \in Nat \ {0} /\ Head(s) = s[1]
      /\ Len(Tail(s)) = Len(s) - 1
  OBVIOUS
<1>2. \A i \in 1..Len(Tail(s)) : Tail(s)[i] = s[i + 1]
  OBVIOUS
<1>3. \A i \in 2..Len(s) : i - 1 \in 1..Len(Tail(s)) /\ s[i] = Tail(s)[i - 1]
  BY <1>1, <1>2
<1>4. \A i \in 1..Len(s) : i = 1 \/ i \in 2..Len(s)
  BY <1>1
<1>5. 1 \in 1..Len(s) /\ \A i \in 1..Len(Tail(s)) : i + 1 \in 1..Len(s)
  BY <1>1
<1>6. Elements(s) \subseteq {Head(s)} \cup Elements(Tail(s))
  BY <1>1, <1>3, <1>4 DEF Elements
<1>7. {Head(s)} \cup Elements(Tail(s)) \subseteq Elements(s)
  BY <1>1, <1>2, <1>5 DEF Elements
<1>8. QED
  BY <1>6, <1>7

(* A new producer has nothing on the way. *)
LEMMA WayInit == ProducerInit => WayInv
  BY DEF ProducerInit, WayInv

(* What a push sends is in the channel, and nobody sent it before. *)
LEMMA PushWay ==
    ASSUME ProducerTypeOK, WayInv, NEW p \in Pushers, NEW d \in Data, Push(p, d)
    PROVE  WayInv'
<1>1. /\ Fresh(d) /\ pushing[p] = NoData /\ pushing' = [pushing EXCEPT ![p] = d]
      /\ recorded' = recorded /\ pendings' = pendings /\ overtaken' = overtaken
      /\ responses' = responses /\ uploads' = Append(uploads, d)
      /\ connected' = connected /\ writing' = writing /\ responder' = responder
  BY DEF Push, counts, history
<1>2. pushing'[p] = d /\ \A q \in Pushers \ {p} : pushing'[q] = pushing[q]
  BY <1>1 DEF ProducerTypeOK
<1>3. OnTheWay' = OnTheWay \cup {d}
  <2>1. Elements(Append(uploads, d)) = Elements(uploads) \cup {d}
    BY AppendElements DEF ProducerTypeOK
  <2>2. OnTheWay' = Elements(Append(uploads, d)) \cup Elements(responses) \cup overtaken
    BY <1>1 DEF OnTheWay, Elements
  <2>3. QED
    BY <2>1, <2>2 DEF OnTheWay
<1>4. Answering' = Answering
  BY <1>1 DEF Answering
<1>5. QED
  BY <1>1, <1>2, <1>3, <1>4 DEF WayInv, Fresh

(* What a push records was on the way, and no other push sent it. *)
LEMMA RecordPushWay ==
    ASSUME ProducerTypeOK, WayInv, NEW p \in Pushers, RecordPush(p)
    PROVE  WayInv'
<1>1. /\ pushing[p] # NoData /\ pushing' = [pushing EXCEPT ![p] = NoData]
      /\ recorded' = recorded \cup {pushing[p]}
      /\ pendings' = pendings \cup {pushing[p]}
      /\ overtaken' = overtaken /\ responses' = responses /\ uploads' = uploads
      /\ connected' = connected /\ writing' = writing /\ responder' = responder
  BY DEF RecordPush, transfer
<1>2. pushing'[p] = NoData /\ \A q \in Pushers \ {p} : pushing'[q] = pushing[q]
  BY <1>1 DEF ProducerTypeOK
<1>3. OnTheWay' = OnTheWay /\ Answering' = Answering
  BY <1>1 DEF OnTheWay, Elements, Answering
<1>4. QED
  BY <1>1, <1>2, <1>3 DEF WayInv

(* An answer that nobody recorded yet has overtaken its push, and one that *)
(* was recorded is no longer pending.                                      *)
LEMMA TakeResponseWay ==
    ASSUME ProducerTypeOK, WayInv, TakeResponse
    PROVE  WayInv'
<1> DEFINE d == Head(responses)
<1>1. /\ responder = "receiving" /\ responses # <<>> /\ responses' = Tail(responses)
      /\ pendings' = pendings \ {d} /\ overtaken' = overtaken \cup ({d} \ recorded)
      /\ recorded' = recorded /\ pushing' = pushing /\ uploads' = uploads
      /\ connected' = connected /\ writing' = writing
  BY DEF TakeResponse, transfer
<1>2. OnTheWay \subseteq OnTheWay' \cup {d} /\ (d \notin recorded => d \in OnTheWay')
  <2>1. Elements(responses) = {d} \cup Elements(Tail(responses))
    BY <1>1, HeadAndTail DEF ProducerTypeOK
  <2>2. OnTheWay' = Elements(uploads) \cup Elements(Tail(responses))
                      \cup overtaken \cup ({d} \ recorded)
    BY <1>1 DEF OnTheWay, Elements
  <2>3. QED
    BY <2>1, <2>2 DEF OnTheWay
<1>3. Answering' => Answering
  BY <1>1 DEF Answering
<1>4. QED
  BY <1>1, <1>2, <1>3 DEF WayInv

(* Data move from the channel to the node's answers, or the stream is gone. *)
LEMMA TransferWay ==
    ASSUME ProducerTypeOK, WayInv, TransferStep \/ StreamBreaks
    PROVE  WayInv'
<1>1. CASE Store
  <2> DEFINE d == Head(uploads)
  <2>1. /\ uploads # <<>> /\ uploads' = Tail(uploads)
        /\ responses' = Append(responses, d)
        /\ pendings' = pendings /\ overtaken' = overtaken /\ recorded' = recorded
        /\ pushing' = pushing /\ connected' = connected /\ writing' = writing
        /\ responder' = responder
    BY <1>1 DEF Store, counts, history
  <2>2. d \in Data /\ Elements(uploads) = {d} \cup Elements(Tail(uploads))
    BY <2>1, HeadAndTail, TailElements DEF ProducerTypeOK
  <2>3. Elements(Append(responses, d)) = Elements(responses) \cup {d}
    BY <2>2, AppendElements DEF ProducerTypeOK
  <2>4. OnTheWay' = OnTheWay
    <3>1. OnTheWay' = Elements(Tail(uploads)) \cup Elements(Append(responses, d))
                        \cup overtaken
      BY <2>1 DEF OnTheWay, Elements
    <3>2. QED
      BY <2>2, <2>3, <3>1 DEF OnTheWay
  <2>5. Answering' = Answering
    BY <2>1 DEF Answering
  <2>6. QED
    BY <2>1, <2>4, <2>5 DEF WayInv
<1>2. CASE StoreUnanswered \/ WriterFails \/ StreamBreaks
  BY <1>2 DEF StoreUnanswered, WriterFails, StreamBreaks, WayInv, Answering,
     counts, history
<1>3. QED
  BY <1>1, <1>2 DEF TransferStep

(* The other steps only forget what is pending, or end the answers. *)
LEMMA OtherWay ==
    ASSUME WayInv,
           \/ ProgressSent \/ ResponsesEnd
           \/ ReadProgress \/ CloseProgress \/ ClearPendings
           \/ UNCHANGED producerVars
    PROVE  WayInv'
<1>1. /\ OnTheWay' = OnTheWay /\ pushing' = pushing /\ recorded' = recorded
      /\ connected' = connected /\ writing' = writing
      /\ pendings' \subseteq pendings
      /\ Answering' => Answering
  BY DEF ProgressSent, ResponsesEnd, ReadProgress, CloseProgress,
     ClearPendings, producerVars, transfer, counts, channel, history, OnTheWay,
     Elements, Answering
<1>2. QED
  BY <1>1 DEF WayInv

(* Together with the types, the invariant about the way is inductive. *)
LEMMA WayStep ==
    ProducerTypeOK /\ WayInv /\ [ProducerNext]_producerVars => WayInv'
<1> SUFFICES ASSUME ProducerTypeOK, WayInv, [ProducerNext]_producerVars
             PROVE  WayInv'
  OBVIOUS
<1>1. CASE TransferStep \/ StreamBreaks
  BY <1>1, TransferWay
<1>2. CASE Respond \/ RespondDivides \/ RespondRefused
  BY <1>2, TakeResponseWay DEF Respond, RespondDivides, RespondRefused
<1>3. ASSUME NEW p \in Pushers, RecordPush(p) PROVE WayInv'
  BY <1>3, RecordPushWay
<1>4. ASSUME NEW p \in Pushers, NEW d \in Data, Push(p, d) PROVE WayInv'
  BY <1>4, PushWay
<1>5. CASE \/ ProgressSent \/ ResponsesEnd
           \/ ReadProgress \/ CloseProgress \/ ClearPendings
           \/ UNCHANGED producerVars
  BY <1>5, OtherWay
<1>6. QED
  BY <1>1, <1>2, <1>3, <1>4, <1>5 DEF ProducerNext, ProducerStep, ResponderStep,
     Responding

-----------------------------------------------------------------------------
(* Theorems                                                                *)

(* The invariant always holds. *)
LEMMA ProducerInvariant == ProducerSpec => []ProducerInv
  BY ProducerInitInv, ProducerStepInv, PTL DEF ProducerSpec

(* Types, of which one is earned: a percentage is never negative.          *)
THEOREM ProducerTypeCorrect == ProducerSpec => []ProducerTypeOK
<1>1. ProducerInv => ProducerTypeOK
  BY DEF ProducerInv
<1>2. QED
  BY <1>1, ProducerInvariant, PTL

(* The unsigned subtraction of the response thread never underflows,       *)
(* however pushes, answers, reads and close interleave (common.rs:73).     *)
THEOREM NoUnderflow == ProducerSpec => []CountsAgree
<1>1. ProducerInv => CountsAgree
  BY DEF ProducerInv
<1>2. QED
  BY <1>1, ProducerInvariant, PTL

(* Before close, an id whose push returned Ok and which is not pending is  *)
(* stored, although pushes record their ids after the send (common.rs:112).*)
THEOREM ConfirmedStored == ProducerSpec => []ConfirmedIsStored
<1>1. ProducerInv => ConfirmedIsStored
  BY DEF ProducerInv
<1>2. QED
  BY <1>1, ProducerInvariant, PTL

(* While answers come back, data are pending only because they or their    *)
(* answer are on the way, or because the answer came before push recorded  *)
(* the id (common.rs:97 to 100).                                           *)
THEOREM PendingJustified == ProducerSpec => []PendingHasReason
<1>1. WayInv => PendingHasReason
  BY DEF WayInv, Answering, OnTheWay, PendingHasReason, Panicked
<1>2. QED
  BY <1>1, ProducerTypeCorrect, WayInit, WayStep, PTL DEF ProducerSpec

-----------------------------------------------------------------------------
(* The way of the data is that of Transfer                                 *)

Way == INSTANCE Transfer

LEMMA TransferSteps ==
    ASSUME ProducerTypeOK, TransferStep \/ StreamBreaks
    PROVE  [Way!Next]_(Way!transferVars)
<1>1. CASE Store
  BY <1>1 DEF Store, Way!Store, Way!Next
<1>2. CASE StoreUnanswered
  BY <1>2 DEF StoreUnanswered, Way!Store, Way!Next
<1>3. CASE WriterFails
  BY <1>3 DEF WriterFails, Way!GiveUp, Way!Next
<1>4. CASE StreamBreaks
  BY <1>4 DEF StreamBreaks, Way!Disconnect, Way!Next
<1>5. QED
  BY <1>1, <1>2, <1>3, <1>4 DEF TransferStep

(* Every other step leaves the way as it is, but for a push, which accepts *)
(* data, and the response thread, which takes an answer.                   *)
LEMMA ProducerSteps ==
    ASSUME ProducerTypeOK, [ProducerNext]_producerVars
    PROVE  [Way!Next]_(Way!transferVars)
<1>1. CASE TransferStep \/ StreamBreaks
  BY <1>1, TransferSteps
<1>2. CASE Respond \/ RespondDivides \/ RespondRefused
  BY <1>2 DEF Respond, RespondDivides, RespondRefused, TakeResponse, transfer,
     Way!Answer, Way!Next
<1>3. ASSUME NEW p \in Pushers, NEW d \in Data, Push(p, d)
      PROVE  [Way!Next]_(Way!transferVars)
  BY <1>3 DEF Push, Way!Accept, Way!Next
<1>4. CASE \/ \E p \in Pushers : RecordPush(p)
           \/ ProgressSent \/ ResponsesEnd
           \/ ReadProgress \/ CloseProgress \/ ClearPendings
           \/ UNCHANGED producerVars
  BY <1>4 DEF RecordPush, ProgressSent, ResponsesEnd, ReadProgress,
     CloseProgress, ClearPendings, producerVars, transfer, Way!transferVars
<1>5. QED
  BY <1>1, <1>2, <1>3, <1>4 DEF ProducerNext, ProducerStep, ResponderStep,
     Responding

(* The producer asks nothing of its stream that Transfer does not promise: *)
(* whatever Transfer allows the stream and the node, DataProducer allows   *)
(* them too, so that what is proved of the producer holds over every       *)
(* implementation of Transfer, the one of Streams among them.              *)
THEOREM ProducerExpectsTransfer ==
    ASSUME Way!Store \/ Way!Disconnect \/ Way!GiveUp, ProducerTypeOK,
           UNCHANGED <<counts, channel, responder, pushing, history>>
    PROVE  [TransferStep \/ StreamBreaks]_producerVars
<1>1. CASE Way!Store
  BY <1>1 DEF Way!Store, Store, StoreUnanswered, TransferStep, ProducerTypeOK
<1>2. CASE Way!Disconnect
  <2>1. PICK n \in 0..Len(responses) : responses' = SubSeq(responses, 1, n)
    BY <1>2 DEF Way!Disconnect
  <2>2. CASE connected \/ responses # <<>>
    BY <1>2, <2>2 DEF Way!Disconnect, StreamBreaks
  <2>3. CASE ~connected /\ responses = <<>>
    <3>1. responses' = responses
      BY <2>1, <2>3
    <3>2. QED
      BY <1>2, <2>3, <3>1 DEF Way!Disconnect, ProducerTypeOK, producerVars,
         transfer
  <2>4. QED
    BY <2>2, <2>3
<1>3. CASE Way!GiveUp
  <2>1. PICK n \in 0..Len(uploads) : uploads' = SubSeq(uploads, 1, n)
    BY <1>3 DEF Way!GiveUp
  <2>2. CASE (writing /\ Unwinds) \/ n < Len(uploads)
    BY <1>3, <2>1, <2>2 DEF Way!GiveUp, WriterFails, TransferStep
  <2>3. CASE ~(writing /\ Unwinds) /\ ~(n < Len(uploads))
    <3>1. uploads' = uploads
      BY <2>1, <2>3 DEF ProducerTypeOK
    <3>2. QED
      BY <1>3, <2>3, <3>1 DEF Way!GiveUp, ProducerTypeOK, producerVars,
         transfer
  <2>4. QED
    BY <1>3, <2>2, <2>3 DEF Way!GiveUp
<1>4. QED
  BY <1>1, <1>2, <1>3

(* And its own steps are steps of Transfer. *)
THEOREM ProducerUsesTransfer == ProducerSpec => Way!Spec
<1>1. ProducerInit => Way!Init
  BY DEF ProducerInit, Way!Init
<1>2. ProducerTypeOK /\ [ProducerNext]_producerVars
        => [Way!Next]_(Way!transferVars)
  BY ProducerSteps
<1>3. QED
  BY <1>1, <1>2, ProducerTypeCorrect, PTL DEF ProducerSpec, Way!Spec

-----------------------------------------------------------------------------
(* The browser example: any number of uploads at once, and any files       *)

(* An upload polls after each of its pushes returned. *)
FilesAreRecorded ==
    \A p \in Pushers :
        /\ files[p] \subseteq recorded \cup {pushing[p]}
        /\ upload[p] \in {"polling", "asking", "completed"} =>
               files[p] \subseteq recorded

BrowserInv ==
    /\ BrowserTypeOK
    /\ ProducerInv
    /\ FilesAreRecorded
    /\ CompletedUploadsAreStored

-----------------------------------------------------------------------------
(* Every step of the browser is a step of its producer, or none. *)
LEMMA BrowserUsesProducer ==
    ASSUME BrowserNext
    PROVE  [ProducerNext]_producerVars
<1>1. CASE InBrowser(ProducerStep)
  BY <1>1 DEF InBrowser, ProducerNext
<1>2. CASE Refine \/ RefineCloses \/ RefineClears
  BY <1>2 DEF Refine, RefineCloses, RefineClears, ProducerNext
<1>3. ASSUME NEW p \in Pushers,
             \/ PushFile(p) \/ PushFileFails(p) \/ StartPolling(p)
             \/ Poll(p) \/ Answer(p)
      PROVE  [ProducerNext]_producerVars
  BY <1>3 DEF PushFile, PushFileFails, StartPolling, Poll, Answer, ProducerNext
<1>4. QED
  BY <1>1, <1>2, <1>3 DEF BrowserNext

(* The producer's own steps forget nothing that was recorded or stored. *)
LEMMA ProducerStepKeeps ==
    ASSUME ProducerStep
    PROVE  /\ recorded \subseteq recorded' /\ stored \subseteq stored'
           /\ cleared' = cleared
<1>1. CASE TransferStep \/ StreamBreaks
  BY <1>1 DEF TransferStep, Store, StoreUnanswered, WriterFails,
     StreamBreaks, history
<1>2. CASE ResponderStep
  BY <1>2 DEF ResponderStep, Responding, Respond, RespondDivides, RespondRefused,
     TakeResponse, ProgressSent, ResponsesEnd, history, transfer
<1>3. ASSUME NEW p \in Pushers, RecordPush(p)
      PROVE  /\ recorded \subseteq recorded' /\ stored \subseteq stored'
             /\ cleared' = cleared
  BY <1>3 DEF RecordPush, transfer
<1>4. QED
  BY <1>1, <1>2, <1>3 DEF ProducerStep

(* A push in progress stays one, or its id is recorded. *)
LEMMA ProducerStepRecords ==
    ASSUME ProducerTypeOK, ProducerStep
    PROVE  \A p \in Pushers : \/ pushing'[p] = pushing[p]
                              \/ pushing[p] \in recorded'
<1>1. CASE TransferStep \/ StreamBreaks
  BY <1>1 DEF TransferStep, Store, StoreUnanswered, WriterFails,
     StreamBreaks
<1>2. CASE ResponderStep
  BY <1>2 DEF ResponderStep, Responding, Respond, RespondDivides, RespondRefused,
     TakeResponse, ProgressSent, ResponsesEnd
<1>3. ASSUME NEW q \in Pushers, RecordPush(q)
      PROVE  \A p \in Pushers : \/ pushing'[p] = pushing[p]
                                \/ pushing[p] \in recorded'
  BY <1>3 DEF RecordPush, ProducerTypeOK
<1>4. QED
  BY <1>1, <1>2, <1>3 DEF ProducerStep

-----------------------------------------------------------------------------
(* At first no upload has pushed anything. *)
LEMMA BrowserInitInv == BrowserInit => BrowserInv
<1> SUFFICES ASSUME BrowserInit PROVE BrowserInv
  OBVIOUS
<1>1. ProducerInv
  BY ProducerInitInv DEF BrowserInit
<1>2. QED
  BY <1>1 DEF BrowserInit, BrowserInv, BrowserTypeOK, ProducerInv, Tab,
     FilesAreRecorded, CompletedUploadsAreStored

(* While the producer works, what was recorded or stored remains so. *)
LEMMA InBrowserInv ==
    ASSUME BrowserInv, InBrowser(ProducerStep), ProducerInv'
    PROVE  BrowserInv'
<1>1. BrowserTypeOK'
  BY DEF BrowserInv, BrowserTypeOK, InBrowser, ProducerInv
<1>2. FilesAreRecorded'
  <2>1. /\ recorded \subseteq recorded'
        /\ \A p \in Pushers : \/ pushing'[p] = pushing[p]
                              \/ pushing[p] \in recorded'
    BY ProducerStepKeeps, ProducerStepRecords
       DEF InBrowser, BrowserInv, ProducerInv
  <2>2. QED
    BY <2>1 DEF BrowserInv, FilesAreRecorded, InBrowser
<1>3. CompletedUploadsAreStored'
  BY ProducerStepKeeps DEF BrowserInv, CompletedUploadsAreStored, InBrowser
<1>4. QED
  BY <1>1, <1>2, <1>3 DEF BrowserInv

(* refine closes the producer; only its last step touches what is pending. *)
LEMMA RefineInv ==
    ASSUME BrowserInv, Refine \/ RefineCloses \/ RefineClears, ProducerInv'
    PROVE  BrowserInv'
<1>1. UNCHANGED <<upload, files, recorded, stored, pushing>>
  BY DEF Refine, RefineCloses, RefineClears, CloseProgress, ClearPendings,
     producerVars, history, transfer
<1>2. cleared => cleared'
  BY DEF Refine, RefineCloses, RefineClears, CloseProgress, ClearPendings,
     producerVars, history
<1>3. closing' \in {"no", "close", "clear", "closed"}
  BY DEF Refine, RefineCloses, RefineClears
<1>4. QED
  BY <1>1, <1>2, <1>3 DEF BrowserInv, BrowserTypeOK, ProducerInv,
     FilesAreRecorded, CompletedUploadsAreStored

(* Without a push in progress all files of an upload are recorded. *)
LEMMA NothingInProgress ==
    ASSUME BrowserInv, NEW p \in Pushers, pushing[p] = NoData
    PROVE  files[p] \subseteq recorded
<1>1. files[p] \subseteq Data /\ NoData \notin Data
  BY DataAssumption DEF BrowserInv, BrowserTypeOK
<1>2. files[p] \subseteq recorded \cup {NoData}
  BY DEF BrowserInv, FilesAreRecorded
<1>3. QED
  BY <1>1, <1>2

(* A file that is pushed is in progress until it is recorded. *)
LEMMA PushFileInv ==
    ASSUME BrowserInv, NEW p \in Pushers, PushFile(p), ProducerInv'
    PROVE  BrowserInv'
<1>1. PICK d \in Data : Push(p, d) /\ files' = [files EXCEPT ![p] = @ \cup {d}]
  BY DEF PushFile
<1>2. /\ UNCHANGED <<recorded, stored, cleared, upload, closing>>
      /\ pushing' = [pushing EXCEPT ![p] = d] /\ pushing[p] = NoData
      /\ upload[p] = "pushing"
  BY <1>1 DEF PushFile, Push, history
<1>3. files[p] \subseteq recorded
  BY <1>2, NothingInProgress
<1>4. BrowserTypeOK'
  BY <1>1, <1>2 DEF BrowserInv, BrowserTypeOK, ProducerInv
<1>5. FilesAreRecorded'
  <2> SUFFICES ASSUME NEW q \in Pushers
               PROVE  /\ files'[q] \subseteq recorded \cup {pushing'[q]}
                      /\ upload[q] \in {"polling", "asking", "completed"} =>
                             files'[q] \subseteq recorded
    BY <1>2 DEF FilesAreRecorded
  <2>1. CASE q = p
    <3>1. files'[p] = files[p] \cup {d} /\ pushing'[p] = d
      BY <1>1, <1>2 DEF BrowserInv, BrowserTypeOK, ProducerTypeOK
    <3>2. QED
      BY <2>1, <3>1, <1>2, <1>3
  <2>2. CASE q # p
    <3>1. files'[q] = files[q] /\ pushing'[q] = pushing[q]
      BY <2>2, <1>1, <1>2 DEF BrowserInv, BrowserTypeOK, ProducerTypeOK
    <3>2. QED
      BY <3>1 DEF BrowserInv, FilesAreRecorded
  <2>3. QED
    BY <2>1, <2>2
<1>6. CompletedUploadsAreStored'
  BY <1>1, <1>2 DEF BrowserInv, BrowserTypeOK, CompletedUploadsAreStored
<1>7. QED
  BY <1>4, <1>5, <1>6 DEF BrowserInv

(* A poll that finds nothing pending finds everything recorded stored. *)
LEMMA UploadInv ==
    ASSUME BrowserInv, NEW p \in Pushers, ProducerInv',
           PushFileFails(p) \/ StartPolling(p) \/ Poll(p) \/ Answer(p)
    PROVE  BrowserInv'
<1>1. UNCHANGED <<recorded, stored, cleared, pushing, files, closing>>
  BY DEF PushFileFails, StartPolling, Poll, Answer, producerVars, history,
     transfer
<1>2. PICK t \in Tab : upload' = [upload EXCEPT ![p] = t]
  BY DEF PushFileFails, StartPolling, Poll, Answer, Tab
<1>3. BrowserTypeOK'
  BY <1>1, <1>2 DEF BrowserInv, BrowserTypeOK, ProducerInv
<1>4. files[p] \subseteq recorded \/ upload'[p] = "failed"
  <2>1. CASE PushFileFails(p)
    BY <2>1 DEF PushFileFails, BrowserInv, BrowserTypeOK
  <2>2. CASE StartPolling(p)
    BY <2>2, NothingInProgress DEF StartPolling
  <2>3. CASE Poll(p) \/ Answer(p)
    BY <2>3 DEF Poll, Answer, BrowserInv, FilesAreRecorded
  <2>4. QED
    BY <2>1, <2>2, <2>3
<1>5. FilesAreRecorded'
  BY <1>1, <1>2, <1>4 DEF BrowserInv, BrowserTypeOK, FilesAreRecorded
<1>6. upload'[p] = "completed" => cleared \/ files[p] \subseteq stored
  <2> SUFFICES ASSUME upload'[p] = "completed", ~cleared
               PROVE  files[p] \subseteq stored
    OBVIOUS
  <2>1. upload[p] = "asking" /\ pendings = {}
    BY DEF PushFileFails, StartPolling, Poll, Answer, IsCompleted, BrowserInv,
       BrowserTypeOK
  <2>2. recorded \subseteq stored
    BY <2>1 DEF BrowserInv, ProducerInv, ConfirmedIsStored
  <2>3. QED
    BY <2>1, <2>2 DEF BrowserInv, FilesAreRecorded
<1>7. CompletedUploadsAreStored'
  BY <1>1, <1>2, <1>6 DEF BrowserInv, BrowserTypeOK, CompletedUploadsAreStored
<1>8. QED
  BY <1>3, <1>5, <1>7 DEF BrowserInv

(* The invariant is inductive. *)
LEMMA BrowserStepInv == BrowserInv /\ [BrowserNext]_browserVars => BrowserInv'
<1> SUFFICES ASSUME BrowserInv, [BrowserNext]_browserVars
             PROVE  BrowserInv'
  OBVIOUS
<1>1. CASE UNCHANGED browserVars
  BY <1>1 DEF browserVars, producerVars, BrowserInv, BrowserTypeOK,
     ProducerInv, ProducerTypeOK, CountsAgree, AnsweredIsStored,
     ConfirmedIsStored, Elements, FilesAreRecorded, CompletedUploadsAreStored,
     transfer, counts, channel, history
<1>2. CASE BrowserNext
  <2>1. ProducerInv'
    BY <1>2, BrowserUsesProducer, ProducerStepInv DEF BrowserInv
  <2>2. CASE InBrowser(ProducerStep)
    BY <2>1, <2>2, InBrowserInv
  <2>3. CASE Refine \/ RefineCloses \/ RefineClears
    BY <2>1, <2>3, RefineInv
  <2>4. ASSUME NEW p \in Pushers, PushFile(p) PROVE BrowserInv'
    BY <2>1, <2>4, PushFileInv
  <2>5. ASSUME NEW p \in Pushers,
               PushFileFails(p) \/ StartPolling(p) \/ Poll(p) \/ Answer(p)
        PROVE  BrowserInv'
    BY <2>1, <2>5, UploadInv
  <2>6. QED
    BY <1>2, <2>2, <2>3, <2>4, <2>5 DEF BrowserNext
<1>3. QED
  BY <1>1, <1>2

(* The browser is a user of the producer: what is proved of every use of   *)
(* it (index.js:119 to 148, wasm.rs:188 to 218) holds of this one.         *)
THEOREM BrowserRefinesProducer == BrowserSpec => ProducerSpec
<1>1. BrowserInit => ProducerInit
  BY DEF BrowserInit
<1>2. [BrowserNext]_browserVars => [ProducerNext]_producerVars
  BY BrowserUsesProducer DEF browserVars
<1>3. QED
  BY <1>1, <1>2, PTL DEF BrowserSpec, ProducerSpec

(* Types hold; the percentages among them rest on the counters.            *)
THEOREM BrowserTypeCorrect == BrowserSpec => []BrowserTypeOK
<1>1. BrowserInv => BrowserTypeOK
  BY DEF BrowserInv
<1>2. QED
  BY <1>1, BrowserInitInv, BrowserStepInv, PTL DEF BrowserSpec

(* "Upload complete!" (index.js:140) is only shown of uploads whose files  *)
(* the node has stored, unless the producer was closed.                    *)
THEOREM CompletedUploads == BrowserSpec => []CompletedUploadsAreStored
<1>1. BrowserInv => CompletedUploadsAreStored
  BY DEF BrowserInv
<1>2. QED
  BY <1>1, BrowserInitInv, BrowserStepInv, PTL DEF BrowserSpec
=============================================================================
