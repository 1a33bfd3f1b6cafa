------------------------------ MODULE Transfer ------------------------------
(***************************************************************************)
(* What a producer may rely on, whatever becomes of the stream to the data *)
(* node: data are stored in the order they were accepted, each is answered *)
(* once, after it was stored and in the same order, and when the stream is *)
(* gone the answers, and the data, that are lost are the last ones.        *)
(***************************************************************************)
EXTENDS Naturals, Sequences

CONSTANTS
    Data,
    Unwinds     \* who gives up refuses what comes later

VARIABLES
    uploads,    \* data accepted and neither stored nor given up
    writing,    \* data are still accepted
    connected,  \* answers still come
    stored,     \* data the node has stored
    responses   \* answers on their way

transferVars == <<uploads, writing, connected, stored, responses>>

Init ==
    /\ uploads = <<>> /\ responses = <<>> /\ stored = {}
    /\ connected \in BOOLEAN /\ writing = connected

Accept(d) ==
    /\ writing
    /\ uploads' = Append(uploads, d)
    /\ UNCHANGED <<writing, connected, stored, responses>>

Store ==
    /\ uploads # <<>>
    /\ stored' = stored \cup {Head(uploads)}
    /\ uploads' = Tail(uploads)
    /\ responses' = IF connected THEN Append(responses, Head(uploads)) ELSE responses
    /\ UNCHANGED <<writing, connected>>

Answer ==
    /\ responses # <<>>
    /\ responses' = Tail(responses)
    /\ UNCHANGED <<uploads, writing, connected, stored>>

Disconnect ==
    /\ connected' = FALSE
    /\ \E n \in 0..Len(responses) : responses' = SubSeq(responses, 1, n)
    /\ UNCHANGED <<uploads, writing, stored>>

GiveUp ==
    /\ ~connected /\ uploads # <<>>
    /\ writing' = (writing /\ ~Unwinds)
    /\ \E n \in 0..Len(uploads) : uploads' = SubSeq(uploads, 1, n)
    /\ UNCHANGED <<connected, stored, responses>>

Next == (\E d \in Data : Accept(d)) \/ Store \/ Answer \/ Disconnect \/ GiveUp

Spec == Init /\ [][Next]_transferVars
=============================================================================
