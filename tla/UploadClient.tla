---------------------------- MODULE UploadClient ----------------------------
(***************************************************************************)
(* The program of examples/client: it pushes every file of a directory     *)
(* that is not empty, and then reads the progress until it is 100 or ends, *)
(* closes the producer and goes on with its reconstruction job.            *)
(***************************************************************************)
EXTENDS DataProducer

CONSTANT Main

ASSUME MainAssumption == Main \in Pushers

VARIABLE client
clientVars == <<producerVars, client>>

ClientInit == ProducerInit /\ client = "pushing"

ClientPush ==
    /\ client = "pushing" /\ \E d \in Data : Push(Main, d)
    /\ UNCHANGED client

ClientPanics ==
    /\ client = "pushing" /\ PushFails(Main) /\ recorded # Data
    /\ client' = "panicked" /\ UNCHANGED producerVars

ClientPushed ==
    /\ client = "pushing" /\ recorded = Data
    /\ client' = "watching" /\ UNCHANGED producerVars

\* Mutant: nobody tells the loop that the channel is closed.
LoopIgnoresEnd ==
    /\ client = "watching" /\ ProgressEnded /\ UNCHANGED clientVars

ClientReads ==
    /\ client = "watching" /\ ReadProgress
    /\ client' = IF Head(progress) >= 100 THEN "closing" ELSE "watching"

ClientSeesEnd ==
    /\ client = "watching" /\ ProgressEnded
    /\ client' = "closing" /\ UNCHANGED producerVars

ClientCloses ==
    /\ client = "closing" /\ CloseProgress /\ client' = "clearing"

ClientClears ==
    /\ client = "clearing" /\ ClearPendings /\ client' = "done"

(* The reconstruction job has no more updates, which is so at once if it   *)
(* cannot be submitted (cluster.rs:129 to 134), or the cluster's loop has  *)
(* panicked.  Either ends the program, and with it its runtime.            *)
ClientLeaves ==
    /\ client = "done" /\ client' \in {"returned", "panicked"}
    /\ UNCHANGED producerVars

ClientStep ==
    \/ ClientPush \/ ClientPanics \/ ClientPushed \/ ClientReads
    \/ ClientSeesEnd \/ ClientCloses \/ ClientClears

(* The threads of the runtime, which main's return or panic ends. *)
Running(A) ==
    client \notin {"returned", "panicked"} /\ A /\ UNCHANGED client

ClientNext == ClientStep \/ ClientLeaves \/ Running(ProducerStep)

\* The program with its producer.
ClientSpec == ClientInit /\ [][ClientNext]_clientVars

(* Threads run until main ends; the node stores and answers while the      *)
(* stream is up, but nothing says that the stream breaks, or that the job  *)
(* which follows the upload ends, or does not.                             *)
ClientFairSpec ==
    /\ ClientSpec
    /\ WF_clientVars(ClientStep)
    /\ SF_clientVars(Running(RecordPush(Main)))
    /\ WF_clientVars(Running(ResponderStep))
    /\ WF_clientVars(Running(TransferStep))

-----------------------------------------------------------------------------
(* The client's loop over the progress ends (main.rs:83): if the channel   *)
(* has room for the progress of every file, then each of 100, a broken     *)
(* stream or a panic of the response thread is noticed.  The 100 it ends   *)
(* with may be one that was sent before the last files were counted        *)
(* (main.rs:91).  Closing on it, and the response thread's panic at the    *)
(* next answer (common.rs:76), do not stop the upload: if main then goes   *)
(* on with its job for ever, the files that follow are stored, while the   *)
(* stream is up.  If it leaves (main.rs:109 to 123), they may be lost.     *)
ClientEnds ==
    <>[](\/ client \in {"returned", "panicked"}
         \/ client = "done" /\ (recorded \subseteq stored \/ ~connected))

=============================================================================
