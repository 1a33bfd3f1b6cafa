---------------------------- MODULE UploadBrowser ---------------------------
(***************************************************************************)
(* The browser example (domain/examples/browser/src/index.js) over the     *)
(* WebAssembly wrapper (wasm.rs), whose every call works on a clone of the *)
(* producer.  Each upload pushes its files one after the other and then    *)
(* polls is_completed; refine closes the producer.  Uploads may overlap,   *)
(* and nobody reads the progress.                                          *)
(***************************************************************************)
EXTENDS DataProducer

VARIABLES
    upload,   \* the state of each upload: one for each of Pushers
    files,    \* what it has pushed
    closing   \* refine's close: "no", "close", "clear", "closed"

browserVars == <<producerVars, upload, files, closing>>

Tab == {"pushing", "polling", "asking", "completed", "failed"}

BrowserTypeOK ==
    /\ ProducerTypeOK
    /\ upload \in [Pushers -> Tab]
    /\ files \in [Pushers -> SUBSET Data]
    /\ closing \in {"no", "close", "clear", "closed"}

BrowserInit ==
    /\ ProducerInit
    /\ upload = [p \in Pushers |-> "pushing"]
    /\ files = [p \in Pushers |-> {}]
    /\ closing = "no"

(* After refine, `uploader` is null. *)
HasUploader == closing = "no"

PushFile(p) ==
    /\ upload[p] = "pushing" /\ HasUploader
    /\ \E d \in Data : Push(p, d) /\ files' = [files EXCEPT ![p] = @ \cup {d}]
    /\ UNCHANGED <<upload, closing>>

PushFileFails(p) ==
    /\ upload[p] = "pushing" /\ pushing[p] = NoData
    /\ PushFails(p) \/ ~HasUploader
    /\ upload' = [upload EXCEPT ![p] = "failed"]
    /\ UNCHANGED <<producerVars, files, closing>>

\* Mutant: the last push is not awaited.
StartWithoutAwait(p) ==
    /\ upload[p] = "pushing"
    /\ upload' = [upload EXCEPT ![p] = "polling"]
    /\ UNCHANGED <<producerVars, files, closing>>

StartPolling(p) ==
    /\ upload[p] = "pushing" /\ pushing[p] = NoData
    /\ upload' = [upload EXCEPT ![p] = "polling"]
    /\ UNCHANGED <<producerVars, files, closing>>

Poll(p) ==
    /\ upload[p] = "polling" /\ HasUploader
    /\ upload' = [upload EXCEPT ![p] = "asking"]
    /\ UNCHANGED <<producerVars, files, closing>>

(* is_completed has to lock `pendings` *)
Answer(p) ==
    /\ upload[p] = "asking" /\ PendingsFree
    /\ upload' = [upload EXCEPT ![p] = IF IsCompleted THEN "completed"
                                       ELSE "polling"]
    /\ UNCHANGED <<producerVars, files, closing>>

Refine ==
    /\ closing = "no" /\ closing' = "close"
    /\ UNCHANGED <<producerVars, upload, files>>

RefineCloses ==
    /\ closing = "close" /\ CloseProgress /\ closing' = "clear"
    /\ UNCHANGED <<upload, files>>

RefineClears ==
    /\ closing = "clear" /\ ClearPendings /\ closing' = "closed"
    /\ UNCHANGED <<upload, files>>

InBrowser(A) == A /\ UNCHANGED <<upload, files, closing>>

BrowserNext ==
    \/ InBrowser(ProducerStep)
    \/ Refine \/ RefineCloses \/ RefineClears
    \/ \E p \in Pushers :
         \/ PushFile(p) \/ PushFileFails(p) \/ StartPolling(p)
         \/ Poll(p) \/ Answer(p)

BrowserSpec == BrowserInit /\ [][BrowserNext]_browserVars

(* Everything but the user and the network goes on; that the answers end   *)
(* is not sure, if the task that reads them may die with its sender.       *)
BrowserFairSpec ==
    /\ BrowserSpec
    /\ WF_browserVars(InBrowser(Responding))
    /\ WF_browserVars(InBrowser(TransferStep))
    /\ WF_browserVars(RefineCloses) /\ SF_browserVars(RefineClears)
    /\ \A p \in Pushers :
         /\ SF_browserVars(InBrowser(RecordPush(p)))
         /\ SF_browserVars(Answer(p))

-----------------------------------------------------------------------------
(* An upload that is shown as completed has all its files at the node,     *)
(* also those that other uploads overlapped, unless the producer was       *)
(* closed under the poll (index.js:138).                                   *)
CompletedUploadsAreStored ==
    \A p \in Pushers :
        upload[p] = "completed" => cleared \/ files[p] \subseteq stored

(* The response thread has the mutex of the pending ids and waits for room *)
(* in the progress channel, which only a reader or a close would make; or  *)
(* it panicked with the mutex (common.rs:75, 76), and nothing unwinds.     *)
PendingsStuck ==
    \/ responder = "sending" /\ progressOpen /\ Len(progress) > ProgressBuffer
    \/ Panicked /\ ~Unwinds

(* A poll is told "Upload complete!" or "not done yet" (index.js:139 to    *)
(* 147), unless from some time on the mutex of the pending ids is stuck:   *)
(* whatever else keeps it (a push, a close, an answer that is counted)     *)
(* gives it back, and a close frees the thread that waits for room.        *)
PollsAreAnswered ==
    \A p \in Pushers :
        upload[p] = "asking" ~> (upload[p] # "asking" \/ []PendingsStuck)

=============================================================================
