------------------------------ MODULE Streams ------------------------------
(***************************************************************************)
(* The streams between a RemoteDatastore and a data node: an upload        *)
(* (write_to_stream, store_data_v1 and the reader of the answers) and a    *)
(* download (serve_data_v1 and read_from_stream), which meet in the files  *)
(* of the node.                                                            *)
(*                                                                         *)
(* Data travel in frames: a length of four bytes, the metadata, and the    *)
(* content, whose size the metadata names.  A stream is the sequence of    *)
(* its parts not yet read; what makes it a stream and not a channel is     *)
(* that whoever reads takes what comes next, whatever it is.               *)
(***************************************************************************)
EXTENDS Naturals, Sequences, SequencesExt

CONSTANTS
    Data,    \* ids of data; data_id_generator makes each only once
    Size,    \* datum -> number of chunks of its content
    Queries  \* what a download may ask for, as the data that match it

ASSUME StreamsAssumption == Size \in [Data -> Nat] /\ Queries \subseteq SUBSET Data

VARIABLES
    accepted,  \* data that pushes have sent, in their order
    writer,    \* write_to_stream: how many of them it has taken, and the
               \* chunks it has written of the last
    linked,    \* the upload's stream is up
    up, down,  \* its two directions
    node,      \* store_data_v1
    files,     \* datum -> what there is of its directory on disk
    kept,      \* datum -> chunks in its content.bin
    reading,   \* the task that reads the answers runs
    responses, \* answers on their way to the response thread
    serve,     \* serve_data_v1
    wanted,    \* the query it was sent
    listed,    \* directories that were there when it called read_dir
    visited,   \* those it has come to
    early,     \* history: data served before all of their content was there
    feed,      \* the download's stream
    consumer,  \* read_from_stream
    delivered  \* what it has sent to its DataReader

uploadVars   == <<accepted, writer, linked, up, down, reading, responses>>
diskVars     == <<node, files, kept>>
downloadVars == <<serve, wanted, listed, visited, early, feed, consumer, delivered>>
streamsVars  == <<uploadVars, diskVars, downloadVars>>

Header(d) == <<<<"prefix", d>>, <<"rest", d>>, <<"meta", d>>>>
Chunks(d) == [i \in 1..Size[d] |-> <<"chunk", d, i>>]
Frame(d)  == Header(d) \o Chunks(d)
Parts     == UNION {ToSet(Frame(d)) : d \in Data}
Starts(s, d) == IsPrefix(Header(d), s)

Files == {"none", "directory", "described", "opened"}
Whole(d) == files[d] = "opened" /\ kept[d] = Chunks(d)

StreamsTypeOK ==
    /\ accepted \in Seq(Data) /\ responses \in Seq(Data)
    /\ writer \in [pc : {"next", "chunks", "done", "panicked"},
                   taken : 0..Len(accepted), written : Nat]
    /\ node \in [pc : {"frame", "storing", "returned"}, data : Data]
    /\ files \in [Data -> Files]
    /\ kept \in [Data -> Seq(Parts)] /\ \A d \in Data : Len(kept[d]) <= Size[d]
    /\ {up, down, feed} \subseteq Seq(Parts)
    /\ {linked, reading} \subseteq BOOLEAN
    /\ serve \in [pc : {"start", "listing", "sending", "done", "failed", "broken"},
                  data : Data, sent : Nat]
    /\ wanted \cup listed \cup visited \cup early \subseteq Data
    /\ consumer \in {"reading", "left", "ended", "panicked"}
    /\ delivered \in Seq([of : Data, content : Seq(Parts)])

StreamsInit ==
    /\ accepted = <<>> /\ responses = <<>> /\ up = <<>> /\ down = <<>>
    /\ writer = [pc |-> "next", taken |-> 0, written |-> 0]
    /\ linked = TRUE /\ reading = TRUE
    /\ \E d \in Data : node = [pc |-> "frame", data |-> d]
    /\ files = [d \in Data |-> "none"]
    /\ kept = [d \in Data |-> <<>>]
    /\ serve = [pc |-> "start", data |-> node.data, sent |-> 0]
    /\ wanted = {} /\ listed = {} /\ visited = {} /\ early = {}
    /\ feed = <<>> /\ consumer = "reading" /\ delivered = <<>>

Shortened(s) == {SubSeq(s, 1, n) : n \in 0..Len(s)}

-----------------------------------------------------------------------------
(* write_to_stream                                                         *)

Push(d) ==
    /\ writer.pc \notin {"done", "panicked"} /\ d \notin ToSet(accepted)
    /\ accepted' = Append(accepted, d)
    /\ UNCHANGED <<writer, linked, up, down, reading, responses, diskVars,
                   downloadVars>>

(* What is written to a broken stream is lost, noticed or not. *)
Write(parts) ==
    /\ up' = IF linked THEN up \o parts ELSE up
    /\ UNCHANGED <<accepted, linked, down, reading, responses, diskVars,
                   downloadVars>>

AfterChunks(n, d) == IF n < Size[d] THEN "chunks" ELSE "next"

WriteHeader ==
    /\ writer.pc = "next" /\ writer.taken < Len(accepted)
    /\ LET d == accepted[writer.taken + 1] IN
         /\ writer' = [pc |-> AfterChunks(0, d), taken |-> writer.taken + 1,
                       written |-> 0]
         /\ Write(Header(d))

(* Ok(0) tries again: no step. *)
WriteChunk ==
    /\ writer.pc = "chunks"
    /\ LET d == accepted[writer.taken]  n == writer.written + 1 IN
         /\ writer' = [writer EXCEPT !.pc = AfterChunks(n, d), !.written = n]
         /\ Write(<<Chunks(d)[n]>>)

(* An error of a chunk's write only ends the loop over the chunks. *)
ChunkFails ==
    /\ writer.pc = "chunks" /\ ~linked
    /\ writer' = [writer EXCEPT !.pc = "next"]
    /\ Write(<<>>)

(* One of the other writes and flushes fails, all of which expect. *)
WriterPanics ==
    /\ ~linked
    /\ \/ writer.pc = "chunks" /\ writer' = [writer EXCEPT !.pc = "panicked"]
       \/ /\ writer.pc = "next" /\ writer.taken < Len(accepted)
          /\ writer' = [writer EXCEPT !.pc = "panicked", !.taken = @ + 1]
    /\ Write(<<>>)

(* All clones of the producer are gone.  Nobody closes the stream: the     *)
(* reader of the answers holds its other half.                             *)
WriterEnds ==
    /\ writer.pc = "next" /\ writer.taken = Len(accepted)
    /\ writer' = [writer EXCEPT !.pc = "done"]
    /\ Write(<<>>)

LinkBreaks ==
    /\ linked /\ linked' = FALSE
    /\ up' \in Shortened(up) /\ down' \in Shortened(down)
    /\ UNCHANGED <<accepted, writer, reading, responses, diskVars, downloadVars>>

-----------------------------------------------------------------------------
(* store_data_v1                                                           *)

Take(n) ==
    /\ up' = SubSeq(up, n + 1, Len(up))
    /\ UNCHANGED <<accepted, writer, linked, down, reading, responses,
                   downloadVars>>

TakeHeader(d) ==
    /\ node.pc = "frame" /\ Starts(up, d)
    /\ node' = [pc |-> "storing", data |-> d]
    /\ Take(3) /\ UNCHANGED <<files, kept>>

NextFile == [none |-> "directory", directory |-> "described",
             described |-> "opened"]

(* create_dir_all; metadata.bin, which is empty at first; content.bin *)
MakeFile ==
    /\ node.pc = "storing" /\ files[node.data] # "opened"
    /\ files' = [files EXCEPT ![node.data] = NextFile[@]]
    /\ UNCHANGED <<node, kept, uploadVars, downloadVars>>

\* Mutant: the loop does not end with the size that the metadata names.
KeepChunkRunsOn ==
    /\ node.pc = "storing" /\ files[node.data] = "opened" /\ up # <<>>
    /\ kept' = [kept EXCEPT ![node.data] = Append(@, Head(up))]
    /\ Take(1) /\ UNCHANGED <<node, files>>

KeepChunk ==
    /\ node.pc = "storing" /\ files[node.data] = "opened"
    /\ Len(kept[node.data]) < Size[node.data] /\ up # <<>>
    /\ kept' = [kept EXCEPT ![node.data] = Append(@, Head(up))]
    /\ Take(1) /\ UNCHANGED <<node, files>>

\* Mutant: as if the answer only meant that the metadata are stored.
AnswerFirst ==
    /\ node.pc = "storing" /\ files[node.data] = "opened"
    /\ down' = IF linked THEN down \o Header(node.data) ELSE down
    /\ node' = [node EXCEPT !.pc = "frame"]
    /\ UNCHANGED <<accepted, writer, linked, up, reading, responses, files, kept,
                   downloadVars>>

(* The answer to data is their metadata, framed as they came. *)
Answer ==
    /\ node.pc = "storing" /\ files[node.data] = "opened"
    /\ Len(kept[node.data]) = Size[node.data]
    /\ down' = IF linked THEN down \o Header(node.data) ELSE down
    /\ node' = [node EXCEPT !.pc = "frame"]
    /\ UNCHANGED <<accepted, writer, linked, up, reading, responses, files, kept,
                   downloadVars>>

(* The file system fails, or the stream ends, within a frame or between    *)
(* two, or an answer cannot be written.  What is on disk stays there.      *)
NodeReturns ==
    /\ node.pc = "storing" \/ (node.pc = "frame" /\ ~linked)
    /\ node' = [node EXCEPT !.pc = "returned"]
    /\ linked' = FALSE /\ up' = <<>>
    /\ IF linked THEN down' \in Shortened(down) ELSE down' = down
    /\ UNCHANGED <<accepted, writer, reading, responses, files, kept,
                   downloadVars>>

-----------------------------------------------------------------------------
(* The task that reads the answers                                         *)

ReadAnswer(d) ==
    /\ reading /\ Starts(down, d)
    /\ down' = SubSeq(down, 4, Len(down))
    /\ responses' = Append(responses, d)
    /\ UNCHANGED <<accepted, writer, linked, up, reading, diskVars, downloadVars>>

(* The task ends with the stream, or as soon as its receiver is gone, or   *)
(* panics: on a stream that ends within an answer, and when `read' returns *)
(* fewer than the four bytes of a length, for it takes them for all.       *)
ReaderEnds ==
    /\ reading /\ (down # <<>> \/ ~linked)
    /\ reading' = FALSE
    /\ UNCHANGED <<accepted, writer, linked, up, down, responses, diskVars,
                   downloadVars>>

TakeResponse ==
    /\ responses # <<>> /\ responses' = Tail(responses)
    /\ UNCHANGED <<accepted, writer, linked, up, down, reading, diskVars,
                   downloadVars>>

-----------------------------------------------------------------------------
(* serve_data_v1                                                           *)

Serve ==
    /\ serve.pc = "start"
    /\ serve' = [serve EXCEPT !.pc = "listing"]
    /\ wanted' \in Queries
    /\ listed' = {d \in Data : files[d] # "none"}
    /\ UNCHANGED <<uploadVars, diskVars, visited, early, feed, consumer, delivered>>

(* read_dir goes on while directories are added. *)
Visit(d) ==
    /\ serve.pc = "listing" /\ d \notin visited /\ files[d] # "none"
    /\ visited' = visited \cup {d}
    /\ UNCHANGED <<uploadVars, diskVars, wanted, listed, early, consumer,
                   delivered>>

Described(d) == files[d] \in {"described", "opened"}

(* There is no metadata.bin yet, or it is empty: the `?' of its read. *)
ServeUndescribed(d) ==
    /\ Visit(d) /\ ~Described(d)
    /\ serve' = [serve EXCEPT !.pc = "failed"] /\ UNCHANGED feed

ServeSkips(d) ==
    /\ Visit(d) /\ Described(d) /\ d \notin wanted
    /\ UNCHANGED <<serve, feed>>

ServeHeader(d) ==
    /\ Visit(d) /\ Described(d) /\ d \in wanted
    /\ serve' = [pc |-> "sending", data |-> d, sent |-> 0]
    /\ feed' = feed \o Header(d)

ServeChunk ==
    /\ serve.pc = "sending" /\ serve.sent < Len(kept[serve.data])
    /\ feed' = Append(feed, kept[serve.data][serve.sent + 1])
    /\ serve' = [serve EXCEPT !.sent = @ + 1]
    /\ UNCHANGED <<uploadVars, diskVars, wanted, listed, visited, early, consumer,
                   delivered>>

(* The end of the file is the end of the data; if content.bin does not     *)
(* exist yet, the `?' of its open.                                         *)
ContentEnds ==
    /\ serve.pc = "sending" /\ serve.sent = Len(kept[serve.data])
    /\ early' = IF serve.sent < Size[serve.data] \/ files[serve.data] # "opened"
                THEN early \cup {serve.data} ELSE early
    /\ serve' = [serve EXCEPT !.pc = IF files[serve.data] = "opened"
                                     THEN "listing" ELSE "failed"]
    /\ UNCHANGED <<uploadVars, diskVars, wanted, listed, visited, feed, consumer,
                   delivered>>

ServeEnds ==
    /\ serve.pc = "listing" /\ listed \subseteq visited
    /\ serve' = [serve EXCEPT !.pc = "done"]
    /\ UNCHANGED <<uploadVars, diskVars, wanted, listed, visited, early, feed, consumer,
                   delivered>>

FeedBreaks ==
    /\ serve.pc \notin {"start", "broken"}
    /\ serve' = [serve EXCEPT !.pc = "broken"] /\ feed' \in Shortened(feed)
    /\ UNCHANGED <<uploadVars, diskVars, wanted, listed, visited, early, consumer,
                   delivered>>

-----------------------------------------------------------------------------
(* read_from_stream                                                        *)

\* Mutant: `read' instead of `read_exact': what has arrived by then.
ReadItemArrived(d) ==
    /\ consumer = "reading" /\ Starts(feed, d)
    /\ LET n == IF Len(feed) < 3 + Size[d] THEN Len(feed) ELSE 3 + Size[d] IN
         /\ delivered' = Append(delivered, [of |-> d, content |-> SubSeq(feed, 4, n)])
         /\ feed' = SubSeq(feed, n + 1, Len(feed))
    /\ UNCHANGED <<uploadVars, diskVars, serve, wanted, listed, visited, early,
                   consumer>>

(* The content is what comes next, as much as the metadata say.  If the    *)
(* DataReader is gone, the loop ends.                                      *)
ReadItem(d) ==
    /\ consumer = "reading" /\ Starts(feed, d) /\ Len(feed) >= 3 + Size[d]
    /\ feed' = SubSeq(feed, 4 + Size[d], Len(feed))
    /\ \/ /\ delivered' = Append(delivered, [of |-> d,
                                    content |-> SubSeq(feed, 4, 3 + Size[d])])
          /\ UNCHANGED consumer
       \/ consumer' = "left" /\ UNCHANGED delivered
    /\ UNCHANGED <<uploadVars, diskVars, serve, wanted, listed, visited, early>>

(* However serve_data_v1 returned, the dropped stream ends for the reader. *)
ReadEnds ==
    /\ consumer = "reading" /\ feed = <<>> /\ serve.pc \in {"done", "failed"}
    /\ consumer' = "ended"
    /\ UNCHANGED <<uploadVars, diskVars, serve, wanted, listed, visited, early,
                   feed, delivered>>

(* Each read expects: the stream is broken or ends within a frame, what    *)
(* comes next is not the start of a frame, or a `read' returns fewer than  *)
(* the four bytes of a length.                                             *)
ReadPanics ==
    /\ consumer = "reading" /\ (feed # <<>> \/ serve.pc = "broken")
    /\ consumer' = "panicked"
    /\ UNCHANGED <<uploadVars, diskVars, serve, wanted, listed, visited, early,
                   feed, delivered>>

-----------------------------------------------------------------------------
StreamsNext ==
    \/ \E d \in Data : Push(d)
    \/ WriteHeader \/ WriteChunk \/ ChunkFails \/ WriterPanics \/ WriterEnds
    \/ LinkBreaks
    \/ \E d \in Data : TakeHeader(d)
    \/ MakeFile \/ KeepChunk \/ Answer \/ NodeReturns
    \/ \E d \in Data : ReadAnswer(d)
    \/ ReaderEnds \/ TakeResponse
    \/ Serve \/ \E d \in Data : ServeUndescribed(d) \/ ServeSkips(d) \/ ServeHeader(d)
    \/ ServeChunk \/ ContentEnds \/ ServeEnds \/ FeedBreaks
    \/ \E d \in Data : ReadItem(d)
    \/ ReadEnds \/ ReadPanics

StreamsSpec == StreamsInit /\ [][StreamsNext]_streamsVars

-----------------------------------------------------------------------------
(* Properties                                                              *)

(* All of a datum has reached the node, or is in the stream. *)
Arriving(d) ==
    IF Size[d] = 0
    THEN Last(Header(d)) \in ToSet(up) \/ (node.pc = "storing" /\ node.data = d)
    ELSE Last(Chunks(d)) \in ToSet(up)

(* Data are stored in the order of the pushes: these are the first ones.   *)
StoredCount ==
    CHOOSE n \in 0..Len(accepted) :
        \A i \in 1..Len(accepted) : Whole(accepted[i]) <=> i <= n

(* When the writer has panicked, of the others only those that arrive.     *)
ComingCount ==
    IF writer.pc # "panicked" THEN Len(accepted)
    ELSE CHOOSE n \in StoredCount..Len(accepted) :
            \A i \in (StoredCount + 1)..Len(accepted) :
                Arriving(accepted[i]) <=> i <= n

Outstanding == SubSeq(accepted, StoredCount + 1, ComingCount)

(* The answers whose frames are complete. *)
Answered == [i \in 1..(Len(down) \div 3) |-> down[3 * i][2]]

ToAnswer == IF linked /\ node.pc = "storing" /\ Whole(node.data)
            THEN <<node.data>> ELSE <<>>

(* The writer's panic drops its end of the channel. *)
Upload == INSTANCE Transfer WITH
    Unwinds   <- TRUE,
    uploads   <- Outstanding,
    writing   <- writer.pc # "panicked",
    connected <- linked /\ reading,
    stored    <- {d \in Data : Whole(d)},
    responses <- IF reading THEN responses \o Answered \o ToAnswer ELSE responses

(* An upload keeps what Transfer promises the producer: data are stored    *)
(* whole, in the order of the pushes, and answered after that, once and in *)
(* the same order; a stream that breaks anywhere within a frame, and a     *)
(* writer or reader that notices late or never, cost the last data or      *)
(* answers only (remote.rs:143 to 169, data-node's main.rs:36 to 92).       *)
UploadIsTransfer == Upload!Spec

Intact(item) == item.content = Chunks(item.of)

(* A download may meet uploads in progress, or what is left of one that    *)
(* broke.  What it delivers is intact, up to the first item whose content  *)
(* was not all there when it was served (main.rs:131 to 150): from there   *)
(* on nothing is certain.  And if there was none, a download that ended    *)
(* has delivered all that was listed and wanted, once, unless serving      *)
(* failed, which its reader cannot see.                                    *)
ConsumedIsIntact ==
    /\ \A i \in DOMAIN delivered :
          Intact(delivered[i]) \/ \E j \in 1..i : delivered[j].of \in early
    /\ consumer = "ended" /\ serve.pc = "done" /\ early = {} =>
          \A d \in listed \cap wanted :
             \E i \in DOMAIN delivered :
                /\ delivered[i].of = d
                /\ \A j \in DOMAIN delivered \ {i} : delivered[j].of # d
=============================================================================
