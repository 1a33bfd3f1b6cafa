# A verification project for posemesh

posemesh runs jobs on a cluster of peers: clients submit jobs of tasks to a
*domain manager*, the manager finds a node for every task and hands it over,
nodes execute tasks and publish what becomes of them, and the data that tasks
read and write travels between peers in streams.  That is the Rust code of
`src/core`.  `src/sdk` is the library of value classes, pose estimation and
marker detection that applications link; its classes are described in JSON
files (`src/sdk/interface`), from which a code generator (`src/sdk/gentool`)
makes the C++ class and its C, JavaScript, Objective-C and Swift wrappers.

This directory holds TLA+ models of the parts where the program's own
difficulties are: the domain manager, a program's loop over its cluster and its
network thread, the producer that uploads data, the streams by which data reach
a data node and are served from it, the code generator and the C functions it
generates, with configurations for TLC and proofs for TLAPS.  `PROJECT.json` lists components, runs, hazards, the source lines
behind every definition, and for every property a plausible bug (a "Mutant"
in the modules) under which TLC finds it violated.

## The system

| Component | State | Operations | Interacts through |
|---|---|---|---|
| Node registry (`domain-manager/src/nodes_management.rs`) | registered nodes; rotation and cursor per endpoint; queue of oneshot senders per endpoint | `register_node`, `find_node`, `request_node` | three tokio mutexes; a oneshot channel to each recruiter |
| Task table (`tasks_management.rs`) | handlers by task id (status, receiver, output, dependencies, `in_degrees`, recruiter handle); queue of ids | `validate_task`, `update_task`, `retry_task`, `remove_job`, `push_tasks`, `get_next_task`, `monitor_tasks`, the task state machine, `recruit_node` and its threads | the mutexes `tasks` and `task_queue`; the node registry |
| Domain manager (`main.rs`) | the `select!` loop and its threads | `accept_job`, `run_task`, a thread per report, per announcement, per monitor stream | streams, pubsub, both tables |
| Domain cluster (`domain/src/cluster.rs`) | update channel per job topic, command queue | `submit_job`, `monitor_jobs`, `fail_task`, event loop | commands with reply channels, networking client |
| Data producer (`datastore/common.rs`) | pending ids, total, progress channel | `push`, `is_completed`, `close`, response thread | two mutexes, three channels |
| Remote datastore (`datastore/remote.rs`, `message.rs`) | a job and a stream per transfer | `consume`, `produce`, `read_from_stream`, `write_to_stream` | cluster, streams of length-prefixed frames |
| Networking (`networking/src/client.rs`, `libp2p.rs`) | bounded command and event channels, waiting peer searches, capabilities | send, publish, subscribe, set handler, find peer | the network thread |
| Data node (`examples/data-node`) | files, a stream per transfer | `store_data_v1`, `serve_data_v1` | streams, pubsub |
| Interface descriptions (`sdk/gentool/util.js`) | a class description, filled in option by option | the `fill...` functions; what copies, moves, compares and hashes a member of each type | called by `generate`, in a fixed order |
| SDK code generator (`sdk/gentool/generator.js`) | the interfaces read; on disk, ten files per interface and six that list them | `generate`, `generateInterface`, `writeFileContentIfDifferent` | the directory of descriptions, the generated files, the build that runs it |
| Generated bindings (`generator-c.js`, `-cxx.js`, `-js.js`, `-objc.js`, `-swift.js`) | none | a header and a source text per language, which include and call each other's | the filled descriptions of a class and of those it refers to |
| Generated C API | C++ objects and `shared_ptr`s behind C pointers | `_create`, `_duplicate`, `_destroy`, `_ref_...`, getters with `_free`, setters with `_consumed` arguments | the C program, which has to know who disposes of what |
| Web SDK (`sdk/platform/Web`) | a flag and two WebAssembly modules; vectors of the embind heap | loader, conversions of arrays, detection | promises of the two modules |

The rest (generated protobuf code, C and WebAssembly bindings of the Rust
crates, the browser example's user interface, small programs, the C++ core of
the SDK, build scripts) keeps no state that a model would say something about.

What is hard here is concurrency inside the manager.  Everything runs in
threads of its own that share two tables under five mutexes, and most
operations take and release them several times: `validate_task` three times,
a completion twice, a registration twice per capability.  Reports come over
pubsub, each into a new thread, so they are applied in any order; a handshake
may fail; a client may be gone; a job may be submitted again while it runs;
`select!` may drop a wait halfway.  Nothing is persisted, so there is no
crash recovery.

The producer is smaller and has the same kind of difficulty: pushes of several
clones, the thread that takes the node's answers and the user's polls and
`close` share two mutexes, and a bounded channel that the thread may have to
wait for while it holds them.

The streams carry frames of a length, metadata and content, without a mark
between them: whoever reads takes what comes next for what it expects.  Uploads
and downloads meet on the disk of the node, where data are files that grow.

A program that uses a cluster has two loops that need each other: the network
thread handles one command or one event of the swarm at a time, the cluster's
loop one command or one event of the thread.  The channel of events between
them is bounded and the thread waits for room in it, the loop waits for answers
to its commands, and what neither of them expected to fail ends a thread.
Updates of a job go through both loops and two bounded channels.

The generator is sequential, but its state is on disk and outlives it.  It is
run by every build, on descriptions that are edited at any time, it goes on
after an interface it fails on, and it may be killed; five generators decide,
each for itself, which functions a class has.  The generated C API moves
ownership between a language without destructors and `shared_ptr`s, and who
disposes of what is said by names only.

What makes each modelled component correct:

* registry: a rotation holds every node once and only nodes of that
  capability; turns are balanced; a request is answered once and not forgotten;
* task table: `in_degrees` counts the open dependencies; a task that waits for
  a node has somebody waiting for it; a rejected job leaves nothing;
* producer: what it stops to report as pending is stored; its counters agree;
  its users get past their uploads;
* streams: what is stored is what was uploaded, in order, and answered after
  that; what a download delivers is what was stored;
* cluster: a submission that returned is served, updates reach their reader once
  and in order, a call is attempted once at a time, and returns unless the
  reader of something else stopped;
* generator: after a completed run the files are what the descriptions say,
  what failed was reported, and a run without changes writes nothing;
* generated files: what one declares another defines, what one uses another
  declares, and `noexcept` functions do nothing that throws;
* C API: what the program owns exists, what exists has an owner, what is lent
  is good until it changes, a copy is equal to its original and apart from it;
* manager: tasks are sent in the order of their needs, once for each cause,
  and none that is ready is forgotten; an accepted job comes to its end.

## Modules

| Module | Models |
|---|---|
| `NodesManagement` | the registry; `register_node` is `RegisterNode` (up to the release of `nodes`), then per capability `ServeRequest` or `NoRequestor` (under `requests`), then `AddKey` (under the load balancer's lock) |
| `NodesHistory` | the same with two history variables, for properties about the past |
| `NodesManagementProofs`, `NodesHistoryProofs` | theorems about the registry, and about what it does over time |
| `TasksManagement` | the task table; EXTENDS the registry, whose `FindNode`, `RequestNode`, `TakeNode` and `DropReceivers` are parts of its actions |
| `TaskDag` | the abstract specification: a task is sent when everything it needs was completed, and completes after it was sent |
| `DomainManager` | the loop and the threads; composes both tables with clients, nodes and executions |
| `DomainManagerProofs` | theorems about the table and the manager, the refinement of `TaskDag` included |
| `DataProducer` | `ReliableDataProducer`, with the upload stream and the data node as its environment |
| `Transfer` | the abstract specification between the two: what a producer relies on, whatever becomes of the stream |
| `Streams` | an upload and a download frame by frame: `write_to_stream` and its reader of answers, `store_data_v1`, `serve_data_v1`, `read_from_stream`, and the node's files |
| `StreamsProofs` | theorems about the streams, the refinement of `Transfer` included |
| `Networking` | a program's calls of `Client`, the network thread and the tasks it spawns to open streams |
| `DomainCluster` | the loop of `InnerDomainCluster` and the programs that call `DomainCluster`; EXTENDS `Networking`, of whose callers the loop is one |
| `DomainClusterProofs` | theorems about both |
| `UploadClient` | the client program's upload over `DataProducer` |
| `UploadBrowser` | the browser example's uploads, polls and `refine` over `DataProducer` and its WebAssembly wrapper |
| `DataProducerProofs` | theorems about the producer, and about the browser's use of it |
| `Interface` | `util.js`: which descriptions are accepted, what filling makes of them, and what the types mean for copies, comparisons, hashes and accessors; operators only |
| `Bindings` | what each generated file of a class declares, defines and uses, as sets of symbols; operators only |
| `Generator` | `generate()` on a directory of descriptions; EXTENDS both |
| `GeneratorProofs` | theorems about the generator |
| `CBinding` | a C program that calls the functions of a generated class; EXTENDS `Interface`, whose filling decides how the class copies, compares and hashes |
| `CBindingProofs` | theorems about it |
| `MCNodesManagement`, `MCNodesHistory`, `MCDomainManager`, `MCDomainCluster`, `MCGenerator`, `MCCBinding`, `MCStreams` | values of the constants for TLC |

The grain of `TasksManagement` is the wait: what the code does between two
waits for a mutex is one action.  `call[p]` is the method thread `p` is in
(its `pc` names the await point, its other fields are the locals that survive
it).  `tasksLock` is not `Unlocked` only where a thread keeps the `tasks` mutex
while it waits for something else: in the loop of a completion that queues a
dependent, in a recruiter that queues its task, in `monitor_tasks`, and for
ever in a `Fail` that reached a dependent.  `popped` is the id that
`get_next_task` took from the queue and keeps the queue locked for.  An action
that locks and unlocks `tasks` at once has `TasksFree` as its guard.

| Code | Actions |
|---|---|
| `validate_task` | `ValidateTask`, `AddTask` (+ `RetryTask`, `RetryPush`), `CloneHandler`, `ValidateDependencies`, `RecruitForNew`, `InsertTask` |
| `update_task` | `UpdateTask`, then `RetryTask`/`RetryPush`, `FailTask`, or `DoneTask` and per dependent `NotifyDependent`, `NotifyPush` (`NotifyNobody`) |
| thread of `recruit_node` | `RecruiterRequest`, `RecruiterResume`, `RecruiterPush` |
| `get_next_task` | `PopTask`, `RunNextTask`, `NothingToRun`; `AnotherBranch` is `select!` dropping it |
| `accept_job` | `JobArrives`, `AcceptNext`, `AcceptJob`, `RejectJob`, `ClientHangsUp`, `AcceptPanics` |
| `run_task` | `RunNextTask`, `CollectInput`, `NoReceiver`, `SendTask` or `SendFails`, `RunContinues` |
| `remove_job`, `push_tasks`, `monitor_tasks` | `RemoveJob`, `PushTasks`, `MonitorTasks`/`MonitorEnds` |

In `DataProducer`, `push` is `Push` (until its send has returned) and
`RecordPush` (under both mutexes).  The response thread is `Respond`, or one
of its two panics, `RespondDivides` and `RespondRefused`; its state "sending"
is the wait in `progress_sender.send`, the only point where a mutex is kept
over a wait.  A message that fills a futures channel is in the channel while
its sender still waits, and a closed channel lets a sender that waits go on
without error: both are in `Respond`, `ProgressSent` and `RespondRefused`.
`Store`, `StoreUnanswered`, `StreamBreaks` and `WriterFails` are the upload
stream item by item, in steps that `Transfer` allows.  A producer whose job never got a stream is one of the
initial states.  The limit of 3072 data in the upload channel is left out: a
push that waits for room has sent already, and any wait between the two steps
of `push` is in the model.  Several outstanding polls of one upload are one.

What a panic leaves depends on the build, and the constant `Unwinds` says which.
The client is built for the machine it runs on: a panic unwinds its task, drops
the guards of both mutexes and its ends of the channels, and the others go on.
The browser's program is built for `wasm32-unknown-unknown`
(`core/scripts/Build-Library.ps1:130`), where a panic aborts: the call into
WebAssembly fails, and what the task held is never dropped.  `pendings` then
stays locked after `RespondDivides` and `RespondRefused` (`PendingsFree`), the
progress does not end, and the channel of a writer that panicked goes on
accepting (`WriterFails`).  That the page's other tasks go on after that is
taken from the executor of `wasm_bindgen_futures`.  `Streams` has the native build,
whose panics are its `WriterPanics` and `ReaderEnds`.

`Streams` is what is behind these four, and the download:

| Code | Actions |
|---|---|
| `write_to_stream`, the writing task | `Push` is the channel it reads; `WriteHeader`, `WriteChunk`, `ChunkFails`, `WriterPanics`, `WriterEnds` |
| `write_to_stream`, the task that reads the answers | `ReadAnswer`, `ReaderEnds`; `TakeResponse` is the response thread |
| `store_data_v1` | `TakeHeader`, `MakeFile` (directory, `metadata.bin`, `content.bin`), `KeepChunk`, `Answer`, `NodeReturns` |
| `serve_data_v1` | `Serve`, `ServeSkips` or `ServeHeader`, `ServeChunk`, `ContentEnds`, `ServeEnds`; `ServeUndescribed` and one case of `ContentEnds` are its `?`s |
| `read_from_stream` | `ReadItem`, `ReadEnds`, `ReadPanics` |
| the connections | `LinkBreaks`, `FeedBreaks`; what was on the way is cut off anywhere |

What is abstracted there: content is cut into the same chunks by whoever reads
or writes it; a write is written as a whole and streams have no bound, since a
writer that waits for room has done nothing that another could see; `Ok(0)`
tries again and is no step; the metadata name the size of the content
(`remote.rs:141` asserts it); a stray part that is read for a length ends in a
panic, so that content which happens to parse as metadata is left out.  The
handshake, the token and the subscription of the node are done at the start.
There is one upload and one download, which start and overlap in any way.

In `Networking`, a caller makes one call of `Client` at a time (`call`), and
`opener` is the task that opens its stream.  What the network thread does
between two waits is one action:

| Code | Actions |
|---|---|
| methods of `Client`, `retry_send`, `timeout` | `SendCommand`, `RetrySend`, `TimeOut`; the answer is part of the thread's action |
| `handle_command` | `HandleCommand`, by kind: `HandleSend`, `HandleSetStreamHandler` (`ThreadPanics` when `try_send` fails), `HandleSubscribe`, `HandlePublish` |
| `handle_event` | `NodeIdentified`, `MessageArrives`; `ThreadResumes` is the end of its wait for room |
| `find_peer`, `open_stream` | `SearchEnds`, `Connects`, `Opens`, `OpenFails` (`retry_with_delay`) |
| `submit_job`, `monitor_jobs`, `fail_task` and their readers | `Request`, `ReadUpdate`, `Leave`; other calls of a program `ClientCall` |
| `InnerDomainCluster::handle_command` | `TakeCommand`, then by the result of the loop's call `SubmitFails`, `ResponseRead`, `Subscribed`, `Monitored`, `PublishReturned`, or one of the `expect`s: `ResponseBroken`, `NotSubscribed`, `NotMonitored` (`LoopPanics`) |
| `InnerDomainCluster::handle_event` | `HandleEvent`; `Flushed` is the end of its wait for room |

A futures channel takes a message beyond its buffer and keeps its sender
waiting, so a channel is full when it holds more than its buffer (`Full`), and
`held` is the event for which even that place is taken.  `loop.pc` names the
await point of the loop.  What is left out: addresses, the parsing of ids and
protocols, a second handler for one protocol, malformed messages on a job's
topic, and the thread that reads the jobs of a monitor's stream
(`cluster.rs:151`).  A message that arrives before its topic is subscribed to
is no message of the model.  Timed calls are a program's last, since a late
answer to one is nobody's.

`Generator` has an action per step of `generate()` that touches the disk or
may fail:

| Code | Actions |
|---|---|
| the loop that reads and fills | `StartRun` (`readdirSync`), `ReadInterface` (an error of the `fill` functions is logged and the interface left out), `ReadFails` (`readFileSync` is outside of the `try`) |
| the loop over `interfaces` | `StartGenerating`; per file `WriteFile`, or `GenerateFails` where a language's texts cannot be made (both texts of a language are made before the first is written: `LanguageStarts`) |
| the lists, `.gitignore` first | `StartSharing`, `WriteList` |
| the developer | `Edit`, at any time; `Kill`, with the file being written torn or not |

The text of a file is abstracted to all it is made from: the class as it was
filled (one description stands for all that are filled alike) and the names of
the classes it refers to.  What the text then declares, defines and uses is
`Bindings`: per language a set of symbols for the header and one for the
source, from the conditions that the two functions of `generator-*.js` test.
In `Interface` a type is its kind (the integers, floats and booleans are one),
a line of code is only there or not, an expression is what it does to the
member, and names and their styles are left out.

`CBinding` has one class with one property of any type and options, `Holders`
of that class, `Items` that such a property holds or points to (a string on
the heap is an item too), and `Refs`, the heap-allocated `shared_ptr`s that
`_ref_make` returns.  Each function is one action and all of them go through
`Memory`, which deletes an item with its last pointer.  The program keeps to
the names (`GetterFree`, `SetterConsumed`, from `generateHeader`); what the
functions do (`SetterDeletes`, `GetterAllocates`, `GetterBorrows`, from
`generateSource`) is modelled apart from them, and the properties compare the
two.

What is abstracted: a task is its id; an output is "none", "result" or
"error"; clocks, tokens and log lines are left out; whether a task goes to its
node by a handshake or over the job's topic is the same step, since the
manager does the same afterwards.  A `receiver` that a client writes into its
request is left out: `recruit_node` overwrites it before it is read.  The
branch of a recruiter for a sender that was dropped (lines 456 to 460) is
left out: senders are only dropped after their receiver.  `TaskAction::Queue`,
`TaskAction::Start` and `TaskHandler::done` are called by nothing.  A report
of an execution comes in the order it was published, and is then handled by a
thread of its own, so it may take effect in any order.

## Runs

| Run | Instance | Question |
|---|---|---|
| `nodes` | 2 nodes, 2 endpoints, 2 registrations at once, 2 requests, cursors up to 3 | rotations sound and balanced, requests queued and answered once, first announcements accounted for |
| `nodes_liveness` | 1 endpoint, 3 requests | a waiting request is served if announcements go on |
| `join` | tasks a, b and c (needs a, b), completions twice, a failing handshake, 3 threads | count of dependencies, order, one send per cause, recruiters |
| `resubmit` | a, and b that needs a, two submissions, failures, a client that is gone | ready tasks are not forgotten |
| `reject` | two submissions of a job that cannot be accepted, failures and retries of its first task, a monitor | nothing is left behind |
| `settles` | a, and b that needs a, fair | the job comes to its end |
| `upload_client` | 3 files, buffer 3, native build, fair | the client gets past its upload, and its files are stored in the end if it goes on with its job |
| `browser` | 2 files, 2 uploads, buffer 1, WebAssembly build, fair | counters agree; what "not pending", "100" and "completed" mean for what is stored; polls are answered unless a mutex is stuck |
| `c_binding` | a class for each type and some options, 2 holders, 3 items, 2 refs, 2 values | ownership, copies, equality and hashes as a C program sees them |
| `generator` | two interfaces, one of which refers to the other, nine descriptions, one edit, one kill | files of completed runs are current, failures reported, reruns idle; the files of all languages fit together |
| `cluster` | a job, a `monitor_jobs` or `fail_task`, a caller that sets two handlers (or one, and publishes) and then sends; buffers 1 and 0; one new node, two updates, one retry | updates in order, submissions served, one attempt at a time; which calls do not return |
| `streams` | two data, of three chunks and of none; downloads of both or of the first | an upload is a `Transfer`; a download delivers what was uploaded, as long as what it meets is whole |

**Bounds.** Two registrations at once are what a race in `register_node` takes;
two requests are a live one behind a dead one, and `nodes_liveness` has a third.
`MaxIndex` bounds the cursor (in the runs of the manager, 8 is more than the
picks the other bounds allow).  A job needs at most three threads at once for
every pair of operations to overlap with a third (a submission, a report and a
`run_task`; two reports and a submission); in `join` the three tasks make the
case of two completions that race for one dependent.  `MaxSubmits`,
`MaxAnnounces`, `MaxSendErrors`, `MaxHangups` and `MaxDispatches` bound what
the environment does; each is as large as its run's question needs (two
submissions to collide, one failing handshake to come between others, five to
pass a limit of three).  One node is enough for the manager: which node serves
a task is the registry's matter, and its runs have two.

For the producer, two data are what it takes for one answer to overtake its
push while another push is pending, and two percentages make the thread wait
with a buffer of 1, as 101 do with the code's 100; what holds for more data is
proved.  `upload_client` has three files, and room for every percentage: with
less the client stops, because its loop over the files does not read the
progress (see `PollsAreAnswered` for the same of the browser).

For the streams, data of three chunks and of none make every boundary there is
in a frame and between two, and let a whole frame pass for the rest of the
other's content, so that content is corrupted without an error (TLC reaches
it).  The second query has a datum on the node that is not wanted.  The node
may be given data in both orders, because the pushes are.

For the cluster, buffers of 1 and 0 instead of 8 and 3072 make both loops wait
with the few messages there are: one event fills the channel to its buffer, the
next parks the thread, a third is in its hands.  Two updates are what it takes
for one to overtake the other.  There are fewer callers than places in the
channel of commands (8 and one per sender), so that a sender never waits there.
One job is enough, since updates of different jobs meet in the event channel
only; what holds for any number of jobs, callers and buffers is proved.

For the C API, two holders make a copy and its original, a third item is one
that is neither's, and two refs share an item; an address is not used twice, so
that what was deleted is told from what took its place.  For the generator, one
edit and one kill, in any state of any number of runs, reach every combination
of an interface that is current, stale, torn or failed with the other's; the
number of runs is not bounded.  The nine descriptions of `MCGenerator` are the
shapes that the generator tells apart (an accessor by hand, one without a
member, a private constructor, a class that cannot be copied, static and
abstract members, a reference, a value left blank, one that is malformed); what
holds for any descriptions is proved.

**Fairness.** `NodesFairSpec` has weak fairness for a registration in
progress, because tokio polls a spawned thread until it ends; that nodes
announce themselves is the antecedent of `WaitersServed`, not an assumption.
`FairSpec` has strong fairness for a thread's steps, for the loop's own and for
a recruiter's: tokio's mutex is handed over in the order of the requests, so
who finds it free again and again gets it.  An execution reports sooner or
later.  Submissions, announcements, other events, failures and hang-ups have
no fairness.  `ClientFairSpec` and `BrowserFairSpec` let the response thread,
the stream and the program's own steps go on; strong fairness is for steps that
wait for the mutex of `pendings`.  That the user refines, that the stream
breaks, or that the client's job ends after its upload and `main` with it
(`ClientLeaves`), has none; nothing runs after `main` (`Running`).  In the browser
the end of the answers has none either, because the task that reads them may
panic and keep its sender.  `ClusterFairness` lets both loops, the tasks that open streams
and the callers' retries and timeouts go on.  It is strong for what one of
several ready branches of a `select!` does, since tokio picks among them at
random, and for a task that needs the thread, which takes its command when it
comes round.  Nothing makes a program call, read or drop its receiver, the
manager answer, or a message or a node arrive.

**What `JobSettles` says.** A job is executed to its end unless one of these
happens, all of which the code allows: no node announces itself any more
(`WaitsForNode`, which includes the announcement that came between
`find_node` and `request_node`); a recruiter panicked; the loop holds the
queue and waits for `tasks` while a thread holds `tasks` and waits for the
queue, and no event comes (`Embraced`); or a step that `lost` records: a wait
that `select!` dropped with an id, a `run_task` that gave up, an `accept_job`
that died, a dependency that was done before its dependent was in the table,
a completion that was refused because a late report had replaced it.

**What `CallsReturn` says.** `submit_job`, `monitor_jobs` and
the calls of `Client` return, or panic, except in these states, which the
runs reach and the code does nothing against:

* the network thread waits for room among the events, and the loop that would
  make it waits for the thread's answer to its own command, or for a reader of
  updates, or has panicked (`Embraced`).  More than eight new nodes while the
  manager is searched for are enough;
* the search for a peer failed: `GetClosestPeers(Err)` leaves its request
  unanswered (`libp2p.rs:498`), and the calls of the cluster have no timeout;
* the manager took the stream and does not answer (`cluster.rs:136` reads
  without limit), or a program does not read its updates and the loop waits
  for it.

`ReturnedIsServed` has a case of its own for a network thread that is gone: the
commands it drops make `subscribe` and `publish` return `Ok` (`client.rs:82`,
`Canceled`), and `set_stream_handler` ends that thread by `try_send` on a
full channel (`libp2p.rs:715`).

**What `ConsumedIsIntact` says.** A download lists directories and serves
whatever it finds in them.  Data that were being uploaded at that moment, or
whose upload broke at any time before, are announced with the size in their
metadata and served as far as they are there (`main.rs:131` to 150); the reader
takes the start of the next frame for the rest of their content
(`remote.rs:91`).  If it fits, everything goes on without an error.  The
property therefore vouches for what was delivered before the first datum that
was served too early, and for a download being complete if there was none.
That serving failed looks to its reader like the end of the data.

**Observations.** No run expects a violation: what the code does against a
comment or a doc, or against what a reader would expect, is excepted by name in
the properties, or left out.  What was met while modelling:

* The client takes a 100 for its last one that was sent after its first file,
  closes, and the response thread panics at its `expect` (`common.rs:76`).
  `ClientEnds` says what remains true: it gets past the upload, and its files
  are stored in the end unless the stream broke, as long as `main` waits for its
  job.  If the job cannot be submitted, its channel of updates is closed
  (`cluster.rs:129` to 134) and `main` returns at once; if the cluster's loop
  panicked, `submit_job` panics (226).  Either ends the runtime, and what was
  accepted and not written yet is lost.
* The response thread waits for a reader of the progress with its mutexes
  locked, and the browser has no such reader.  After 101 answers its polls are
  never answered, although all is stored; `PollsAreAnswered` has to except this
  state, for as long as nobody closes.
* In the browser an answer that overtakes the first push divides by zero
  (`common.rs:75`), and an answer after `refine` has closed the progress panics at
  76.  Nothing is unwound.  After the division the push that was overtaken and
  every poll wait for ever; after the other panic so do a poll that was on its way
  when the user closed, and the clearing that `close` ends with, if they come
  later.  These two states are the other exception of
  `PollsAreAnswered` (`PendingsStuck`); the run reaches both.
* A `read` of the four bytes of a length may return fewer (`remote.rs:76`, 114):
  `ReadPanics` and `ReaderEnds` may happen on a stream that is all right.
* After an error within the content the writer goes on with the next datum
  (`remote.rs:158`), and nobody closes the stream at the end of an upload.
* The thread that waits for a node may get one before its task is in the table
  (`tasks_management.rs:452`), and panics: `JobSettles` and
  `WaitingTaskHasRecruiter` except such a task.
* A job that is submitted again while its first submission is validated has its
  tasks recruited for twice: both calls of `validate_task` find no handler
  (`tasks_management.rs`, 162 to 202), and the second insertion replaces the first
  handler and the handle of its thread.  A task may then be sent twice without a
  retry, or wait for a node when both threads are over; `SentOncePerCause` and
  `WaitingTaskHasRecruiter` are violated with two submissions, and claimed for one.
  The same goes for a job that names a task twice, and for the threads a rejected
  job leaves (`RejectedJobLeavesNothing`).
* `retries` is never increased (`tasks_management.rs:331`), so a task whose
  handshake fails is queued again without end.  A job whose second task has the
  FAIL policy is accepted without any node (`tasks_management.rs:195`, against
  `task.proto:63`): only tasks that need nothing are recruited for then.
* An initialized property with the value `""` in a copy or move constructor
  that is defined makes `generator-cxx.js` (621, 774) use a variable that is
  out of scope; the interface fails after its C files were written.
* Errors are logged only: `generate()` ends with 0, and lists interfaces whose
  files could not be made.  A description that is rejected makes those that
  refer to it fail.  Files of interfaces that were removed stay.
* The C and Objective-C sources call constructors that are not public
  (`generator-c.js` 324, 347; `generator-objc.js` 231): such a class does not
  compile, although `gentool/README.md` offers the visibilities.  Neither does a
  static property without a member variable (`generator-cxx.js:1004`), nor a
  getter of a class that cannot be copied.  `UsesAreDeclared` and
  `DeclaredIsDefined` name these cases.
* The copy constructor dereferences a null pointer member
  (`util.js:775`, `DuplicateNull`); a setter that is called without an object
  leaves its `_consumed` argument to nobody (`generator-c.js:638`,
  `SetterNoHolder`).
* A list of initialized properties that leaves a pointer out lets the copy
  constructor be `= default`, which copies the pointer: `TwinsAreApart` and
  `EqualityIsSound` speak of copies that are inferred, and the latter of operators
  that are (a list may compare what the constructor does not copy).
* A property that is said to have no member variable keeps its accessors, and a
  compared or hashed one with `useGetter` false needs none (`util.js:2018`): the
  definitions then name a variable that is not there.  `MembersExist` excepts
  descriptions that say so (`SaysMembers`).  Nothing looks for two properties of
  one name, either: `DeclaredIsDefined` speaks of classes whose names differ.
* `hashOperator` is taken to be custom if it is left out beside an equality
  operator without `custom` (`util.js:2105`), where `gentool/README.md` says
  that it follows the equality operator's.

## Proofs

`NodesManagementProofs` proves, for all values of the constants that satisfy
the assumptions of `NodesManagement` (announcements list each capability once,
`None` is no node):

* `NodesTypeCorrect`: `NodesSpec => []NodesTypeOK`;
* `RotationIsSound`: `NodesSpec => []RotationSound`;
* `FirstRegistrationIsOwner`: `NodesSpec => []FirstRegistrationOwns`;
* `RequestsAreQueuedOnce`: `NodesSpec => []RequestsQueuedOnce`.

`RotationSound` is not inductive: `AddKey` appends a node in a step that does
not look at the rotation.  What makes the append safe was decided earlier, by
the `insert` under the mutex of `nodes`.  `FirstRegistrationOwns` says so: of
all calls that still run for a node, at most one found the node new, only that
one adds, and none of the capabilities it still has to handle has the node in
its rotation yet.  `RotationInv` is the conjunction of the types, of
`RotationSound` and of this, and is inductive: `RegisterNode` establishes it
for a new call (`RegisterNodeInv`), `AddKey` uses it (`AddKeyInv`), the end of
a capability passes it on (`NextCapabilityOwns`).  Types and
`FirstRegistrationOwns` are proved only and in no run, since the other properties
of `nodes` cannot hold without them.  `FoundNodeValue` is the consequence for `find_node`: it
finds a node whenever the rotation of the endpoint has one.
`RequestsQueuedOnce` needs `RotationInv` (the node that answers announced the
endpoint) and, in `QueueInv`, that an open channel has an endpoint and that one
without an answer has no node (`ChannelsSound`): a request is pushed on one
queue, and taking the front of that queue leaves it in none.

`NodesHistoryProofs` adds what the registry does over time, of `HSpec`:

* `TurnsAreFair`: `HSpec => []RoundRobinFair`;
* `NothingAnnouncedIsLost`: `HSpec => []FirstAnnouncementAccounted`.

The history variables change nothing (`HistoryStep`), so `QueueInv` is an
invariant of `HSpec` too.  For the first, `PicksInTurn` says where the cursor
was at each pick since the rotation grew (`PickedAt`): one node at two turns is
one place of the rotation, by `RotationSound`, so the two places of the cursor
have the same remainder and are a whole round apart (`SameRemainder`).  Cursors
are natural numbers here: the code's `usize` would take 2^64 picks to wrap.  The
second holds step by step because `register_node` leaves a capability in one of
two ways only, both of which the property names.

`DomainManagerProofs` proves, for any jobs, needs, nodes, threads and bounds,

* `ManagerTypeCorrect`: `Spec => []DomainManagerTypeOK`;
* `InDegreesAreRight`: `Spec => []InDegreesMatch`;
* `TasksRunInOrder`: `Spec => DependencyOrder`, the refinement of `TaskDag`;
* `ReadyTasksAreTracked`: `Spec => []ReadyTaskTracked`;
* `RejectedJobsLeaveNothing`: `Spec => []RejectedJobLeavesNothing`;
* `WaitingTasksHaveRecruiters`: `Spec => []WaitingTaskHasRecruiter`;
* `TasksSentOncePerCause`: `Spec => []SentOncePerCause`.

It assumes that needs are finite and that an execution publishes at least one
report.  `ManagerInv` is the inductive invariant.  The order of tasks is
decided far from where a task is sent: an id is found ready in
`validate_task`, in the Done loop, by a recruiter or in a retry, and passes
through the vector of `accept_job` and the queue before `run_task` sends it,
while the handler it was found ready in may have been removed or replaced.
So the invariant says of each place an id can be in that the task is enabled
(`Enabled`): what it needs was completed, which nothing undoes.
`HandlerSound` is the source of that: a handler's dependencies are the
task's needs, those counted down were completed, and `in_degrees` counts the
others, whence 0 means enabled (`CountedDown`).  The Done loop counts down
without looking whether it already did; it may because it keeps the mutex
from its choice of dependents to their countdown (`LockSound`), which is also
why the subtraction cannot wrap (`NotifiedSound`).  That only sent tasks
complete follows reports back to executions and these to `SendTask`
(`ReportsSound`).  Each step of a call has a lemma that shows its effect
(`CallEffect`), each other step one that shows the parts it writes, and
`OtherThread` says what a step owes to the threads that do not take it.  TLC
finds `ManagerInv` to hold on the instances of the three safety runs as well.

`ReadyTasksAreTracked` needs one more assumption, `ReportsAssumption`: no node
reports that its task waits for a resource.  Only the manager writes that
status in this repository, and a node that is executing has nothing to wait
for; but `update_task` would copy it, and the task would then be ready, waiting
and nowhere.  `TrackInv` sharpens the property to what is inductive.  `Carries`
says exactly when a thread has an id in its hands: `run_task` only until its
status is written back, so that the thread may end afterwards
(`WaitingOnTheirWay`).  The rest of it says why what a thread lets go of need not
be carried on: what `accept_job` collected belongs to its own job, so that a
rejection removes the handlers with the ids (`CollectsOwn`); `validate_task`
runs for `accept_job` only, which takes its result (`CallKnown`); and no report
on its way makes a task wait (`NeverWaiting`).  A step owes three things to an id
that is ready and waits (`TrackedInCall`, `TrackedThread`, `TrackedOutside`): if it
makes it so, it has it on its way afterwards; if it had the id, it hands it
over or stops it from waiting; and it leaves the queue and the recruiters that
push as they are.  TLC finds `TrackInv` to hold on the instances of the three
safety runs, too.

`RejectedJobsLeaveNothing` assumes that different jobs have different tasks
(`IdsAssumption`: a task's id begins with its job's, a hash of the request,
`main.rs:141`) and that `NoTask`, for a key that is not there, is no handler.
`RejectInv` has a part for any number of submissions and one for a single one.
The first follows every handler in the table to a thread of `accept_job` that
will reject its job (`EveryTaskIsRemoved`).  It needs that such a thread cannot
come to the response of an accepted job (`ValidSoFar`: all tasks it went past are
valid, and its job has one that is not) and does not die on the way
(`WillRemove`: where it will unwrap a handler it has just seen, the handler is
still there; if another thread removes it, that is one of the same job, and
the table loses all of this job).  The second (`OneJob`) says that a job without
equals, of tasks with different names, goes the straight way through
`validate_task` (`First`): nothing it is about to insert is in the table, so no
insertion replaces a handler and with it the handle of a recruiter.  What could
still replace one is the Done loop, which recruits for a handler it counted down
to zero; a handler with something to count down has no recruiter yet
(`Unrecruited`).  So every thread that waits for a node is named by the handler
in the table or by the one that is about to be inserted (`Kept`), and
`remove_job` finds it.  With a second submission, or a name that comes twice, this
is not so, and the property does not claim it.  TLC finds `RejectInv` to hold on
the instances of five runs of the manager.

The last two are about a job that is submitted once, of tasks with different
names (`OneSubmission`).  Both rest on one fact: a task is found ready once.  Three
places find it so, `validate_task`, the Done loop and the recruiter of its
handler, each under a lock of its own and none looking at the others.
`OneChain` says what a task that was found ready (`Released`: somebody has it in
hand, or a report of it; it is in the queue, or was sent) has left behind: a
handler with nothing to count down, a node, and no handle of a recruiter, until
the job is gone (`Settled`).  Each of the three places starts from a handler that
is not so.  `validate_task` inserts where nothing is (`First`); the Done loop
counts down to zero a handler that had something to count down; a recruiter
that gets its node is the one its handler names (`Kept`).  None of them can come
after another.  Nothing leads back either: a report replaces status, receiver and
output, not `in_degrees` or the handle.  For this the node of a channel that was
answered has to be one (`NodesKnown`).  The other half of `OneChain` is
`WaitingTaskHasRecruiter` in inductive form, for handlers in the table
(`AwaitsNode`) and for those `validate_task` is about to insert (`OnceDraft`):
`recruit_node` returns a handler without a node only with a new thread
(`RecruitedWaits`), and that thread ends, unless it panics, by giving the handler
a node (`OnceResumes`).

`SentOncePerCause` counts.  `Hands` are the threads and recruiters that will queue
or send a task, `Places` its places in the queue, where 0 is the one that
`get_next_task` has taken it to; `Counted` bounds what was sent, the hands and the
places together by one and the retries.  A step moves a task from one to the
next, finds it ready, which is the first of all (`NothingYet`), or queues it for
a retry, or drops it: `CountMove` lists these and `CountedAfter` adds them up.
`push_tasks` queues a whole vector in one step, and `CollectInv` says that
`accept_job` collects a task once.  TLC finds `OnceInv` and `CountInv` to hold on
the instances of the runs of the manager, on the larger ones as far as it got.

`DataProducerProofs` proves, for any finite set of data, any set of pushers,
any buffer and either build, `ProducerTypeCorrect`, `NoUnderflow` and `ConfirmedStored`.
The three go together in `ProducerInv`: that a percentage is a natural number,
which the types say, needs that there are never more pending ids than were
counted; that a removed id is stored needs that answers on the way are of
stored data (`AnsweredIsStored`).  An answer that overtakes its push keeps its
id pending, which is harmless for this; that nothing else does is
`PendingJustified`, `ProducerSpec => []PendingHasReason`.  Its invariant,
`WayInv`, speaks of the pushes that have sent and not recorded yet as well:
what they sent is on the way or has been answered too early, and no two of them
send the same, so that recording it makes nothing pending without a reason.

That the upload is taken as four actions is not left to faith.  `Transfer` says
what a producer may rely on, and three facts connect the levels:

* `UploadIsTransfer` (run `streams`, theorem `UploadRefines`): the frames implement it.  What `Transfer` has
  as `uploads` are the data whose content is not all on the disk (`Outstanding`;
  once the writer has panicked, those of them that still arrive); `responses`
  are those that are with the response thread, framed on the stream back, or
  stored and about to be answered; `connected` is a stream that is up with a
  task that reads it;
* `ProducerUsesTransfer`: every step of `DataProducer` is one of `Transfer`, on
  the five variables they share;
* `ProducerExpectsTransfer`: any step that `Transfer` takes by itself, that is
  without a push or the response thread, is a step that the model of the
  producer allows.  So what is proved about the producer holds for whatever the
  frames do.

`StreamsProofs` proves, for any data, any sizes of their content and any
queries,

* `TypesOfStreams`: `StreamsSpec => []StreamsTypeOK`;
* `UploadRefines`: `StreamsSpec => UploadIsTransfer`;
* `DownloadsAreIntact`: `StreamsSpec => []ConsumedIsIntact`.

Types need `WriterSound`: what the writer is in the middle of was accepted, and
it has not written more of it than there is.  The refinement needs to know what
the bytes between a writer and a reader are, in every state.  `UploadInv` says
so with absolute offsets: `at[n]` is where the frame of the n-th datum begins,
counted in parts since the stream began, and `pos` is how many of them the node
has taken.  What is in the stream is what the frames have at these places
(`InPlace`); the writer is at the end of what it wrote (`WriterAt`); the node has
read the first `k` data, and of the one it is storing as much as its file has
(`NodeAt`); files are beginnings of the contents, whole for the data before
(`FilesInv`).  A stream that broke keeps the first part of what it had and
nobody adds to it, so that `WriterAt` is then a bound only.  Offsets and
places are asserted to exist; a step shows the new ones from the old.

`Viewed(n, c)` is the bridge to `Transfer`: the whole data are the first `n`
accepted, and those that may still become whole are the first `c`.
`ViewExists` gets these numbers from `UploadInv`, and with them the two `CHOOSE`s
of the refinement mapping have one value each.  Every step then leaves what
`Transfer` sees (`Unseen`, most of them), or is one of its five: data are accepted
(`IsAccept`, from `PushStep`), stored (`IsStore`, from `StoreStep`: `MakeFile` for a
datum without content, `KeepChunk` for its last chunk), their answers taken
(`IsAnswer`); the last answers are lost (`IsDisconnect`) or the last data
(`IsGiveUp`, from `PanicStep`).  With the two facts about `DataProducer`
above, every theorem about the producer holds over the frames.

`DownloadsAreIntact` needs the same knowledge of the other stream, and it can
only be had up to a point: what is served of a file while the upload still
writes it is shorter than its header promises, and from there on the reader
takes headers for content.  `FeedInv` claims nothing past that point.  As long
as the reader reads and nothing it delivered was served early (`Trusted`),
there are data `ds`, the ones served up to the first early one, and places `fs`
where their frames begin (`FeedOffsets`), such that each was visited once and is
not early (`ServedOnce`); if nothing was early and no directory failed they are
all that was visited and wanted (`AllServed`); the reader delivered the first of
them and stands between two frames (`DeliveredAre`, `FeedPos`); and what is in the
stream is what the frames have there (`FeedHas`).  The stream ends with them, as
far as the node has come with the last one (`ServedTo`), or they are followed by
the header of an early datum (`EarlyNext`): its header is the whole one, since it
comes from the metadata, so that a reader that gets there delivers something
that is known to be early, and stops being `Trusted`.  `ServeInv` carries what the
node may send: never more of a file than it has, of a datum it visited.  It needs
that files only grow (`FilesGrow`), which is where uploads and downloads meet.
What the property says of a download that ended is shown when the reader ends:
the stream is empty then, so everything in `ds` was delivered, once
(`EndedComplete`).  Before the proof, TLC checked an instance of `FeedInv`, its
quantifiers bounded, in all states of run `streams`.

`DataProducerProofs` also shows that the browser's steps are steps of its producer
(`BrowserRefinesProducer`), and from that and `ConfirmedStored`'s invariant
that types hold (`BrowserTypeCorrect`) and that an upload shown as completed is
stored (`CompletedUploads`): an upload
polls only after each of its pushes returned (`FilesAreRecorded`).

`CBindingProofs` proves for any class description, holders, items, refs and
values: `CTypeCorrect`, `OwnedStaysAlive`, `NoLeaks`, `BorrowedStaysAlive`,
`TwinsStayApart` and `EqualityStaysSound`.
The first four need each other.  That a setter deletes only what the program gave up is
a fact about types (`ConsumedIsDeleted`); that its argument has no other
pointer, so that deleting it leaves nothing dangling, is `NothingLeaks`: what
is there is either the program's or a pointer's, never both.  `CInv` adds that
what has a pointer is there, that members hold what their type says
(`SlotsFit`), that what was lost stays (`LostIsLost`) and that a lent pointer
is into a holder the program owns.  `MemoryFacts` says what every function does
to pointers, and there is a lemma per action.

The two about duplicates are about what the generator inferred from the
description as much as about what the program calls.  The model assumes of the
description (`DescriptionsAssumption`) that the holder has one property, which
is a member variable unless the class is static, and that only a pointer is
copied by copying its pointee.  `CopyIsInferred` follows the fill functions: a
copy constructor of which neither list nor definition is given is `= default`
only if the property is no pointer, and otherwise copies the pointee of a pointer and
anything else as it is.  `EqualityIsInferred` and `HashIsInferred` say the same
of what is compared and hashed.  `TwinsInv` is then inductive: a holder and its
duplicate agree (`Agree`) on the value, or on the value of two different items, as
long as both are there and neither was set; a step that changes an item of one
of them ends their being twins (`TwinsKeep`, `TwinsAside`).

`GeneratorProofs` proves for any interfaces and descriptions, and any number of
edits and kills: `GeneratorTypeCorrect`, `FailuresAreReported`,
`CompletedIsCurrent`, the action property `RerunIsIdle`, `FilesStayTogether` and
`NoexceptIsSound`.  None of the properties is inductive, as they speak of
completed runs.  `GInv` says how far a run is: of the interfaces before the
present one every file is current up to the language that throws, and if one
throws the interface was reported (`Done`); of the present one the files before
the present one are current (`Begun`); lists likewise.  What a completed run
left (`LastCurrent`) stands until another run that saw something else
generates; a run that saw the same finds each file as it would write it, since
what throws depends on the descriptions only.  That an interface that throws is
not sound (`ThrowsUnsound`) ties the reports to the descriptions.

`FilesStayTogether` and `NoexceptIsSound` then are facts about the fill functions
and the texts, since each file of a class that was not reported is made from the
class as it was filled (`ClassOfFile`).  They hold for every description that
is accepted; what they assume (`DescriptionsAssumption`) is that lists in
descriptions are JSON arrays, so that a search by name finds a first place
(`FirstPlaceHolds`, which rests on the natural numbers being well founded).

* What is declared is defined: the symbols fall into constructors, operators and
  accessors.  In each group what the header declares is what the source defines
  and what is left to be written by hand (`ConstructorsAreDefined`,
  `OperatorsAreDefined`, `PropertiesAreDefined`), and the groups have no symbol in
  common (`MembersAreDefined`).
* What is used is declared: a constructor that is not deleted is `defined`,
  `default` or `omitted`, whether that was said or inferred (`DefinitionIsOne`), so
  that it is in the header or the compiler supplies it (`ConstructorsAreThere`,
  `ClassUsesAreDeclared`, `PropertyUsesAreDeclared`).
* The member variables that definitions name are there.  Each of the ways a
  name gets into a definition has its reason: an accessor that is generated makes
  the property have a member (`AccessedIsMember`); a list of a constructor is
  refused otherwise, or inferred from the stored properties
  (`InitializedIsMember`); what is compared or hashed without its getter has one
  (`ComparedIsMember`), also where hashing looks into what is compared
  (`HashedIsMember`).
* An inferred `noexcept` is one of the types that are returned by reference or set by
  value (`NoexceptTypes`).

The filled description is taken apart by `OpenedKeeps`, `BuiltKeeps` and
`FilledKeeps`: what is filled in later changes nothing that was there before.

`DomainClusterProofs` proves for any topics, callers, plans of calls, buffers and
retries: `ClusterTypeCorrect`, `CallsAreAttemptedOnce` and `SubmittedIsServed`.
Their invariant is `ClusterInv`.  `CallsFit` (what is tried again is a send) makes
`OneAttemptAtATime` inductive; `LoopCall` ties the loop's await point to the call
that it made, so that a result is taken for what it is: when the loop is at
"subscribe" and its call returned well, the topic is subscribed to, or the
thread is gone.  `FullIsFlushed`, which the bound of the channels of updates
needs, says that the loop takes no event while it waits for room.  `CallsGoOn`
says once what any step of the network does to a call, and is all that the
loop's part of the proof knows of the network.

The same module proves `UpdatesReachTheirReader`,
`ClusterSpec => []UpdatesInOrder`.  The property is about three sequences seen as
one (`Way`): the job's channel, the event channel and the thread's hands.  Each
step adds a message at its end (`EmittedInOrder`), takes the first away
(`ReadInOrder`), moves one from channel to channel in its place
(`ResumedInOrder`, `TakenInOrder`), or takes out one of another topic
(`RemovedInOrder`).  What remains is that the loop never throws away an update
of a job whose channel somebody has.  `OrderInv` therefore says that whose topic
is subscribed to is known to the loop, or will be before it takes another event
(`SubscribedIsKnown`: the reason why the subscription after the acceptance does no
harm), that nothing arrives before the subscription, and that a submission is
served once (`SubmittedOnce`), so that its channel is not left before.

Only model-checked: liveness (`JobSettles`, `WaitersServed`, `ClientEnds`,
`PollsAreAnswered`, `CallsReturn`), which is out of the proof system's reach.  Every
safety property that a run checks is a theorem.

## Not modelled

* The start of `consume` and `produce` in the remote datastore: their job, the
  updates they wait for and the handshake of the node.  A producer whose job got
  no stream is an initial state of `DataProducer`.
* Of the data node: its subscription, its token, and more than one transfer in
  the same direction at once.  Two uploads write different directories, since
  ids are made by the generator of the producer.
* Of the cluster and the network: the thread that reads a monitor's stream, the
  construction of the swarm and its addresses, `retry_with_increasing_delay`,
  which nothing calls.
* A message on a topic that cannot be parsed: the `?` of the domain
  manager's loop (`main.rs:101`) ends the manager with it.
* Of the generator: errors of reading and writing the files it generates
  (`util.js:2262`, 2268), and a type name that is neither known nor a class, or
  has a width that no integer has, which throws while the texts are made
  (`util.js:280`, 550): the types of the model are those the generator knows.
  The `noexcept` that is inferred for constructors.
* Names, name styles, aliases, include lists and the TypeScript transforms of
  the generators: formatting without state.  Two names that differ only by
  style collide, which nothing reports.
* The Web SDK: a loader behind one flag and conversions.  What is hard there:
  after a failure of anything but the base module `posemeshModuleCanInitialize`
  stays false (`_Post.js:13`); `outContents` is replaced before the caller's
  corners are deleted, which may throw (`QRDetection.js:19`); numbers that are
  no integers pass the range check (`API.js:36`).
* The transforms of the TypeScript generator; the one for static classes calls
  `content.include`, which strings do not have (`generator-js.js:320`).
* Objective-C's and Swift's reference counting, the C++ core of the SDK, the C
  and WebAssembly bindings of the Rust crates, build scripts, generated protobuf
  code.

## Plan

1. (done) Registry, task table, manager; theorems about the registry.
2. (done) `DataProducer` with the programs that use it, and theorems about it.
3. (done) The SDK's descriptions, generator, generated files and C API, and
   theorems about the last run's files and how they fit together, and about
   ownership and copies.
4. (done) `Networking` and `DomainCluster`: bounded channels between the network
   thread and a program's loop, searches, retries and timeouts, submission,
   subscription and updates.
5. (done) Theorems about them, the order of updates included.
6. (done) `Streams`: frames of `write_to_stream`, `store_data_v1`,
   `serve_data_v1` and `read_from_stream`, against `Transfer`; theorems that tie
   `DataProducer` to it.
7. (done) Theorems about the manager: types, `InDegreesMatch`, the order of
   tasks as a refinement of `TaskDag`, `ReadyTaskTracked`,
   `RejectedJobLeavesNothing`, `WaitingTaskHasRecruiter` and `SentOncePerCause`:
   all its safety properties.
8. Left: the start of `consume` and `produce` over `DomainCluster` (the job, its
   updates, the node's handshake), the stream of `monitor_jobs`, the handles of
   the C and WebAssembly bindings, and the loader of the Web SDK.
9. (done) Theorems about the registry's history and about the streams:
   `UploadIsTransfer` as a refinement, and `ConsumedIsIntact`.
