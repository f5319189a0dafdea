# TLA+ development of the S3 benchmark runner

The program moves objects between S3 and memory (or disk) as fast as a host
allows. The main thread plans byte ranges and keeps all scheduling state;
worker threads own the HTTP clients and the connections. What can go wrong is
in between: which range goes to which lane, what is done with an answer that
comes out of order, when a slow consumer stops what, and what is left behind by
a failure. Paths below are relative to `src/`, the repository root; `tm` stands
for `src/transfer-manager.js`, `dw` for `src/download-worker.js`, `bm` for
`src/benchmark.js`, `ub` for `src/upload-benchmark.js` and `uw` for
`src/upload-worker.js`.

## 1. Inventory

| Component | State | Operations | Interacts with |
|---|---|---|---|
| Stream download manager (`tm`) | `active`, `objects`, `rr`, `freeLanes`, `totalInFlight`, `heldBuffers`, `bufferedBytes`, `deliveredCount`, `_failed`; per object `cursor`, `nextN`, `paused`, `eofPushed`, a `Readable` | `download`, `downloadMany`, `_onMessage`, `_nextPart`, `_dispatchMore`, `_drainKey`, `read()`, `recycle`, `_fail`, `resetScheduler` | posts `assign` and `return` to workers, gets `part` and `error`; pushes into Readables, is called back by `read()` |
| Download worker, dispatch role (`dw` 363-720) | `dispatchInFlight`, `dispatchStopped`, `doneEmitted`, `heldChunks`, `returnedBufs`, slots, file records | the `assign`, `return`, `release` and `stop` handlers, `dispatchMaybeDone` | answers `assign` with `part`, `part-downloaded`, `part-ready` or `error` |
| Pool shutdown (`tm` 850-890, `dw` 553-571) | `_closePromise`, `_closeResolve`, `_workerDone` | `close`, `stop`, `worker-done` | main waits for every worker |
| File download (`tm` 283-309, 408-438; `dw` 400-540) | per object `written`, `done`; per worker the slots and the fd records | `part-downloaded`, `acquireSlot`, `writeRangeToFile`, `closeFileRecs`, `_fail` | disk |
| Stall watchdog (`dw` 244-269) | the attempt, its timer, its abort controller | `withStallRetry`, `bump`, `killOnAbort` | getPart and the chunk loop |
| Multipart upload manager (`tm` 505-824) | `uploadObjects`, `uploadActive`, `urr`, per object `pending`, `completed`, `partsUploaded`, `partsTotal`, `completing`; `carvePool` and `bufWaiters` | `upload`, `_enqueueUpload`, `_dispatchUpload`, `_carve`, `_onUploadMessage`, `_maybeCompleteUpload`, `_fail` | upload workers, S3's multipart calls, the carvers of other uploads |
| Upload worker (`uw`) | descriptors of source files, the part at hand | `upload`, `upload-sab`, `upload-file`, `stop` | sends UploadPart, answers `uploaded` or `error` |
| Range and part planning (`tm` 50-60, `bm`) | none | `buildRanges`, `buildParts`, `assignParts` | read by the schedulers |
| Ordered run (`bm` 193-519) | the queue and its index, held and delivered parts, lanes, and a Readable per object for the stream sink | `runOrdered` | workers with `assign`, `part-ready` or `part`, `release`, `stop` |
| Slice run (`bm` 100-184, `dw` 271-360, 574, 725-752) | one cursor per worker shared by its lanes | `runOnce`, `runSlice`, `downloadPart` | ready and done barriers |
| Connections (`s3.js`, `ip-throughput.js`) | DNS cache with a rotating index, sockets by address | `spreadLookup`, `onConnect`, `snapshot`, the merges on main | every new connection; reports to main |
| Drivers (`bm`, `ub`, `progress.js`) | the group and iteration, pool, reporter, shared counter; objects in the bucket and source files that outlive a run | `main`, `benchmarkGroup`, `describeExisting`, `buildUploadSources`, `writeRandomFile` and the runs | the managers, S3, disk |
| Configuration, reports, plots, scripts | sequential | | |

Which behaviours are hard, and what makes each component correct:

* **Stream download manager.** Parts of several objects arrive from several
  workers in any order, between HEAD answers and reads of independent
  consumers, and a `push` can re-enter the scheduler. *Correct when* no part is
  lost, duplicated or delivered out of order; the counters it throttles on are
  the truth; no body is left waiting while the pool idles; a pause is always
  followed by the `read()` that lifts it; `end` means complete; a failure is
  never mistaken for an end; a reset forgets nothing that is still to come; a
  buffer that a consumer gives back is not refilled under a chunk in use.
* **Pool shutdown.** `stop` races the last answers and the failures. *Correct
  when* `close()` settles after every worker has answered all it was assigned.
* **File download.** Handlers of several ranges share descriptors and buffers
  between awaits. *Correct when* the promise resolves only with every byte at
  its place on disk, and nothing is written to a closed descriptor.
* **Stall watchdog.** *Correct when* one attempt at a time fills the buffer and
  the part is answered once.
* **Upload manager and worker.** *Correct when* each upload ends in exactly one
  of CompleteMPU (with every part, once) and rejection, every carve buffer
  comes back, and each part carries its own bytes of the source.
* **Planning.** *Correct when* the ranges partition the object.
* **Ordered run.** As the manager; its backlog stays within the cap plus one
  load of the lanes, and the workers keep no byte that was delivered.
* **Slice run.** *Correct when* each part is counted by one lane, and the run
  ends.
* **Connections.** The resolver gives other addresses in another order each time
  it is asked, and is asked by several lookups at once. *Correct when*
  connections spread evenly over the addresses and what is reported counts each
  socket once.
* **Drivers.** *Correct when* an iteration measures its own parts only, whatever
  a group that failed has left running, and a run that ends well leaves every object as
  configured, whatever earlier runs left.

PROJECT.json lists every component with its status, and each of these hazards
at the line where it bites.

## 2. How the modules fit together

| Modules | What | Refines, composes | Proofs |
|---|---|---|---|
| `StreamDownload`, `RoundRobin` | download in stream mode | implements `OrderedBody` | `StreamDownloadProofs` |
| `BufferReturn` | the buffers of stream mode that go back to the workers | | `DownloadWorkerProofs` |
| `UploadManager`, `RoundRobin` | multipart upload, carve pool, completion, abort | | `UploadManagerProofs` |
| `UploadWorker`, `Ranges` | one thread of the upload pool | | `UploadSourceProofs` |
| `DispatchWorker`, `Queues` | the download worker with its message queues | | |
| `OrderedRun`, `Lanes` | `runOrdered` | composes main with `DispatchWorker` | `OrderedRunProofs` |
| `DownloadPool`, `Lanes`, `RoundRobin` | `close()`, file mode, failures and exits | composes main with `DispatchWorker` | `DownloadPoolProofs` |
| `FileWriter`, `Ranges` | the file handler of the worker, byte by byte | | `DownloadWorkerProofs` |
| `SliceRun` | `runOnce`, the slice role and the stall watchdog | | `RunProofs` |
| `Connections` | lookups, sockets, reports | | `RunProofs` |
| `BenchmarkRun` | groups, iterations, pools, reporter, sources | | `RunProofs` |
| `UploadStaging`, `Ranges` | bucket and source volume across runs | | `UploadSourceProofs` |

The modules cut the system where it hands over. `StreamDownload` and
`UploadManager` have the whole scheduler and see a worker only through what it
was assigned; `OrderedRun` and `DownloadPool` open the thread boundary, with
both message queues of each worker, and abstract from what the others show;
`FileWriter`, `UploadWorker`, `SliceRun` and `BufferReturn` open the step in
which the others take a part as answered; `BenchmarkRun` and `UploadStaging`
take a whole download or upload as given.

`OperatorLemmas` has the facts about the shared operators (`Ranges`, `Lanes`,
`RoundRobin`, `Queues`, sizes of finite sets) that the proof modules cite.

In several modules an operator is preceded by another of the same shape, which
no action uses: a slip in it (a dropped guard, an update that is missing).
PROJECT.json substitutes the slip for the operator to show that each property
would notice.

## 3. The modules

### StreamDownload

The main thread runs one callback at a time. Each message handler, each
continuation of an `await` and each `read()` is therefore one action, with
everything it calls: `PartArrives` is the `part` branch of `_onMessage` with
`_drainKey` and `_dispatchMore`.

| Variable | Code |
|---|---|
| `body` | the progress of `download()` for each key, and what the consumer of its body has seen |
| `active`, `rr`, `held`, `bufferedBytes`, `totalInFlight`, `freeLanes`, `deliveredCount`, `failed` | the fields of the manager of the same names (`heldBuffers`, `_failed`) |
| `cursor`, `nextN`, `paused`, `eofPushed` | the fields of an object record |
| `stream`, `taken` | the Readable: what was pushed, how much its consumer received |
| `fetching`, `broken`, `dead` | the workers: parts assigned, parts answered with `error`, dead threads |

| Action | Code |
|---|---|
| `Call`, `HeadReply`, `HeadFails` | `download` up to the HEAD (`tm` 403-405) and after it (406-467) |
| `PartArrives` | `part` (`tm` 259-282): hold, free the lane, drain, dispatch |
| `PartFails` | the worker's catch (`dw` 709-711) and `error` (`tm` 317-319) |
| `WorkerDies` | the `error` and `exit` listeners (`tm` 204-208) |
| `ConsumerReads` | the consumer takes a chunk; the Readable may call `read()` (`tm` 452-462), which lifts the pause, drains and dispatches |
| `ConsumerEnds` | `end` |
| `Reset` | `resetScheduler` (`tm` 831-847) when every body has ended, as `benchmark.js` calls it between iterations |

`DispatchMore` states what the loop of `_dispatchMore` and `_nextPart` ends
with, not its iterations: which parts the round robin hands out (`RoundRobin`
compares the looks at which parts are found), to which workers (lowest first
until full), and why it stops (no lane, no part, or the throttle). `Throttled`
takes the number in flight as a parameter since that grows in the loop while
the backlog does not. `DrainKey` likewise states what the loop of `_drainKey`
ends with. The Readable is external and modelled as `node:stream` behaves:
`push` returns false at the high-water mark; a flowing, empty one passes a chunk
straight to its consumer, which may also choose not to flow (`direct` is 0);
`read()` is called before a chunk leaves and the count it tests is without that
chunk; a destroyed one drops what is pushed and refuses.

Abstractions: every part has size one, so caps are counted in parts; labels and
contents are replaced by the pair of key and number; `rr` is kept modulo
`RRModulus`, which must be a multiple of every length `active` takes in a run
(2 for two keys); an answer that the worker has posted and main has not handled
is not told apart from one still to come. Statistics that nothing reads back
(part times, bytes, checksum count) are left out, and so is `ready()`, which
`download()` does not test.

### OrderedBody

What `download()` promises and nothing of how: a body yields parts 1, 2, ... in
order, ends only after the last, is cut off by a failure only before the last.
`StreamDownload` implements it with `got` as the first `taken` parts of
`stream` (`PromiseSpec`).

### RoundRobin, Lanes

What a round robin over a list comes to: in which order parts are met, how far
the index moves, who gets which part (`RoundRobin`; both managers use it), and
how a loop over workers fills their lanes in order (`Lanes`). Both are stated
by counting, without recursion, so that they can be proved about.

### UploadManager

| Variable | Code |
|---|---|
| `call` | the progress of `upload()` for each key |
| `uploadObjects`, `uploadActive`, `urr`, `freeLanes`, `failed` | fields of the manager |
| `enqueued`, `dispatched` | the queue `pending` of a record: the numbers above `dispatched` up to `enqueued` |
| `partsTotal`, `partsUploaded`, `completed`, `completing` | fields of a record |
| `requests`, `aborted` | the CompleteMPU and AbortMPU requests that S3 gets |
| `carver`, `carvePool`, `bufWaiters` | each `_carve`, the free buffers, the carvers that wait |
| `uploading`, `broken`, `dead` | the workers |

| Action | Code |
|---|---|
| `Call`, `CreateFails`, `SourceRefused`, `CreateReply`, `CreateReplyStream` | `upload` (`tm` 723-811) around its CreateMPU, for the four kinds of source |
| `TakeBuffer`, `PartFull`, `SourceEndsShort`, `SourceEnds`, `SourceFails` | `_carve` (`tm` 675-713) between its awaits, with `_acquireBuf` |
| `Uploaded` | `tm` 517-543, with `_releaseBuf`, `_maybeCompleteUpload` and `_dispatchUpload` |
| `PartFails`, `WorkerDies` | `error`, thread errors and exits, with `_fail` |
| `CompleteReply`, `CompleteFails` | the continuation of CompleteMPU (`tm` 620-640) |
| `Reset` | `resetScheduler` when all uploads have resolved |

`source` is chosen from `Sources` at the start. What a source holds is fixed
(`Parts`), how it is cut into chunks is not (`SourceEndsShort` or `SourceEnds`).
CompleteMPU sorts the parts, so `completed` and a request are sets. The carve
pool is allocated from the start, and the keys of a batch are distinct. Progress
and the copying of a source buffer back to its owner are `BenchmarkRun`'s. The branch `tm` 705-708 for
an empty buffer at the end of a source is never taken: a buffer is acquired
when there is a byte for it. As in the code, an upload rejected by `_fail` goes
on being carved and sent, and may still be completed at S3.

### DispatchWorker

The dispatch role of `dw`, with one FIFO queue per direction. `Assigned`,
`Released` and `Stopped` are the handlers of `assign`, `release` and `stop`;
`PartDone` and `PartFails` are the two ends of an `assign`, which several parts
reach in any order; `PostDone` is `dispatchMaybeDone` after its await of
`stopProfile`, which is why `doneEmitted` has three states. A part that failed
stays in `dispatchInFlight`, as in the code. A thread may die at any time; main
hears of it after all the thread posted.

### OrderedRun

`runOrdered`: `DispatchWorker` with main. `WorkerReady`, `PartReady`,
`WorkerDone` and `WorkerFailed` are the branches of its message handler with
`drainKey`, `dispatchMore` and `maybeResolve`; `SinkTakes` and `SinkFinishes`
are the stream sink calling back. `deliveryMode` is chosen in `Init`, so that
one run covers both sinks. `DispatchMore` and `DrainAndDispatch` say what the
loops end with. Parts have size one; once the promise is settled main ignores
all messages and `cleanup` has terminated the threads, so `Settle` ends the
run. The `return` of consumed buffers works as in `BufferReturn`; part times
and the time series are left out.

### DownloadPool

The manager's life around the downloads: `Call`, `HeadReply`, `HeadFails`,
`PartArrives`, `WorkerDone`, `WorkerFailed`, `Close`, `Terminate`, `Reset`, and
the worker with the file writer (`WriteChunk`, `RangeDone`). In file mode this
is the whole of `download()`; in stream mode it abstracts from order and
backpressure, which are `StreamDownload`'s subject: a body counts as read when
all its parts have come. `Close` is enabled as `bm` calls it: when all
downloads have settled, or, in its `finally`, when one has rejected, whatever
the others do. `closing` tells a `close()` that came before any failure
(`stopping`) from one that came after (`late`). Terminated threads exit with
code 1, which the `exit` listener passes to `_fail`; in file mode `_fail`
throws and ends the process (`crashed`). The first `WriteChunk` of a range
stands for its download and first write; with `Chunks` 0 it is `fileDiscard`.

### FileWriter

What a worker in file mode does with an `assign`, byte by byte.

| Variable | Code |
|---|---|
| `task[r]` | the handler of range r: the await it is at, its slot, try, bytes received, `byteLength`, bytes written of the range and of the piece, the descriptor of the write |
| `slots`, `bufSlots`, `directProbed`, `directUsable` | the buffers, the free list, what the O_DIRECT probe found |
| `fileRecs`, `disk` | descriptors by file, and what the files hold |
| `dispatchInFlight`, `dispatchStopped`, `doneEmitted` | of the same names |

`Assign` is the handler up to its first await with `acquireSlot`; `ChunkArrives`,
`BodyEnds` and `AttemptStalls` are the download into the slot (`dw` 592-606) under
`withStallRetry`;
`WriteEnds` is one turn of the loops of `writeRangeToFile`, up to the next
await; `RangeFails` is the catch; `Stop` closes descriptors if nothing is in
flight. A byte of an object is its file and its offset, so that one that lands
elsewhere is seen. `Align` stands for 4096. `Configs` are the sizes of objects,
ranges and pieces that are explored.

### SliceRun

`runOnce` and the slice role. `lane[w][l]` is the attempt a lane is at: which
part, which try, waiting for what, how many chunks it has, whether the watchdog
has aborted it. `Responds`, `ChunkArrives` and `BodyEnds` are the awaits of
`downloadPart` settling, `WatchdogFires` the timer of `withStallRetry`,
`AttemptThrows` its catch. Time is left out: the watchdog may fire at any
moment. After a lane has thrown, the others go on until main terminates the
thread, as in the code.

`deliveryMode` is `discard` or `file`, the modes in which `doRun` calls
`runOnce` (`bm` 854-859). A worker takes its handler by that alone (`dw` 574):
with `file` it is the dispatch handler, which knows no `start`
(`StartIgnored`). The writes of `downloadPart` (`dw` 281-302) are therefore
never reached and not modelled.

### BufferReturn

The way of a buffer of stream mode: made or taken from `returnedBufs`
(`StartPart`, which is `acquireArrayBuffer`), filled, transferred to main
(`PostPart`), held, delivered as a chunk, and given back by `recycle`
(`Recycle`, which a consumer may call twice) or dropped. Which part main
assigns to whom and when it delivers is `StreamDownload`'s subject; here any
order will do. A buffer is named by the part it was made for. So that its proofs and those of
`FileWriter`, the other half of the worker, can be in one module, its
specification is `ReturnSpec`.

### Connections

`spreadLookup` (`FromCache`, `Asks`, `Resolved`, `ResolveFails`,
`DefaultAnswers`, `Expires`), the sockets (`Connects`, `Secured`, `Reads`,
`Closes` with `onConnect` and the trackers of `ip-throughput.js`), and what main
makes of the snapshots (`Reports`, `ReportArrives` with `mergeIpThroughput`, or
the `+` of the manager). Each time it is asked the resolver may give any list of
`Answers`: S3 returns different addresses across queries, and rotates them
(`s3.js` 80-81). Entries of the DNS cache are objects that pending
lookups hold on to, so they are numbered in the order they were made. `given`,
`breaks` and `measured` are history; `Breaks` says which answers do not go on
with the turns of the entry they replace.

### BenchmarkRun

`main()` over groups and `benchmarkGroup` over iterations, with the three
drivers (`Drivers`): uploads and downloads through a manager, and downloads
with `--no-api`, which have a pool for each run. `Fails` is anything that
rejects in an iteration, at any point of it. Parts are sent, counted by the
worker and answered; the shared counter, the array of the caller's buffers, the
pools and the timers of the reporters are what a run leaves to the next one.
The manager's `close()` awaits its threads; `cleanup` of `runOnce` and
`runOrdered` calls `terminate()` and does not (`bm` 124, 280): these threads are
in `told`, and work on parts of their iteration, whatever main is at by then,
until they exit (`ThreadsExit`). Main makes nothing of what they post.

### UploadStaging

What outlives a process: the objects in the bucket and the source files on the
volume. `Describes` is `describeExisting` (whose second HEAD may fail), `Skips`,
`Refused`, `OpensFile`, `WritesChunk`, `FinishesFile` are `benchmarkGroup` and
what leads to it, `Uploads` is an upload that succeeded. `Killed` may come at
any point; `Starts` begins the next run, with any settings, on what is left.

### UploadWorker

The uploader role with its three messages (`upload`, `upload-sab`,
`upload-file`) and `stop`. A byte is its place in the source; `Unset` is a byte
of the `allocUnsafeSlow` buffer that was never written. `readSync` may return
less than it was asked for or throw (`ReadFails`), and others may shorten the
file (`Shortened`).

### Ranges, Queues

`buildRanges`, `buildParts` and the ranges of an upload, as what the i-th turn
of each loop adds. `Queues` says what a queue between two threads holds.

### MC modules

Small constants for TLC.

## 4. What the runs check

| Run | Instance | Checks |
|---|---|---|
| `stream` | two keys of 5 and 2 parts, two workers of one lane, cap 1, high-water mark 1 | `Accounting`, `NoStall`, `PausedWillRead`, `OverrunIsPaused`, `ResetIsSafe`, the refinement `PromiseSpec`, `BodyCompletes` |
| `upload` | two keys of 3 and 2 parts as stream and stream, stream and file, parts and sab; two workers of one lane, three buffers | `Accounting`, `NoLostWakeup`, `CompleteOnce`, `UploadSettles` |
| `ordered` | two objects of 4 and 2 parts, two workers of one lane, cap 1, mark 1, both sinks | `Accounting`, `BacklogBounded`, `MemoryFollowsDelivery`, `ResolvedIsComplete`, `RunSettles` |
| `pool` | two objects of 2 and 1 ranges, two workers of one lane, two writes a range, file and stream mode | `Accounting`, `ResolvedIsWritten`, `ReportsComplete`, `TimelyCloseSettles`, `DownloadSettles` |
| `pool_late_close` | as `pool`, one worker, stream mode | `LateCloseSettles`, violated |
| `slice` | four parts on two workers of one lane and on one of two, one retry, discard and file mode | `ResultIsExact`, `RunSettles` |
| `file_writer` | two files, up to 10 bytes, ranges of 3 to 5, pieces of 2 and 3, alignment 2, two handlers at a time, one retry | `TypeOK`, `AnsweredIsOnDisk`, `DescriptorsOpen`, `DirectIsAligned` |
| `buffer_return` | four parts of two sizes, two workers of two lanes | `ChunkIsIntact`, `OneOwner`, `AllocationBounded` |
| `connections` | three addresses, answers <<0, 1>> and <<1, 2, 0>>, up to three sockets on two workers in four settings | `SpreadBounded`, `CountsAreSockets`, `ThroughputIsWhole` |
| `benchmark_run` | two groups of two iterations of two parts, three drivers | `CounterIsOfIteration`, `SourcesAreBack`, `MeasuredAlone` |
| `upload_staging` | two groups of one and two objects, eight settings, a volume too small for both sources, two runs | `RunIsDone`, `SourceIsWhole` |
| `upload_worker` | a source of 5 bytes in parts of 2, three messages | `SentIsSource` |

What the properties say, beyond the comments in front of them:

* `Accounting` of each scheduler: every part is in exactly one place (to hand
  out, outstanding at one worker, held or delivered), and each counter that a
  decision is made on (`totalInFlight`, `freeLanes`, `bufferedBytes`,
  `deliveredCount`, `partsUploaded`, `dispatchInFlight`) is what a recount would
  give, after failures and resets too. In `upload` it also says that carve
  buffers neither leak nor multiply, but for the one that a carver had in hand
  when its source failed, which the code never returns, and that every answer
  finds its record.
* `NoStall` is the claim in the comment of `_dispatchMore` (`tm` 337-338).
  `OverrunIsPaused` is what remains of the backlog's budget (see below).
* `PausedWillRead` and `NoLostWakeup`: whoever waits will be woken. A paused
  body has chunks that have yet to leave it; carvers wait only while the
  buffers in the pool are spoken for by carvers that were woken.
* `ResetIsSafe`: the precondition the comment of `resetScheduler` asks for
  follows from all bodies having ended.
* `CompleteOnce`: one CompleteMPU, with every part, after the last answer,
  although the last answer and the end of the source race.
* `BacklogBounded`, `MemoryFollowsDelivery`: the memory of an ordered run,
  on main and in the workers.
* `ResolvedIsComplete`, `ReportsComplete`: `stop` overtakes nothing, and what
  is resolved has been delivered, drained and reported.
* `ResolvedIsWritten`, `AnsweredIsOnDisk`: two levels of the same promise: the
  manager counts only what was answered, and what a handler answers is in the
  file byte by byte.
* `ResultIsExact`: the slices are the batch, no part is fetched by two lanes at
  once, and a part counts once whatever its attempts went through.
* `DescriptorsOpen`: `stop` never closes a descriptor under a write.
  `DirectIsAligned`: a direct write is aligned in length and file offset, and
  in address when ranges or pieces are whole blocks.
* `ChunkIsIntact`, `OneOwner`, `AllocationBounded`: a buffer that is given back
  is refilled only when no chunk uses it, is on one list, and keeps the
  worker's memory within what it had in use at a time, size by size.
* `SpreadBounded`: addresses that every answer had differ by at most one
  connection, and one more for each answer that broke the turns: it came when
  the entry its lookup found was no longer cached, or its list was another than
  that of the entry it replaced. An answer costs an address one connection and
  not as many as there are turns, although `idx` means another address in
  another list; with two lists that take turns it may be the same address each
  time (section 6). `CountsAreSockets`, `ThroughputIsWhole`: each socket
  is counted once, whatever the order of its events and of the snapshot.
* `CounterIsOfIteration`, `SourcesAreBack`: an iteration starts from where it
  should. `MeasuredAlone`: while it runs main has told every other thread to end
  or waited for it, and what such threads still fetch is of an earlier group of
  the `--no-api` driver. An iteration that ended well leaves none at work: all
  its parts are answered.
* `RunIsDone`, `SourceIsWhole`: what a run finds from others that were killed
  does not make it skip or send what it should not.
* `SentIsSource`: short reads and alternating handlers do not misplace a byte.
* `BodyCompletes`, `UploadSettles`, `RunSettles`, `TimelyCloseSettles`,
  `DownloadSettles`: what must end ends.

**Bounds.** With cap 1 and mark 1 each of the throttle, its exemption and the
pause is met after one or two parts. `OverrunIsPaused` speaks of a backlog and
parts in flight of `Cap` and one load of the lanes, 3 with two lanes: of 5 parts
of a body nobody reads, the consumer's share is 1 and 4 are held, so the
exemption carries the backlog past its budget. The two lanes let the parts of
one object finish out of order. Two objects are what it takes for one consumer to be slow while the
other is not. `Reset` makes the runs of both managers cyclic: iterations follow
each other without a bound. Three carve buffers are one more than the two lanes
of `upload`, the least `_ensureCarvePool` allocates; two streams make carvers
wait, be woken and be overtaken, and a file beside a stream takes lanes from
it. Parts <<4, 2>> make `ordered` meet its cap with two objects interleaved in
the queue. Two workers are what it takes for one to answer `stop` while the
other still works or dies. Two writes a range let a thread die with a range
half written. One retry has both outcomes of the watchdog, another try and
giving up; two lanes share a cursor, two slices meet at both barriers. The five
settings of `file_writer` have whole and cut-off last ranges and pieces, ranges
that are no multiple of the piece and neither a multiple of the alignment, the
buffered path alone and `fileDiscard`. Two sizes of part are what it takes for a
returned buffer to be too small. In `connections` the two lists differ in length,
order and addresses, so an index goes round in one while it does not in the
other; three sockets of one worker make three lookups pending at once, or an
entry that is used, expires and is replaced by another list; the other settings
are about the events of sockets and the reports. `bytes` in `Configs` (read from
a socket), `sockets` there and `MaxRuns` bound what could go on for ever. Two
groups let threads of the first live through the second. Deadlock is not checked in any run:
when calls have settled, a body has been rejected or a run is over, the program
has nothing left to do.

**Fairness.** Weak throughout, on what happens by itself: handlers of messages
that have come, answers of S3 to requests (the SDK has timeouts, and
`withStallRetry`, `dw` 244-269, throws after `partRetries` stalls: whether the
answer is a part or an error is open), disk writes returning, woken carvers,
the sink of `runOrdered`, which is its own code. Nothing is promised of a dead
thread. In `StreamDownload` the consumer of the body in question keeps reading,
as `download()` demands (`tm` 399-400), and in `UploadManager` the source of
the upload in question keeps yielding: premises of the properties, not of the
specifications, so that other consumers and sources may stop for ever. In
`SliceRun` nothing is assumed of the network: an attempt gets on or the watchdog
aborts it, which it does unless `stallTimeoutMs` is 0; `RunSettles` is about runs
that discard what they read, as the others wait for ever (section 6). No thread is obliged to
die and no caller to call. The modules without liveness have no fairness.

## 5. What is proved

For every value of the constants that satisfies the named assumptions of the
module, TLAPS checks:

| Module | Theorems | State of the runs' property |
|---|---|---|
| `StreamDownloadProofs` | `InvAlways`; `AccountsAgree`, `NeverStalled`, `PausedBodiesWillRead`, `OverrunsArePaused`, `ResetsAreSafe`, `PromiseKept`; `BodiesInOrder`, `EndsAreComplete` | `Accounting`, `NoStall`, `PausedWillRead`, `OverrunIsPaused`, `ResetIsSafe`, `PromiseSpec` |
| `DownloadPoolProofs` | `InvAlways`; `PoolBooksAgree`, `ResolvedIsOnDisk`, `CloseHasEveryReport` | `Accounting`, `ResolvedIsWritten`, `ReportsComplete` |
| `OrderedRunProofs` | `InvAlways`; `IterationBooksAgree`, `BacklogIsBounded`, `MemoryIsReleased`, `ResolvedIsAll` | `Accounting`, `BacklogBounded`, `MemoryFollowsDelivery`, `ResolvedIsComplete` |
| `UploadManagerProofs` | `InvHolds`; `AccountsAreRight`, `WakeupsAreKept`, `CompletedOnce` | `Accounting`, `NoLostWakeup`, `CompleteOnce` |
| `RunProofs` | `CounterIsRight`, `SourcesComeBack`, `IterationsAreApart` | `CounterIsOfIteration`, `SourcesAreBack`, `MeasuredAlone` |
| | `SlicesAreExact` | `ResultIsExact` |
| | `SpreadIsEven`, `CountsAreExact`, `ThroughputsAddUp` | `SpreadBounded`, `CountsAreSockets`, `ThroughputIsWhole` |
| `UploadSourceProofs` | `SentIsTheSource`, `RunsAreDone`, `SourcesAreWhole` | `SentIsSource`, `RunIsDone`, `SourceIsWhole` |
| `DownloadWorkerProofs` | `InvHolds`; `TypesHold`, `AnsweredRangesAreOnDisk`, `DescriptorsStayOpen`, `DirectWritesAreAligned` | `TypeOK`, `AnsweredIsOnDisk`, `DescriptorsOpen`, `DirectIsAligned` |
| | `ReturnInvHolds`; `BuffersHaveOneOwner`, `ChunksStayIntact`, `AllocationIsBounded` | `OneOwner`, `ChunkIsIntact`, `AllocationBounded` |
| `OperatorLemmas` | `RangesPartition`, `PartsAreRanges` | (operators) |

*StreamDownload.* The inductive invariant `Inv` adds to the checked properties
what they need of each other: `Listed`, `FreshUntilListed` (`active` lists each
registered key once, and an object that is not registered has no parts
anywhere); `Bounded`, `EndedIsDrained`, `FailureMarked` (cursors stay within the
object, an ended body was read to its EOF, an errored or broken part implies
`failed`); `HeldWaits` (if the object is not paused, its next part is not in the
backlog: each drain takes all it can); `PoolBusy` (with nothing in flight,
either no part of a registered object is left to hand out or every lane is held
by a part that broke), which makes `NoStall` inductive: the throttle exempts an
empty pool; and `OverrunSettled` (backlog and parts in flight reach their budget
only with at most one part in flight and no gap in front of a part in the
backlog), which with `HeldWaits` is what `OverrunIsPaused` says: an answer
leaves the sum as it is, a drain lowers it, and a dispatch raises it past the
cap only by the part that an empty pool is exempted for (`DispatchLimit`). `DispatchEffect` and `DrainEffect` state what a dispatch
and a drain do to the state, `AccountedKept` and `Delivery` carry the accounting
over them, and there is one lemma for each action. `PromiseKept` is the
refinement: `ReceivesIsPromised` maps the steps in which a consumer receives
parts, reads and drains that pass chunks straight on, to `Receive` or a stutter,
`MoveIsPromised`, `FailureIsPromised` and `ResetIsPromised` the others.

*DownloadPool.* The parts are followed through both queues of each worker.
`InPlaces`: what a worker has is in one of its places, the inbox as an `assign`,
`running`, `broken` or the outbox as a `part`, once, and `dispatchInFlight`
counts the two in the middle. `BooksBalance` says what main's counters are in
terms of what is outstanding where (`Balanced`); it speaks of sets alone, so that
it can be shown once for an answer (`BooksAnswer`) and once for a dispatch
(`BooksHand`), which a handler does one after the other. `ObjectsOpen`: an object
leaves `this.objects`, and its call resolves, only with all its answers, so that
an answer always finds its record. `AnsweredIsWritten`: a range that was handed
out and is neither on its way to a worker nor with it is on disk.
`ReportsCounted`: `workerDone` counts the workers whose `worker-done` is posted
and no longer in the queue, which is there at most once. `DispatchEffect` states
what `_dispatchMore` does: the parts it meets first (`Ranking` and `LooksApart`:
no two are met at the same look) are one run of each object, dealt to disjoint
sets of lanes (`SharesDealt`). `QuietStep` is for the many steps that move no
part. None of the theorems assumes anything of failures: they hold through
`error`, `exit`, `crashed` and a `close()` that comes late.

*OrderedRun.* The invariant is that of the pool where the worker is the same
(`InPlaces`, `ReportsCounted`), and new where main is. `BooksBalance` has three
parts, again about sets alone. `Placement`: the parts before `queueIndex` are
those outstanding at one worker, those in `heldMeta`, once each, and those below
the cursor of their object. `Counted`: the lanes, `totalInFlight`, the backlog
and the delivered count are the sizes of these sets. `LastInFlight`: when the
backlog and the parts in flight come to the cap and one load of the lanes, only
the part that was issued last can be in flight. This is what makes
`BacklogBounded` inductive: past the cap a part is issued only when nothing is in
flight. And it is what is needed: the queue runs through each object from its
first part (`PositionFacts`), so the part that a held one waits for was issued
before it and is not in flight; it is held itself (`HeldWaits`), and then for a
full consumer (`Drained`). The books are kept step by step: an answer moves a part from
its worker to `heldMeta` (`BooksArrive`), a drain moves a run of parts past the
cursor (`BooksDrain`), a dispatch hands out the next ones of the queue
(`BooksHand`, from `DispatchEffect`), and the handler of an answer does all
three. `MemoryKept`: what a worker keeps are its answers on their way, what main
holds of it and the releases on their way back, each of which is of a delivered
part and is sent once, so that a release cannot free what was not kept or leave
something behind. `StopIsLast`, `DeliveryKnown` and `DoneIsDelivered`: nothing
follows `stop`, which is sent only when `deliveryDone` says that all parts were
delivered and taken, so that with it no part is outstanding and no release is
sent any more. Nothing is assumed of failures and deaths of threads.

*UploadManager.* `Inv` is what the run checks and two parts of its own.
`RecordsMatch` ties the state of a call to its record, key by key: nothing of an
object exists until its CreateMPU is answered (`Fresh`); a call that resolved had
its CompleteMPU answered and its record dropped; an object without a record has
nothing left to dispatch; a total that is set is the planned one; an abort leaves
neither a total nor a carver at work; a carver at work has a record, no total
yet and, when it has a buffer or wants one, a part left to fill. `WaitersMatch`:
the carvers in `bufWaiters` are waiting, each in one place, so that a returned
buffer wakes one of them. `DispatchEffect` states what a round of dispatching
does to the lanes, the cursors and the parts; `EnqueueKeeps`, `ReleaseKeeps` and
`CompletionEffect` what the three shared helpers (queue a part, return its
buffer, send CompleteMPU when the total is reached) preserve; then there is one
lemma for each action. CompleteMPU carries every part because a count of
uploaded numbers that equals the planned total leaves no number out.

*BufferReturn.* The invariant is `OneOwner` taken apart (`Ownership`), with what
makes it inductive: a part is on its way to one worker, and the buffer that may
be made for it does not exist before it is started (`AssignedOnce`,
`FreshUnused`). `AllocationBounded` is preserved because a step that makes a
buffer found none on the list that is large enough.

*BenchmarkRun.* Every part of an earlier iteration of the group has been answered
and none of a later one, or of a group to come, was sent (`OthersAtRest`), since
a group ends with the first iteration that fails; so the counter and the buffers
are those of the current one. `PoolsFit` says of every thread that lives whose it
is: the group's, or with `--no-api` the running iteration's, or one of a run that
has ended and was told to. A step of such a thread can only move a part of an
iteration that failed (`MovesAreOfIteration`): the last one of a group that is
closing, or of an earlier group, whose counter it is that moves
(`BygoneKeepsInv`).
*UploadWorker.* What was read of a part are its first bytes
(`ReadIsPrefix`); what is sent has every byte that the source still has.
*Ranges.* Each byte lies in exactly one of the ranges, by arithmetic on `CeilDiv`.

*SliceRun.* The slices are dealt out without overlap and cover the batch
(`SlicesApart`, `SlicesCover`: division by the number of workers, for numbers of
parts that it does not divide too). `WorkerFits` says of each worker that its
lanes fetch different parts of those it has taken from its slice (`LanesFit`),
what its handler's state tells of its lanes (`StateFits`: no lane is left over
when it posts its result, and one threw when it failed), and that the parts that
are behind it, `Fetched`, are counted (`DoneFits`). `ReadyFits` and `DoneBooks` are main's
side of both barriers: `readyCount` and `doneCount` count the workers whose
message was posted and taken, at most one of each, and `results` is the size of
the slices reported, since a worker that is done has fetched its whole slice
(`DoneIsWhole`).

*Connections.* `SpreadBounded` is not inductive: how often a thread was given an
address means nothing without the index of the entry that comes next. `Turns` is
how often an address comes up in so many turns round a list, and `EvenOver`
compares two addresses by what they were given beyond the turns of a list, and
by which of them comes first in it (`Ahead`): by at most one, and one more for
each answer counted in `breaks` (`Even`). A turn leaves that as it is
(`EvenTurns`); an answer that goes on with the turns is only a turn; one that
breaks them compares the same gifts with the turns of another list, or of another
index, and the turns of two addresses of one list differ by no more than which of
them is ahead (`TurnsApart`), so that it costs one (`EvenBreaks`). Addresses that
one of the answers did not have drop out (`SteadyShrinks`). `CountsFit` says that
the registry is the open sockets and that a socket is recorded once it has
connected, whatever comes after, and `ReportsFit` that the sockets that were
measured do not move any more and are in a report on its way or in main's sum.

*UploadStaging.* `DoneSoFar`: while nothing failed, the groups before this one
are as wanted, and of this one what was found so and what was uploaded; groups
that share an object agree on its layout (`LayoutsAgree`), so that a later one
does not undo an earlier one. The room on the volume follows from `UsedSplit`:
what the other groups' files take does not change while one is written.

*FileWriter.* Each range under way has a slot for itself (`OneSlot`), every slot
is on the free list or held by a range that is counted, the failed ones too
(`SlotsCounted`, which bounds the buffers and keeps the descriptors open), and
`TaskMatches` says how far each range is: its first `got` bytes are in its slot,
its first `w + x` in its file, `w` is a multiple of the piece, and the descriptor
of the piece is one of its file and of the right kind. `OthersKeep` is the heart:
a step of one range leaves what is said of the others, since they have other
slots and, by `RangesPartition`, other bytes of the file. The alignment of the
address follows by arithmetic on multiples.

Every invariant and action property of the passing runs, and the refinement, is
stated by one of these theorems. Model-checked only: `BodyCompletes`,
`UploadSettles`, `RunSettles`, `TimelyCloseSettles` and `DownloadSettles` are
liveness under fairness, which is beyond TLAPS, as are ENABLED, recursion and
induction over data; the modules state loops by what they end with, so that
nothing recursive is needed.

## 6. Disagreements between code and documentation

One is shown by a run:

* *pool_late_close.* README.md:722 says the run fails after `partRetries`
  attempts. A part that failed is never taken out of its worker's
  `dispatchInFlight` (`dw` 709-711), so that worker never posts `worker-done`;
  `_fail` has run already when `close()` makes the promise it would resolve
  (`tm` 875, 904). The `close()` in the `finally` of the benchmark waits for
  ever and the error stays unreported.

The others were met while modelling. The models do what the code does, and the
properties state the exception:

* *Backlog.* README.md:562-564 and 641-643 say the backlog is bounded by
  `maxBufferedBytes`. With one body unread, every arrival leaves nothing in
  flight, the exemption of `tm` 339 fetches one more part, and the backlog grows
  to the rest of the object (`OverrunIsPaused` says what does hold).
* *Bodies opened after a failure.* `tm` 895 says callers that drain a body see
  the error. A HEAD that answers after the failure opens a body that `_fail`,
  which returns early from then on, never destroys (`BodyCompletes` excepts a
  failed pool).
* *Empty file.* `partsTotal` is 1 and no part is queued (`tm` 787), so
  CompleteMPU is never sent and `upload()` never settles (`UploadSettles`
  excepts it).
* *Failure in file mode.* The records have no `readable`, so `_fail` throws
  (`tm` 897) in the listener that told it of the failure, and rejects nothing;
  the process ends on the exception (`crashed` in `DownloadPool`).
* *O_DIRECT.* README.md:168 promises buffered writes for what is not aligned;
  the test (`dw` 509) asks for length and file offset and not for the address
  in the buffer. When neither ranges nor pieces are whole blocks the write is
  refused and the run fails (`WriteEnds`, `DirectIsAligned`).
* *Spreading of connections.* `s3.js` 79-80 says that concurrent connections fan
  out. All lookups that begin before the first answer make entries of their own
  that start at one index (`s3.js` 109), so that a burst goes to one place of
  each answer. And the index goes on from list to list, where it means another
  address: with the rotation that `s3.js` 80-81 counts on, one address may get
  the first connection of each of them (both are `breaks` in `SpreadBounded`).
* *Throughput by address.* The manager merges reports with `+` (`tm` 314) and
  gets a string, whose Gbps is read as 0 (`Merge`; `ThroughputIsWhole` is about
  the other receiver).
* *Files with `--no-api`.* `bm` 99 says "SLICE mode (discard / file): each worker
  owns a fixed slice and runs freely", and README.md:588 that "The legacy
  `--no-api` slice path still honors `fileAsync`". Since `dw` 574 gives every
  worker with `deliveryMode` `file` the dispatch handler, it ignores the `start`
  of `runOnce`, and the run waits for ever (`StartIgnored`; `RunSettles` excepts
  these runs).
* *Threads of `--no-api`.* `cleanup` does not await `terminate()` (`bm` 122-125,
  277-281): after a failure the threads may go on fetching while the next group
  is planned and measured (`MeasuredAlone` says that only they do).
* *Reporter.* It is stopped only when an iteration has ended well (`bm` 690,
  `ub` 162); after a failure its timer goes on into the next group
  (`MeasuredAlone` speaks of timers with `--no-api` alone).
* *Progress of uploads.* Worker and main both count a part (`tm` 541, `uw` 216,
  247, 280): the counter runs to twice the bytes, where `progress.js` 3-4 says
  once per part (`CounterIsOfIteration` states the double count).
* *Skipping uploads.* README.md:306-308 says an object is skipped only when it
  exists in the configured part size. Any failure of the HEAD of part 1 (`ub`
  44) is taken for an object of one part (`misread` in `RunIsDone`).
* *Shortened source file.* `uw` 273 takes the end of the file for the end of
  the part, and sends the rest of an unfilled buffer (`SentIsSource` goes as far
  as the source does).

## 7. Not modelled

* The `bufferPool` option of the discard sink, a free list inside one worker
  that works as the slots of `FileWriter` do.
* The slice, carver and open-stream roles of the upload worker: no caller
  starts one (`tm` always passes role `uploader` and source `stream`).
* `src/config.js`: parsing and defaults, sequential. The values it lets through
  are the assumptions on the constants.
* In the drivers: describing and grouping objects, the synthetic customer
  stream, medians, tables, time series, part times and JSON: sequential, and
  about formatting. In `progress.js` the line that `tick()` prints.
* The history file and the statistics over iterations of `ip-throughput.js`,
  and `resource-monitor.js`, which samples counters of the process.
* Plots, the checksum patch of a vendored library, scripts, diagnostics, the
  SDK comparison and recorded results: no protocol.
