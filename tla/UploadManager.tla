---------------------------- MODULE UploadManager ----------------------------
(***************************************************************************)
(* upload() of S3TransferManager: CreateMPU, the parts, CompleteMPU or     *)
(* AbortMPU, for several objects that share the uploader pool and, when    *)
(* their source is a stream, the pool of carve buffers.                    *)
(*                                                                         *)
(* As in StreamDownload one action is one callback of the main thread, and *)
(* a worker is what it was given and main has not handled the answer to.   *)
(* An object waits for its parts in the order of their numbers, so that    *)
(* its queue `pending' is the numbers above dispatched[k] up to            *)
(* enqueued[k].                                                            *)
(***************************************************************************)
EXTENDS RoundRobin

CONSTANTS
  Keys,         \* the objects of the batch
  Sources,      \* what upload() may be given for the keys
  Parts,        \* Parts[k]: how many parts the bytes of k make
  NWorkers,     \* cfg.workers
  Concurrency,  \* cfg.concurrency: lanes per worker
  Buffers,      \* how many buffers _ensureCarvePool allocates
  RRModulus     \* urr is kept modulo a multiple of every length of uploadActive

Workers == 1 .. NWorkers
AllParts == UNION {{k} \X (1 .. Parts[k]) : k \in Keys}

ASSUME KeysAssumption == IsFiniteSet(Keys)
ASSUME SourcesAssumption == Sources \subseteq [Keys -> {"parts", "sab", "file", "stream"}]
ASSUME PartsAssumption ==
  /\ Parts \in [Keys -> Nat]
  /\ \A s \in Sources : \A k \in Keys : s[k] = "sab" => Parts[k] > 0
ASSUME PoolAssumption == NWorkers \in Nat \ {0} /\ Concurrency \in Nat \ {0}
ASSUME BuffersAssumption == Buffers \in Nat /\ Buffers > NWorkers * Concurrency
ASSUME ModulusAssumption == RRModulus \in Nat \ {0}

VARIABLES
  source,         \* source[k]: what upload() is given for k in this run
  call,           \* where the upload() call of each key has got to
  uploadObjects,  \* keys of this.uploadObjects
  uploadActive,   \* this.uploadActive
  urr,            \* this.urr, modulo RRModulus
  enqueued,       \* parts of k that were put in its queue
  dispatched,     \* parts of k that were taken out of it
  partsTotal,     \* obj.partsTotal, 0 for null
  partsUploaded,  \* obj.partsUploaded
  completed,      \* the part numbers in obj.completed
  completing,     \* obj.completing, and whether the CompleteMPU was answered
  requests,       \* the part lists of the CompleteMPU requests for k
  aborted,        \* whether AbortMPU was sent for k
  carver,         \* where _carve of k has got to
  carvePool,      \* how many buffers this.carvePool holds
  bufWaiters,     \* this.bufWaiters, by the key of the carver
  freeLanes,      \* this.freeLanes
  failed,         \* this._failed
  uploading,      \* <<key, part, worker>>: dispatched and not yet answered
  broken,         \* <<key, part, worker>>: the worker answered 'error'
  dead            \* worker threads that died

recordVars == <<enqueued, dispatched, partsTotal, partsUploaded, completed>>
mpuVars == <<completing, requests, aborted>>
carveVars == <<carver, carvePool, bufWaiters>>
workerVars == <<uploading, broken, dead>>
vars == <<call, uploadObjects, uploadActive, urr, recordVars, mpuVars, carveVars,
          freeLanes, failed, workerVars>>

-----------------------------------------------------------------------------
(* `running': CreateMPU was answered and the promise is not settled.         *)
CallStates == {"none", "creating", "running", "resolved", "rejected"}

(* _carve: `reading' the source without a buffer, `filling' one, `waiting'   *)
(* in bufWaiters, `woken' from there and about to look again; `done' at the  *)
(* end of the source; `stopped' or `spilled' when the source failed, without *)
(* or with a buffer in hand.                                                 *)
CarverStates ==
  {"idle", "reading", "filling", "waiting", "woken", "done", "stopped", "spilled"}

(* obj.completing is any state but `no'.                                     *)
CompletingStates == {"no", "sent", "answered"}

Streams == {k \in Keys : source[k] = "stream"}

Init ==
  /\ source \in Sources
  /\ call = [k \in Keys |-> "none"]
  /\ uploadObjects = {}
  /\ uploadActive = <<>>
  /\ urr = 0
  /\ enqueued = [k \in Keys |-> 0]
  /\ dispatched = [k \in Keys |-> 0]
  /\ partsTotal = [k \in Keys |-> 0]
  /\ partsUploaded = [k \in Keys |-> 0]
  /\ completed = [k \in Keys |-> {}]
  /\ completing = [k \in Keys |-> "no"]
  /\ requests = [k \in Keys |-> <<>>]
  /\ aborted = [k \in Keys |-> FALSE]
  /\ carver = [k \in Keys |-> "idle"]
  /\ carvePool = Buffers
  /\ bufWaiters = <<>>
  /\ freeLanes = [w \in Workers |-> Concurrency]
  /\ failed = FALSE
  /\ uploading = {}
  /\ broken = {}
  /\ dead = {}

-----------------------------------------------------------------------------
(* _enqueueUpload, _nextUploadPart and _dispatchUpload.                      *)

(* The list of dispatch sources once k has had a part in its queue.          *)
WithSource(k) ==
  IF \E i \in 1 .. Len(uploadActive) : uploadActive[i] = k
  THEN uploadActive ELSE Append(uploadActive, k)

(* As in StreamDownload, an operator that precedes one of the same shape is   *)
(* a slip in it that no action uses.                                         *)

(* The parts taken out of the queues when dispatched moves to cur.           *)
BatchAgain(cur) == {p \in AllParts : dispatched[p[1]] <= p[2] /\ p[2] <= cur[p[1]]}
Batch(cur) == {p \in AllParts : dispatched[p[1]] < p[2] /\ p[2] <= cur[p[1]]}

TakeLanes(free, given) == [w \in Workers |-> free[w] - Cardinality(given[w])]

LoopEnds(full, left) == full \/ left = {}

(* The loop of _dispatchUpload, from the values its caller left: order is    *)
(* uploadActive, queue is enqueued, flying and free are uploading and        *)
(* freeLanes.  It ends when every lane is taken or no queue has a part, and  *)
(* in that case after a fruitless round.                                     *)
DispatchUpload(order, queue, flying, free) ==
  LET listed == {order[i] : i \in 1 .. Len(order)}
  IN \E cur \in [Keys -> 0 .. Cardinality(AllParts)] :
     LET new  == Batch(cur)
         left == {<<k, cur[k] + 1>> : k \in {j \in listed : cur[j] < queue[j]}}
     IN /\ \A k \in Keys : /\ dispatched[k] <= cur[k]
                           /\ cur[k] <= IF k \in listed THEN queue[k] ELSE dispatched[k]
        /\ InTurn(order, urr, dispatched, new, left)
        /\ \E lane \in [new -> Workers], looks \in Looks(order, urr, dispatched, new) :
           LET given == [w \in Workers |-> {p \in new : lane[p] = w}]
               full  == \A w \in Workers : Cardinality(given[w]) = free[w]
           IN /\ Dealt(order, urr, dispatched, given, free)
              /\ LoopEnds(full, left)
              /\ dispatched' = cur
              /\ urr' = (urr + looks + (IF full THEN 0 ELSE Len(order))) % RRModulus
              /\ uploading' = flying \cup {<<p[1], p[2], lane[p]>> : p \in new}
              /\ freeLanes' = TakeLanes(free, given)

(* Put parts up to number n of k in its queue and dispatch.                  *)
EnqueueUpTo(k, n) ==
  /\ enqueued' = [enqueued EXCEPT ![k] = n]
  /\ uploadActive' = IF n > enqueued[k] THEN WithSource(k) ELSE uploadActive
  /\ DispatchUpload(uploadActive', enqueued', uploading, freeLanes)

(* _maybeCompleteUpload, with the values its caller left in the record.      *)
CompletesEarly(k, total, count) == total # 0 /\ completing[k] = "no"
Completes(k, total, count) == completing[k] = "no" /\ total # 0 /\ count = total

MaybeComplete(k, total, count, numbers) ==
  IF Completes(k, total, count)
  THEN /\ completing' = [completing EXCEPT ![k] = "sent"]
       /\ requests' = [requests EXCEPT ![k] = Append(@, numbers)]
  ELSE UNCHANGED <<completing, requests>>

-----------------------------------------------------------------------------
(* The carve pool.                                                           *)

(* _acquireBuf: pop a buffer, or wait.                                       *)
Acquire(k) ==
  IF carvePool > 0
  THEN /\ carvePool' = carvePool - 1
       /\ carver' = [carver EXCEPT ![k] = "filling"]
       /\ UNCHANGED bufWaiters
  ELSE /\ carver' = [carver EXCEPT ![k] = "waiting"]
       /\ bufWaiters' = Append(bufWaiters, k)
       /\ UNCHANGED carvePool

(* _releaseBuf: push the buffer, wake the carver that has waited longest.    *)
ReleaseUnpushed ==
  /\ UNCHANGED carvePool
  /\ IF bufWaiters = <<>>
     THEN UNCHANGED <<carver, bufWaiters>>
     ELSE /\ carver' = [carver EXCEPT ![Head(bufWaiters)] = "woken"]
          /\ bufWaiters' = Tail(bufWaiters)

ReleaseUnseen ==
  /\ carvePool' = carvePool + 1
  /\ UNCHANGED <<carver, bufWaiters>>

Release ==
  /\ carvePool' = carvePool + 1
  /\ IF bufWaiters = <<>>
     THEN UNCHANGED <<carver, bufWaiters>>
     ELSE /\ carver' = [carver EXCEPT ![Head(bufWaiters)] = "woken"]
          /\ bufWaiters' = Tail(bufWaiters)

-----------------------------------------------------------------------------
(* upload().                                                                 *)

Call(k) ==
  /\ call[k] = "none"
  /\ call' = [call EXCEPT ![k] = IF failed THEN "rejected" ELSE "creating"]
  /\ UNCHANGED <<uploadObjects, uploadActive, urr, recordVars, mpuVars, carveVars,
                 freeLanes, failed, workerVars>>

CreateFails(k) ==
  /\ call[k] = "creating"
  /\ call' = [call EXCEPT ![k] = "rejected"]
  /\ UNCHANGED <<uploadObjects, uploadActive, urr, recordVars, mpuVars, carveVars,
                 freeLanes, failed, workerVars>>

(* abort: AbortMPU, and the promise is rejected unless it is settled.        *)
Abort(k) ==
  /\ aborted' = [aborted EXCEPT ![k] = TRUE]
  /\ call' = [call EXCEPT ![k] = IF @ \in {"creating", "running"} THEN "rejected" ELSE @]

(* An empty parts array, or a file that cannot be read.                      *)
SourceRefused(k) ==
  /\ call[k] = "creating"
  /\ source[k] = "file" \/ (source[k] = "parts" /\ Parts[k] = 0)
  /\ Abort(k)
  /\ UNCHANGED <<uploadObjects, uploadActive, urr, recordVars, completing, requests,
                 carveVars, freeLanes, failed, workerVars>>

(* partsTotal of a source whose size is known.                               *)
PlannedTotal(k) == IF Parts[k] = 0 THEN 1 ELSE Parts[k]

(* CreateMPU answered for a source whose parts are known: queue them all.    *)
CreateReply(k) ==
  /\ call[k] = "creating"
  /\ source[k] \in {"sab", "file"} \/ (source[k] = "parts" /\ Parts[k] > 0)
  /\ call' = [call EXCEPT ![k] = "running"]
  /\ uploadObjects' = uploadObjects \cup {k}
  /\ partsTotal' = [partsTotal EXCEPT ![k] = PlannedTotal(k)]
  /\ EnqueueUpTo(k, Parts[k])
  /\ UNCHANGED <<partsUploaded, completed, mpuVars, carveVars, failed, broken, dead>>

(* CreateMPU answered for a stream: start carving it.                        *)
CreateReplyStream(k) ==
  /\ call[k] = "creating"
  /\ k \in Streams
  /\ call' = [call EXCEPT ![k] = "running"]
  /\ uploadObjects' = uploadObjects \cup {k}
  /\ carver' = [carver EXCEPT ![k] = "reading"]
  /\ UNCHANGED <<uploadActive, urr, recordVars, mpuVars, carvePool, bufWaiters,
                 freeLanes, failed, workerVars>>

-----------------------------------------------------------------------------
(* _carve.                                                                   *)

(* A chunk begins a new part, or a woken carver looks at the pool again.     *)
TakeBuffer(k) ==
  /\ carver[k] = "woken" \/ (carver[k] = "reading" /\ enqueued[k] < Parts[k])
  /\ Acquire(k)
  /\ UNCHANGED <<call, uploadObjects, uploadActive, urr, recordVars, mpuVars,
                 freeLanes, failed, workerVars>>

(* The buffer is full: queue it and go on reading.                           *)
PartFull(k) ==
  /\ carver[k] = "filling"
  /\ carver' = [carver EXCEPT ![k] = "reading"]
  /\ EnqueueUpTo(k, enqueued[k] + 1)
  /\ UNCHANGED <<call, uploadObjects, partsTotal, partsUploaded, completed, mpuVars,
                 carvePool, bufWaiters, failed, broken, dead>>

(* The source ends inside the last part: queue it as it is.                  *)
SourceEndsShort(k) ==
  /\ carver[k] = "filling"
  /\ enqueued[k] + 1 = Parts[k]
  /\ carver' = [carver EXCEPT ![k] = "done"]
  /\ EnqueueUpTo(k, Parts[k])
  /\ partsTotal' = [partsTotal EXCEPT ![k] = Parts[k]]
  /\ MaybeComplete(k, Parts[k], partsUploaded[k], completed[k])
  /\ UNCHANGED <<call, uploadObjects, partsUploaded, completed, aborted,
                 carvePool, bufWaiters, failed, broken, dead>>

(* It ends after a full part: the total is known now and the last answer may *)
(* have come already.                                                        *)
SourceEnds(k) ==
  /\ carver[k] = "reading"
  /\ enqueued[k] = Parts[k] /\ Parts[k] > 0
  /\ carver' = [carver EXCEPT ![k] = "done"]
  /\ partsTotal' = [partsTotal EXCEPT ![k] = Parts[k]]
  /\ MaybeComplete(k, Parts[k], partsUploaded[k], completed[k])
  /\ UNCHANGED <<call, uploadObjects, uploadActive, urr, enqueued, dispatched,
                 partsUploaded, completed, aborted, carvePool, bufWaiters,
                 freeLanes, failed, workerVars>>

(* It fails, or ends without a byte.  A buffer in hand is not given back.    *)
SourceFails(k) ==
  /\ carver[k] \in {"reading", "filling"}
  /\ carver' = [carver EXCEPT ![k] = IF @ = "filling" THEN "spilled" ELSE "stopped"]
  /\ Abort(k)
  /\ UNCHANGED <<uploadObjects, uploadActive, urr, recordVars, completing, requests,
                 carvePool, bufWaiters, freeLanes, failed, workerVars>>

-----------------------------------------------------------------------------
(* Messages of the workers, and the answer to CompleteMPU.                   *)

(* 'uploaded'.  The buffer of a carved part comes back with it.              *)
Uploaded(k, n, w) ==
  /\ <<k, n, w>> \in uploading
  /\ w \notin dead
  /\ IF k \in uploadObjects
     THEN /\ completed' = [completed EXCEPT ![k] = @ \cup {n}]
          /\ partsUploaded' = [partsUploaded EXCEPT ![k] = @ + 1]
          /\ IF k \in Streams THEN Release ELSE UNCHANGED carveVars
          /\ MaybeComplete(k, partsTotal[k], partsUploaded'[k], completed'[k])
     ELSE UNCHANGED <<completed, partsUploaded, carveVars, completing, requests>>
  /\ DispatchUpload(uploadActive, enqueued, uploading \ {<<k, n, w>>},
                    [freeLanes EXCEPT ![w] = @ + 1])
  /\ UNCHANGED <<call, uploadObjects, uploadActive, enqueued, partsTotal, aborted,
                 failed, broken, dead>>

(* _fail, once: uploads that are not being completed are rejected.           *)
FailRejects(k) ==
  ~failed /\ k \in uploadObjects /\ completing[k] = "no" /\ call[k] = "running"

Fail ==
  /\ failed' = TRUE
  /\ call' = [k \in Keys |-> IF FailRejects(k) THEN "rejected" ELSE call[k]]
  /\ UNCHANGED <<uploadObjects, uploadActive, urr, recordVars, mpuVars, carveVars,
                 freeLanes>>

(* 'error': neither the lane nor the buffer comes back.                      *)
PartFails(k, n, w) ==
  /\ <<k, n, w>> \in uploading
  /\ w \notin dead
  /\ uploading' = uploading \ {<<k, n, w>>}
  /\ broken' = broken \cup {<<k, n, w>>}
  /\ Fail
  /\ UNCHANGED dead

WorkerDies(w) ==
  /\ w \notin dead
  /\ dead' = dead \cup {w}
  /\ Fail
  /\ UNCHANGED <<uploading, broken>>

Settle(k, outcome) ==
  /\ completing[k] = "sent"
  /\ completing' = [completing EXCEPT ![k] = "answered"]
  /\ call' = [call EXCEPT ![k] = IF @ = "running" THEN outcome ELSE @]
  /\ UNCHANGED <<uploadActive, urr, recordVars, requests, aborted, carveVars,
                 freeLanes, failed, workerVars>>

CompleteReply(k) == Settle(k, "resolved") /\ uploadObjects' = uploadObjects \ {k}
CompleteFails(k) == Settle(k, "rejected") /\ UNCHANGED uploadObjects

(* resetScheduler() between iterations, when every upload has resolved.  The *)
(* carve pool and the workers are left alone.                                *)
Reset ==
  /\ Keys # {} /\ \A k \in Keys : call[k] = "resolved"
  /\ call' = [k \in Keys |-> "none"]
  /\ uploadObjects' = {}
  /\ uploadActive' = <<>>
  /\ urr' = 0
  /\ enqueued' = [k \in Keys |-> 0]
  /\ dispatched' = [k \in Keys |-> 0]
  /\ partsTotal' = [k \in Keys |-> 0]
  /\ partsUploaded' = [k \in Keys |-> 0]
  /\ completed' = [k \in Keys |-> {}]
  /\ completing' = [k \in Keys |-> "no"]
  /\ requests' = [k \in Keys |-> <<>>]
  /\ aborted' = [k \in Keys |-> FALSE]
  /\ carver' = [k \in Keys |-> "idle"]
  /\ freeLanes' = [w \in Workers |-> Concurrency]
  /\ UNCHANGED <<carvePool, bufWaiters, failed, workerVars>>

-----------------------------------------------------------------------------
Next ==
  \/ \E k \in Keys :
       \/ Call(k) \/ CreateFails(k) \/ SourceRefused(k)
       \/ CreateReply(k) \/ CreateReplyStream(k)
       \/ TakeBuffer(k) \/ PartFull(k) \/ SourceEndsShort(k) \/ SourceEnds(k)
       \/ SourceFails(k)
       \/ CompleteReply(k) \/ CompleteFails(k)
  \/ \E p \in uploading : \/ Uploaded(p[1], p[2], p[3])
                          \/ PartFails(p[1], p[2], p[3])
  \/ \E w \in Workers : WorkerDies(w)
  \/ Reset

Spec == Init /\ [][Next /\ UNCHANGED source]_<<source, vars>>

(* Requests settle and the event loop runs every callback: what the main     *)
(* thread sent is answered (by a part's worker unless its thread died), and  *)
(* a woken carver runs.                                                      *)
Fairness ==
  /\ \A k \in Keys :
       /\ WF_vars(\/ CreateFails(k) \/ SourceRefused(k)
                  \/ CreateReply(k) \/ CreateReplyStream(k))
       /\ WF_vars(carver[k] = "woken" /\ TakeBuffer(k))
       /\ WF_vars(CompleteReply(k) \/ CompleteFails(k))
  /\ \A k \in Keys : \A n \in 1 .. Parts[k] : \A w \in Workers :
       WF_vars(Uploaded(k, n, w) \/ PartFails(k, n, w))

FairSpec == Spec /\ Fairness

(* The stream given for k keeps yielding bytes until it ends or fails.       *)
Fed(k) ==
  WF_vars(\/ TakeBuffer(k) \/ PartFull(k)
          \/ SourceEndsShort(k) \/ SourceEnds(k) \/ SourceFails(k))

-----------------------------------------------------------------------------
(* Properties.                                                               *)

(* The parts, each with a worker that may have been given it.                *)
Assignments == {<<p[1], p[2], w>> : p \in AllParts, w \in Workers}

TypeOK ==
  /\ source \in Sources
  /\ call \in [Keys -> CallStates]
  /\ uploadObjects \subseteq Keys
  /\ uploadActive \in Seq(Keys)
  /\ urr \in Nat
  /\ enqueued \in [Keys -> Nat]
  /\ dispatched \in [Keys -> Nat]
  /\ partsTotal \in [Keys -> Nat]
  /\ partsUploaded \in [Keys -> Nat]
  /\ completed \in [Keys -> SUBSET Nat]
  /\ completing \in [Keys -> CompletingStates]
  /\ requests \in [Keys -> Seq(SUBSET Nat)]
  /\ aborted \in [Keys -> BOOLEAN]
  /\ carver \in [Keys -> CarverStates]
  /\ carvePool \in 0 .. Buffers
  /\ bufWaiters \in Seq(Keys)
  /\ freeLanes \in [Workers -> 0 .. Concurrency]
  /\ failed \in BOOLEAN
  /\ uploading \subseteq Assignments
  /\ broken \subseteq Assignments
  /\ dead \subseteq Workers

Outstanding == uploading \cup broken
OnWorker(w) == {p \in Outstanding : p[3] = w}
HoldersOf(k, n) == {w \in Workers : <<k, n, w>> \in Outstanding}

(* Each part is in exactly one place: with its source or in the queue, with  *)
(* one worker (and not both under way and failed there), or uploaded.        *)
PartsAccounted ==
  \A k \in Keys :
    /\ dispatched[k] <= enqueued[k] /\ enqueued[k] <= Parts[k]
    /\ \A n \in 1 .. Parts[k] :
         /\ n > dispatched[k] <=> n \notin completed[k] /\ HoldersOf(k, n) = {}
         /\ n \in completed[k] => HoldersOf(k, n) = {}
         /\ \A v, w \in HoldersOf(k, n) : v = w
         /\ \A w \in Workers : ~(<<k, n, w>> \in uploading /\ <<k, n, w>> \in broken)

(* The counters that decide when to dispatch and when to complete are what a *)
(* recount would give.                                                       *)
CountersMatch ==
  /\ \A w \in Workers : freeLanes[w] = Concurrency - Cardinality(OnWorker(w))
  /\ \A k \in Keys : partsUploaded[k] = Cardinality(completed[k])

(* Each carve buffer is in the pool, with a carver, with a part that is not  *)
(* uploaded, or with a carver whose source failed: the pool neither leaks    *)
(* nor grows however carvers, answers and failures interleave.               *)
BuffersAccounted ==
  carvePool + Cardinality({k \in Keys : carver[k] \in {"filling", "spilled"}})
            + Cardinality({p \in AllParts : /\ p[1] \in Streams
                                            /\ p[2] <= enqueued[p[1]]
                                            /\ p[2] \notin completed[p[1]]}) = Buffers

(* An answer always finds its record, so that its buffer goes back to the    *)
(* pool.                                                                     *)
RecordOutlivesParts == \A p \in Outstanding : p[1] \in uploadObjects

(* Each part and each buffer is in one place, what main counts is what is    *)
(* there, and a part under way still has its record.                         *)
Accounting ==
  TypeOK /\ PartsAccounted /\ CountersMatch /\ BuffersAccounted /\ RecordOutlivesParts

(* No lost wakeup: while carvers wait there are no more buffers in the pool  *)
(* than woken carvers on their way to them, although another carver may take *)
(* the buffer that one of them was woken for.                                *)
NoLostWakeup ==
  bufWaiters # <<>> => carvePool <= Cardinality({k \in Keys : carver[k] = "woken"})

(* CompleteMPU is sent at most once, with every part and not before the last *)
(* was uploaded, and never for an upload that is aborted; a call resolves    *)
(* only after it.                                                            *)
CompleteOnce ==
  \A k \in Keys :
    /\ requests[k] # <<>> => requests[k] = <<1 .. Parts[k]>> /\ ~aborted[k]
    /\ requests[k] # <<>> => completed[k] = 1 .. Parts[k]
    /\ call[k] = "resolved" => requests[k] # <<>>

(* An upload whose stream is fed (the others may stall with a buffer in      *)
(* hand) is settled, unless the pool has failed or a failed source has taken *)
(* a buffer with it.  (That of an empty file never is.)                      *)
UploadSettles ==
  \A k \in {j \in Keys : Parts[j] > 0} : Fed(k) =>
    (call[k] \in {"creating", "running"}
       ~> \/ call[k] \in {"resolved", "rejected"}
          \/ failed
          \/ \E j \in Keys : carver[j] = "spilled")
=============================================================================
