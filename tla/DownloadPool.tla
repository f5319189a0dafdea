---------------------------- MODULE DownloadPool ----------------------------
(***************************************************************************)
(* The life of a download manager with its workers, from the threads being *)
(* spawned to close(): in file mode, where each worker writes its ranges   *)
(* to disk and download() resolves when all are written, and in stream     *)
(* mode, where what StreamDownload is about is left out: a body is read as *)
(* fast as its parts arrive and is complete with the last of them, and the *)
(* backlog stays below the cap.  The manager is driven as benchmark.js     *)
(* drives it: iterations of download() for every object, then close(),     *)
(* which also follows (in a `finally') the first of them to reject.        *)
(***************************************************************************)
EXTENDS DispatchWorker, Lanes, RoundRobin

CONSTANTS
  Keys,         \* the objects of the batch
  Parts,        \* Parts[k]: how many ranges object k has
  Concurrency,  \* lanes per worker
  Chunks,       \* how many writes put a range on disk, 0 with fileDiscard
  RRModulus,    \* rr is kept modulo a multiple of every length of active
  Modes         \* the delivery modes that are explored

AllParts == UNION {{k} \X (1 .. Parts[k]) : k \in Keys}

ASSUME KeysAssumption == IsFiniteSet(Keys) /\ Parts \in [Keys -> Nat \ {0}]
ASSUME LanesAssumption == Concurrency \in Nat \ {0}
ASSUME ChunksAssumption == Chunks \in Nat
ASSUME ModulusAssumption == RRModulus \in Nat \ {0}
ASSUME ModesAssumption == Modes \subseteq {"file", "ordered-stream"}

VARIABLES
  call,           \* download() of each key, and the promise or body it gave
  objects,        \* keys of this.objects
  active, rr,
  cursor,         \* obj.cursor
  arrived,        \* parts of k that were answered (obj.written in file mode)
  freeLanes, totalInFlight, deliveredCount,
  failed,         \* this._failed
  crashed,        \* an exception in a message handler ended the process
  closing,        \* where close() has got to
  workerDone,     \* this._workerDone
  wrote           \* wrote[p]: chunks of p on disk

batchVars == <<call, objects, active, rr, cursor, arrived>>
laneVars == <<freeLanes, totalInFlight, deliveredCount>>
mainVars == <<batchVars, laneVars, failed, crashed, closing, workerDone>>
vars == <<workerVars, mainVars, wrote>>

(* `running': registered, and neither resolved (all written, or the body     *)
(* read to its end) nor rejected (or the body destroyed).                    *)
CallStates == {"none", "head", "running", "resolved", "rejected"}

(* `late' is `stopping' when the pool had failed before close() was called;  *)
(* `stopped' is _closePromise resolved, `closed' the threads terminated.     *)
ClosingStates == {"no", "stopping", "late", "stopped", "closed"}

Init ==
  /\ WorkerInit
  /\ deliveryMode \in Modes
  /\ call = [k \in Keys |-> "none"]
  /\ objects = {}
  /\ active = <<>>
  /\ rr = 0
  /\ cursor = [k \in Keys |-> 0]
  /\ arrived = [k \in Keys |-> 0]
  /\ freeLanes = [w \in Workers |-> Concurrency]
  /\ totalInFlight = 0
  /\ deliveredCount = 0
  /\ failed = FALSE
  /\ crashed = FALSE
  /\ closing = "no"
  /\ workerDone = 0
  /\ wrote = [p \in AllParts |-> 0]

-----------------------------------------------------------------------------
(* _dispatchMore with _nextPart: the waiting parts in the order in which the *)
(* round robin meets them.                                                   *)

Waiting(order) ==
  {p \in AllParts : p[2] > cursor[p[1]] /\ \E i \in 1 .. Len(order) : order[i] = p[1]}

Earlier(order, p) ==
  {q \in Waiting(order) : Look(order, rr, cursor, q) < Look(order, rr, cursor, p)}

(* From the values its caller left.  A loop that ran out of parts has made a *)
(* fruitless round.                                                          *)
DispatchMore(order, free, flying) ==
  LET count    == Cardinality(Waiting(order))
      turns    == [i \in 1 .. count |->
                     CHOOSE p \in Waiting(order) : Cardinality(Earlier(order, p)) = i - 1]
      placed   == Placed(free, count)
      gone     == {turns[i] : i \in 1 .. placed}
      assigns  == [i \in 1 .. count |-> <<"assign", turns[i]>>]
      given    == [w \in Workers |-> Shares(free, assigns, w)]
      looks    == CHOOSE n \in Looks(order, rr, cursor, gone) : TRUE
      dry      == placed < Cardinality(Vacant(free))
  IN /\ inbox' = [w \in Workers |-> inbox[w] \o given[w]]
     /\ freeLanes' = [w \in Workers |-> free[w] - Len(given[w])]
     /\ totalInFlight' = flying + placed
     /\ cursor' = [k \in Keys |-> cursor[k] + Cardinality({p \in gone : p[1] = k})]
     /\ rr' = (rr + looks + IF dry THEN Len(order) ELSE 0) % RRModulus

-----------------------------------------------------------------------------
(* download().                                                               *)

Call(k) ==
  /\ ~crashed /\ closing = "no" /\ call[k] = "none"
  /\ call' = [call EXCEPT ![k] = IF failed THEN "rejected" ELSE "head"]
  /\ UNCHANGED <<inbox, outbox, objects, active, rr, cursor, arrived, laneVars, failed,
                 crashed, closing, workerDone, workerStateVars, dead, wrote>>

HeadFails(k) ==
  /\ ~crashed /\ call[k] = "head"
  /\ call' = [call EXCEPT ![k] = "rejected"]
  /\ UNCHANGED <<inbox, outbox, objects, active, rr, cursor, arrived, laneVars, failed,
                 crashed, closing, workerDone, workerStateVars, dead, wrote>>

HeadReply(k) ==
  /\ ~crashed /\ call[k] = "head"
  /\ call' = [call EXCEPT ![k] = "running"]
  /\ objects' = objects \cup {k}
  /\ active' = Append(active, k)
  /\ DispatchMore(active', freeLanes, totalInFlight)
  /\ UNCHANGED <<outbox, arrived, deliveredCount, failed, crashed, closing, workerDone,
                 workerStateVars, dead, wrote>>

-----------------------------------------------------------------------------
(* Messages of the workers.                                                  *)

Receives(w, type) == ~crashed /\ outbox[w] # <<>> /\ Head(outbox[w])[1] = type
Dequeue(w) == outbox' = [outbox EXCEPT ![w] = Tail(@)]

(* 'ready' only counts (ready() is not needed to download).                  *)
WorkerReady(w) ==
  /\ Receives(w, "ready")
  /\ Dequeue(w)
  /\ UNCHANGED <<inbox, workerStateVars, dead, mainVars, wrote>>

CompleteEarly(k, count) == call[k] = "running" /\ count + 1 >= Parts[k]
Complete(k, count) == call[k] = "running" /\ count >= Parts[k]

KeepLane(w) == freeLanes
FreeLane(w) == [freeLanes EXCEPT ![w] = @ + 1]

(* 'part-downloaded', and 'part' with the reading of the body.               *)
PartArrives(w) ==
  /\ Receives(w, "part")
  /\ LET k == Head(outbox[w])[2][1]
     IN /\ deliveredCount' = deliveredCount + 1
        /\ IF k \in objects
           THEN /\ arrived' = [arrived EXCEPT ![k] = @ + 1]
                /\ call' = [call EXCEPT ![k] = IF Complete(k, arrived'[k]) THEN "resolved" ELSE @]
                /\ objects' = IF deliveryMode = "file" /\ Complete(k, arrived'[k])
                              THEN objects \ {k} ELSE objects
           ELSE UNCHANGED <<arrived, call, objects>>
        /\ DispatchMore(active, FreeLane(w), totalInFlight - 1)
  /\ Dequeue(w)
  /\ UNCHANGED <<active, failed, crashed, closing, workerDone, workerStateVars, dead, wrote>>

(* _closeResolve runs when the last report has come.                         *)
AllReportedEarly(count) == count > 0
AllReported(count) == count = NWorkers

WorkerDone(w) ==
  /\ Receives(w, "worker-done")
  /\ workerDone' = workerDone + 1
  /\ closing' = IF AllReported(workerDone') /\ closing \in {"stopping", "late"}
                THEN "stopped" ELSE closing
  /\ Dequeue(w)
  /\ UNCHANGED <<inbox, batchVars, laneVars, failed, crashed, workerStateVars, dead, wrote>>

(* _fail.  A record of file mode has no `readable': destroying it throws in  *)
(* a message handler, and the process ends with all its threads.             *)
FailForgetsClose(state) == state
FailCloses(state) == IF state = "stopping" THEN "stopped" ELSE state

Fail ==
  IF failed THEN UNCHANGED <<call, failed, crashed, closing, dead>>
  ELSE /\ failed' = TRUE
       /\ IF deliveryMode = "file" /\ objects # {}
          THEN crashed' = TRUE /\ dead' = Workers /\ UNCHANGED <<call, closing>>
          ELSE /\ call' = [k \in Keys |-> IF k \in objects /\ call[k] = "running"
                                          THEN "rejected" ELSE call[k]]
               /\ closing' = FailCloses(closing)
               /\ UNCHANGED <<crashed, dead>>

(* 'error', or the thread exits with a code (1 when it is terminated).       *)
WorkerFailed(w) ==
  /\ Receives(w, "error") \/ Receives(w, "exit")
  /\ Fail
  /\ Dequeue(w)
  /\ UNCHANGED <<inbox, objects, active, rr, cursor, arrived, laneVars, workerDone,
                 workerStateVars, wrote>>

-----------------------------------------------------------------------------
(* close().                                                                  *)

Settled(k) == call[k] \in {"resolved", "rejected"}

Close ==
  /\ ~crashed /\ closing = "no"
  /\ (\A k \in Keys : Settled(k)) \/ \E k \in Keys : call[k] = "rejected"
  /\ closing' = IF failed THEN "late" ELSE "stopping"
  /\ inbox' = [w \in Workers |-> Append(inbox[w], <<"stop">>)]
  /\ UNCHANGED <<outbox, batchVars, laneVars, failed, crashed, workerDone, workerStateVars,
                 dead, wrote>>

(* _closePromise has resolved: terminate every thread.                       *)
Terminate ==
  /\ ~crashed /\ closing = "stopped"
  /\ closing' = "closed"
  /\ dead' = Workers
  /\ outbox' = [w \in Workers |-> IF w \in dead THEN outbox[w] ELSE Append(outbox[w], <<"exit">>)]
  /\ UNCHANGED <<inbox, workerStateVars, batchVars, laneVars, failed, crashed, workerDone, wrote>>

(* resetScheduler() at the start of the next iteration.                      *)
Reset ==
  /\ ~crashed /\ closing = "no" /\ Keys # {} /\ \A k \in Keys : call[k] = "resolved"
  /\ call' = [k \in Keys |-> "none"]
  /\ objects' = {}
  /\ active' = <<>>
  /\ rr' = 0
  /\ cursor' = [k \in Keys |-> 0]
  /\ arrived' = [k \in Keys |-> 0]
  /\ freeLanes' = [w \in Workers |-> Concurrency]
  /\ totalInFlight' = 0
  /\ deliveredCount' = 0
  /\ UNCHANGED <<workerVars, failed, crashed, closing, workerDone, wrote>>

-----------------------------------------------------------------------------
(* The writer of file mode.                                                  *)

(* writeRangeToFile: one write of a range, the first of them when the range  *)
(* is downloaded.  Every range goes to its own offset.                       *)
WriteChunk(w, p) ==
  /\ deliveryMode = "file"
  /\ w \notin dead /\ p \in running[w]
  /\ wrote[p] < Chunks
  /\ wrote' = [wrote EXCEPT ![p] = @ + 1]
  /\ UNCHANGED <<workerVars, mainVars>>

(* A range is answered when it is written.                                   *)
Answers(p) == deliveryMode = "file" => wrote[p] = Chunks

RangeDone(w, p) ==
  /\ Answers(p)
  /\ PartDone(w, p)
  /\ UNCHANGED <<mainVars, wrote>>

(* wrote[p] counts anew for each assignment of p.                            *)
RangeAssigned(w) ==
  /\ Assigned(w)
  /\ wrote' = [wrote EXCEPT ![Head(inbox[w])[2]] = 0]
  /\ UNCHANGED mainVars

(* The other steps are those of DispatchWorker.                              *)
Plain(step) == step /\ UNCHANGED <<mainVars, wrote>>

RangeStep(w) ==
  \/ RangeAssigned(w)
  \/ \E p \in running[w] : WriteChunk(w, p) \/ RangeDone(w, p) \/ Plain(PartFails(w, p))
  \/ Plain(Ready(w)) \/ Plain(Stopped(w)) \/ Plain(PostDone(w))

Handled(w) == WorkerReady(w) \/ PartArrives(w) \/ WorkerDone(w) \/ WorkerFailed(w)

Next ==
  \/ \E k \in Keys : Call(k) \/ HeadReply(k) \/ HeadFails(k)
  \/ \E w \in Workers : Handled(w) \/ RangeStep(w) \/ Plain(Dies(w))
  \/ Close \/ Terminate \/ Reset

Spec == Init /\ [][Next]_vars

(* Requests settle and every thread's event loop handles its messages; a     *)
(* write returns.  Whether close() is called is up to the caller.            *)
Fairness ==
  /\ \A k \in Keys : WF_vars(HeadReply(k) \/ HeadFails(k))
  /\ \A w \in Workers : WF_vars(Handled(w)) /\ WF_vars(RangeStep(w))
  /\ WF_vars(Terminate)

FairSpec == Spec /\ Fairness

-----------------------------------------------------------------------------
(* Properties.                                                               *)

TypeOK ==
  /\ deliveryMode \in Modes
  /\ up \subseteq Workers
  /\ dead \subseteq Workers
  /\ \A w \in Workers : Outstanding(w) \subseteq AllParts
  /\ heldChunks = [w \in Workers |-> {}]
  /\ dispatchInFlight \in [Workers -> 0 .. Concurrency]
  /\ dispatchStopped \in [Workers -> BOOLEAN]
  /\ doneEmitted \in [Workers -> DoneStates]
  /\ call \in [Keys -> CallStates]
  /\ objects \subseteq Keys
  /\ active \in Seq(Keys)
  /\ rr \in 0 .. RRModulus - 1
  /\ cursor \in [Keys -> Nat]
  /\ arrived \in [Keys -> Nat]
  /\ freeLanes \in [Workers -> 0 .. Concurrency]
  /\ totalInFlight \in 0 .. NWorkers * Concurrency
  /\ deliveredCount \in 0 .. Cardinality(AllParts)
  /\ failed \in BOOLEAN
  /\ crashed \in BOOLEAN
  /\ closing \in ClosingStates
  /\ workerDone \in 0 .. NWorkers
  /\ wrote \in [AllParts -> 0 .. Chunks]

Owners(p) == {w \in Workers : p \in Outstanding(w)}

(* Of the ranges of an object that were handed out, each is outstanding at   *)
(* one worker or was answered, and no other range is anywhere.               *)
PartsAccounted ==
  /\ \A p \in AllParts : /\ Cardinality(Owners(p)) <= 1
                         /\ Owners(p) # {} => p[2] <= cursor[p[1]]
  /\ \A k \in Keys :
       cursor[k] = arrived[k] + Cardinality({p \in AllParts : p[1] = k /\ Owners(p) # {}})

(* Main and the workers agree on what is in flight, through stop, failures   *)
(* and resets: a lane is taken exactly while a part is outstanding, and what *)
(* a worker waits for before it reports is what it has started.              *)
CountersMatch ==
  /\ totalInFlight = Cardinality({p \in AllParts : Owners(p) # {}})
  /\ \A w \in Workers :
       /\ freeLanes[w] = Concurrency - Cardinality(Outstanding(w))
       /\ dispatchInFlight[w] = Cardinality(running[w] \cup broken[w])

(* Each range is in one place, and both threads count what is there.         *)
Accounting == TypeOK /\ PartsAccounted /\ CountersMatch

(* download() in file mode resolves when every range is on disk, whichever   *)
(* worker wrote it and in whatever order the answers came.                   *)
ResolvedIsWritten ==
  deliveryMode = "file" =>
    \A k \in Keys : call[k] = "resolved" => \A n \in 1 .. Parts[k] : wrote[<<k, n>>] = Chunks

(* Unless something failed, close() goes on only with the report of every    *)
(* worker; when all downloads have resolved nothing is outstanding then, so  *)
(* that terminating the threads loses nothing.                               *)
ReportsComplete ==
  closing = "stopped" /\ ~failed =>
    /\ \A w \in Workers : doneEmitted[w] = "posted" /\ ~Holds(outbox[w], "worker-done")
    /\ (\A k \in Keys : call[k] = "resolved") =>
         /\ \A w \in Workers : Outstanding(w) = {}
         /\ deliveredCount = Cardinality(AllParts)

(* close() settles when the pool had not failed before it: later failures    *)
(* end the wait, and parts that are still handed out to stopped workers do   *)
(* not prolong it for ever.                                                  *)
TimelyCloseSettles == closing = "stopping" ~> closing = "closed" \/ crashed

(* A download is settled unless the pool fails.                              *)
DownloadSettles ==
  \A k \in Keys : call[k] \in {"head", "running"} ~> Settled(k) \/ failed

(* "partRetries attempts before the run fails" (README.md:722): a run whose  *)
(* download has failed gets through the close() of its `finally'.            *)
LateCloseSettles == closing = "late" ~> closing = "closed" \/ crashed
=============================================================================
