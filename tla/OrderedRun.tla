----------------------------- MODULE OrderedRun -----------------------------
(***************************************************************************)
(* runOrdered of benchmark.js: one iteration over a fixed list of parts,   *)
(* handed out in one queue ordered by part number.  With the sink of       *)
(* ordered-drop the bytes stay in the workers and main delivers metadata;  *)
(* with that of ordered-stream each object has a Readable that is piped to *)
(* a Writable.  Main and the workers are composed through their message    *)
(* queues: each action is one handler of one thread.                       *)
(***************************************************************************)
EXTENDS DispatchWorker, Lanes

CONSTANTS
  NKeys,        \* how many objects; they are numbered as their names sort
  Parts,        \* Parts[k]: how many parts object k has
  Concurrency,  \* lanes per worker
  Cap,          \* maxBufferedBytes, in parts
  Hwm,          \* streamHwm, in parts
  Sinks         \* the delivery modes that are explored

Keys == 1 .. NKeys
AllParts == UNION {{k} \X (1 .. Parts[k]) : k \in Keys}
TotalParts == Cardinality(AllParts)

ASSUME ObjectsAssumption == NKeys \in Nat /\ Parts \in [Keys -> Nat \ {0}]
ASSUME LanesAssumption == Concurrency \in Nat \ {0} /\ NWorkers <= TotalParts
ASSUME BudgetAssumption == Cap \in Nat \ {0} /\ Hwm \in Nat \ {0}
ASSUME SinksAssumption == Sinks \subseteq {"ordered-drop", "ordered-stream"}

VARIABLES
  readyCount, queueIndex, freeLanes, totalInFlight, bufferedBytes,
  heldMeta,       \* <<key, part, worker>>: arrived and not delivered
  nextByKey,      \* 1 when the map has no entry
  deliveredCount,
  deliveryDone, workerDone,
  paused,         \* streams[k].paused
  queued,         \* chunks in the Readable of k
  finished,       \* objects whose sink has finished
  outcome         \* of the promise

mainVars == <<readyCount, queueIndex, freeLanes, totalInFlight, bufferedBytes, heldMeta,
              nextByKey, deliveredCount, deliveryDone, workerDone, paused, queued,
              finished, outcome>>
vars == <<workerVars, mainVars>>

Init ==
  /\ WorkerInit
  /\ deliveryMode \in Sinks
  /\ readyCount = 0
  /\ queueIndex = 0
  /\ freeLanes = [w \in Workers |-> Concurrency]
  /\ totalInFlight = 0
  /\ bufferedBytes = 0
  /\ heldMeta = {}
  /\ nextByKey = [k \in Keys |-> 1]
  /\ deliveredCount = 0
  /\ deliveryDone = FALSE
  /\ workerDone = 0
  /\ paused = [k \in Keys |-> FALSE]
  /\ queued = [k \in Keys |-> 0]
  /\ finished = {}
  /\ outcome = "running"

-----------------------------------------------------------------------------
(* The queue and its dispatch.                                               *)

(* Parts sorted by number, then key: how many stand before p.                *)
Position(p) ==
  Cardinality({q \in AllParts : q[2] < p[2] \/ (q[2] = p[2] /\ q[1] < p[1])})
QueueAt(i) == CHOOSE p \in AllParts : Position(p) = i

(* How many parts dispatchMore hands out: as many as there are free lanes    *)
(* while the backlog is below the cap, else one if nothing is in flight.     *)
AllowanceUncapped(flying, backlog) == TotalParts - queueIndex
Allowance(flying, backlog) ==
  IF backlog < Cap THEN TotalParts - queueIndex
  ELSE IF flying = 0 /\ queueIndex < TotalParts THEN 1 ELSE 0

(* The messages for the next n parts of the queue.                           *)
NextParts(n) == [i \in 1 .. n |-> <<"assign", QueueAt(queueIndex + i - 1)>>]

(* dispatchMore, from the values its caller left; posts[w] is what the       *)
(* caller has already posted to w.                                           *)
DispatchMore(free, flying, backlog, posts) ==
  LET allowed == Allowance(flying, backlog)
      given   == [w \in Workers |-> Shares(free, NextParts(allowed), w)]
  IN /\ inbox' = [w \in Workers |-> inbox[w] \o posts[w] \o given[w]]
     /\ freeLanes' = [w \in Workers |-> free[w] - Len(given[w])]
     /\ totalInFlight' = flying + Placed(free, allowed)
     /\ queueIndex' = queueIndex + Placed(free, allowed)

NoPosts == [w \in Workers |-> <<>>]
StopAll == [w \in Workers |-> <<<<"stop">>>>]

-----------------------------------------------------------------------------
(* drainKey.                                                                 *)

Has(h, k, n) == \E w \in Workers : <<k, n, w>> \in h

(* drainKeyStream on m parts, of which the flowing, empty Readable passed    *)
(* the first `direct' to its sink: see StreamDownload.                       *)
Refuses(k, direct, m) == m > direct /\ queued[k] + m - direct >= Hwm

(* How many parts of h a drain of k delivers.                                *)
Delivers(k, h, stopped, direct, m) ==
  /\ direct <= m
  /\ \A i \in 0 .. m - 1 : Has(h, k, nextByKey[k] + i)
  /\ IF deliveryMode = "ordered-drop"
     THEN direct = 0 /\ ~Has(h, k, nextByKey[k] + m)
     ELSE IF stopped
     THEN m = 0
     ELSE /\ direct > 0 => queued[k] = 0
          /\ \A j \in direct .. m - 1 : ~Refuses(k, direct, j)
          /\ ~Has(h, k, nextByKey[k] + m) \/ Refuses(k, direct, m)

(* The numbers of a set in their order.                                      *)
Ascending(S) ==
  [j \in 1 .. Cardinality(S) |-> CHOOSE i \in S : Cardinality({h \in S : h < i}) = j - 1]

(* The releases posted to each owner, in the order of delivery.              *)
ReleasesFirst(k, h, m) ==
  [w \in Workers |->
     IF m > 0 /\ <<k, nextByKey[k], w>> \in h
     THEN <<<<"release", <<k, nextByKey[k]>>>>>> ELSE <<>>]
Releases(k, h, m) ==
  [w \in Workers |->
     LET mine == Ascending({i \in nextByKey[k] .. nextByKey[k] + m - 1 : <<k, i, w>> \in h})
     IN [j \in 1 .. Len(mine) |-> <<"release", <<k, mine[j]>>>>]]

(* Delivery in ordered-drop ends with the last part.                         *)
LastDelivered(count) == count = TotalParts

Unhold(k, h, m) == {p \in h : p[1] # k \/ p[2] >= nextByKey[k] + m}

(* drainKey(k), and the dispatchMore that follows it everywhere.             *)
DrainAndDispatch(k, h, backlog, stopped, free, flying, took) ==
  \E m, direct \in 0 .. Parts[k] :
    /\ Delivers(k, h, stopped, direct, m)
    /\ heldMeta' = Unhold(k, h, m)
    /\ bufferedBytes' = backlog - m
    /\ deliveredCount' = deliveredCount + m
    /\ nextByKey' = [nextByKey EXCEPT ![k] = @ + m]
    /\ IF deliveryMode = "ordered-drop"
       THEN /\ deliveryDone' = LastDelivered(deliveredCount + m)
            /\ DispatchMore(free, flying, backlog - m,
                 [w \in Workers |-> Releases(k, h, m)[w]
                                    \o (IF deliveryDone' THEN StopAll[w] ELSE <<>>)])
            /\ UNCHANGED <<paused, queued>>
       ELSE /\ paused' = [paused EXCEPT ![k] = stopped \/ Refuses(k, direct, m)]
            /\ queued' = [queued EXCEPT ![k] = @ + m - direct - took]
            /\ DispatchMore(free, flying, backlog - m, NoPosts)
            /\ UNCHANGED deliveryDone

-----------------------------------------------------------------------------
(* Messages of the workers.                                                  *)

(* Once the promise is settled, messages that still come change nothing.     *)
Receives(w, type) ==
  outcome = "running" /\ outbox[w] # <<>> /\ Head(outbox[w])[1] = type
Dequeue(w) == outbox' = [outbox EXCEPT ![w] = Tail(@)]

(* 'ready': the last one starts the dispatch.                                *)
WorkerReady(w) ==
  /\ Receives(w, "ready")
  /\ readyCount' = readyCount + 1
  /\ IF readyCount' = NWorkers
     THEN DispatchMore(freeLanes, totalInFlight, bufferedBytes, NoPosts)
     ELSE UNCHANGED <<inbox, freeLanes, totalInFlight, queueIndex>>
  /\ Dequeue(w)
  /\ UNCHANGED <<workerStateVars, dead, bufferedBytes, heldMeta, nextByKey,
                 deliveredCount, deliveryDone, workerDone, paused, queued, finished, outcome>>

(* 'part-ready' or 'part'.                                                   *)
PartReady(w) ==
  /\ Receives(w, "part")
  /\ LET p == Head(outbox[w])[2]
     IN DrainAndDispatch(p[1], heldMeta \cup {<<p[1], p[2], w>>}, bufferedBytes + 1,
                         paused[p[1]], [freeLanes EXCEPT ![w] = @ + 1],
                         totalInFlight - 1, 0)
  /\ Dequeue(w)
  /\ UNCHANGED <<workerStateVars, dead, readyCount, workerDone, finished, outcome>>

(* Settling the promise calls cleanup(), which terminates the threads.       *)
Settle(result) ==
  /\ outcome' = result
  /\ dead' = IF result = "running" THEN dead ELSE Workers

(* maybeResolve.                                                             *)
ResolvesEarly(done, count) == done
Resolves(done, count) == done /\ count = NWorkers
MaybeResolve(done, count) == Settle(IF Resolves(done, count) THEN "resolved" ELSE outcome)

WorkerDone(w) ==
  /\ Receives(w, "worker-done")
  /\ workerDone' = workerDone + 1
  /\ MaybeResolve(deliveryDone, workerDone')
  /\ Dequeue(w)
  /\ UNCHANGED <<inbox, workerStateVars, readyCount, queueIndex, freeLanes,
                 totalInFlight, bufferedBytes, heldMeta, nextByKey, deliveredCount,
                 deliveryDone, paused, queued, finished>>

(* 'error', or the thread has died: fail.                                    *)
WorkerFailed(w) ==
  /\ Receives(w, "error") \/ Receives(w, "exit")
  /\ Settle("failed")
  /\ Dequeue(w)
  /\ UNCHANGED <<inbox, workerStateVars, readyCount, queueIndex, freeLanes,
                 totalInFlight, bufferedBytes, heldMeta, nextByKey, deliveredCount,
                 deliveryDone, workerDone, paused, queued, finished>>

-----------------------------------------------------------------------------
(* The consumer of ordered-stream: a sink that always takes more, slowly.    *)

Ended(k) == nextByKey[k] > Parts[k]

(* The pipe takes a chunk.  The Readable calls read() first, while the chunk *)
(* still counts, unless EOF has been pushed.                                 *)
SinkTakes(k) ==
  /\ outcome = "running"
  /\ queued[k] > 0
  /\ IF paused[k] /\ ~Ended(k) /\ queued[k] - 1 < Hwm
     THEN DrainAndDispatch(k, heldMeta, bufferedBytes, FALSE, freeLanes, totalInFlight, 1)
     ELSE /\ queued' = [queued EXCEPT ![k] = @ - 1]
          /\ UNCHANGED <<inbox, queueIndex, freeLanes, totalInFlight, bufferedBytes,
                         heldMeta, nextByKey, deliveredCount, deliveryDone, paused>>
  /\ UNCHANGED <<outbox, workerStateVars, dead, readyCount, workerDone, finished,
                 outcome>>

(* 'finish' of the sink: the last one stops the workers (so that the call of *)
(* maybeResolve which follows finds none done).                              *)
SinkFinishes(k) ==
  /\ outcome = "running" /\ deliveryMode = "ordered-stream"
  /\ Ended(k) /\ queued[k] = 0 /\ k \notin finished
  /\ finished' = finished \cup {k}
  /\ deliveryDone' = (finished' = Keys)
  /\ inbox' = [w \in Workers |-> IF deliveryDone' THEN Append(inbox[w], <<"stop">>) ELSE inbox[w]]
  /\ MaybeResolve(deliveryDone', workerDone)
  /\ UNCHANGED <<outbox, workerStateVars, readyCount, queueIndex, freeLanes,
                 totalInFlight, bufferedBytes, heldMeta, nextByKey, deliveredCount,
                 workerDone, paused, queued>>

-----------------------------------------------------------------------------
Next ==
  \/ \E w \in Workers :
       \/ WorkerReady(w) \/ PartReady(w) \/ WorkerDone(w) \/ WorkerFailed(w)
       \/ WorkerStep(w) /\ UNCHANGED mainVars
       \/ Dies(w) /\ UNCHANGED mainVars
  \/ \E k \in Keys : SinkTakes(k) \/ SinkFinishes(k)

Spec == Init /\ [][Next]_vars

(* Every thread goes on as long as it has something to do: its event loop    *)
(* handles the messages, a fetch settles (withStallRetry gives up in the     *)
(* end), the sinks call back.  Nothing obliges a thread to die.              *)
Fairness ==
  /\ \A w \in Workers :
       /\ WF_vars(WorkerReady(w) \/ PartReady(w) \/ WorkerDone(w) \/ WorkerFailed(w))
       /\ WF_vars(WorkerStep(w) /\ UNCHANGED mainVars)
  /\ \A k \in Keys : WF_vars(SinkTakes(k) \/ SinkFinishes(k))

FairSpec == Spec /\ Fairness

-----------------------------------------------------------------------------
(* Properties.                                                               *)

TypeOK ==
  /\ deliveryMode \in Sinks
  /\ \A w \in Workers :
       /\ Sent(inbox[w], "assign") \cup Sent(inbox[w], "release") \subseteq AllParts
       /\ Sent(outbox[w], "part") \subseteq AllParts
  /\ up \subseteq Workers
  /\ dead \subseteq Workers
  /\ running \in [Workers -> SUBSET AllParts]
  /\ broken \in [Workers -> SUBSET AllParts]
  /\ heldChunks \in [Workers -> SUBSET AllParts]
  /\ dispatchInFlight \in [Workers -> 0 .. Concurrency]
  /\ dispatchStopped \in [Workers -> BOOLEAN]
  /\ doneEmitted \in [Workers -> DoneStates]
  /\ readyCount \in 0 .. NWorkers
  /\ queueIndex \in 0 .. TotalParts
  /\ freeLanes \in [Workers -> 0 .. Concurrency]
  /\ totalInFlight \in 0 .. NWorkers * Concurrency
  /\ bufferedBytes \in 0 .. TotalParts
  /\ heldMeta \subseteq {<<p[1], p[2], w>> : p \in AllParts, w \in Workers}
  /\ nextByKey \in [Keys -> Nat]
  /\ deliveredCount \in 0 .. TotalParts
  /\ deliveryDone \in BOOLEAN
  /\ workerDone \in 0 .. NWorkers
  /\ paused \in [Keys -> BOOLEAN]
  /\ queued \in [Keys -> Nat]
  /\ finished \subseteq Keys
  /\ outcome \in {"running", "resolved", "failed"}

Delivered(p) == p[2] < nextByKey[p[1]]
Owners(p) == {w \in Workers : p \in Outstanding(w)}

(* Each part is in exactly one place, across both threads and the messages   *)
(* between them: still in the queue, outstanding at one worker, held for one *)
(* worker, or delivered.                                                     *)
PartsAccounted ==
  \A p \in AllParts :
    Cardinality({w \in Workers : p \in Outstanding(w)})
      + Cardinality({w \in Workers : <<p[1], p[2], w>> \in heldMeta})
      + (IF Position(p) >= queueIndex THEN 1 ELSE 0)
      + (IF Delivered(p) THEN 1 ELSE 0) = 1

(* What main throttles on, and what the worker decides to be done on, is     *)
(* what a recount would give.                                                *)
CountersMatch ==
  /\ bufferedBytes = Cardinality(heldMeta)
  /\ totalInFlight = Cardinality({p \in AllParts : Owners(p) # {}})
  /\ deliveredCount = Cardinality({p \in AllParts : Delivered(p)})
  /\ \A w \in Workers :
       /\ freeLanes[w] = Concurrency - Cardinality(Outstanding(w))
       /\ dispatchInFlight[w] = Cardinality(running[w] \cup broken[w])

(* Each part is in one place, and both threads count what is there.          *)
Accounting == TypeOK /\ PartsAccounted /\ CountersMatch

(* Beyond the cap plus one load of the lanes, and whenever nothing is in     *)
(* flight, all that is held waits for a consumer: "it always fetches the     *)
(* lowest-needed parts", so that what others wait for is on its way.         *)
(* With the sink of ordered-drop nothing does, so that the exemption for an  *)
(* empty pool never exceeds the cap.                                         *)
BacklogBounded ==
  totalInFlight = 0 \/ bufferedBytes + totalInFlight >= Cap + NWorkers * Concurrency
    => \A h \in heldMeta : paused[h[1]]

(* Worker memory: a worker keeps the bytes of a part from its answer until   *)
(* it handles the release that the delivery posted, and no longer.           *)
MemoryFollowsDelivery ==
  deliveryMode = "ordered-drop" =>
    \A w \in Workers :
      heldChunks[w] = Sent(outbox[w], "part")
                        \cup {<<h[1], h[2]>> : h \in {m \in heldMeta : m[3] = w}}
                        \cup Sent(inbox[w], "release")

(* 'stop' finds nothing to interrupt: when it was sent, all the worker was   *)
(* assigned had been answered and main will not assign more.  And the        *)
(* promise resolves once every part was delivered, every consumer has        *)
(* finished, no worker keeps bytes and all of them have reported.            *)
ResolvedIsComplete ==
  /\ \A w \in Workers :
       dispatchStopped[w] \/ Holds(inbox[w], "stop")
         => Outstanding(w) = {} /\ queueIndex = TotalParts
  /\ outcome = "resolved" =>
       /\ deliveredCount = TotalParts /\ heldMeta = {}
       /\ deliveryMode = "ordered-stream" => finished = Keys
       /\ \A w \in Workers : doneEmitted[w] = "posted" /\ heldChunks[w] = {}

(* Every run ends: it "can't hang".                                          *)
RunSettles == <>(outcome # "running")
=============================================================================
