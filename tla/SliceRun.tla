------------------------------ MODULE SliceRun ------------------------------
(***************************************************************************)
(* runOnce of benchmark.js with the slice role of the download worker: the *)
(* parts are dealt to the workers before they start, each worker fetches   *)
(* its slice with lanes that share one cursor, and each fetch is made of   *)
(* attempts under the stall watchdog (withStallRetry).  The slice role is  *)
(* for runs that discard what they read: a worker that is told to deliver  *)
(* to files takes the dispatch role, whoever started it.                   *)
(***************************************************************************)
EXTENDS Integers, FiniteSets, Sequences

CONSTANTS
  NParts,           \* how many parts there are, of all the files
  Pools,            \* the <<workers, concurrency>> that are explored
  MaxPartRetries,   \* MAX_PART_RETRIES
  Chunks,           \* how many chunks the body of a part comes in
  Modes             \* what is done with the bytes: the modes of which runOnce is called

AllParts == 1 .. NParts

ASSUME PartsAssumption == NParts \in Nat \ {0} /\ Chunks \in Nat \ {0}
ASSUME PoolsAssumption == Pools \subseteq (Nat \ {0}) \X (Nat \ {0})
ASSUME RetriesAssumption == MaxPartRetries \in Nat
ASSUME ModesAssumption == Modes \subseteq {"discard", "file"}

VARIABLES
  pool, deliveryMode,   \* the arguments of the call
  outbox,      \* outbox[w]: messages that main has not handled
  starting,    \* workers that 'start' was posted to and that have not handled it
  state,       \* state[w]: of the worker's message handler
  cursor,      \* parts of the slice that were taken
  lane,        \* lane[w][l]: the attempt it is at
  partsDone,
  dead,
  readyCount, doneCount, results, outcome

settings == <<pool, deliveryMode>>
workerVars == <<settings, starting, state, cursor, lane, partsDone>>
mainVars == <<readyCount, doneCount, results, outcome>>
sliceVars == <<outbox, workerVars, dead, mainVars>>

(* assignParts deals the parts like cards; slices left empty get no thread.  *)
Active == IF pool[1] < NParts THEN pool[1] ELSE NParts
Workers == 1 .. Active
SliceLength(w) == (NParts - w) \div pool[1] + 1
SlicePart(w, i) == w + (i - 1) * pool[1]

Lanes(w) == 1 .. (IF pool[2] < SliceLength(w) THEN pool[2] ELSE SliceLength(w))

(* `profiling': runSlice has returned and stopProfile is awaited.            *)
WorkerStates == {"loading", "ready", "running", "profiling", "done", "failed"}

(* The await a lane is at: client.send() or the next chunk, or none before   *)
(* it starts, when it has returned and when it has thrown.                   *)
LanePhases == {"new", "request", "reading", "over", "threw"}

(* An attempt: of part at.part, the at.tryNo-th after the first, got chunks; *)
(* aborted is ac.signal.aborted.                                             *)
Attempt(p, tryNo) ==
  [phase |-> "request", part |-> p, tryNo |-> tryNo, got |-> 0, aborted |-> FALSE]
Idle(phase) == [phase |-> phase, part |-> 0, tryNo |-> 0, got |-> 0, aborted |-> FALSE]

SliceInit ==
  /\ pool \in Pools
  /\ deliveryMode \in Modes
  /\ outbox = [w \in Workers |-> <<>>]
  /\ starting = {}
  /\ state = [w \in Workers |-> "loading"]
  /\ cursor = [w \in Workers |-> 0]
  /\ lane = [w \in Workers |-> [l \in Lanes(w) |-> Idle("new")]]
  /\ partsDone = [w \in Workers |-> 0]
  /\ dead = {}
  /\ readyCount = 0
  /\ doneCount = 0
  /\ results = 0
  /\ outcome = "running"

-----------------------------------------------------------------------------
(* The worker.  As elsewhere, an operator that precedes one of the same      *)
(* shape is a slip in it that no action uses.                                *)

Post(w, msg) == outbox' = [outbox EXCEPT ![w] = Append(@, msg)]

WorkerReady(w) ==
  /\ w \notin dead /\ state[w] = "loading"
  /\ state' = [state EXCEPT ![w] = "ready"]
  /\ Post(w, <<"ready">>)
  /\ UNCHANGED <<settings, starting, cursor, lane, partsDone, dead, mainVars>>

(* 'start': every lane takes a part before any of them awaits.               *)
Start(w) ==
  /\ w \notin dead /\ w \in starting /\ deliveryMode = "discard"
  /\ starting' = starting \ {w}
  /\ state' = [state EXCEPT ![w] = "running"]
  /\ cursor' = [cursor EXCEPT ![w] = Cardinality(Lanes(w))]
  /\ lane' = [lane EXCEPT ![w] = [l \in Lanes(w) |-> Attempt(SlicePart(w, l), 0)]]
  /\ UNCHANGED <<outbox, settings, partsDone, dead, mainVars>>

(* With files the handler is that of the dispatch role, which knows no       *)
(* 'start': the worker goes on to wait for the 'assign' that never comes.    *)
StartIgnored(w) ==
  /\ w \notin dead /\ w \in starting /\ deliveryMode = "file"
  /\ starting' = starting \ {w}
  /\ UNCHANGED <<outbox, settings, state, cursor, lane, partsDone, dead, mainVars>>

At(w, l, phase) == w \notin dead /\ lane[w][l].phase = phase
Become(w, l, attempt) == lane' = [lane EXCEPT ![w][l] = attempt]

(* The response has come.  killOnAbort destroys its body if the watchdog has *)
(* fired, now or later.                                                      *)
Responds(w, l) ==
  /\ At(w, l, "request")
  /\ Become(w, l, [lane[w][l] EXCEPT !.phase = "reading"])
  /\ UNCHANGED <<outbox, settings, starting, state, cursor, partsDone, dead, mainVars>>

ChunkArrives(w, l) ==
  /\ At(w, l, "reading") /\ ~lane[w][l].aborted
  /\ lane[w][l].got + 1 < Chunks
  /\ Become(w, l, [lane[w][l] EXCEPT !.got = @ + 1])
  /\ UNCHANGED <<outbox, settings, starting, state, cursor, partsDone, dead, mainVars>>

(* The watchdog: no byte was read for STALL_MS.                              *)
WatchdogFires(w, l) ==
  /\ At(w, l, "request") \/ At(w, l, "reading")
  /\ ~lane[w][l].aborted
  /\ Become(w, l, [lane[w][l] EXCEPT !.aborted = TRUE])
  /\ UNCHANGED <<outbox, settings, starting, state, cursor, partsDone, dead, mainVars>>

(* A part is complete: the lane takes the next one of the slice, if any, and *)
(* the last lane to find none ends the slice.                                *)
HasNext(w) == cursor[w] < SliceLength(w)

Advanced(n) == n + 1

Finished(w, l) ==
  /\ partsDone' = [partsDone EXCEPT ![w] = @ + 1]
  /\ IF HasNext(w)
     THEN /\ cursor' = [cursor EXCEPT ![w] = Advanced(@)]
          /\ Become(w, l, Attempt(SlicePart(w, cursor[w] + 1), 0))
          /\ UNCHANGED state
     ELSE /\ Become(w, l, Idle("over"))
          /\ state' = [state EXCEPT ![w] = IF \A h \in Lanes(w) : lane'[w][h].phase = "over"
                                           THEN "profiling" ELSE @]
          /\ UNCHANGED cursor

(* The last chunk, and the end of the body.                                  *)
BodyEnds(w, l) ==
  /\ At(w, l, "reading") /\ ~lane[w][l].aborted
  /\ lane[w][l].got + 1 >= Chunks
  /\ Finished(w, l)
  /\ UNCHANGED <<outbox, settings, starting, dead, mainVars>>

(* An attempt throws: as the watchdog has fired, or for an error of its own. *)
(* The catch retries in the first case, whatever the error, and from zero.   *)
Retries(at) == at.aborted /\ at.tryNo < MaxPartRetries

UncountedTry(at) == Attempt(at.part, at.tryNo)
NextTry(at) == Attempt(at.part, at.tryNo + 1)

(* The first lane to throw ends the slice with 'error'; the others go on.    *)
AttemptThrows(w, l) ==
  /\ At(w, l, "request") \/ At(w, l, "reading")
  /\ IF Retries(lane[w][l])
     THEN Become(w, l, NextTry(lane[w][l])) /\ UNCHANGED <<state, outbox>>
     ELSE /\ Become(w, l, Idle("threw"))
          /\ IF state[w] = "failed" THEN UNCHANGED <<state, outbox>>
             ELSE state' = [state EXCEPT ![w] = "failed"] /\ Post(w, <<"error">>)
  /\ UNCHANGED <<settings, starting, cursor, partsDone, dead, mainVars>>

PostDone(w) ==
  /\ w \notin dead /\ state[w] = "profiling"
  /\ state' = [state EXCEPT ![w] = "done"]
  /\ Post(w, <<"done", partsDone[w]>>)
  /\ UNCHANGED <<settings, starting, cursor, lane, partsDone, dead, mainVars>>

(* The thread throws or exits.                                               *)
Dies(w) ==
  /\ w \notin dead
  /\ dead' = dead \cup {w}
  /\ Post(w, <<"exit">>)
  /\ UNCHANGED <<workerVars, mainVars>>

-----------------------------------------------------------------------------
(* Main.  Once the promise is settled, messages that still come change       *)
(* nothing.                                                                  *)

Receives(w, type) ==
  outcome = "running" /\ outbox[w] # <<>> /\ Head(outbox[w])[1] = type
Dequeue(w) == outbox' = [outbox EXCEPT ![w] = Tail(@)]

(* The last 'ready' starts them all.                                         *)
Ready(w) ==
  /\ Receives(w, "ready")
  /\ readyCount' = readyCount + 1
  /\ starting' = IF readyCount' = Active THEN Workers ELSE starting
  /\ Dequeue(w)
  /\ UNCHANGED <<settings, state, cursor, lane, partsDone, dead, doneCount, results, outcome>>

(* Settling the promise calls cleanup(), which terminates the threads.       *)
Settle(result) ==
  /\ outcome' = result
  /\ dead' = IF result = "running" THEN dead ELSE Workers

ResolvesFirst(count) == count > 0
Resolves(count) == count = Active

Done(w) ==
  /\ Receives(w, "done")
  /\ results' = results + Head(outbox[w])[2]
  /\ doneCount' = doneCount + 1
  /\ Settle(IF Resolves(doneCount') THEN "resolved" ELSE "running")
  /\ Dequeue(w)
  /\ UNCHANGED <<workerVars, readyCount>>

WorkerFailed(w) ==
  /\ Receives(w, "error") \/ Receives(w, "exit")
  /\ Settle("failed")
  /\ Dequeue(w)
  /\ UNCHANGED <<workerVars, readyCount, doneCount, results>>

-----------------------------------------------------------------------------
Handled(w) == Ready(w) \/ Done(w) \/ WorkerFailed(w)

LaneStep(w, l) ==
  \/ Responds(w, l) \/ ChunkArrives(w, l) \/ BodyEnds(w, l)
  \/ WatchdogFires(w, l) \/ AttemptThrows(w, l)

WorkerStep(w) == WorkerReady(w) \/ Start(w) \/ StartIgnored(w) \/ PostDone(w)

Progress(w) ==
  \/ Handled(w) \/ WorkerStep(w)
  \/ \E l \in Lanes(w) : LaneStep(w, l)

SliceNext == \E w \in Workers : Progress(w) \/ Dies(w)

SliceSpec == SliceInit /\ [][SliceNext]_sliceVars

(* Some thread goes on as long as one can: no more is needed since nothing   *)
(* is waited for with work that repeats.  Of the network nothing is assumed  *)
(* but what the watchdog makes of it: an attempt gets on or is aborted.      *)
Fairness == WF_sliceVars(\E w \in Workers : Progress(w))

FairSpec == SliceSpec /\ Fairness

-----------------------------------------------------------------------------
(* Properties.                                                               *)

SliceTypeOK ==
  /\ pool \in Pools
  /\ deliveryMode \in Modes
  /\ starting \subseteq Workers
  /\ state \in [Workers -> WorkerStates]
  /\ \A w \in Workers :
       /\ cursor[w] \in 0 .. SliceLength(w)
       /\ partsDone[w] \in 0 .. SliceLength(w)
       /\ \A l \in Lanes(w) :
            /\ lane[w][l].phase \in LanePhases
            /\ lane[w][l].part \in 0 .. NParts
            /\ lane[w][l].tryNo \in 0 .. MaxPartRetries
            /\ lane[w][l].got \in 0 .. Chunks
            /\ lane[w][l].aborted \in BOOLEAN
  /\ dead \subseteq Workers
  /\ readyCount \in 0 .. Active
  /\ doneCount \in 0 .. Active
  /\ results \in 0 .. NParts
  /\ outcome \in {"running", "resolved", "failed"}

(* The parts that w has taken from its slice.                                *)
Taken(w) == {SlicePart(w, i) : i \in 1 .. cursor[w]}
Fetching(w, p) == {l \in Lanes(w) : lane[w][l].part = p}

(* Each part has one lane: no other lane fetches it, and once resolved, what *)
(* was reported is every part of the batch.                                  *)
ResultIsExact ==
  /\ SliceTypeOK
  /\ UNION {{SlicePart(w, i) : i \in 1 .. SliceLength(w)} : w \in Workers} = AllParts
  /\ \A w \in Workers :
       /\ \A p \in AllParts : Cardinality(Fetching(w, p)) <= (IF p \in Taken(w) THEN 1 ELSE 0)
       /\ state[w] # "failed" =>
            partsDone[w] = Cardinality({p \in Taken(w) : Fetching(w, p) = {}})
  /\ outcome = "resolved" => results = NParts

(* A run that discards ends, whatever the network does: stalls are retried a *)
(* bounded number of times and then fail the run.  A run to files waits for  *)
(* ever for workers that ignore its 'start', unless a thread dies.           *)
RunSettles == deliveryMode = "discard" => <>(outcome # "running")
=============================================================================
