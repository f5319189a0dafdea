--------------------------- MODULE DispatchWorker ---------------------------
(***************************************************************************)
(* The download worker in its dispatch role: it answers each 'assign' with *)
(* the part or with 'error', and 'stop' with 'worker-done' once nothing it *)
(* counts is in flight.  Its handlers are async: several parts are fetched *)
(* at a time, and the handler of a later message runs while they wait.     *)
(*                                                                         *)
(* postMessage keeps the order of the messages between two threads, so     *)
(* inbox[w] and outbox[w] are queues.  Who posts to the inbox and reads    *)
(* the outbox is left to the modules that extend this one.                 *)
(***************************************************************************)
EXTENDS Integers, Sequences, FiniteSets, Queues

CONSTANT NWorkers   \* threads of the pool

Workers == 1 .. NWorkers

ASSUME WorkersAssumption == NWorkers \in Nat \ {0}

VARIABLES
  deliveryMode,      \* workerData.deliveryMode
  inbox,             \* inbox[w]: messages from main that w has not handled
  outbox,            \* outbox[w]: messages from w that main has not handled
  up,                \* workers that have posted 'ready'
  running,           \* running[w]: parts whose 'assign' handler is under way
  broken,            \* broken[w]: parts whose handler ended in the catch
  heldChunks,        \* labels in heldChunks (ordered-drop)
  dispatchInFlight,
  dispatchStopped,
  doneEmitted,       \* not yet, awaiting stopProfile, or 'worker-done' posted
  dead               \* threads that died

workerStateVars ==
  <<deliveryMode, up, running, broken, heldChunks, dispatchInFlight, dispatchStopped,
    doneEmitted>>
workerVars == <<inbox, outbox, workerStateVars, dead>>

DoneStates == {"no", "profiling", "posted"}

WorkerInit ==
  /\ inbox = [w \in Workers |-> <<>>]
  /\ outbox = [w \in Workers |-> <<>>]
  /\ up = {}
  /\ running = [w \in Workers |-> {}]
  /\ broken = [w \in Workers |-> {}]
  /\ heldChunks = [w \in Workers |-> {}]
  /\ dispatchInFlight = [w \in Workers |-> 0]
  /\ dispatchStopped = [w \in Workers |-> FALSE]
  /\ doneEmitted = [w \in Workers |-> "no"]
  /\ dead = {}

-----------------------------------------------------------------------------
(* As elsewhere, an operator that precedes one of the same shape is a slip in *)
(* it that no action uses.                                                    *)

Post(w, msg) == outbox' = [outbox EXCEPT ![w] = Append(@, msg)]

(* The next message in the inbox of w is of this type.                       *)
Handles(w, type) ==
  /\ w \in up /\ w \notin dead
  /\ inbox[w] # <<>>
  /\ Head(inbox[w])[1] = type

Consume(w) == inbox' = [inbox EXCEPT ![w] = Tail(@)]

(* The condition of dispatchMaybeDone.                                       *)
IsDone(w, stopped, count) == stopped /\ count = 0 /\ doneEmitted[w] = "no"

(* dispatchMaybeDone up to its await.                                        *)
MaybeDone(w, stopped, count) ==
  doneEmitted' = [doneEmitted EXCEPT
                    ![w] = IF IsDone(w, stopped, count) THEN "profiling" ELSE @]

(* The module is loaded (its client exists, the profiler runs).              *)
Ready(w) ==
  /\ w \notin up \cup dead
  /\ up' = up \cup {w}
  /\ Post(w, <<"ready">>)
  /\ UNCHANGED <<deliveryMode, inbox, running, broken, heldChunks, dispatchInFlight,
                 dispatchStopped, doneEmitted, dead>>

(* 'assign', up to the first await.                                          *)
Assigned(w) ==
  /\ Handles(w, "assign")
  /\ running' = [running EXCEPT ![w] = @ \cup {Head(inbox[w])[2]}]
  /\ dispatchInFlight' = [dispatchInFlight EXCEPT ![w] = @ + 1]
  /\ Consume(w)
  /\ UNCHANGED <<deliveryMode, outbox, up, broken, heldChunks, dispatchStopped,
                 doneEmitted, dead>>

(* ordered-drop keeps the bytes here; the other modes give them away.        *)
Keeps(w, p) == IF deliveryMode = "ordered-drop" THEN heldChunks[w] \cup {p} ELSE heldChunks[w]

CountKept(w) == dispatchInFlight[w]
CountAnswered(w) == dispatchInFlight[w] - 1

(* The part is complete: answer it, which may be the last thing to do.       *)
PartDone(w, p) ==
  /\ w \notin dead /\ p \in running[w]
  /\ running' = [running EXCEPT ![w] = @ \ {p}]
  /\ heldChunks' = [heldChunks EXCEPT ![w] = Keeps(w, p)]
  /\ dispatchInFlight' = [dispatchInFlight EXCEPT ![w] = CountAnswered(w)]
  /\ Post(w, <<"part", p>>)
  /\ MaybeDone(w, dispatchStopped[w], CountAnswered(w))
  /\ UNCHANGED <<deliveryMode, inbox, up, broken, dispatchStopped, dead>>

(* The catch: dispatchInFlight keeps counting the part.                      *)
PartFails(w, p) ==
  /\ w \notin dead /\ p \in running[w]
  /\ running' = [running EXCEPT ![w] = @ \ {p}]
  /\ broken' = [broken EXCEPT ![w] = @ \cup {p}]
  /\ Post(w, <<"error">>)
  /\ UNCHANGED <<deliveryMode, inbox, up, heldChunks, dispatchInFlight, dispatchStopped,
                 doneEmitted, dead>>

(* 'release': the part was delivered, its bytes can go.                      *)
Released(w) ==
  /\ Handles(w, "release")
  /\ heldChunks' = [heldChunks EXCEPT ![w] = @ \ {Head(inbox[w])[2]}]
  /\ Consume(w)
  /\ UNCHANGED <<deliveryMode, outbox, up, running, broken, dispatchInFlight,
                 dispatchStopped, doneEmitted, dead>>

Stopped(w) ==
  /\ Handles(w, "stop")
  /\ dispatchStopped' = [dispatchStopped EXCEPT ![w] = TRUE]
  /\ MaybeDone(w, TRUE, dispatchInFlight[w])
  /\ Consume(w)
  /\ UNCHANGED <<deliveryMode, outbox, up, running, broken, heldChunks, dispatchInFlight, dead>>

(* dispatchMaybeDone after stopProfile: report, and drop everything.         *)
PostDone(w) ==
  /\ w \notin dead /\ doneEmitted[w] = "profiling"
  /\ doneEmitted' = [doneEmitted EXCEPT ![w] = "posted"]
  /\ heldChunks' = [heldChunks EXCEPT ![w] = {}]
  /\ Post(w, <<"worker-done">>)
  /\ UNCHANGED <<deliveryMode, inbox, up, running, broken, dispatchInFlight,
                 dispatchStopped, dead>>

(* The thread throws or exits; main hears of it after what was posted.       *)
Dies(w) ==
  /\ w \notin dead
  /\ dead' = dead \cup {w}
  /\ Post(w, <<"exit">>)
  /\ UNCHANGED <<deliveryMode, inbox, up, running, broken, heldChunks, dispatchInFlight,
                 dispatchStopped, doneEmitted>>

(* What a live worker does next.                                             *)
WorkerStep(w) ==
  \/ Ready(w) \/ Assigned(w) \/ Released(w) \/ Stopped(w) \/ PostDone(w)
  \/ \E p \in running[w] : PartDone(w, p) \/ PartFails(w, p)

-----------------------------------------------------------------------------
(* The parts w was assigned and main has no answer to.                       *)
Outstanding(w) ==
  Sent(inbox[w], "assign") \cup running[w] \cup broken[w] \cup Sent(outbox[w], "part")
=============================================================================
