--------------------------- MODULE StreamDownload ---------------------------
(***************************************************************************)
(* download() of S3TransferManager in stream mode, with the worker pool    *)
(* that serves it and the consumers that drain the bodies.                 *)
(*                                                                         *)
(* The main thread runs one callback at a time, so each message handler,   *)
(* each continuation of an await and each read() of a Readable is one      *)
(* action.  A worker is seen through what it has been assigned: a fetch    *)
(* that ended and whose message main has not handled yet is still in       *)
(* `fetching', because nothing tells the two apart before the handler.     *)
(* Every part has size one: sizes, caps and high-water marks are counted   *)
(* in parts.                                                               *)
(***************************************************************************)
EXTENDS RoundRobin

CONSTANTS
  Keys,         \* the objects of the batch
  Parts,        \* Parts[k]: how many ranges buildRanges() cuts object k into
  NWorkers,     \* cfg.workers
  Concurrency,  \* cfg.concurrency: lanes per worker
  Cap,          \* cfg.maxBufferedBytes, in parts
  Hwm,          \* cfg.streamHwm, in parts
  RRModulus     \* rr is kept modulo a multiple of every length `active' can have

Workers == 1 .. NWorkers
AllParts == UNION {{k} \X (1 .. Parts[k]) : k \in Keys}

ASSUME KeysAssumption == IsFiniteSet(Keys)
ASSUME PartsAssumption == Parts \in [Keys -> Nat \ {0}]
ASSUME PoolAssumption == NWorkers \in Nat \ {0} /\ Concurrency \in Nat \ {0}
ASSUME BudgetAssumption == Cap \in Nat \ {0} /\ Hwm \in Nat \ {0}
ASSUME ModulusAssumption == RRModulus \in Nat \ {0}

VARIABLES
  body,           \* where the download() call of each key has got to
  active,         \* this.active: registered keys, never pruned
  rr,             \* this.rr, modulo RRModulus
  cursor,         \* obj.cursor: how many of the parts have been handed out
  nextN,          \* obj.nextN: the part to push next
  paused,         \* obj.paused
  eofPushed,      \* obj.eofPushed
  held,           \* this.heldBuffers: parts that arrived and were not pushed
  bufferedBytes,  \* this.bufferedBytes
  totalInFlight,  \* this.totalInFlight
  freeLanes,      \* this.freeLanes
  deliveredCount, \* this.deliveredCount
  failed,         \* this._failed
  stream,         \* the part numbers pushed into each Readable, in order
  taken,          \* how many of them its consumer has received
  fetching,       \* <<key, part, worker>>: assigned and not yet answered
  broken,         \* <<key, part, worker>>: the worker answered 'error'
  dead            \* worker threads that died

objVars == <<cursor, nextN, paused, eofPushed>>
readableVars == <<stream, taken>>
laneVars == <<cursor, rr, fetching, freeLanes, totalInFlight>>
deliveryVars == <<held, nextN, paused, eofPushed, stream, bufferedBytes,
                  deliveredCount>>
vars == <<body, active, objVars, rr, held, bufferedBytes, totalInFlight,
          freeLanes, deliveredCount, failed, readableVars, fetching, broken,
          dead>>

-----------------------------------------------------------------------------
(* `none': no call.  `head': awaiting the HEAD.  `open': the Readable exists *)
(* and has neither ended nor failed.  `ended', `errored': what its consumer  *)
(* saw.  `rejected': the call threw.                                         *)
BodyStates == {"none", "head", "open", "ended", "errored", "rejected"}

Registered == {k \in Keys : body[k] \in {"open", "ended", "errored"}}
Queued(k) == Len(stream[k]) - taken[k]

Init ==
  /\ body = [k \in Keys |-> "none"]
  /\ active = <<>>
  /\ rr = 0
  /\ cursor = [k \in Keys |-> 0]
  /\ nextN = [k \in Keys |-> 1]
  /\ paused = [k \in Keys |-> FALSE]
  /\ eofPushed = [k \in Keys |-> FALSE]
  /\ held = {}
  /\ bufferedBytes = 0
  /\ totalInFlight = 0
  /\ freeLanes = [w \in Workers |-> Concurrency]
  /\ deliveredCount = 0
  /\ failed = FALSE
  /\ stream = [k \in Keys |-> <<>>]
  /\ taken = [k \in Keys |-> 0]
  /\ fetching = {}
  /\ broken = {}
  /\ dead = {}

-----------------------------------------------------------------------------
(* Some operators below come in pairs of one shape.  The second one is the   *)
(* code.  The first is a slip in it (a dropped guard, a missing update) that *)
(* no action uses: PROJECT.json substitutes it to show that a property would *)
(* notice.                                                                   *)
-----------------------------------------------------------------------------
(* _nextPart and _dispatchMore.                                              *)

(* The parts handed out when the cursors move to cur.                        *)
BatchAgain(cur) == {p \in AllParts : cursor[p[1]] <= p[2] /\ p[2] <= cur[p[1]]}
Batch(cur) == {p \in AllParts : cursor[p[1]] < p[2] /\ p[2] <= cur[p[1]]}

(* rr goes on by the looks taken, and by a fruitless round more when the    *)
(* loop ended because no part was left.                                     *)
AdvanceRR(order, looks, dry) ==
  (rr + looks + (IF dry THEN Len(order) ELSE 0)) % RRModulus

(* "Throttle only when the backlog is full AND something is in flight".      *)
ThrottleAlways(flying, backlog) == backlog >= Cap
ThrottleNever(flying, backlog) == FALSE
Throttled(flying, backlog) == flying > 0 /\ backlog >= Cap

TakeLanes(free, given) == [w \in Workers |-> free[w] - Cardinality(given[w])]

(* The loop of _dispatchMore, from the values its caller left: fetch, free   *)
(* and flying are fetching, freeLanes and totalInFlight, backlog is          *)
(* bufferedBytes and order is active.  Lanes are filled worker by worker.    *)
(* The loop ends when every lane is taken, when no part is left, or when it  *)
(* is throttled.                                                             *)
DispatchMore(order, fetch, free, flying, backlog) ==
  LET listed == {order[i] : i \in 1 .. Len(order)}
  IN \E cur \in [Keys -> 0 .. Cardinality(AllParts)] :
     LET new  == Batch(cur)
         left == {<<k, cur[k] + 1>> : k \in {j \in listed : cur[j] < Parts[j]}}
     IN /\ \A k \in Keys : /\ cursor[k] <= cur[k]
                           /\ cur[k] <= IF k \in listed THEN Parts[k] ELSE cursor[k]
        /\ \A i \in 0 .. Cardinality(new) - 1 : ~Throttled(flying + i, backlog)
        /\ InTurn(order, rr, cursor, new, left)
        /\ \E lane \in [new -> Workers], looks \in Looks(order, rr, cursor, new) :
           LET given == [w \in Workers |-> {p \in new : lane[p] = w}]
               full  == \A w \in Workers : Cardinality(given[w]) = free[w]
               stop  == Throttled(flying + Cardinality(new), backlog)
           IN /\ Dealt(order, rr, cursor, given, free)
              /\ full \/ left = {} \/ stop
              /\ cursor' = cur
              /\ rr' = AdvanceRR(order, looks, ~full /\ ~stop)
              /\ fetching' = fetch \cup {<<p[1], p[2], lane[p]>> : p \in new}
              /\ freeLanes' = TakeLanes(free, given)
              /\ totalInFlight' = flying + Cardinality(new)

-----------------------------------------------------------------------------
(* _drainKey.                                                                *)

(* push() returns false once the Readable holds Hwm parts, and always when   *)
(* it is destroyed.  b is the number of chunks this drain has queued in it.  *)
PushRefused(k, b) == body[k] = "errored" \/ Queued(k) + b >= Hwm

(* Whether a drain that pushed m parts, `direct' of them straight to the     *)
(* consumer, ended on a refusal.                                             *)
PausesOnAny(k, direct, m) == m > 0
Pauses(k, direct, m) == m > direct /\ PushRefused(k, m - direct)

(* A drain of k from the parts in h pushes exactly m of them, the first      *)
(* `direct' of which a flowing, empty Readable passes straight to its        *)
(* consumer.                                                                 *)
Pushes(k, h, direct, m) ==
  /\ direct <= m
  /\ direct > 0 => Queued(k) = 0 /\ body[k] = "open"
  /\ \A i \in 0 .. m - 1 : <<k, nextN[k] + i>> \in h
  /\ \A j \in direct .. m - 1 : ~Pauses(k, direct, j)
  /\ <<k, nextN[k] + m>> \notin h \/ Pauses(k, direct, m)

Release(k, h, m) == h \ {<<k, nextN[k] + i>> : i \in 0 .. m - 1}

CountParts(m) == deliveredCount + m

NextAfter(k, direct, m) == nextN[k] + m

PushesEofEarly(k, m) == nextN[k] + m >= Parts[k]
PushesEof(k, m) == nextN[k] + m > Parts[k]

(* _drainKey(k) when `stopped' is obj.paused, h is heldBuffers and backlog   *)
(* is bufferedBytes; `read' chunks leave the Readable in the same callback.  *)
(* A destroyed Readable drops what it is given.                              *)
DrainKey(k, stopped, h, backlog, read) ==
  \E m, direct \in 0 .. Parts[k] :
    /\ IF stopped THEN m = 0 /\ direct = 0 ELSE Pushes(k, h, direct, m)
    /\ held' = Release(k, h, m)
    /\ bufferedBytes' = backlog - m
    /\ deliveredCount' = CountParts(m)
    /\ nextN' = [nextN EXCEPT ![k] = NextAfter(k, direct, m)]
    /\ eofPushed' = [eofPushed EXCEPT ![k] = @ \/ PushesEof(k, m)]
    /\ paused' = [paused EXCEPT ![k] = stopped \/ Pauses(k, direct, m)]
    /\ stream' = [stream EXCEPT ![k] =
                     IF body[k] = "errored" THEN @
                     ELSE @ \o [i \in 1 .. m |-> nextN[k] + i - 1]]
    /\ taken' = [taken EXCEPT ![k] = @ + direct + read]

-----------------------------------------------------------------------------
(* download().                                                               *)

Call(k) ==
  /\ body[k] = "none"
  /\ body' = [body EXCEPT ![k] = IF failed THEN "rejected" ELSE "head"]
  /\ UNCHANGED <<active, objVars, rr, held, bufferedBytes, totalInFlight,
                 freeLanes, deliveredCount, failed, readableVars, fetching,
                 broken, dead>>

(* The HEAD answered: register the object and start fetching.                *)
HeadReply(k) ==
  /\ body[k] = "head"
  /\ body' = [body EXCEPT ![k] = "open"]
  /\ active' = Append(active, k)
  /\ DispatchMore(active', fetching, freeLanes, totalInFlight, bufferedBytes)
  /\ UNCHANGED <<deliveryVars, taken, failed, broken, dead>>

HeadFails(k) ==
  /\ body[k] = "head"
  /\ body' = [body EXCEPT ![k] = "rejected"]
  /\ UNCHANGED <<active, objVars, rr, held, bufferedBytes, totalInFlight,
                 freeLanes, deliveredCount, failed, readableVars, fetching,
                 broken, dead>>

-----------------------------------------------------------------------------
(* Messages of the workers.                                                  *)

(* 'part': hold it, free its lane, push what is in order, fetch more.        *)
PartArrives(k, n, w) ==
  /\ <<k, n, w>> \in fetching
  /\ w \notin dead
  /\ DrainKey(k, paused[k], held \cup {<<k, n>>}, bufferedBytes + 1, 0)
  /\ DispatchMore(active, fetching \ {<<k, n, w>>},
                  [freeLanes EXCEPT ![w] = @ + 1],
                  totalInFlight - 1, bufferedBytes')
  /\ UNCHANGED <<body, active, failed, broken, dead>>

(* _fail, called once: every body still waiting for parts is destroyed.      *)
DestroysAny(k) == ~failed /\ body[k] = "open"
Destroys(k) == ~failed /\ body[k] = "open" /\ ~eofPushed[k]

Fail ==
  /\ failed' = TRUE
  /\ body' = [k \in Keys |-> IF Destroys(k) THEN "errored" ELSE body[k]]
  /\ UNCHANGED <<active, objVars, rr, held, bufferedBytes, totalInFlight,
                 freeLanes, deliveredCount, readableVars>>

(* 'error': main learns of the failure, not which lane it came from, and the *)
(* worker sends nothing more for this part.                                  *)
PartFails(k, n, w) ==
  /\ <<k, n, w>> \in fetching
  /\ w \notin dead
  /\ fetching' = fetching \ {<<k, n, w>>}
  /\ broken' = broken \cup {<<k, n, w>>}
  /\ Fail
  /\ UNCHANGED dead

(* A worker thread throws or exits.  Main goes on assigning parts to it.     *)
WorkerDies(w) ==
  /\ w \notin dead
  /\ dead' = dead \cup {w}
  /\ Fail
  /\ UNCHANGED <<fetching, broken>>

-----------------------------------------------------------------------------
(* The consumer of a body.                                                   *)

(* It takes the oldest chunk.  The Readable calls read() first, while the    *)
(* chunk still counts, unless EOF has been pushed; read() resumes a paused   *)
(* object.                                                                   *)
ConsumerReads(k) ==
  /\ body[k] = "open"
  /\ Queued(k) > 0
  /\ IF paused[k] /\ ~eofPushed[k] /\ Queued(k) - 1 < Hwm
     THEN /\ DrainKey(k, FALSE, held, bufferedBytes, 1)
          /\ DispatchMore(active, fetching, freeLanes, totalInFlight,
                          bufferedBytes')
     ELSE /\ taken' = [taken EXCEPT ![k] = @ + 1]
          /\ UNCHANGED <<deliveryVars, laneVars>>
  /\ UNCHANGED <<body, active, failed, broken, dead>>

(* The consumer has received every chunk and then 'end'.                     *)
ConsumerEnds(k) ==
  /\ body[k] = "open"
  /\ eofPushed[k]
  /\ Queued(k) = 0
  /\ body' = [body EXCEPT ![k] = "ended"]
  /\ UNCHANGED <<active, objVars, rr, held, bufferedBytes, totalInFlight,
                 freeLanes, deliveredCount, failed, readableVars, fetching,
                 broken, dead>>

(* resetScheduler() before the next iteration over the same keys, called     *)
(* when every body of the previous one has ended.  The workers are left      *)
(* alone.                                                                    *)
Reset ==
  /\ Keys # {} /\ \A k \in Keys : body[k] = "ended"
  /\ body' = [k \in Keys |-> "none"]
  /\ active' = <<>>
  /\ rr' = 0
  /\ cursor' = [k \in Keys |-> 0]
  /\ nextN' = [k \in Keys |-> 1]
  /\ paused' = [k \in Keys |-> FALSE]
  /\ eofPushed' = [k \in Keys |-> FALSE]
  /\ held' = {}
  /\ bufferedBytes' = 0
  /\ totalInFlight' = 0
  /\ freeLanes' = [w \in Workers |-> Concurrency]
  /\ deliveredCount' = 0
  /\ stream' = [k \in Keys |-> <<>>]
  /\ taken' = [k \in Keys |-> 0]
  /\ UNCHANGED <<failed, fetching, broken, dead>>

-----------------------------------------------------------------------------
Next ==
  \/ \E k \in Keys : \/ Call(k) \/ HeadReply(k) \/ HeadFails(k)
                     \/ ConsumerReads(k) \/ ConsumerEnds(k)
  \/ \E p \in fetching : \/ PartArrives(p[1], p[2], p[3])
                         \/ PartFails(p[1], p[2], p[3])
  \/ \E w \in Workers : WorkerDies(w)
  \/ Reset

Spec == Init /\ [][Next]_vars

(* Every request settles (the SDK times out, withStallRetry gives up) unless *)
(* its thread died, and the event loop runs every callback.                  *)
Fairness ==
  /\ \A k \in Keys : WF_vars(HeadReply(k) \/ HeadFails(k))
  /\ \A k \in Keys : \A n \in 1 .. Parts[k] : \A w \in Workers :
       WF_vars(PartArrives(k, n, w) \/ PartFails(k, n, w))

FairSpec == Spec /\ Fairness

(* The caller drains the body of k, as download() says it must.              *)
Drained(k) == WF_vars(ConsumerReads(k)) /\ WF_vars(ConsumerEnds(k))

-----------------------------------------------------------------------------
(* Properties.                                                               *)

TypeOK ==
  /\ body \in [Keys -> BodyStates]
  /\ active \in Seq(Keys)
  /\ rr \in Nat
  /\ cursor \in [Keys -> Nat]
  /\ nextN \in [Keys -> Nat \ {0}]
  /\ paused \in [Keys -> BOOLEAN]
  /\ eofPushed \in [Keys -> BOOLEAN]
  /\ held \subseteq AllParts
  /\ bufferedBytes \in Nat
  /\ totalInFlight \in Nat
  /\ freeLanes \in [Workers -> 0 .. Concurrency]
  /\ deliveredCount \in Nat
  /\ failed \in BOOLEAN
  /\ stream \in [Keys -> Seq(Nat)]
  /\ taken \in [Keys -> Nat]
  /\ fetching \subseteq {<<p[1], p[2], w>> : p \in AllParts, w \in Workers}
  /\ broken \subseteq {<<p[1], p[2], w>> : p \in AllParts, w \in Workers}
  /\ dead \subseteq Workers

Outstanding == fetching \cup broken
OnWorker(w) == {p \in Outstanding : p[3] = w}
HoldersOf(k, n) == {w \in Workers : <<k, n, w>> \in Outstanding}

(* Each part is in exactly one place: pushed, held for reordering, with one  *)
(* worker (and not both under way and failed there), or still to be handed   *)
(* out.  No part is fetched twice or forgotten, whatever the order in which  *)
(* the handlers, the reads and the failures come.                            *)
PartsAccounted ==
  \A k \in Keys : \A n \in 1 .. Parts[k] :
    /\ n > cursor[k] <=> /\ n >= nextN[k]
                         /\ <<k, n>> \notin held
                         /\ HoldersOf(k, n) = {}
    /\ n < nextN[k] => <<k, n>> \notin held /\ HoldersOf(k, n) = {}
    /\ <<k, n>> \in held => HoldersOf(k, n) = {}
    /\ \A v, w \in HoldersOf(k, n) : v = w
    /\ \A w \in Workers : ~(<<k, n, w>> \in fetching /\ <<k, n, w>> \in broken)

(* The counters that the scheduler and the report read are the ones a        *)
(* recount would give: bufferedBytes is the backlog, totalInFlight and       *)
(* freeLanes are the assignments not answered by a part, deliveredCount the  *)
(* parts pushed.                                                             *)
CountersMatch ==
  /\ bufferedBytes = Cardinality(held)
  /\ totalInFlight = Cardinality(Outstanding)
  /\ \A w \in Workers : freeLanes[w] = Concurrency - Cardinality(OnWorker(w))
  /\ deliveredCount = Cardinality({p \in AllParts : p[2] < nextN[p[1]]})

(* Each part is in one place, and what the scheduler counts is what is there.*)
Accounting == TypeOK /\ PartsAccounted /\ CountersMatch

(* What is pushed into a body is part 1, part 2, ... without a gap, and a    *)
(* live body has been given everything that was taken out of the backlog.    *)
BodyInOrder ==
  \A k \in Keys :
    /\ \A i \in 1 .. Len(stream[k]) : stream[k][i] = i
    /\ taken[k] <= Len(stream[k])
    /\ body[k] # "errored" => Len(stream[k]) = nextN[k] - 1

(* A consumer that sees 'end' has every part: a failure is never mistaken    *)
(* for a short object.                                                       *)
EndIsComplete ==
  \A k \in Keys : body[k] = "ended" => taken[k] = Parts[k]

(* _dispatchMore: "a stalled frontier can't deadlock: with nothing in flight *)
(* we always fetch".  A body that is incomplete and not held up by its own   *)
(* consumer never waits with the whole pool idle, however large the backlog  *)
(* that other consumers leave.                                               *)
NoStall ==
  ~failed =>
    \A k \in Keys : body[k] = "open" /\ ~eofPushed[k] /\ ~paused[k]
      => fetching # {}

(* No lost wakeup: only read() clears obj.paused, and the Readable calls it  *)
(* only when a chunk leaves, so a paused body must still hold a full load.   *)
PausedWillRead ==
  \A k \in Keys : body[k] = "open" /\ paused[k] /\ ~eofPushed[k]
                    => Queued(k) >= Hwm

(* The backlog budget.  Once backlog and parts in flight reach the cap plus  *)
(* one part per lane, everything in the backlog waits for a paused consumer  *)
(* (or for one that failed): reordering alone never takes it that far.       *)
OverrunIsPaused ==
  bufferedBytes + totalInFlight >= Cap + NWorkers * Concurrency
    => \A p \in held : paused[p[1]]

(* resetScheduler(): "Safe only when idle".  When every body of an iteration *)
(* has ended nothing is in flight, held or lost, so that the reset forgets   *)
(* no answer still to come.                                                  *)
ResetIsSafe ==
  (\A k \in Keys : body[k] = "ended")
    => Outstanding = {} /\ held = {} /\ \A w \in Workers : freeLanes[w] = Concurrency

(* A body that is drained ends, or fails, or the pool has failed, even when  *)
(* no other body of the batch is ever read.                                  *)
BodyCompletes ==
  \A k \in Keys : Drained(k) =>
    (body[k] \in {"head", "open"}
       ~> body[k] \in {"ended", "errored", "rejected"} \/ failed)

(* The bodies are those that OrderedBody promises.                           *)
Got == [k \in Keys |-> SubSeq(stream[k], 1, taken[k])]
Promise == INSTANCE OrderedBody WITH got <- Got
PromiseSpec == Promise!Spec
=============================================================================
