---------------------------- MODULE BufferReturn ----------------------------
(***************************************************************************)
(* The buffers of the stream sink with bufferReturn.  A worker assembles   *)
(* each part in an ArrayBuffer and transfers it to main, where it becomes  *)
(* a chunk of a body; a consumer that is done with the chunk hands it to   *)
(* recycle(), which transfers the buffer back to the worker it came from.  *)
(* A transfer detaches the buffer on the side it leaves.                   *)
(*                                                                         *)
(* A buffer is named by the part it was made for.  Which part main assigns *)
(* to whom, and when it delivers it, is StreamDownload's subject; here it  *)
(* may happen in any order.                                                *)
(***************************************************************************)
EXTENDS Integers, FiniteSets

CONSTANTS
  Parts,           \* the parts of all downloads
  BytesOf,         \* BytesOf[p]: bytes of part p
  Workers,         \* the threads of the pool
  LanesPerWorker   \* lanes per worker

ASSUME PartsAssumption == IsFiniteSet(Parts) /\ BytesOf \in [Parts -> Nat]
ASSUME PoolAssumption == LanesPerWorker \in Nat

VARIABLES
  todo,           \* parts that are not assigned
  freeLanes,      \* freeLanes[w]: lanes of w that main knows to be free
  assigned,       \* assigned[w]: 'assign' messages on their way to w
  filling,        \* filling[w]: <<part, buffer>> of the handlers under way
  returnedBufs,   \* returnedBufs[w]: the worker's free list
  posted,         \* 'part' messages on their way: <<part, buffer, worker>>
  heldBuffers,    \* those main holds back
  chunks,         \* those in a body or with its consumer, attached
  detached,       \* chunks whose buffer was transferred away by recycle()
  returning,      \* returning[w]: buffers in 'return' messages
  contents,       \* contents[b]: the part whose bytes, all of them, buffer b holds
  peak            \* peak[w]: the most buffers of w in use at a time (history)

mainVars == <<posted, heldBuffers, chunks, detached>>
returnVars == <<todo, freeLanes, assigned, filling, returnedBufs, mainVars, returning, contents, peak>>

ReturnInit ==
  /\ todo = Parts
  /\ freeLanes = [w \in Workers |-> LanesPerWorker]
  /\ assigned = [w \in Workers |-> {}]
  /\ filling = [w \in Workers |-> {}]
  /\ returnedBufs = [w \in Workers |-> {}]
  /\ posted = {} /\ heldBuffers = {} /\ chunks = {} /\ detached = {}
  /\ returning = [w \in Workers |-> {}]
  /\ contents = [b \in Parts |-> {}]
  /\ peak = [w \in Workers |-> 0]

-----------------------------------------------------------------------------
(* As elsewhere, an operator that precedes one of the same shape is a slip   *)
(* in it that no action uses.                                                *)

Second(pairs) == {x[2] : x \in pairs}
Main == posted \cup heldBuffers \cup chunks
FromWorker(w, triples) == {x \in triples : x[3] = w}

(* The buffers of w that are not on its free list.                           *)
InUse(w) == Second(filling[w]) \cup Second(FromWorker(w, Main)) \cup returning[w]

-----------------------------------------------------------------------------
LanesLeft(w) == freeLanes[w] - 1

(* Main hands a part to a worker with a free lane.                           *)
AssignPart(w, p) ==
  /\ p \in todo
  /\ freeLanes[w] > 0
  /\ todo' = todo \ {p}
  /\ freeLanes' = [freeLanes EXCEPT ![w] = LanesLeft(w)]
  /\ assigned' = [assigned EXCEPT ![w] = @ \cup {p}]
  /\ UNCHANGED <<filling, returnedBufs, mainVars, returning, contents, peak>>

(* acquireArrayBuffer: a returned buffer that is large enough, or a new one. *)
(* (The order of the list is left out: it may be any of those.)              *)
AnyReturned(w, p) == returnedBufs[w]
LargeEnough(w, p) == {b \in returnedBufs[w] : BytesOf[b] >= BytesOf[p]}

TakenFromList(w, b) == returnedBufs[w] \ {b}

(* 'assign', up to the first await.                                          *)
StartPart(w, p) ==
  /\ p \in assigned[w]
  /\ \E b \in IF LargeEnough(w, p) = {} THEN {p} ELSE LargeEnough(w, p) :
       /\ filling' = [filling EXCEPT ![w] = @ \cup {<<p, b>>}]
       /\ returnedBufs' = [returnedBufs EXCEPT ![w] = TakenFromList(w, b)]
       /\ contents' = [contents EXCEPT ![b] = {}]
       /\ peak' = [peak EXCEPT ![w] = IF Cardinality(InUse(w) \cup {b}) > @
                                      THEN Cardinality(InUse(w) \cup {b}) ELSE @]
  /\ assigned' = [assigned EXCEPT ![w] = @ \ {p}]
  /\ UNCHANGED <<todo, freeLanes, mainVars, returning>>

(* The body of the part has been copied in, whatever attempts it took; what  *)
(* does not fit is cut off.                                                  *)
PostPart(w, p, b) ==
  /\ <<p, b>> \in filling[w]
  /\ filling' = [filling EXCEPT ![w] = @ \ {<<p, b>>}]
  /\ contents' = [contents EXCEPT ![b] = IF BytesOf[b] >= BytesOf[p] THEN {p} ELSE {}]
  /\ posted' = posted \cup {<<p, b, w>>}
  /\ UNCHANGED <<todo, freeLanes, assigned, returnedBufs, heldBuffers, chunks, detached, returning, peak>>

(* The part fails: its buffer is garbage, and its lane does not come back.   *)
PartFails(w, p, b) ==
  /\ <<p, b>> \in filling[w]
  /\ filling' = [filling EXCEPT ![w] = @ \ {<<p, b>>}]
  /\ UNCHANGED <<todo, freeLanes, assigned, returnedBufs, mainVars, returning, contents, peak>>

(* 'part': main holds it until its turn.                                     *)
PartArrives(m) ==
  /\ m \in posted
  /\ posted' = posted \ {m}
  /\ freeLanes' = [freeLanes EXCEPT ![m[3]] = @ + 1]
  /\ heldBuffers' = heldBuffers \cup {m}
  /\ UNCHANGED <<todo, assigned, filling, returnedBufs, chunks, detached, returning,
                 contents, peak>>

(* _drainKey: it becomes a chunk of its body, marked with its worker.        *)
Deliver(m) ==
  /\ m \in heldBuffers
  /\ heldBuffers' = heldBuffers \ {m}
  /\ chunks' = chunks \cup {m}
  /\ UNCHANGED <<todo, freeLanes, assigned, filling, returnedBufs, posted, detached, returning,
                 contents, peak>>

(* recycle, which a consumer may call again for the same chunk: a detached   *)
(* buffer cannot be transferred, postMessage throws and the error is caught. *)
TransfersAgain(m) == m \in chunks \cup detached
Transfers(m) == m \in chunks

HomeIsAny(m) == CHOOSE w \in Workers : TRUE
HomeOf(m) == m[3]

Recycle(m) ==
  /\ Transfers(m)
  /\ chunks' = chunks \ {m}
  /\ detached' = detached \cup {m}
  /\ returning' = [returning EXCEPT ![HomeOf(m)] = @ \cup {m[2]}]
  /\ UNCHANGED <<todo, freeLanes, assigned, filling, returnedBufs, posted, heldBuffers, contents, peak>>

(* A consumer that keeps its chunk never recycles it: in time it is garbage. *)
Drop(m) ==
  /\ m \in chunks
  /\ chunks' = chunks \ {m}
  /\ UNCHANGED <<todo, freeLanes, assigned, filling, returnedBufs, posted, heldBuffers, detached,
                 returning, contents, peak>>

(* 'return'.                                                                 *)
Returned(w, b) ==
  /\ b \in returning[w]
  /\ returning' = [returning EXCEPT ![w] = @ \ {b}]
  /\ returnedBufs' = [returnedBufs EXCEPT ![w] = @ \cup {b}]
  /\ UNCHANGED <<todo, freeLanes, assigned, filling, mainVars, contents, peak>>

-----------------------------------------------------------------------------
WorkerStep(w) ==
  \/ \E p \in todo : AssignPart(w, p)
  \/ \E p \in assigned[w] : StartPart(w, p)
  \/ \E x \in filling[w] : PostPart(w, x[1], x[2]) \/ PartFails(w, x[1], x[2])
  \/ \E b \in returning[w] : Returned(w, b)

MainStep ==
  \/ \E m \in posted : PartArrives(m)
  \/ \E m \in heldBuffers : Deliver(m)
  \/ \E m \in chunks \cup detached : Recycle(m)
  \/ \E m \in chunks : Drop(m)

ReturnNext == (\E w \in Workers : WorkerStep(w)) \/ MainStep

ReturnSpec == ReturnInit /\ [][ReturnNext]_returnVars

-----------------------------------------------------------------------------
(* Properties.                                                               *)

Triples == Parts \X Parts \X Workers

ReturnTypeOK ==
  /\ todo \subseteq Parts
  /\ freeLanes \in [Workers -> 0 .. LanesPerWorker]
  /\ assigned \in [Workers -> SUBSET Parts]
  /\ filling \in [Workers -> SUBSET (Parts \X Parts)]
  /\ returnedBufs \in [Workers -> SUBSET Parts]
  /\ posted \subseteq Triples /\ heldBuffers \subseteq Triples
  /\ chunks \subseteq Triples /\ detached \subseteq Triples
  /\ returning \in [Workers -> SUBSET Parts]
  /\ contents \in [Parts -> SUBSET Parts]
  /\ peak \in [Workers -> Nat]

(* A chunk that its consumer has not given back holds the bytes of its part: *)
(* no worker fills its buffer with another part meanwhile, and its buffer    *)
(* was large enough for it.                                                  *)
ChunkIsIntact == \A m \in Main : contents[m[2]] = {m[1]}

(* A buffer is in one place: with one handler, in one message, held or in    *)
(* one chunk, or on one free list.                                           *)
OneOwner ==
  /\ \A v, w \in Workers : \A x \in filling[v], y \in filling[w] :
       x[2] = y[2] => v = w /\ x = y
  /\ \A m, n \in Main : m[2] = n[2] => m = n
  /\ \A w \in Workers :
       Second(filling[w]) \cap Second(Main) = {}
  /\ \A v, w \in Workers :
       /\ returning[v] \cap (Second(filling[w]) \cup Second(Main) \cup returnedBufs[w]) = {}
       /\ returnedBufs[v] \cap (Second(filling[w]) \cup Second(Main)) = {}
       /\ v # w => returning[v] \cap returning[w] = {} /\ returnedBufs[v] \cap returnedBufs[w] = {}
  /\ posted \cap heldBuffers = {} /\ (posted \cup heldBuffers) \cap chunks = {}

(* Of the buffers of any one size a worker never keeps more than it has had  *)
(* buffers in use at a time: what comes back is used again before anything   *)
(* of its size is made.  (Buffers that are too small for the parts that are  *)
(* left stay on the list, so this does not hold of all sizes together.)      *)
AllocationBounded ==
  \A w \in Workers : \A n \in {BytesOf[p] : p \in Parts} :
    Cardinality({b \in InUse(w) \cup returnedBufs[w] : BytesOf[b] = n}) <= peak[w]
=============================================================================
