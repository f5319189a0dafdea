--------------------------- MODULE OrderedRunProofs ---------------------------
(***************************************************************************)
(* Proofs about OrderedRun, for every list of objects, number of workers   *)
(* and lanes, cap and mark, and both ways of delivery.                     *)
(***************************************************************************)
EXTENDS OrderedRun, OperatorLemmas

-----------------------------------------------------------------------------
(* The inductive invariant.                                                  *)

InMessages == ({"assign", "release"} \X AllParts) \cup {<<"stop">>}
OutMessages ==
  ({"part"} \X AllParts) \cup {<<"ready">>, <<"error">>, <<"exit">>, <<"worker-done">>}

(* What is in the queues, and that a part is in one place of its worker.     *)
InPlaces ==
  /\ inbox \in [Workers -> Seq(InMessages)]
  /\ outbox \in [Workers -> Seq(OutMessages)]
  /\ running \in [Workers -> SUBSET AllParts]
  /\ broken \in [Workers -> SUBSET AllParts]
  /\ \A w \in Workers :
       /\ Once(inbox[w], "assign")
       /\ Once(outbox[w], "part")
       /\ Sent(inbox[w], "assign") \cap (running[w] \cup broken[w]) = {}
       /\ Sent(outbox[w], "part") \cap (running[w] \cup broken[w]) = {}
       /\ Sent(inbox[w], "assign") \cap Sent(outbox[w], "part") = {}
       /\ running[w] \cap broken[w] = {}
       /\ dispatchInFlight[w] = Cardinality(running[w] \cup broken[w])

Triples == {<<p[1], p[2], w>> : p \in AllParts, w \in Workers}

Flying(out) == {p \in AllParts : \E w \in Workers : p \in out[w]}
HeldParts(held) == {p \in AllParts : Has(held, p[1], p[2])}
Issued(index) == {p \in AllParts : Position(p) < index}
Passed(next) == {p \in AllParts : p[2] < next[p[1]]}

(* Where the parts are, when out[w] is outstanding at w, index is that of    *)
(* the queue, held are the triples of heldMeta and next the next parts.      *)
Placement(out, index, held, next) ==
  /\ out \in [Workers -> SUBSET AllParts]
  /\ \A v, w \in Workers : v # w => out[v] \cap out[w] = {}
  /\ held \subseteq Triples
  /\ \A g, h \in held : g[1] = h[1] /\ g[2] = h[2] => g = h
  /\ index \in 0 .. TotalParts
  /\ next \in [Keys -> Nat] /\ \A k \in Keys : next[k] \in 1 .. Parts[k] + 1
  /\ Issued(index) = Flying(out) \cup HeldParts(held) \cup Passed(next)
  /\ Flying(out) \cap HeldParts(held) = {}
  /\ Flying(out) \cap Passed(next) = {}
  /\ HeldParts(held) \cap Passed(next) = {}

(* What main counts.                                                         *)
Counted(out, held, next, free, flying, backlog, count) ==
  /\ free \in [Workers -> 0 .. Concurrency]
  /\ \A w \in Workers : free[w] = Concurrency - Cardinality(out[w])
  /\ flying = Cardinality(Flying(out))
  /\ backlog = Cardinality(held)
  /\ count = Cardinality(Passed(next))

(* Beyond the cap and one load of the lanes, only the part that was issued   *)
(* last can be in flight.                                                    *)
LastInFlight(out, index, flying, backlog) ==
  backlog + flying >= Cap + NWorkers * Concurrency =>
    \A p \in Flying(out) : Position(p) = index - 1

Out == [w \in Workers |-> Outstanding(w)]
BooksBalance ==
  /\ Placement(Out, queueIndex, heldMeta, nextByKey)
  /\ Counted(Out, heldMeta, nextByKey, freeLanes, totalInFlight, bufferedBytes, deliveredCount)
  /\ LastInFlight(Out, queueIndex, totalInFlight, bufferedBytes)

(* What is held and comes next is held because its consumer is full.         *)
Drained == \A k \in Keys : ~paused[k] => ~Has(heldMeta, k, nextByKey[k])

(* What a worker keeps, and the releases on their way to it.                 *)
Kept(w) ==
  /\ deliveryMode = "ordered-drop" =>
       heldChunks[w] = Sent(outbox[w], "part")
                         \cup {<<h[1], h[2]>> : h \in {m \in heldMeta : m[3] = w}}
                         \cup Sent(inbox[w], "release")
  /\ deliveryMode # "ordered-drop" =>
       heldChunks[w] = {} /\ Sent(inbox[w], "release") = {}
  /\ Once(inbox[w], "release")
  /\ Sent(inbox[w], "release") \subseteq Passed(nextByKey)
MemoryKept == \A w \in Workers : Kept(w)

StopEnds(queue) == \A i \in 1 .. Len(queue) : queue[i][1] = "stop" => i = Len(queue)

(* 'stop' is the last message of an inbox.                                   *)
StopIsLast ==
  \A w \in Workers :
    /\ StopEnds(inbox[w])
    /\ dispatchStopped[w] => inbox[w] = <<>>
    /\ doneEmitted[w] # "no" => dispatchStopped[w]
    /\ dispatchStopped[w] \/ Holds(inbox[w], "stop") => deliveryDone

(* deliveryDone tells that all is delivered, and in ordered-stream taken.    *)
DeliveryKnown ==
  /\ deliveryMode = "ordered-drop" =>
       /\ deliveryDone <=> deliveredCount = TotalParts
       /\ \A k \in Keys : queued[k] = 0
  /\ deliveryMode # "ordered-drop" => (deliveryDone <=> finished = Keys)
  /\ \A k \in finished : Ended(k) /\ queued[k] = 0

Readied == {w \in up : ~Holds(outbox[w], "ready")}
Reported == {w \in Workers : doneEmitted[w] = "posted" /\ ~Holds(outbox[w], "worker-done")}

ReportsCounted ==
  /\ \A w \in Workers : /\ Single(outbox[w], "ready") /\ Single(outbox[w], "worker-done")
                        /\ Holds(outbox[w], "ready") => w \in up
                        /\ Holds(outbox[w], "worker-done") => doneEmitted[w] = "posted"
  /\ readyCount = Cardinality(Readied)
  /\ workerDone = Cardinality(Reported)
  /\ outcome = "resolved" => deliveryDone /\ workerDone = NWorkers

TypesKept ==
  /\ deliveryMode \in Sinks
  /\ up \subseteq Workers /\ dead \subseteq Workers
  /\ heldChunks \in [Workers -> SUBSET AllParts]
  /\ dispatchInFlight \in [Workers -> Nat]
  /\ dispatchStopped \in [Workers -> BOOLEAN]
  /\ doneEmitted \in [Workers -> DoneStates]
  /\ deliveryDone \in BOOLEAN
  /\ paused \in [Keys -> BOOLEAN]
  /\ queued \in [Keys -> Nat]
  /\ finished \subseteq Keys
  /\ outcome \in {"running", "resolved", "failed"}

Inv ==
  /\ TypesKept /\ InPlaces /\ BooksBalance /\ Drained /\ MemoryKept /\ StopIsLast
  /\ DeliveryKnown /\ ReportsCounted

-----------------------------------------------------------------------------
(* The finite sets that everything else is a subset of.                      *)

LEMMA PartShape ==
  /\ \A k, n : <<k, n>> \in AllParts <=> k \in Keys /\ n \in 1 .. Parts[k]
  /\ \A p \in AllParts : p = <<p[1], p[2]>> /\ p[1] \in Keys /\ p[2] \in 1 .. Parts[p[1]]
  /\ \A k \in Keys : Parts[k] \in Nat /\ Parts[k] > 0
<1>1. \A k \in Keys : Parts[k] \in Nat /\ Parts[k] > 0
  BY ObjectsAssumption
<1>2. \A p : p \in AllParts <=> \E k \in Keys : p \in {k} \X (1 .. Parts[k])
  BY DEF AllParts
<1> QED
  BY <1>1, <1>2

LEMMA FiniteParts ==
  \A S \in SUBSET AllParts :
    /\ IsFiniteSet(S) /\ Cardinality(S) \in Nat
    /\ Cardinality(S) <= TotalParts
    /\ Cardinality(S) = 0 <=> S = {}
<1>1. Parts \in [Keys -> Int]
  BY ObjectsAssumption
<1>2. IsFiniteSet(Keys)
  BY ObjectsAssumption, FS_Interval DEF Keys
<1>3. IsFiniteSet(AllParts)
  BY <1>1, <1>2, FiniteRows DEF AllParts
<1> QED
  BY <1>3, FS_Subset, FS_CardinalityType, FS_EmptySet DEF TotalParts

LEMMA FiniteWorkers ==
  /\ IsFiniteSet(Workers) /\ Cardinality(Workers) = NWorkers
  /\ NWorkers \in Nat /\ NWorkers > 0
<1>1. 1 \in Int /\ NWorkers \in Int /\ NWorkers > 0
  BY WorkersAssumption
<1>2. IsFiniteSet(1 .. NWorkers) /\ Cardinality(1 .. NWorkers) = NWorkers
  BY <1>1, FS_Interval
<1> QED
  BY <1>1, <1>2 DEF Workers

LEMMA TotalFacts ==
  TotalParts \in Nat /\ TotalParts > 0 /\ Cardinality(AllParts) = TotalParts
BY FiniteParts, FiniteWorkers, LanesAssumption DEF TotalParts

-----------------------------------------------------------------------------
(* The order of the queue.                                                   *)

LEMMA PositionFacts ==
  /\ \A p \in AllParts : Position(p) \in 0 .. TotalParts - 1
  /\ \A p, q \in AllParts : Position(p) = Position(q) => p = q
  /\ \A i \in 0 .. TotalParts - 1 : QueueAt(i) \in AllParts /\ Position(QueueAt(i)) = i
  /\ \A p, q \in AllParts : p[1] = q[1] /\ p[2] < q[2] => Position(p) < Position(q)
<1> DEFINE before == [p \in AllParts |->
                        {q \in AllParts : q[2] < p[2] \/ (q[2] = p[2] /\ q[1] < p[1])}]
<1>1. \A p \in AllParts : Position(p) = Cardinality(before[p])
  BY DEF Position
<1>2. \A p \in AllParts : p[1] \in Int /\ p[2] \in Int /\ p = <<p[1], p[2]>>
  BY PartShape, ObjectsAssumption DEF Keys
<1>3. /\ before \in [AllParts -> SUBSET AllParts]
      /\ \A p, q \in AllParts :
           q \in before[p] <=> q[2] < p[2] \/ (q[2] = p[2] /\ q[1] < p[1])
  OBVIOUS
<1> HIDE DEF before
<1>4. \A p \in AllParts : p \notin before[p]
  BY <1>2, <1>3
<1>5. ASSUME NEW p \in AllParts, NEW q \in before[p]
      PROVE  before[q] \subseteq before[p]
  <2> SUFFICES ASSUME NEW r \in before[q]
               PROVE  r \in before[p]
    OBVIOUS
  <2>1. q \in AllParts /\ r \in AllParts
    BY <1>3
  <2>2. /\ q[2] < p[2] \/ (q[2] = p[2] /\ q[1] < p[1])
        /\ r[2] < q[2] \/ (r[2] = q[2] /\ r[1] < q[1])
    BY <1>3, <2>1
  <2>3. /\ p[1] \in Int /\ p[2] \in Int /\ q[1] \in Int /\ q[2] \in Int
        /\ r[1] \in Int /\ r[2] \in Int
    BY <1>2, <2>1
  <2>4. r[2] < p[2] \/ (r[2] = p[2] /\ r[1] < p[1])
    BY ONLY <2>2, <2>3
  <2> QED BY <1>3, <2>1, <2>4
<1>6. ASSUME NEW p \in AllParts, NEW q \in AllParts, p # q
      PROVE  p \in before[q] \/ q \in before[p]
  BY <1>2, <1>3, <1>6
<1>7. IsFiniteSet(AllParts) /\ Cardinality(AllParts) = TotalParts
  BY FiniteParts, TotalFacts
<1>8. /\ \A p \in AllParts : Cardinality(before[p]) \in 0 .. Cardinality(AllParts) - 1
      /\ \A p, q \in AllParts :
           q \in before[p] => Cardinality(before[q]) < Cardinality(before[p])
      /\ \A p, q \in AllParts : Cardinality(before[p]) = Cardinality(before[q]) => p = q
      /\ \A i \in 0 .. Cardinality(AllParts) - 1 :
           \E p \in AllParts : Cardinality(before[p]) = i
  BY <1>3, <1>4, <1>5, <1>6, <1>7, Ranking
<1>9. ASSUME NEW i \in 0 .. TotalParts - 1
      PROVE  QueueAt(i) \in AllParts /\ Position(QueueAt(i)) = i
  <2>1. \E p \in AllParts : Position(p) = i
    BY <1>1, <1>7, <1>8
  <2> QED BY <2>1 DEF QueueAt
<1>10. ASSUME NEW p \in AllParts, NEW q \in AllParts, p[1] = q[1], p[2] < q[2]
       PROVE  Position(p) < Position(q)
  BY <1>1, <1>3, <1>8, <1>10
<1> QED
  BY <1>1, <1>7, <1>8, <1>9, <1>10

LEMMA IssuedFacts ==
  /\ \A index : Issued(index) \subseteq AllParts
  /\ Issued(0) = {} /\ Issued(TotalParts) = AllParts
  /\ \A index \in Nat : \A p, q \in AllParts :
       p[1] = q[1] /\ p[2] < q[2] /\ q \in Issued(index) => p \in Issued(index)
<1>1. \A p \in AllParts : Position(p) \in 0 .. TotalParts - 1
  BY PositionFacts
<1>2. Issued(0) = {} /\ Issued(TotalParts) = AllParts
  BY <1>1, TotalFacts DEF Issued
<1>3. ASSUME NEW index \in Nat, NEW p \in AllParts, NEW q \in AllParts,
             p[1] = q[1], p[2] < q[2], Position(q) < index
      PROVE  Position(p) < index
  <2>1. Position(p) < Position(q) /\ Position(p) \in Int /\ Position(q) \in Int
    BY <1>3, PositionFacts
  <2> QED BY <1>3, <2>1
<1> QED
  BY <1>2, <1>3 DEF Issued

-----------------------------------------------------------------------------
(* What a call of dispatchMore does.                                         *)

(* more[w] are the parts that w is sent, by the messages sent[w].            *)
Dispatched(free, flying, backlog, posts, more, sent) ==
  /\ \A v, w \in Workers : v # w => more[v] \cap more[w] = {}
  /\ \A w \in Workers : /\ Cardinality(more[w]) <= free[w]
                        /\ Sent(sent[w], "assign") = more[w] /\ Once(sent[w], "assign")
                        /\ more[w] = {} => sent[w] = <<>>
  /\ queueIndex' \in Nat /\ queueIndex <= queueIndex' /\ queueIndex' <= TotalParts
  /\ Flying(more) = Issued(queueIndex') \ Issued(queueIndex)
  /\ inbox' = [w \in Workers |-> inbox[w] \o posts[w] \o sent[w]]
  /\ freeLanes' = [w \in Workers |-> free[w] - Cardinality(more[w])]
  /\ totalInFlight' = flying + Cardinality(Flying(more))
  /\ ~(backlog < Cap) => /\ flying # 0 => queueIndex' = queueIndex
                         /\ queueIndex' <= queueIndex + 1

LEMMA DispatchEffect ==
  ASSUME NEW STATE free, NEW STATE flying, NEW STATE backlog, NEW ACTION posts,
         free \in [Workers -> Nat], queueIndex \in 0 .. TotalParts,
         DispatchMore(free, flying, backlog, posts)
  PROVE  \E more \in [Workers -> SUBSET AllParts],
            sent \in [Workers -> Seq({"assign"} \X AllParts)] :
           Dispatched(free, flying, backlog, posts, more, sent)
<1> DEFINE count == Allowance(flying, backlog)
           placed == Placed(free, count)
           assigns == NextParts(count)
           given == [w \in Workers |-> Shares(free, assigns, w)]
           Slot(w, i) == SlotsBefore(free, w, i) + 1
           turns == [i \in 1 .. count |-> QueueAt(queueIndex + i - 1)]
           gone == {turns[i] : i \in 1 .. placed}
<1>1. /\ inbox' = [w \in Workers |-> inbox[w] \o posts[w] \o given[w]]
      /\ freeLanes' = [w \in Workers |-> free[w] - Len(given[w])]
      /\ totalInFlight' = flying + placed
      /\ queueIndex' = queueIndex + placed
  BY DEF DispatchMore
<1>2. /\ count \in 0 .. TotalParts - queueIndex
      /\ ~(backlog < Cap) => count <= 1 /\ (flying # 0 => count = 0)
  BY TotalFacts DEF Allowance
<1>3. /\ queueIndex \in Nat /\ TotalParts \in Nat /\ queueIndex <= TotalParts /\ count \in Nat
      /\ count <= TotalParts - queueIndex
  <2> HIDE DEF count
  <2> QED BY <1>2, TotalFacts
<1>4. \A i \in 1 .. count : assigns[i] = <<"assign", turns[i]>>
  BY DEF NextParts
<1>5. \A i \in 1 .. count : /\ turns[i] \in AllParts
                            /\ Position(turns[i]) = queueIndex + i - 1
  <2> HIDE DEF count
  <2> SUFFICES ASSUME NEW i \in 1 .. count
               PROVE  turns[i] \in AllParts /\ Position(turns[i]) = queueIndex + i - 1
    OBVIOUS
  <2>1. queueIndex + i - 1 \in 0 .. TotalParts - 1
    BY <1>3
  <2> QED BY <2>1, PositionFacts
<1>6. assigns \in [1 .. count -> {"assign"} \X AllParts]
  <2>1. assigns = [i \in 1 .. count |-> assigns[i]]
    BY DEF NextParts
  <2> HIDE DEF assigns, turns, count
  <2>2. ASSUME NEW i \in 1 .. count
        PROVE  assigns[i] \in {"assign"} \X AllParts
    <3>1. assigns[i] = <<"assign", turns[i]>> /\ turns[i] \in AllParts
      BY <1>4, <1>5
    <3> QED BY <3>1
  <2> QED BY <2>1, <2>2
<1> HIDE DEF count, turns
<1>7. /\ placed \in 0 .. count
      /\ \A w \in Workers : /\ given[w] \in Seq({"assign"} \X AllParts)
                            /\ Len(given[w]) \in 0 .. free[w]
      /\ \A w \in Workers : \A i \in 1 .. Len(given[w]) :
           Slot(w, i) \in 1 .. placed /\ given[w][i] = assigns[Slot(w, i)]
      /\ \A v, w \in Workers : \A i \in 1 .. Len(given[v]) : \A j \in 1 .. Len(given[w]) :
           Slot(v, i) = Slot(w, j) => v = w /\ i = j
      /\ \A j \in 1 .. placed : \E w \in Workers : \E i \in 1 .. Len(given[w]) :
           Slot(w, i) = j
  <2>1. free \in [1 .. NWorkers -> Nat] /\ NWorkers \in Nat
    BY FiniteWorkers DEF Workers
  <2>2. \A w \in 1 .. NWorkers : given[w] = Shares(free, assigns, w)
    BY DEF Workers
  <2> HIDE DEF assigns, given, placed
  <2>3. DealtOut(NWorkers, free, {"assign"} \X AllParts, count, assigns, given)
    BY <1>3, <1>6, <2>1, <2>2, SharesDealt
  <2> QED BY <2>3 DEF DealtOut, Workers, placed
<1>7a. \A v, w \in Workers : \A i \in 1 .. Len(given[v]) : \A j \in 1 .. Len(given[w]) :
         Slot(v, i) = Slot(w, j) => v = w /\ i = j
  BY ONLY <1>7
<1> HIDE DEF given, placed, assigns
<1>8. placed \in Nat /\ placed <= count /\ \A j \in 1 .. placed : j \in 1 .. count
  BY <1>3, <1>7
<1>9. \A p : p \in gone <=> \E j \in 1 .. placed : turns[j] = p
  OBVIOUS
<1> HIDE DEF gone
<1>10. gone \subseteq AllParts /\ IsFiniteSet(gone) /\ Cardinality(gone) = placed
  <2>1. \A i, j \in 1 .. placed : turns[i] = turns[j] => i = j
    <3> SUFFICES ASSUME NEW i \in 1 .. placed, NEW j \in 1 .. placed, turns[i] = turns[j]
                 PROVE  i = j
      OBVIOUS
    <3>1. queueIndex + i - 1 = queueIndex + j - 1
      BY <1>5, <1>8
    <3> QED BY <1>3, <1>8, <3>1
  <2>2. gone \subseteq AllParts
    BY <1>5, <1>8, <1>9
  <2> QED BY <1>8, <1>9, <2>1, <2>2, ImageSize
<1>11. /\ queueIndex' \in Nat /\ queueIndex <= queueIndex' /\ queueIndex' <= TotalParts
       /\ ~(backlog < Cap) => /\ flying # 0 => queueIndex' = queueIndex
                              /\ queueIndex' <= queueIndex + 1
  <2> DEFINE index == queueIndex'
  <2>1. index = queueIndex + placed
    BY <1>1
  <2> HIDE DEF index
  <2>2. /\ index \in Nat /\ queueIndex <= index /\ index <= TotalParts
        /\ ~(backlog < Cap) => /\ flying # 0 => index = queueIndex
                               /\ index <= queueIndex + 1
    BY <1>2, <1>3, <1>8, <2>1
  <2> QED BY <2>2 DEF index
<1>12. gone = Issued(queueIndex') \ Issued(queueIndex)
  <2> SUFFICES ASSUME NEW p \in AllParts
               PROVE  p \in gone <=> Position(p) < queueIndex' /\ ~(Position(p) < queueIndex)
    BY <1>10 DEF Issued
  <2> DEFINE index == queueIndex'
             d == Position(p) - queueIndex + 1
  <2>1. index = queueIndex + placed /\ Position(p) \in 0 .. TotalParts - 1
    BY <1>1, PositionFacts
  <2>2. Position(p) \in Nat
    BY <2>1, TotalFacts
  <2>3. ASSUME p \in gone
        PROVE  Position(p) < index /\ ~(Position(p) < queueIndex)
    <3>1. PICK j \in 1 .. placed : turns[j] = p
      BY <1>9, <2>3
    <3>2. Position(p) = queueIndex + j - 1
      BY <1>5, <1>8, <3>1
    <3> HIDE DEF index
    <3> QED BY <1>3, <1>8, <2>1, <3>1, <3>2
  <2>4. ASSUME Position(p) < index, ~(Position(p) < queueIndex)
        PROVE  p \in gone
    <3>1. d \in 1 .. placed /\ queueIndex + d - 1 = Position(p)
      <4> HIDE DEF index
      <4> QED BY <1>3, <1>8, <2>1, <2>2, <2>4
    <3> HIDE DEF d
    <3>2. turns[d] \in AllParts /\ Position(turns[d]) = queueIndex + d - 1
      BY <1>5, <1>8, <3>1
    <3>3. turns[d] = p
      BY <3>1, <3>2, PositionFacts
    <3> QED BY <1>9, <3>1, <3>3
  <2> QED BY <2>3, <2>4
<1>13. \A w \in Workers : \A i \in 1 .. Len(given[w]) :
         /\ Slot(w, i) \in 1 .. placed
         /\ given[w][i][1] = "assign" /\ given[w][i][2] = turns[Slot(w, i)]
         /\ given[w][i][2] \in gone
  <2> SUFFICES ASSUME NEW w \in Workers, NEW i \in 1 .. Len(given[w])
               PROVE  /\ Slot(w, i) \in 1 .. placed
                      /\ given[w][i][1] = "assign"
                      /\ given[w][i][2] = turns[Slot(w, i)]
                      /\ given[w][i][2] \in gone
    OBVIOUS
  <2>1. Slot(w, i) \in 1 .. placed /\ given[w][i] = assigns[Slot(w, i)]
    BY <1>7
  <2> HIDE DEF Slot
  <2>2. Slot(w, i) \in 1 .. count
    BY <1>8, <2>1
  <2>3. assigns[Slot(w, i)] = <<"assign", turns[Slot(w, i)]>>
    BY <1>4, <2>2
  <2> QED BY <1>9, <2>1, <2>3
<1>14. \A v, w \in Workers : \A i \in 1 .. Len(given[v]) : \A j \in 1 .. Len(given[w]) :
         given[v][i][2] = given[w][j][2] => v = w /\ i = j
  <2> SUFFICES ASSUME NEW v \in Workers, NEW w \in Workers,
                      NEW i \in 1 .. Len(given[v]), NEW j \in 1 .. Len(given[w]),
                      given[v][i][2] = given[w][j][2]
               PROVE  v = w /\ i = j
    OBVIOUS
  <2>1. turns[Slot(v, i)] = turns[Slot(w, j)]
    BY <1>13
  <2>2. Slot(v, i) \in 1 .. placed /\ Slot(w, j) \in 1 .. placed
    BY <1>13
  <2> HIDE DEF Slot
  <2>3. queueIndex + Slot(v, i) - 1 = queueIndex + Slot(w, j) - 1
    BY <1>5, <1>8, <2>1, <2>2
  <2>4. Slot(v, i) = Slot(w, j)
    BY <1>3, <1>8, <2>2, <2>3
  <2> QED BY <1>7a, <2>4
<1> DEFINE more == [w \in Workers |-> Sent(given[w], "assign")]
<1>15. \A w \in Workers : \A p :
         p \in more[w] <=> \E i \in 1 .. Len(given[w]) : given[w][i][2] = p
  <2> HIDE DEF Slot
  <2> QED BY <1>13 DEF Sent
<1>16. /\ \A w \in Workers : more[w] \subseteq gone
       /\ more \in [Workers -> SUBSET AllParts]
  <2>1. \A w \in Workers : \A i \in 1 .. Len(given[w]) : given[w][i][2] \in gone
    BY <1>13
  <2>2. \A w \in Workers : more[w] \subseteq gone
    <3> HIDE DEF more
    <3> QED BY <1>15, <2>1
  <2>3. \A w \in Workers : more[w] \in SUBSET AllParts
    BY <1>10, <2>2
  <2> QED BY <2>2, <2>3
<1>17. \A v, w \in Workers : v # w => more[v] \cap more[w] = {}
  <2> SUFFICES ASSUME NEW v \in Workers, NEW w \in Workers, NEW p \in more[v] \cap more[w]
               PROVE  v = w
    OBVIOUS
  <2>1. p \in more[v] /\ p \in more[w]
    OBVIOUS
  <2> HIDE DEF more
  <2>2. PICK i \in 1 .. Len(given[v]) : given[v][i][2] = p
    BY <1>15, <2>1
  <2>3. PICK j \in 1 .. Len(given[w]) : given[w][j][2] = p
    BY <1>15, <2>1
  <2> QED BY <1>14, <2>2, <2>3
<1>18. ASSUME NEW w \in Workers
       PROVE  /\ Once(given[w], "assign") /\ Sent(given[w], "assign") = more[w]
              /\ Cardinality(more[w]) = Len(given[w])
              /\ Cardinality(more[w]) <= free[w]
              /\ more[w] = {} => given[w] = <<>>
              /\ given[w] \in Seq({"assign"} \X AllParts)
  <2>1. Once(given[w], "assign")
    BY <1>14 DEF Once
  <2>2. Sent(given[w], "assign") = more[w]
    OBVIOUS
  <2> DEFINE f == [i \in 1 .. Len(given[w]) |-> given[w][i][2]]
             m == Len(given[w])
  <2>3. m \in Nat /\ m <= free[w]
    <3>1. free[w] \in Nat /\ Len(given[w]) \in 0 .. free[w]
      BY <1>7
    <3> QED BY <3>1
  <2>4. \A i, j \in 1 .. m : f[i] = f[j] => i = j
    BY <1>14
  <2>5. \A p : p \in more[w] <=> \E i \in 1 .. m : f[i] = p
    BY <1>15
  <2>6. given[w] \in Seq({"assign"} \X AllParts)
    BY <1>7
  <2>7. Cardinality(more[w]) = m
    <3> HIDE DEF f, m, more
    <3> QED BY <2>3, <2>4, <2>5, ImageSize
  <2>8. more[w] = {} => given[w] = <<>>
    <3>1. more[w] = {} => m = 0
      <4> HIDE DEF more, m
      <4> QED BY <2>7, FS_EmptySet
    <3> QED BY <2>6, <3>1, EmptySeq
  <2> HIDE DEF more, f
  <2> QED BY <2>1, <2>2, <2>3, <2>6, <2>7, <2>8
<1>19. Flying(more) = gone
  <2>1. ASSUME NEW p \in gone
        PROVE  \E w \in Workers : p \in more[w]
    <3>1. PICK j \in 1 .. placed : turns[j] = p
      BY <1>9
    <3>2. PICK w \in Workers : \E i \in 1 .. Len(given[w]) : Slot(w, i) = j
      BY <1>7
    <3>3. PICK i \in 1 .. Len(given[w]) : Slot(w, i) = j
      BY <3>2
    <3>4. given[w][i][2] = p
      BY <1>13, <3>1, <3>3
    <3> HIDE DEF more
    <3> QED BY <1>15, <3>4
  <2> HIDE DEF more
  <2> QED BY <1>10, <1>16, <2>1 DEF Flying
<1> HIDE DEF more
<1>20. /\ freeLanes' = [w \in Workers |-> free[w] - Cardinality(more[w])]
       /\ totalInFlight' = flying + Cardinality(Flying(more))
  BY <1>1, <1>10, <1>18, <1>19
<1>21. given \in [Workers -> Seq({"assign"} \X AllParts)]
  <2>1. given = [w \in Workers |-> given[w]]
    BY DEF given
  <2> QED BY <1>18, <2>1
<1>22. Dispatched(free, flying, backlog, posts, more, given)
  BY <1>1, <1>11, <1>12, <1>17, <1>18, <1>19, <1>20 DEF Dispatched
<1> QED
  BY <1>16, <1>21, <1>22

-----------------------------------------------------------------------------
(* The books.                                                                *)

LEMMA TripleShape ==
  /\ \A h \in Triples : /\ h = <<h[1], h[2], h[3]>>
                        /\ <<h[1], h[2]>> \in AllParts /\ h[3] \in Workers
  /\ \A p \in AllParts : \A w \in Workers : <<p[1], p[2], w>> \in Triples
<1> SUFFICES ASSUME NEW h \in Triples
             PROVE  /\ h = <<h[1], h[2], h[3]>>
                    /\ <<h[1], h[2]>> \in AllParts /\ h[3] \in Workers
  BY DEF Triples
<1>1. PICK p \in AllParts, w \in Workers : h = <<p[1], p[2], w>>
  BY DEF Triples
<1>2. p = <<p[1], p[2]>>
  BY PartShape
<1> QED
  BY <1>1, <1>2

LEMMA HeldIff ==
  ASSUME NEW held \in SUBSET Triples
  PROVE  /\ \A h \in held : <<h[1], h[2]>> \in HeldParts(held)
         /\ \A k, n : <<k, n>> \in HeldParts(held) <=> Has(held, k, n)
<1>1. ASSUME NEW k, NEW n, Has(held, k, n)
      PROVE  <<k, n>> \in AllParts
  <2>1. PICK w \in Workers : <<k, n, w>> \in held
    BY <1>1 DEF Has
  <2>2. <<k, n, w>> \in Triples
    BY <2>1
  <2> QED BY <2>2, TripleShape
<1>2. \A k, n : <<k, n>> \in HeldParts(held) <=> Has(held, k, n)
  BY <1>1 DEF HeldParts
<1>3. ASSUME NEW h \in held
      PROVE  Has(held, h[1], h[2])
  BY TripleShape DEF Has
<1> QED
  BY <1>2, <1>3

(* The triples that are held are as many as their parts.                     *)
LEMMA HeldSize ==
  ASSUME NEW held \in SUBSET Triples,
         \A g, h \in held : g[1] = h[1] /\ g[2] = h[2] => g = h
  PROVE  IsFiniteSet(held) /\ Cardinality(held) = Cardinality(HeldParts(held))
<1> DEFINE S == HeldParts(held)
           lane == [p \in S |-> CHOOSE w \in Workers : <<p[1], p[2], w>> \in held]
           R == {<<p[1], p[2], lane[p]>> : p \in S}
<1>1. IsFiniteSet(S) /\ \A p \in S : p = <<p[1], p[2]>>
  BY FiniteParts, PartShape DEF HeldParts
<1>2. ASSUME NEW p \in S
      PROVE  lane[p] \in Workers /\ <<p[1], p[2], lane[p]>> \in held
  <2>1. \E w \in Workers : <<p[1], p[2], w>> \in held
    BY DEF HeldParts, Has
  <2> QED BY <2>1
<1>3. \A h \in held : <<h[1], h[2]>> \in S /\ h = <<h[1], h[2], h[3]>>
  BY HeldIff, TripleShape
<1> HIDE DEF S, lane
<1>4. \A h \in held : h \in R
  <2> SUFFICES ASSUME NEW h \in held
               PROVE  h \in R
    OBVIOUS
  <2> DEFINE p == <<h[1], h[2]>>
             g == <<p[1], p[2], lane[p]>>
  <2>1. p \in S /\ g \in held
    BY <1>2, <1>3
  <2>2. g[1] = h[1] /\ g[2] = h[2]
    OBVIOUS
  <2>3. g = h
    BY <2>1, <2>2
  <2> QED BY <2>1, <2>3
<1>5. R = held
  BY <1>2, <1>4
<1>6. IsFiniteSet(R) /\ Cardinality(R) = Cardinality(S)
  BY <1>1, TagSize
<1> QED
  BY <1>5, <1>6 DEF S

(* p is answered by w, and held until it is its turn.                        *)
Arrived(w, p, out, held, free, out2, held2, free2) ==
  /\ out2 = [out EXCEPT ![w] = @ \ {p}]
  /\ held2 = held \cup {<<p[1], p[2], w>>}
  /\ free2 = [free EXCEPT ![w] = @ + 1]

LEMMA BooksArrive ==
  ASSUME NEW out, NEW index, NEW held, NEW next, NEW free, NEW flying, NEW backlog, NEW count,
         Placement(out, index, held, next),
         Counted(out, held, next, free, flying, backlog, count),
         NEW w \in Workers, NEW p \in out[w],
         NEW out2, NEW held2, NEW free2, Arrived(w, p, out, held, free, out2, held2, free2)
  PROVE  /\ Placement(out2, index, held2, next)
         /\ Counted(out2, held2, next, free2, flying - 1, backlog + 1, count)
         /\ Flying(out2) \subseteq Flying(out)
<1> DEFINE t == <<p[1], p[2], w>>
<1>a. /\ out2 = [out EXCEPT ![w] = @ \ {p}]
      /\ held2 = held \cup {t}
      /\ free2 = [free EXCEPT ![w] = @ + 1]
  BY DEF Arrived
<1>0. /\ out \in [Workers -> SUBSET AllParts]
      /\ \A v, x \in Workers : v # x => out[v] \cap out[x] = {}
      /\ held \subseteq Triples
      /\ \A g, h \in held : g[1] = h[1] /\ g[2] = h[2] => g = h
      /\ index \in 0 .. TotalParts
      /\ next \in [Keys -> Nat] /\ \A k \in Keys : next[k] \in 1 .. Parts[k] + 1
      /\ Issued(index) = Flying(out) \cup HeldParts(held) \cup Passed(next)
      /\ Flying(out) \cap HeldParts(held) = {}
      /\ Flying(out) \cap Passed(next) = {}
      /\ HeldParts(held) \cap Passed(next) = {}
  BY DEF Placement
<1>b. /\ free \in [Workers -> 0 .. Concurrency]
      /\ \A v \in Workers : free[v] = Concurrency - Cardinality(out[v])
      /\ flying = Cardinality(Flying(out))
      /\ backlog = Cardinality(held)
      /\ count = Cardinality(Passed(next))
  BY DEF Counted
<1>1. /\ p \in AllParts /\ p = <<p[1], p[2]>>
      /\ \A v \in Workers : v # w => p \notin out[v]
  <2>1. p \in AllParts
    BY <1>0
  <2> QED BY <1>0, <2>1, PartShape
<1>2. out2 \in [Workers -> SUBSET AllParts] /\ out2[w] = out[w] \ {p}
      /\ \A v \in Workers : v # w => out2[v] = out[v]
  BY <1>0, <1>a
<1>3. Flying(out2) = Flying(out) \ {p} /\ p \in Flying(out)
  <2>1. p \in Flying(out)
    BY <1>1 DEF Flying
  <2>2. \A q : q \in Flying(out2) <=> q \in Flying(out) \ {p}
    BY <1>1, <1>2 DEF Flying
  <2> QED BY <2>1, <2>2
<1>4. \A v, x \in Workers : v # x => out2[v] \cap out2[x] = {}
  <2>1. \A v \in Workers : out2[v] \subseteq out[v]
    BY <1>2
  <2> QED BY <1>0, <2>1
<1>5. t \in Triples /\ t[1] = p[1] /\ t[2] = p[2] /\ t[3] = w
  BY <1>1, TripleShape
<1>6. \A h \in held : ~(h[1] = p[1] /\ h[2] = p[2])
  <2> SUFFICES ASSUME NEW h \in held, h[1] = p[1], h[2] = p[2]
               PROVE  FALSE
    OBVIOUS
  <2>1. held \in SUBSET Triples
    BY <1>0
  <2>2. <<h[1], h[2]>> \in HeldParts(held)
    BY <2>1, HeldIff
  <2>3. p \in HeldParts(held)
    BY <1>1, <2>2
  <2> QED BY <1>0, <1>3, <2>3
<1> HIDE DEF t
<1>7. /\ held2 \subseteq Triples
      /\ \A g, h \in held2 : g[1] = h[1] /\ g[2] = h[2] => g = h
  BY <1>0, <1>5, <1>6, <1>a
<1>8. HeldParts(held2) = HeldParts(held) \cup {p}
  <2>1. \A q \in AllParts : Has(held2, q[1], q[2]) <=> Has(held, q[1], q[2]) \/ q = p
    <3> SUFFICES ASSUME NEW q \in AllParts
                 PROVE  Has(held2, q[1], q[2]) <=> Has(held, q[1], q[2]) \/ q = p
      OBVIOUS
    <3>1. q = <<q[1], q[2]>>
      BY PartShape
    <3>2. \A v : <<q[1], q[2], v>> = t <=> q[1] = p[1] /\ q[2] = p[2] /\ v = w
      BY DEF t
    <3> QED BY <1>1, <1>a, <3>1, <3>2 DEF Has
  <2> QED BY <1>1, <2>1 DEF HeldParts
<1>9. Placement(out2, index, held2, next)
  <2>1. /\ Issued(index) = Flying(out2) \cup HeldParts(held2) \cup Passed(next)
        /\ Flying(out2) \cap HeldParts(held2) = {}
        /\ Flying(out2) \cap Passed(next) = {}
        /\ HeldParts(held2) \cap Passed(next) = {}
    BY <1>0, <1>3, <1>8
  <2> QED BY <1>0, <1>2, <1>4, <1>7, <2>1 DEF Placement
<1>10. ASSUME NEW v \in Workers
       PROVE  free2[v] \in 0 .. Concurrency /\ free2[v] = Concurrency - Cardinality(out2[v])
  <2>1. IsFiniteSet(out[v]) /\ Cardinality(out[v]) \in Nat
    BY <1>0, FiniteParts
  <2>2. free[v] = Concurrency - Cardinality(out[v]) /\ free[v] \in 0 .. Concurrency
    BY <1>b
  <2>3. Concurrency \in Nat
    BY LanesAssumption
  <2>4. CASE v = w
    <3>1. /\ Cardinality(out2[v]) = Cardinality(out[v]) - 1
          /\ Cardinality(out2[v]) \in Nat
      BY <1>2, <2>1, <2>4, RemovedSize
    <3>2. free2[v] = free[v] + 1
      BY <1>a, <1>b, <2>4
    <3> QED BY <2>1, <2>2, <2>3, <3>1, <3>2
  <2>5. CASE v # w
    <3>1. free2[v] = free[v] /\ out2[v] = out[v]
      BY <1>2, <1>a, <1>b, <2>5
    <3> QED BY <2>2, <3>1
  <2> QED BY <2>4, <2>5
<1>11. free2 \in [Workers -> 0 .. Concurrency]
  <2>1. DOMAIN free2 = Workers /\ free2 = [v \in Workers |-> free2[v]]
    BY <1>a, <1>b
  <2> QED BY <1>10, <2>1
<1>12. Cardinality(Flying(out2)) = flying - 1
  <2>1. IsFiniteSet(Flying(out))
    BY FiniteParts DEF Flying
  <2> QED BY <1>3, <1>b, <2>1, RemovedSize
<1>13. Cardinality(held2) = backlog + 1
  <2>1. held \in SUBSET Triples /\ IsFiniteSet(held)
    BY <1>0, HeldSize
  <2>2. t \notin held
    BY <1>5, <1>6
  <2> QED BY <1>a, <1>b, <2>1, <2>2, FS_AddElement
<1> QED
  BY <1>3, <1>9, <1>10, <1>11, <1>12, <1>13, <1>b DEF Counted

(* The next m parts of k leave heldMeta.                                     *)
Delivery(k, m, held, next, held2, next2) ==
  /\ \A i \in 0 .. m - 1 : Has(held, k, next[k] + i)
  /\ held2 = {h \in held : h[1] # k \/ h[2] >= next[k] + m}
  /\ next2 = [next EXCEPT ![k] = @ + m]

LEMMA BooksDrain ==
  ASSUME NEW out, NEW index, NEW held, NEW next, NEW free, NEW flying, NEW backlog, NEW count,
         Placement(out, index, held, next),
         Counted(out, held, next, free, flying, backlog, count),
         NEW k \in Keys, NEW m \in Nat,
         NEW held2, NEW next2, Delivery(k, m, held, next, held2, next2)
  PROVE  /\ Placement(out, index, held2, next2)
         /\ Counted(out, held2, next2, free, flying, backlog - m, count + m)
<1> DEFINE run == Run(k, next[k], m)
<1>a. /\ \A i \in 0 .. m - 1 : Has(held, k, next[k] + i)
      /\ held2 = {h \in held : h[1] # k \/ h[2] >= next[k] + m}
      /\ next2 = [next EXCEPT ![k] = @ + m]
  BY DEF Delivery
<1>0. /\ out \in [Workers -> SUBSET AllParts]
      /\ \A v, x \in Workers : v # x => out[v] \cap out[x] = {}
      /\ held \in SUBSET Triples
      /\ \A g, h \in held : g[1] = h[1] /\ g[2] = h[2] => g = h
      /\ index \in 0 .. TotalParts
      /\ next \in [Keys -> Nat] /\ \A j \in Keys : next[j] \in 1 .. Parts[j] + 1
      /\ Issued(index) = Flying(out) \cup HeldParts(held) \cup Passed(next)
      /\ Flying(out) \cap HeldParts(held) = {}
      /\ Flying(out) \cap Passed(next) = {}
      /\ HeldParts(held) \cap Passed(next) = {}
  BY DEF Placement
<1>b. /\ free \in [Workers -> 0 .. Concurrency]
      /\ \A v \in Workers : free[v] = Concurrency - Cardinality(out[v])
      /\ flying = Cardinality(Flying(out))
      /\ backlog = Cardinality(held)
      /\ count = Cardinality(Passed(next))
  BY DEF Counted
<1>1. next[k] \in Nat /\ next[k] >= 1 /\ next[k] <= Parts[k] + 1 /\ Parts[k] \in Nat
  BY <1>0, PartShape
<1>2. \A i \in 0 .. m - 1 : <<k, next[k] + i>> \in HeldParts(held)
  BY <1>0, <1>a, HeldIff
<1>3. run \subseteq HeldParts(held) /\ IsFiniteSet(run) /\ Cardinality(run) = m
  <2>1. next[k] \in Int
    BY <1>1
  <2>2. run \subseteq HeldParts(held)
    BY <1>2 DEF Run
  <2> HIDE DEF run
  <2>3. IsFiniteSet(run) /\ Cardinality(run) = m
    BY <2>1, RunSize DEF run
  <2> QED BY <2>2, <2>3
<1>4. next[k] + m <= Parts[k] + 1
  <2>1. CASE m = 0
    BY <1>1, <2>1
  <2>2. CASE m # 0
    <3>1. m - 1 \in 0 .. m - 1
      BY <2>2
    <3>2. <<k, next[k] + (m - 1)>> \in AllParts
      BY <1>2, <3>1 DEF HeldParts
    <3>3. next[k] + (m - 1) \in 1 .. Parts[k]
      BY <3>2, PartShape
    <3> QED BY <1>1, <3>3
  <2> QED BY <2>1, <2>2
<1>5. /\ next2 \in [Keys -> Nat] /\ next2[k] = next[k] + m
      /\ \A j \in Keys : j # k => next2[j] = next[j]
      /\ \A j \in Keys : next2[j] \in 1 .. Parts[j] + 1
  <2>1. next2[k] = next[k] + m /\ \A j \in Keys : j # k => next2[j] = next[j]
    BY <1>0, <1>a
  <2>2. next[k] + m \in Nat /\ next[k] + m \in 1 .. Parts[k] + 1
    BY <1>1, <1>4
  <2>3. next2 \in [Keys -> Nat]
    BY <1>0, <1>a, <2>2
  <2> QED BY <1>0, <2>1, <2>2, <2>3
<1>6. \A p \in AllParts : p \in run <=> p[1] = k /\ next[k] <= p[2] /\ p[2] < next[k] + m
  <2> SUFFICES ASSUME NEW p \in AllParts
               PROVE  p \in run <=> p[1] = k /\ next[k] <= p[2] /\ p[2] < next[k] + m
    OBVIOUS
  <2>1. p = <<p[1], p[2]>> /\ p[2] \in Nat
    BY PartShape
  <2>2. ASSUME p \in run
        PROVE  p[1] = k /\ next[k] <= p[2] /\ p[2] < next[k] + m
    <3>1. PICK i \in 0 .. m - 1 : p = <<k, next[k] + i>>
      BY <2>2 DEF Run
    <3>2. p[1] = k /\ p[2] = next[k] + i
      BY <3>1
    <3> QED BY <1>1, <3>1, <3>2
  <2>3. ASSUME p[1] = k, next[k] <= p[2], p[2] < next[k] + m
        PROVE  p \in run
    <3> DEFINE i == p[2] - next[k]
    <3>1. i \in 0 .. m - 1 /\ p[2] = next[k] + i
      BY <1>1, <2>1, <2>3
    <3> HIDE DEF i
    <3> QED BY <2>1, <2>3, <3>1 DEF Run
  <2> QED BY <2>2, <2>3
<1> HIDE DEF run
<1>7. Passed(next2) = Passed(next) \cup run /\ Passed(next) \cap run = {}
  <2>1. ASSUME NEW p \in AllParts
        PROVE  p[2] < next2[p[1]] <=> p[2] < next[p[1]] \/ p \in run
    <3>1. p[1] \in Keys /\ p[2] \in Nat
      BY PartShape
    <3>2. CASE p[1] = k
      <4>1. next2[p[1]] = next[k] + m /\ next[p[1]] = next[k]
        BY <1>5, <3>2
      <4>2. p \in run <=> next[k] <= p[2] /\ p[2] < next[k] + m
        BY <1>6, <3>2
      <4> QED BY <1>1, <3>1, <4>1, <4>2
    <3>3. CASE p[1] # k
      BY <1>5, <1>6, <3>1, <3>3
    <3> QED BY <3>2, <3>3
  <2>2. run \subseteq AllParts
    BY <1>3 DEF HeldParts
  <2>3. Passed(next) \cap run = {}
    BY <1>0, <1>3
  <2> QED BY <2>1, <2>2, <2>3 DEF Passed
<1>8. /\ held2 \in SUBSET Triples
      /\ \A g, h \in held2 : g[1] = h[1] /\ g[2] = h[2] => g = h
  BY <1>0, <1>a
<1>9. HeldParts(held2) = HeldParts(held) \ run
  <2>1. ASSUME NEW p \in AllParts
        PROVE  Has(held2, p[1], p[2]) <=> Has(held, p[1], p[2]) /\ p \notin run
    <3>1. p = <<p[1], p[2]>> /\ p[1] \in Keys /\ p[2] \in Nat
      BY PartShape
    <3>2. Has(held2, p[1], p[2])
            <=> Has(held, p[1], p[2]) /\ (p[1] # k \/ p[2] >= next[k] + m)
      BY <1>a DEF Has
    <3>3. ASSUME Has(held, p[1], p[2]), p[1] = k
          PROVE  next[k] <= p[2]
      <4>1. p \in HeldParts(held)
        BY <3>3 DEF HeldParts
      <4>2. p \notin Passed(next)
        BY <1>0, <4>1
      <4>3. ~(p[2] < next[k])
        BY <3>3, <4>2 DEF Passed
      <4> QED BY <1>1, <3>1, <4>3
    <3>4. p \in run <=> p[1] = k /\ next[k] <= p[2] /\ p[2] < next[k] + m
      BY <1>6
    <3>5. p[2] >= next[k] + m <=> ~(p[2] < next[k] + m)
      BY <1>1, <3>1
    <3> QED BY <3>2, <3>3, <3>4, <3>5
  <2> QED BY <2>1 DEF HeldParts
<1>10. Placement(out, index, held2, next2)
  <2>1. /\ Issued(index) = Flying(out) \cup HeldParts(held2) \cup Passed(next2)
        /\ Flying(out) \cap HeldParts(held2) = {}
        /\ Flying(out) \cap Passed(next2) = {}
        /\ HeldParts(held2) \cap Passed(next2) = {}
    BY <1>0, <1>3, <1>7, <1>9
  <2> QED BY <1>0, <1>5, <1>8, <2>1 DEF Placement
<1>11. Cardinality(held2) = backlog - m
  <2>1. /\ Cardinality(held) = Cardinality(HeldParts(held))
        /\ Cardinality(held2) = Cardinality(HeldParts(held2))
    BY <1>0, <1>8, HeldSize
  <2>2. IsFiniteSet(HeldParts(held))
    BY FiniteParts DEF HeldParts
  <2> QED BY <1>3, <1>9, <1>b, <2>1, <2>2, RemovalSize
<1>12. Cardinality(Passed(next2)) = count + m
  <2>1. IsFiniteSet(Passed(next))
    BY FiniteParts DEF Passed
  <2> QED BY <1>3, <1>7, <1>b, <2>1, DisjointUnionSize
<1> QED
  BY <1>10, <1>11, <1>12, <1>b DEF Counted

(* more[w] is handed out to w.                                               *)
Taken(out, more, free, flying, out2, free2, flying2) ==
  /\ \A v, w \in Workers : v # w => more[v] \cap more[w] = {}
  /\ \A w \in Workers : Cardinality(more[w]) <= free[w]
  /\ out2 = [w \in Workers |-> out[w] \cup more[w]]
  /\ free2 = [w \in Workers |-> free[w] - Cardinality(more[w])]
  /\ flying2 = flying + Cardinality(Flying(more))

LEMMA BooksHand ==
  ASSUME NEW out, NEW index, NEW held, NEW next, NEW free, NEW flying, NEW backlog, NEW count,
         Placement(out, index, held, next),
         Counted(out, held, next, free, flying, backlog, count),
         NEW index2 \in Nat, index <= index2, index2 <= TotalParts,
         NEW more \in [Workers -> SUBSET AllParts],
         Flying(more) = Issued(index2) \ Issued(index),
         NEW out2, NEW free2, NEW flying2,
         Taken(out, more, free, flying, out2, free2, flying2)
  PROVE  /\ Placement(out2, index2, held, next)
         /\ Counted(out2, held, next, free2, flying2, backlog, count)
         /\ Flying(out2) = Flying(out) \cup Flying(more)
<1>t. /\ \A v, w \in Workers : v # w => more[v] \cap more[w] = {}
      /\ \A w \in Workers : Cardinality(more[w]) <= free[w]
      /\ out2 = [w \in Workers |-> out[w] \cup more[w]]
      /\ free2 = [w \in Workers |-> free[w] - Cardinality(more[w])]
      /\ flying2 = flying + Cardinality(Flying(more))
  BY DEF Taken
<1>0. /\ out \in [Workers -> SUBSET AllParts]
      /\ \A v, x \in Workers : v # x => out[v] \cap out[x] = {}
      /\ held \subseteq Triples
      /\ \A g, h \in held : g[1] = h[1] /\ g[2] = h[2] => g = h
      /\ index \in 0 .. TotalParts
      /\ next \in [Keys -> Nat] /\ \A k \in Keys : next[k] \in 1 .. Parts[k] + 1
      /\ Issued(index) = Flying(out) \cup HeldParts(held) \cup Passed(next)
      /\ Flying(out) \cap HeldParts(held) = {}
      /\ Flying(out) \cap Passed(next) = {}
      /\ HeldParts(held) \cap Passed(next) = {}
  BY DEF Placement
<1>b. /\ free \in [Workers -> 0 .. Concurrency]
      /\ \A v \in Workers : free[v] = Concurrency - Cardinality(out[v])
      /\ flying = Cardinality(Flying(out))
      /\ backlog = Cardinality(held)
      /\ count = Cardinality(Passed(next))
  BY DEF Counted
<1>1. \A p : p \in Flying(out2) <=> p \in Flying(out) \cup Flying(more)
  BY <1>t DEF Flying
<1>2. Flying(out2) = Flying(out) \cup Flying(more)
  BY <1>1
<1>3. Issued(index) \subseteq Issued(index2)
  <2> SUFFICES ASSUME NEW p \in AllParts, Position(p) < index
               PROVE  Position(p) < index2
    BY DEF Issued
  <2>1. Position(p) \in 0 .. TotalParts - 1 /\ index \in Int
    BY <1>0, PositionFacts, TotalFacts
  <2> QED BY <2>1, TotalFacts
<1>4. /\ Flying(out) \cap Flying(more) = {}
      /\ Issued(index2) = Flying(out2) \cup HeldParts(held) \cup Passed(next)
      /\ Flying(out2) \cap HeldParts(held) = {}
      /\ Flying(out2) \cap Passed(next) = {}
  BY <1>0, <1>2, <1>3
<1>5. /\ \A w \in Workers : out[w] \subseteq Flying(out) /\ more[w] \subseteq Flying(more)
      /\ Flying(out) \subseteq AllParts /\ Flying(more) \subseteq AllParts
  BY <1>0 DEF Flying
<1>6. \A w \in Workers : out[w] \cap more[w] = {}
  BY <1>4, <1>5
<1>7. /\ out2 \in [Workers -> SUBSET AllParts]
      /\ \A v, w \in Workers : v # w => out2[v] \cap out2[w] = {}
  <2>1. ASSUME NEW v \in Workers, NEW w \in Workers, v # w
        PROVE  out2[v] \cap out2[w] = {}
    BY <2>1, <1>0, <1>4, <1>5, <1>t
  <2> QED BY <2>1, <1>0, <1>t
<1>8. Placement(out2, index2, held, next)
  <2>1. index2 \in 0 .. TotalParts
    BY TotalFacts
  <2> QED BY <1>0, <1>4, <1>7, <2>1 DEF Placement
<1>9. ASSUME NEW w \in Workers
      PROVE  /\ free2[w] \in 0 .. Concurrency
             /\ free2[w] = Concurrency - Cardinality(out2[w])
  <2>1. /\ IsFiniteSet(out[w]) /\ Cardinality(out[w]) \in Nat
        /\ IsFiniteSet(more[w]) /\ Cardinality(more[w]) \in Nat
    BY <1>0, FiniteParts
  <2>2. Cardinality(out[w] \cup more[w]) = Cardinality(out[w]) + Cardinality(more[w])
    BY <1>6, <2>1, DisjointUnionSize
  <2>3. /\ free[w] = Concurrency - Cardinality(out[w]) /\ Cardinality(more[w]) <= free[w]
        /\ free2[w] = free[w] - Cardinality(more[w]) /\ out2[w] = out[w] \cup more[w]
    BY <1>b, <1>t
  <2>4. Concurrency \in Nat
    BY LanesAssumption
  <2> QED BY <2>1, <2>2, <2>3, <2>4
<1>10. free2 \in [Workers -> 0 .. Concurrency]
  BY <1>9, <1>t
<1>11. Cardinality(Flying(out2)) = flying2
  <2>1. IsFiniteSet(Flying(out)) /\ IsFiniteSet(Flying(more))
    BY <1>5, FiniteParts
  <2> QED BY <1>b, <1>2, <1>4, <1>t, <2>1, DisjointUnionSize
<1> QED
  BY <1>2, <1>8, <1>9, <1>10, <1>11, <1>b DEF Counted

(* What the counters count, and what they are at the end.                    *)
LEMMA BooksFacts ==
  ASSUME NEW out, NEW index, NEW held, NEW next, NEW free, NEW flying, NEW backlog, NEW count,
         Placement(out, index, held, next),
         Counted(out, held, next, free, flying, backlog, count)
  PROVE  /\ flying \in 0 .. NWorkers * Concurrency
         /\ flying = 0 <=> Flying(out) = {}
         /\ backlog \in 0 .. TotalParts /\ count \in 0 .. TotalParts
         /\ free \in [Workers -> Nat]
         /\ count = TotalParts =>
              /\ \A w \in Workers : out[w] = {}
              /\ held = {} /\ index = TotalParts
              /\ \A k \in Keys : next[k] = Parts[k] + 1
         /\ (\A k \in Keys : next[k] > Parts[k]) => count = TotalParts
<1>0. /\ out \in [Workers -> SUBSET AllParts]
      /\ held \in SUBSET Triples
      /\ \A g, h \in held : g[1] = h[1] /\ g[2] = h[2] => g = h
      /\ index \in 0 .. TotalParts
      /\ next \in [Keys -> Nat] /\ \A k \in Keys : next[k] \in 1 .. Parts[k] + 1
      /\ Issued(index) = Flying(out) \cup HeldParts(held) \cup Passed(next)
      /\ Flying(out) \cap Passed(next) = {}
      /\ HeldParts(held) \cap Passed(next) = {}
  BY DEF Placement
<1>b. /\ free \in [Workers -> 0 .. Concurrency]
      /\ \A v \in Workers : free[v] = Concurrency - Cardinality(out[v])
      /\ flying = Cardinality(Flying(out))
      /\ backlog = Cardinality(held)
      /\ count = Cardinality(Passed(next))
  BY DEF Counted
<1>c. Concurrency \in Nat /\ free \in [Workers -> Nat]
  <2>1. Concurrency \in Nat
    BY LanesAssumption
  <2> QED BY <1>b, <2>1
<1>1. Flying(out) \subseteq AllParts /\ Passed(next) \subseteq AllParts
      /\ HeldParts(held) \subseteq AllParts
  BY DEF Flying, Passed, HeldParts
<1>2. flying \in 0 .. NWorkers * Concurrency
  <2> DEFINE tag == [p \in Flying(out) |-> CHOOSE w \in Workers : p \in out[w]]
             Tagged(w) == {p \in Flying(out) : tag[p] = w}
  <2>1. \A p \in Flying(out) : tag[p] \in Workers /\ p \in out[tag[p]]
    BY DEF Flying
  <2>2. tag \in [Flying(out) -> Workers]
    BY <2>1
  <2>3. ASSUME NEW w \in Workers
        PROVE  IsFiniteSet(Tagged(w)) /\ Cardinality(Tagged(w)) <= Concurrency
    <3>1. Tagged(w) \subseteq out[w]
      BY <2>1
    <3>2. IsFiniteSet(out[w]) /\ Cardinality(out[w]) \in Nat
      BY <1>0, FiniteParts
    <3>3. /\ IsFiniteSet(Tagged(w)) /\ Cardinality(Tagged(w)) \in Nat
          /\ Cardinality(Tagged(w)) <= Cardinality(out[w])
      <4> HIDE DEF Tagged
      <4> QED BY <3>1, <3>2, FS_Subset, FS_CardinalityType
    <3>4. free[w] = Concurrency - Cardinality(out[w]) /\ free[w] \in 0 .. Concurrency
      BY <1>b
    <3> HIDE DEF Tagged
    <3> QED BY <1>c, <3>2, <3>3, <3>4
  <2>4. Cardinality(Flying(out)) <= Cardinality(Workers) * Concurrency
    <3> HIDE DEF tag
    <3> QED BY <1>c, <2>2, <2>3, FiniteWorkers, TaggedSize
  <2>5. Cardinality(Flying(out)) \in Nat
    BY <1>1, FiniteParts
  <2>6. NWorkers * Concurrency \in Int
    BY <1>c, FiniteWorkers
  <2> QED BY <1>b, <2>4, <2>5, <2>6, FiniteWorkers
<1>3. backlog = Cardinality(HeldParts(held))
  BY <1>0, <1>b, HeldSize
<1>4. backlog \in 0 .. TotalParts /\ count \in 0 .. TotalParts
  <2>1. /\ Cardinality(HeldParts(held)) \in Nat /\ Cardinality(HeldParts(held)) <= TotalParts
        /\ Cardinality(Passed(next)) \in Nat /\ Cardinality(Passed(next)) <= TotalParts
    BY <1>1, FiniteParts
  <2> QED BY <1>3, <1>b, <2>1, TotalFacts
<1>5. flying = 0 <=> Flying(out) = {}
  BY <1>1, <1>b, FiniteParts
<1>6. ASSUME count = TotalParts
      PROVE  /\ \A w \in Workers : out[w] = {}
             /\ held = {} /\ index = TotalParts
             /\ \A k \in Keys : next[k] = Parts[k] + 1
  <2>1. Passed(next) = AllParts
    BY <1>1, <1>6, <1>b, FiniteParts, TotalFacts, FS_Subset
  <2>2. Flying(out) = {} /\ HeldParts(held) = {} /\ Issued(index) = AllParts
    BY <1>0, <1>1, <2>1
  <2>3. \A w \in Workers : out[w] = {}
    BY <1>0, <2>2 DEF Flying
  <2>4. held = {}
    BY <1>0, <2>2, HeldIff
  <2>5. index = TotalParts
    <3>1. CASE index # TotalParts
      <4>1. index \in 0 .. TotalParts - 1
        BY <1>0, <3>1, TotalFacts
      <4>2. QueueAt(index) \in AllParts /\ Position(QueueAt(index)) = index
        BY <4>1, PositionFacts
      <4>3. Position(QueueAt(index)) < index
        BY <2>2, <4>2 DEF Issued
      <4> QED BY <4>1, <4>2, <4>3, TotalFacts
    <3> QED BY <3>1
  <2>6. ASSUME NEW k \in Keys
        PROVE  next[k] = Parts[k] + 1
    <3>1. next[k] \in 1 .. Parts[k] + 1 /\ Parts[k] \in Nat /\ Parts[k] > 0
      BY <1>0, PartShape
    <3>2. <<k, Parts[k]>> \in Passed(next)
      BY <2>1, <3>1, PartShape
    <3>3. Parts[k] < next[k]
      BY <3>2 DEF Passed
    <3> QED BY <3>1, <3>3
  <2> QED BY <2>3, <2>4, <2>5, <2>6
<1>7. ASSUME \A k \in Keys : next[k] > Parts[k]
      PROVE  count = TotalParts
  <2>1. ASSUME NEW p \in AllParts
        PROVE  p[2] < next[p[1]]
    <3>1. p[1] \in Keys /\ p[2] \in 1 .. Parts[p[1]] /\ Parts[p[1]] \in Nat
      BY PartShape
    <3>2. next[p[1]] \in Nat /\ next[p[1]] > Parts[p[1]]
      BY <1>0, <1>7, <3>1
    <3> QED BY <3>1, <3>2
  <2>2. Passed(next) = AllParts
    BY <2>1 DEF Passed
  <2> QED BY <1>b, <2>2, TotalFacts
<1> QED
  BY <1>2, <1>4, <1>5, <1>6, <1>7, <1>c

(* When all that is in flight was issued last, what is held waits: the next  *)
(* part of its object would be in flight, and was issued before it.          *)
LEMMA HeldWaits ==
  ASSUME NEW out, NEW index, NEW held, NEW next, Placement(out, index, held, next),
         \A p \in Flying(out) : Position(p) = index - 1,
         NEW h \in held, ~Has(held, h[1], next[h[1]])
  PROVE  FALSE
<1> DEFINE k == h[1]
           p == <<h[1], h[2]>>
           q == <<k, next[k]>>
<1>0. /\ held \in SUBSET Triples
      /\ index \in 0 .. TotalParts
      /\ next \in [Keys -> Nat] /\ \A j \in Keys : next[j] \in 1 .. Parts[j] + 1
      /\ Issued(index) = Flying(out) \cup HeldParts(held) \cup Passed(next)
      /\ HeldParts(held) \cap Passed(next) = {}
  BY DEF Placement
<1>1. p \in HeldParts(held) /\ p \in AllParts /\ p \in Issued(index)
  BY <1>0, HeldIff DEF HeldParts
<1>2. /\ k \in Keys /\ h[2] \in 1 .. Parts[k] /\ Parts[k] \in Nat
      /\ next[k] \in 1 .. Parts[k] + 1 /\ index \in Nat
  BY <1>0, <1>1, PartShape, TotalFacts
<1>3. ~(h[2] < next[k])
  BY <1>0, <1>1 DEF Passed
<1>4. h[2] # next[k]
  <2>1. Has(held, h[1], h[2])
    BY <1>0, <1>1, HeldIff
  <2> QED BY <2>1
<1>5. next[k] < h[2] /\ q \in AllParts
  <2>1. next[k] < h[2] /\ next[k] \in 1 .. Parts[k]
    BY <1>2, <1>3, <1>4
  <2> QED BY <1>2, <2>1, PartShape
<1>6. q \in Issued(index) /\ Position(q) < Position(p)
  <2>1. p[1] = q[1] /\ q[2] < p[2]
    BY <1>5
  <2> HIDE DEF p, q
  <2> QED BY <1>1, <1>2, <1>5, <2>1, IssuedFacts, PositionFacts
<1>7. q \notin HeldParts(held) /\ q \notin Passed(next)
  <2>1. q \notin HeldParts(held)
    BY <1>0, HeldIff
  <2>2. ~(next[k] < next[k])
    BY <1>2
  <2> QED BY <2>1, <2>2 DEF Passed
<1>8. q \in Flying(out)
  BY <1>0, <1>6, <1>7
<1>9. Position(q) = index - 1 /\ Position(p) < index
  BY <1>1, <1>8 DEF Issued
<1>10. Position(p) \in 0 .. TotalParts - 1
  BY <1>1, PositionFacts
<1> HIDE DEF p, q
<1> QED
  BY <1>2, <1>6, <1>9, <1>10, TotalFacts

(* Beyond the cap nothing is issued but one part, and that only when nothing *)
(* is in flight: old are the parts in flight before what was taken, sum what *)
(* was held or in flight then.                                               *)
LEMMA IssuedLast ==
  ASSUME NEW out, NEW index, NEW held, NEW next, NEW free, NEW flying, NEW backlog, NEW count,
         Placement(out, index, held, next),
         Counted(out, held, next, free, flying, backlog, count),
         NEW index2 \in Nat, NEW out2, NEW flying2,
         flying2 \in 0 .. NWorkers * Concurrency,
         index <= index2,
         ~(backlog < Cap) => (flying # 0 => index2 = index) /\ index2 <= index + 1,
         NEW more, Flying(out2) = Flying(out) \cup Flying(more),
         Flying(more) = Issued(index2) \ Issued(index),
         flying2 = flying + Cardinality(Flying(more)),
         LastInFlight(out, index, flying, backlog)
  PROVE  LastInFlight(out2, index2, flying2, backlog)
<1> SUFFICES ASSUME backlog + flying2 >= Cap + NWorkers * Concurrency, NEW p \in Flying(out2)
             PROVE  Position(p) = index2 - 1
  BY DEF LastInFlight
<1>1. /\ flying \in Nat /\ backlog \in Nat /\ index \in Nat
      /\ flying = 0 <=> Flying(out) = {}
  <2>1. /\ flying \in 0 .. NWorkers * Concurrency
        /\ flying = 0 <=> Flying(out) = {}
        /\ backlog \in 0 .. TotalParts
    BY BooksFacts
  <2>2. index \in 0 .. TotalParts
    BY DEF Placement
  <2> QED BY <2>1, <2>2, TotalFacts
<1>2. ~(backlog < Cap)
  <2> DEFINE load == NWorkers * Concurrency
  <2>1. load \in Int
    BY FiniteWorkers, LanesAssumption
  <2>2. Cap \in Int
    BY BudgetAssumption
  <2>3. flying2 \in 0 .. load /\ backlog + flying2 >= Cap + load
    OBVIOUS
  <2> HIDE DEF load
  <2> QED BY <1>1, <2>1, <2>2, <2>3
<1>3. CASE flying # 0
  <2>1. index2 = index
    BY <1>2, <1>3
  <2>2. Flying(more) = {}
    BY <2>1
  <2>3. flying2 = flying /\ Flying(out2) = Flying(out)
    <3>1. Cardinality(Flying(more)) = 0
      BY <2>2, FS_EmptySet
    <3>2. Flying(out2) = Flying(out)
      BY <2>2
    <3> QED BY <1>1, <3>1, <3>2
  <2>4. backlog + flying >= Cap + NWorkers * Concurrency /\ p \in Flying(out)
    BY <2>3
  <2> QED BY <2>1, <2>4 DEF LastInFlight
<1>4. CASE flying = 0
  <2>1. p \in Flying(more)
    BY <1>1, <1>4
  <2>2. p \in AllParts /\ Position(p) < index2 /\ ~(Position(p) < index)
    BY <2>1 DEF Issued
  <2>3. Position(p) \in 0 .. TotalParts - 1
    BY <2>2, PositionFacts
  <2>4. Position(p) \in Int
    BY <2>3, TotalFacts
  <2> QED BY <1>1, <1>2, <2>2, <2>4
<1> QED
  BY <1>3, <1>4

-----------------------------------------------------------------------------
(* A dispatch keeps the books and the queues.                                *)

(* What main posts before it dispatches.                                     *)
Orders == ({"release"} \X AllParts) \cup {<<"stop">>}

(* The outbox is left as it is or loses an answer; out[w] is outstanding at  *)
(* w then.                                                                   *)
Answered(out) ==
  /\ outbox' \in [Workers -> Seq(OutMessages)]
  /\ \A w \in Workers :
       /\ Once(outbox'[w], "part")
       /\ Sent(outbox'[w], "part") \subseteq Sent(outbox[w], "part")
       /\ out[w] = Sent(inbox[w], "assign") \cup running[w] \cup broken[w]
                     \cup Sent(outbox'[w], "part")

(* An inbox that gets the orders r and then the assignments s.               *)
LEMMA Ordered ==
  ASSUME NEW q \in Seq(InMessages), NEW r \in Seq(Orders),
         NEW s \in Seq({"assign"} \X AllParts)
  PROVE  LET then == q \o r \o s
         IN  /\ then \in Seq(InMessages)
             /\ Sent(then, "assign") = Sent(q, "assign") \cup Sent(s, "assign")
             /\ Once(q, "assign") /\ Once(s, "assign")
                  /\ Sent(q, "assign") \cap Sent(s, "assign") = {} => Once(then, "assign")
             /\ Sent(then, "release") = Sent(q, "release") \cup Sent(r, "release")
             /\ Once(q, "release") /\ Once(r, "release")
                  /\ Sent(q, "release") \cap Sent(r, "release") = {} => Once(then, "release")
             /\ Holds(then, "stop") <=> Holds(q, "stop") \/ Holds(r, "stop")
<1>1. r \in Seq(InMessages) /\ s \in Seq(InMessages)
  <2>1. Orders \subseteq InMessages /\ {"assign"} \X AllParts \subseteq InMessages
    BY DEF Orders, InMessages
  <2> QED BY <2>1
<1>2. \A i \in 1 .. Len(r) : r[i][1] # "assign"
  <2> SUFFICES ASSUME NEW i \in 1 .. Len(r)
               PROVE  r[i][1] # "assign"
    OBVIOUS
  <2>1. r[i] \in Orders
    OBVIOUS
  <2> QED BY <2>1 DEF Orders
<1>3. \A i \in 1 .. Len(s) : s[i][1] = "assign"
  <2> SUFFICES ASSUME NEW i \in 1 .. Len(s)
               PROVE  s[i][1] = "assign"
    OBVIOUS
  <2>1. s[i] \in {"assign"} \X AllParts
    OBVIOUS
  <2> QED BY <2>1
<1>4. Sent(r, "assign") = {} /\ Once(r, "assign")
  BY <1>2 DEF Sent, Once
<1>5. Sent(s, "release") = {} /\ Once(s, "release") /\ ~Holds(s, "stop")
  BY <1>3 DEF Sent, Once, Holds
<1> DEFINE u == q \o r
<1>6. /\ u \in Seq(InMessages)
      /\ \A type : /\ Sent(u, type) = Sent(q, type) \cup Sent(r, type)
                   /\ Holds(u, type) <=> Holds(q, type) \/ Holds(r, type)
                   /\ Once(q, type) /\ Once(r, type) /\ Sent(q, type) \cap Sent(r, type) = {}
                        => Once(u, type)
  BY <1>1, ConcatQueue
<1> HIDE DEF u
<1>7. /\ u \o s \in Seq(InMessages)
      /\ \A type : /\ Sent(u \o s, type) = Sent(u, type) \cup Sent(s, type)
                   /\ Holds(u \o s, type) <=> Holds(u, type) \/ Holds(s, type)
                   /\ Once(u, type) /\ Once(s, type) /\ Sent(u, type) \cap Sent(s, type) = {}
                        => Once(u \o s, type)
  BY <1>1, <1>6, ConcatQueue
<1> DEFINE t == u \o s
<1>8. /\ t \in Seq(InMessages)
      /\ \A type : /\ Sent(t, type) = Sent(u, type) \cup Sent(s, type)
                   /\ Holds(t, type) <=> Holds(u, type) \/ Holds(s, type)
                   /\ Once(u, type) /\ Once(s, type) /\ Sent(u, type) \cap Sent(s, type) = {}
                        => Once(t, type)
  BY <1>7
<1> HIDE DEF t
<1>9. Sent(t, "assign") = Sent(q, "assign") \cup Sent(s, "assign")
  BY <1>4, <1>6, <1>8
<1>10. Once(q, "assign") /\ Once(s, "assign") /\ Sent(q, "assign") \cap Sent(s, "assign") = {}
         => Once(t, "assign")
  BY <1>4, <1>6, <1>8
<1>11. Sent(t, "release") = Sent(q, "release") \cup Sent(r, "release")
  BY <1>5, <1>6, <1>8
<1>12. Once(q, "release") /\ Once(r, "release") /\ Sent(q, "release") \cap Sent(r, "release") = {}
         => Once(t, "release")
  BY <1>5, <1>6, <1>8
<1>13. Holds(t, "stop") <=> Holds(q, "stop") \/ Holds(r, "stop")
  BY <1>5, <1>6, <1>8
<1>14. t = q \o r \o s
  BY DEF t, u
<1> QED
  BY <1>8, <1>9, <1>10, <1>11, <1>12, <1>13, <1>14

(* What the posts change in the inboxes, beside the assignments.             *)
Posted(posts) ==
  /\ \A w \in Workers :
       /\ Sent(inbox'[w], "release") = Sent(inbox[w], "release") \cup Sent(posts[w], "release")
       /\ Once(inbox[w], "release") /\ Once(posts[w], "release")
            /\ Sent(inbox[w], "release") \cap Sent(posts[w], "release") = {}
            => Once(inbox'[w], "release")
       /\ Holds(inbox'[w], "stop") <=> Holds(inbox[w], "stop") \/ Holds(posts[w], "stop")
  /\ deliveredCount' = TotalParts => inbox' = [w \in Workers |-> inbox[w] \o posts[w]]

LEMMA HandOut ==
  ASSUME NEW STATE out, NEW STATE free, NEW STATE flying, NEW STATE backlog, NEW ACTION posts,
         InPlaces, posts \in [Workers -> Seq(Orders)], Answered(out),
         Placement(out, queueIndex, heldMeta', nextByKey'),
         Counted(out, heldMeta', nextByKey', free, flying, backlog, deliveredCount'),
         LastInFlight(out, queueIndex, flying, backlog), bufferedBytes' = backlog,
         DispatchMore(free, flying, backlog, posts),
         UNCHANGED <<running, broken, dispatchInFlight>>
  PROVE  BooksBalance' /\ InPlaces' /\ Posted(posts)
<1> DEFINE held == heldMeta'
           next == nextByKey'
           count == deliveredCount'
<1>a. /\ Placement(out, queueIndex, held, next)
      /\ Counted(out, held, next, free, flying, backlog, count)
  OBVIOUS
<1> HIDE DEF held, next, count
<1>b. /\ free \in [Workers -> Nat]
      /\ count = TotalParts => queueIndex = TotalParts
  BY <1>a, BooksFacts
<1>c. /\ out \in [Workers -> SUBSET AllParts] /\ queueIndex \in 0 .. TotalParts
      /\ Issued(queueIndex) = Flying(out) \cup HeldParts(held) \cup Passed(next)
  BY <1>a DEF Placement
<1>1. PICK more \in [Workers -> SUBSET AllParts],
           sent \in [Workers -> Seq({"assign"} \X AllParts)] :
             Dispatched(free, flying, backlog, posts, more, sent)
  BY <1>b, <1>c, DispatchEffect
<1>2. /\ \A v, w \in Workers : v # w => more[v] \cap more[w] = {}
      /\ \A w \in Workers : /\ Cardinality(more[w]) <= free[w]
                            /\ Sent(sent[w], "assign") = more[w] /\ Once(sent[w], "assign")
                            /\ more[w] = {} => sent[w] = <<>>
      /\ queueIndex' \in Nat /\ queueIndex <= queueIndex' /\ queueIndex' <= TotalParts
      /\ Flying(more) = Issued(queueIndex') \ Issued(queueIndex)
      /\ inbox' = [w \in Workers |-> inbox[w] \o posts[w] \o sent[w]]
      /\ freeLanes' = [w \in Workers |-> free[w] - Cardinality(more[w])]
      /\ totalInFlight' = flying + Cardinality(Flying(more))
      /\ ~(backlog < Cap) => /\ flying # 0 => queueIndex' = queueIndex
                             /\ queueIndex' <= queueIndex + 1
  BY <1>1 DEF Dispatched
<1> DEFINE out2 == [w \in Workers |-> out[w] \cup more[w]]
           index2 == queueIndex'
           free2 == freeLanes'
           flying2 == totalInFlight'
<1>3. /\ index2 \in Nat /\ queueIndex <= index2 /\ index2 <= TotalParts
      /\ Flying(more) = Issued(index2) \ Issued(queueIndex)
      /\ flying2 = flying + Cardinality(Flying(more))
      /\ free2 = [w \in Workers |-> free[w] - Cardinality(more[w])]
      /\ ~(backlog < Cap) => (flying # 0 => index2 = queueIndex) /\ index2 <= queueIndex + 1
  BY <1>2
<1>4. out2 = [w \in Workers |-> out[w] \cup more[w]]
  OBVIOUS
<1> HIDE DEF out2, index2, free2, flying2
<1>5. Taken(out, more, free, flying, out2, free2, flying2)
  BY <1>2, <1>3, <1>4 DEF Taken
<1>6. /\ Placement(out2, index2, held, next)
      /\ Counted(out2, held, next, free2, flying2, backlog, count)
      /\ Flying(out2) = Flying(out) \cup Flying(more)
  BY <1>a, <1>3, <1>5, BooksHand
<1>7. LastInFlight(out2, index2, flying2, backlog)
  <2>1. flying2 \in 0 .. NWorkers * Concurrency
    BY <1>6, BooksFacts
  <2> QED BY <1>a, <1>3, <1>6, <2>1, IssuedLast
<1>8. \A w \in Workers : out[w] \cap more[w] = {}
  <2>1. \A w \in Workers : out[w] \subseteq Flying(out) /\ more[w] \subseteq Flying(more)
    BY <1>c DEF Flying
  <2> QED BY <1>c, <1>3, <2>1
<1>9. ASSUME NEW w \in Workers
      PROVE  /\ inbox'[w] \in Seq(InMessages)
             /\ Sent(inbox'[w], "assign") = Sent(inbox[w], "assign") \cup more[w]
             /\ Once(inbox'[w], "assign")
             /\ Sent(inbox'[w], "release") = Sent(inbox[w], "release") \cup Sent(posts[w], "release")
             /\ Once(inbox[w], "release") /\ Once(posts[w], "release")
                  /\ Sent(inbox[w], "release") \cap Sent(posts[w], "release") = {}
                  => Once(inbox'[w], "release")
             /\ Holds(inbox'[w], "stop") <=> Holds(inbox[w], "stop") \/ Holds(posts[w], "stop")
  <2> DEFINE q == inbox[w]
             r == posts[w]
             s == sent[w]
             t == inbox'[w]
  <2>1. q \in Seq(InMessages) /\ Once(q, "assign")
    BY DEF InPlaces
  <2>2. r \in Seq(Orders) /\ s \in Seq({"assign"} \X AllParts)
    OBVIOUS
  <2>3. Sent(s, "assign") = more[w] /\ Once(s, "assign")
    BY <1>2
  <2>4. Sent(q, "assign") \cap Sent(s, "assign") = {}
    <3>1. Sent(q, "assign") \subseteq out[w]
      BY DEF Answered
    <3> QED BY <1>8, <2>3, <3>1
  <2>5. t = q \o r \o s
    BY <1>2
  <2> HIDE DEF q, r, s, t
  <2>6. /\ t \in Seq(InMessages)
        /\ Sent(t, "assign") = Sent(q, "assign") \cup Sent(s, "assign")
        /\ Once(t, "assign")
        /\ Sent(t, "release") = Sent(q, "release") \cup Sent(r, "release")
        /\ Once(q, "release") /\ Once(r, "release")
             /\ Sent(q, "release") \cap Sent(r, "release") = {} => Once(t, "release")
        /\ Holds(t, "stop") <=> Holds(q, "stop") \/ Holds(r, "stop")
    BY <2>1, <2>2, <2>3, <2>4, <2>5, Ordered
  <2> QED BY <2>3, <2>6 DEF q, r, t
<1>10. inbox' \in [Workers -> Seq(InMessages)]
  <2>1. inbox' = [w \in Workers |-> inbox'[w]]
    BY <1>2
  <2> QED BY <1>9, <2>1
<1>11. InPlaces'
  <2>1. /\ running \in [Workers -> SUBSET AllParts] /\ broken \in [Workers -> SUBSET AllParts]
        /\ \A w \in Workers :
             /\ Sent(inbox[w], "assign") \cap (running[w] \cup broken[w]) = {}
             /\ Sent(outbox[w], "part") \cap (running[w] \cup broken[w]) = {}
             /\ Sent(inbox[w], "assign") \cap Sent(outbox[w], "part") = {}
             /\ running[w] \cap broken[w] = {}
             /\ dispatchInFlight[w] = Cardinality(running[w] \cup broken[w])
    BY DEF InPlaces
  <2>2. /\ outbox' \in [Workers -> Seq(OutMessages)]
        /\ \A w \in Workers :
             /\ Once(outbox'[w], "part")
             /\ Sent(outbox'[w], "part") \subseteq Sent(outbox[w], "part")
             /\ running[w] \cup broken[w] \cup Sent(outbox'[w], "part") \subseteq out[w]
    BY DEF Answered
  <2>3. \A w \in Workers :
          /\ Sent(inbox'[w], "assign") \cap (running[w] \cup broken[w]) = {}
          /\ Sent(outbox'[w], "part") \cap (running[w] \cup broken[w]) = {}
          /\ Sent(inbox'[w], "assign") \cap Sent(outbox'[w], "part") = {}
    BY <1>8, <1>9, <2>1, <2>2
  <2> QED BY <1>9, <1>10, <2>1, <2>2, <2>3 DEF InPlaces
<1>12. Out' = out2
  <2>1. \A w \in Workers : Outstanding(w)' = out[w] \cup more[w]
    BY <1>9 DEF Outstanding, Answered
  <2> QED BY <1>4, <2>1 DEF Out
<1>13. BooksBalance'
  <2> DEFINE books == /\ Placement(out2, index2, held, next)
                      /\ Counted(out2, held, next, free2, flying2, backlog, count)
                      /\ LastInFlight(out2, index2, flying2, backlog)
  <2>1. books
    BY <1>6, <1>7
  <2> QED BY <1>12, <2>1 DEF BooksBalance, index2, held, next, free2, flying2, count
<1>14. ASSUME deliveredCount' = TotalParts
       PROVE  inbox' = [w \in Workers |-> inbox[w] \o posts[w]]
  <2>1. queueIndex = TotalParts
    BY <1>b, <1>14 DEF count
  <2>2. index2 = queueIndex
    BY <1>3, <2>1, TotalFacts
  <2>3. Flying(more) = {}
    BY <1>3, <2>2
  <2>4. \A w \in Workers : more[w] = {}
    BY <2>3 DEF Flying
  <2>5. \A w \in Workers : inbox[w] \o posts[w] \o sent[w] = inbox[w] \o posts[w]
    <3> SUFFICES ASSUME NEW w \in Workers
                 PROVE  inbox[w] \o posts[w] \o sent[w] = inbox[w] \o posts[w]
      OBVIOUS
    <3>1. inbox[w] \in Seq(InMessages) /\ posts[w] \in Seq(InMessages)
      <4>1. Orders \subseteq InMessages
        BY DEF Orders, InMessages
      <4>2. posts[w] \in Seq(Orders)
        OBVIOUS
      <4> QED BY <4>1, <4>2 DEF InPlaces
    <3>2. sent[w] = <<>>
      BY <1>2, <2>4
    <3> QED BY <3>1, <3>2
  <2> QED BY <1>2, <2>5
<1> QED
  BY <1>9, <1>11, <1>13, <1>14 DEF Posted

-----------------------------------------------------------------------------
(* What a drain delivers, and what it tells the workers.                     *)

Smaller(S, x) == Cardinality({h \in S : h < x})

LEMMA AscendingFacts ==
  ASSUME NEW S, S \subseteq Nat, IsFiniteSet(S)
  PROVE  /\ Cardinality(S) \in Nat
         /\ Ascending(S) \in [1 .. Cardinality(S) -> S]
         /\ \A i, j \in 1 .. Cardinality(S) : Ascending(S)[i] = Ascending(S)[j] => i = j
         /\ \A x \in S : \E j \in 1 .. Cardinality(S) : Ascending(S)[j] = x
<1> DEFINE before == [x \in S |-> {h \in S : h < x}]
           n == Cardinality(S)
           asc == Ascending(S)
<1>1. n \in Nat
  BY FS_CardinalityType
<1>2. /\ before \in [S -> SUBSET S]
      /\ \A x, y \in S : y \in before[x] <=> y < x
  OBVIOUS
<1>3. \A x \in S : Smaller(S, x) = Cardinality(before[x])
  BY DEF Smaller
<1> HIDE DEF before
<1>4. /\ \A x \in S : x \notin before[x]
      /\ \A x, y \in S : y \in before[x] => before[y] \subseteq before[x]
      /\ \A x, y \in S : x # y => x \in before[y] \/ y \in before[x]
  <2>1. ASSUME NEW x \in S, NEW y \in S, y \in before[x]
        PROVE  before[y] \subseteq before[x]
    <3> SUFFICES ASSUME NEW z \in before[y]
                 PROVE  z \in before[x]
      OBVIOUS
    <3>1. z \in S
      BY <1>2
    <3>2. z < y /\ y < x
      BY <1>2, <2>1, <3>1
    <3>3. x \in Nat /\ y \in Nat /\ z \in Nat
      BY <3>1
    <3>4. z < x
      BY ONLY <3>2, <3>3
    <3> QED BY <1>2, <3>1, <3>4
  <2>2. ASSUME NEW x \in S, NEW y \in S, x # y
        PROVE  x \in before[y] \/ y \in before[x]
    <3>1. x < y \/ y < x
      <4>1. x \in Nat /\ y \in Nat
        OBVIOUS
      <4> QED BY ONLY <2>2, <4>1
    <3> QED BY <1>2, <3>1
  <2>3. ASSUME NEW x \in S
        PROVE  x \notin before[x]
    <3>1. ~(x < x)
      OBVIOUS
    <3> QED BY <1>2, <3>1
  <2> QED BY <2>1, <2>2, <2>3
<1>5. /\ \A x \in S : Cardinality(before[x]) \in 0 .. Cardinality(S) - 1
      /\ \A x, y \in S : Cardinality(before[x]) = Cardinality(before[y]) => x = y
      /\ \A i \in 0 .. Cardinality(S) - 1 : \E x \in S : Cardinality(before[x]) = i
  BY <1>2, <1>4, Ranking
<1>6. asc = [j \in 1 .. n |-> CHOOSE i \in S : Smaller(S, i) = j - 1]
  BY DEF Ascending, Smaller
<1>7. /\ \A x \in S : Smaller(S, x) \in 0 .. n - 1
      /\ \A x, y \in S : Smaller(S, x) = Smaller(S, y) => x = y
      /\ \A i \in 0 .. n - 1 : \E x \in S : Smaller(S, x) = i
  BY <1>3, <1>5
<1> HIDE DEF n, asc
<1>8. ASSUME NEW j \in 1 .. n
      PROVE  asc[j] \in S /\ Smaller(S, asc[j]) = j - 1
  <2>1. j - 1 \in 0 .. n - 1
    BY <1>1
  <2>2. \E i \in S : Smaller(S, i) = j - 1
    BY <1>7, <2>1
  <2> QED BY <1>6, <2>2
<1>9. asc \in [1 .. n -> S]
  BY <1>6, <1>8
<1>10. ASSUME NEW i \in 1 .. n, NEW j \in 1 .. n, asc[i] = asc[j]
       PROVE  i = j
  <2>1. i - 1 = j - 1
    BY <1>8, <1>10
  <2> QED BY <1>1, <2>1
<1>11. ASSUME NEW x \in S
       PROVE  \E j \in 1 .. n : asc[j] = x
  <2>1. Smaller(S, x) \in 0 .. n - 1
    BY <1>7
  <2> DEFINE j == Smaller(S, x) + 1
  <2>2. j \in 1 .. n /\ j - 1 = Smaller(S, x)
    BY <1>1, <2>1
  <2> HIDE DEF j
  <2>3. asc[j] \in S /\ Smaller(S, asc[j]) = Smaller(S, x)
    BY <1>8, <2>2
  <2> QED BY <1>7, <2>2, <2>3
<1> QED
  BY <1>1, <1>9, <1>10, <1>11 DEF n, asc

(* The parts of w that a delivery of m parts of k takes out of h.            *)
Freed(k, h, m, w) == {i \in nextByKey[k] .. nextByKey[k] + m - 1 : <<k, i, w>> \in h}

LEMMA ReleasesFacts ==
  ASSUME NEW STATE h, h \in SUBSET Triples, NEW k \in Keys, NEW m \in Nat, nextByKey \in [Keys -> Nat]
  PROVE  /\ Releases(k, h, m) \in [Workers -> Seq({"release"} \X AllParts)]
         /\ \A w \in Workers :
              /\ Sent(Releases(k, h, m)[w], "release") = {<<k, i>> : i \in Freed(k, h, m, w)}
              /\ Once(Releases(k, h, m)[w], "release")
              /\ ~Holds(Releases(k, h, m)[w], "stop")
<1> DEFINE rel == Releases(k, h, m)
<1>1. ASSUME NEW w \in Workers
      PROVE  /\ rel[w] \in Seq({"release"} \X AllParts)
             /\ Sent(rel[w], "release") = {<<k, i>> : i \in Freed(k, h, m, w)}
             /\ Once(rel[w], "release")
             /\ ~Holds(rel[w], "stop")
  <2> DEFINE S == Freed(k, h, m, w)
             a == nextByKey[k]
             n == Cardinality(S)
             asc == Ascending(S)
             q == rel[w]
  <2>1. a \in Nat
    OBVIOUS
  <2>2. S \subseteq a .. a + m - 1 /\ \A i \in S : <<k, i, w>> \in h
    BY DEF Freed
  <2>3. S \subseteq Nat
    <3> HIDE DEF S, a
    <3> QED BY <2>1, <2>2
  <2>4. IsFiniteSet(S)
    <3>1. a \in Int /\ a + m - 1 \in Int
      BY <2>1
    <3> HIDE DEF S, a
    <3> QED BY <3>1, <2>2, FS_Interval, FS_Subset
  <2>5. /\ n \in Nat /\ asc \in [1 .. n -> S]
        /\ \A i, j \in 1 .. n : asc[i] = asc[j] => i = j
        /\ \A x \in S : \E j \in 1 .. n : asc[j] = x
    BY <2>3, <2>4, AscendingFacts
  <2>6. Len(asc) = n
    <3> HIDE DEF asc, n
    <3> QED BY <2>5
  <2>7. q = [j \in 1 .. n |-> <<"release", <<k, asc[j]>>>>]
    <3>1. q = [j \in 1 .. Len(asc) |-> <<"release", <<k, asc[j]>>>>]
      BY DEF Releases, Freed
    <3> QED BY <2>6, <3>1
  <2>8. \A i \in S : <<k, i>> \in AllParts
    <3> SUFFICES ASSUME NEW i \in S
                 PROVE  <<k, i>> \in AllParts
      OBVIOUS
    <3>1. <<k, i, w>> \in Triples
      BY <2>2
    <3> QED BY <3>1, TripleShape
  <2>9. Sent(q, "release") = {<<k, i>> : i \in S} /\ Once(q, "release") /\ ~Holds(q, "stop")
        /\ q \in Seq({"release"} \X AllParts)
    <3> HIDE DEF S, n, asc, q
    <3>1. Len(q) = n /\ \A j \in 1 .. n : q[j] = <<"release", <<k, asc[j]>>>>
      BY <2>5, <2>7
    <3>2. \A j \in 1 .. n : q[j][1] = "release" /\ q[j][2] = <<k, asc[j]>> /\ asc[j] \in S
      BY <2>5, <3>1
    <3>3. ~Holds(q, "stop")
      BY <3>1, <3>2 DEF Holds
    <3>4. Once(q, "release")
      BY <2>5, <3>1, <3>2 DEF Once
    <3>5. \A x : x \in Sent(q, "release") <=> x \in {<<k, i>> : i \in S}
      <4>1. ASSUME NEW x, x \in Sent(q, "release")
            PROVE  x \in {<<k, i>> : i \in S}
        BY <4>1, <3>1, <3>2, SentIff
      <4>2. ASSUME NEW i \in S
            PROVE  <<k, i>> \in Sent(q, "release")
        <5>1. PICK j \in 1 .. n : asc[j] = i
          BY <2>5
        <5> QED BY <5>1, <3>1, <3>2, SentIff
      <4> QED BY <4>1, <4>2
    <3>6. q \in Seq({"release"} \X AllParts)
      <4>1. \A j \in 1 .. n : q[j] \in {"release"} \X AllParts
        BY <2>8, <3>1, <3>2
      <4>2. q \in [1 .. n -> {"release"} \X AllParts]
        BY <2>7, <4>1
      <4> QED BY <2>5, <4>2, FunctionIsSeq
    <3> QED BY <3>3, <3>4, <3>5, <3>6
  <2> QED BY <2>9
<1>2. rel \in [Workers -> Seq({"release"} \X AllParts)]
  <2>1. rel = [w \in Workers |-> rel[w]]
    BY DEF Releases
  <2> HIDE DEF rel
  <2> QED BY <1>1, <2>1
<1> QED
  BY <1>1, <1>2

(* 'stop' after releases.                                                    *)
LEMMA StopAppended ==
  ASSUME NEW M, NEW q \in Seq(M), NEW r \in Seq(M),
         ~Holds(q, "stop"), ~Holds(r, "stop")
  PROVE  StopEnds(q \o (r \o <<<<"stop">>>>))
<1> DEFINE s == r \o <<<<"stop">>>>
           t == q \o s
<1>1. Len(s) = Len(r) + 1 /\ \A i \in 1 .. Len(r) : s[i] = r[i]
  OBVIOUS
<1>2. Len(t) = Len(q) + Len(r) + 1
  BY <1>1
<1>3. \A i \in 1 .. Len(q) : t[i] = q[i]
  OBVIOUS
<1>4. \A i \in 1 .. Len(r) : t[Len(q) + i] = r[i]
  BY <1>1
<1> HIDE DEF s, t
<1>5. ASSUME NEW i \in 1 .. Len(t), t[i][1] = "stop", i # Len(t)
      PROVE  FALSE
  <2>1. Len(q) \in Nat /\ Len(r) \in Nat
    OBVIOUS
  <2>2. CASE i <= Len(q)
    BY <1>3, <1>5, <2>1, <2>2 DEF Holds
  <2>3. CASE ~(i <= Len(q))
    <3>1. i - Len(q) \in 1 .. Len(r)
      BY <1>2, <1>5, <2>1, <2>3
    <3>2. t[Len(q) + (i - Len(q))] = r[i - Len(q)] /\ Len(q) + (i - Len(q)) = i
      BY <1>4, <2>1, <3>1
    <3> QED BY <1>5, <3>1, <3>2 DEF Holds
  <2> QED BY <2>2, <2>3
<1> QED
  BY <1>5 DEF StopEnds, t, s

-----------------------------------------------------------------------------
(* What the invariant says before and after deliveryDone.                    *)

LEMMA DoneIsDelivered ==
  ASSUME Inv, deliveryDone
  PROVE  /\ deliveredCount = TotalParts
         /\ \A w \in Workers : Outstanding(w) = {}
         /\ heldMeta = {} /\ queueIndex = TotalParts
<1>1. /\ Placement(Out, queueIndex, heldMeta, nextByKey)
      /\ Counted(Out, heldMeta, nextByKey, freeLanes, totalInFlight, bufferedBytes, deliveredCount)
  BY DEF Inv, BooksBalance
<1>2. deliveredCount = TotalParts
  <2>1. CASE deliveryMode = "ordered-drop"
    BY <2>1 DEF Inv, DeliveryKnown
  <2>2. CASE deliveryMode # "ordered-drop"
    <3>1. \A k \in Keys : nextByKey[k] > Parts[k]
      BY <2>2 DEF Inv, DeliveryKnown, Ended
    <3> QED BY <1>1, <3>1, BooksFacts
  <2> QED BY <2>1, <2>2
<1>3. (\A w \in Workers : Out[w] = {}) /\ heldMeta = {} /\ queueIndex = TotalParts
  BY <1>1, <1>2, BooksFacts
<1> QED
  BY <1>2, <1>3 DEF Out

LEMMA NoStopYet ==
  ASSUME Inv, ~deliveryDone
  PROVE  \A w \in Workers : /\ ~dispatchStopped[w] /\ ~Holds(inbox[w], "stop")
                            /\ doneEmitted[w] = "no"
BY DEF Inv, StopIsLast

LEMMA QueueTypes ==
  ASSUME InPlaces
  PROVE  /\ inbox \in [Workers -> Seq(InMessages)]
         /\ outbox \in [Workers -> Seq(OutMessages)]
BY DEF InPlaces

(* A queue without 'stop'.                                                   *)
LEMMA NoStopEnds ==
  ASSUME NEW queue, ~Holds(queue, "stop")
  PROVE  StopEnds(queue)
BY DEF Holds, StopEnds

-----------------------------------------------------------------------------
(* drainKey and the dispatch after it: out are the parts that are            *)
(* outstanding when it is called, and h what is held.                        *)

Bytes(h, w) == {<<g[1], g[2]>> : g \in {t \in h : t[3] = w}}

(* What each worker keeps, its answers read as far as this step reads them. *)
Memory(h) ==
  \A w \in Workers :
    heldChunks[w] = Sent(outbox'[w], "part") \cup Bytes(h, w) \cup Sent(inbox[w], "release")

LEMMA DrainKeeps ==
  ASSUME NEW STATE out, NEW k \in Keys, NEW STATE h, NEW STATE backlog, NEW STATE stopped,
         NEW STATE free, NEW STATE flying, NEW took \in {0, 1},
         Inv, ~deliveryDone, k \notin finished, took <= queued[k], stopped \in BOOLEAN,
         Answered(out),
         Placement(out, queueIndex, h, nextByKey),
         Counted(out, h, nextByKey, free, flying, backlog, deliveredCount),
         Flying(out) \subseteq Flying(Out),
         backlog + flying <= bufferedBytes + totalInFlight,
         \A j \in Keys \ {k} : \A n : Has(h, j, n) => Has(heldMeta, j, n),
         deliveryMode = "ordered-drop" => Memory(h),
         DrainAndDispatch(k, h, backlog, stopped, free, flying, took),
         UNCHANGED <<workerStateVars, dead, finished, outcome>>
  PROVE  /\ TypesKept' /\ InPlaces' /\ BooksBalance' /\ Drained' /\ MemoryKept'
         /\ StopIsLast' /\ DeliveryKnown'
<1> DEFINE Posts(m) ==
             [w \in Workers |->
                Releases(k, h, m)[w] \o (IF deliveryDone' THEN StopAll[w] ELSE <<>>)]
<1>1. PICK m \in 0 .. Parts[k], direct \in 0 .. Parts[k] :
        /\ Delivers(k, h, stopped, direct, m)
        /\ heldMeta' = Unhold(k, h, m)
        /\ bufferedBytes' = backlog - m
        /\ deliveredCount' = deliveredCount + m
        /\ nextByKey' = [nextByKey EXCEPT ![k] = @ + m]
        /\ deliveryMode = "ordered-drop" =>
             /\ deliveryDone' = LastDelivered(deliveredCount + m)
             /\ DispatchMore(free, flying, backlog - m, Posts(m))
             /\ UNCHANGED <<paused, queued>>
        /\ deliveryMode # "ordered-drop" =>
             /\ paused' = [paused EXCEPT ![k] = stopped \/ Refuses(k, direct, m)]
             /\ queued' = [queued EXCEPT ![k] = @ + m - direct - took]
             /\ DispatchMore(free, flying, backlog - m, NoPosts)
             /\ UNCHANGED deliveryDone
  BY DEF DrainAndDispatch
<1>2. /\ Parts[k] \in Nat /\ m \in Nat /\ direct \in Nat
      /\ direct <= m /\ \A i \in 0 .. m - 1 : Has(h, k, nextByKey[k] + i)
      /\ deliveryMode = "ordered-drop" => direct = 0 /\ ~Has(h, k, nextByKey[k] + m)
      /\ deliveryMode # "ordered-drop" =>
           /\ direct > 0 => queued[k] = 0
           /\ ~stopped => ~Has(h, k, nextByKey[k] + m) \/ Refuses(k, direct, m)
  <2>1. Parts[k] \in Nat
    BY PartShape
  <2>2. m \in Nat /\ direct \in Nat
    BY <2>1
  <2>3. Delivers(k, h, stopped, direct, m)
    BY <1>1
  <2>4. stopped /\ deliveryMode # "ordered-drop" => m = 0
    BY <2>3 DEF Delivers
  <2>5. direct <= m /\ \A i \in 0 .. m - 1 : Has(h, k, nextByKey[k] + i)
    BY <2>3 DEF Delivers
  <2>6. deliveryMode # "ordered-drop" => (direct > 0 => queued[k] = 0)
    <3>1. CASE stopped
      <4>1. deliveryMode # "ordered-drop" => ~(direct > 0)
        BY <2>2, <2>4, <2>5, <3>1
      <4> QED BY <4>1
    <3>2. CASE ~stopped
      BY <2>3, <3>2 DEF Delivers
    <3> QED BY <3>1, <3>2
  <2> QED BY <2>1, <2>2, <2>3, <2>5, <2>6 DEF Delivers
<1>3. /\ h \in SUBSET Triples /\ queueIndex \in 0 .. TotalParts
      /\ nextByKey \in [Keys -> Nat]
      /\ HeldParts(h) \cap Passed(nextByKey) = {}
  BY DEF Placement
<1> DEFINE held2 == heldMeta'
           next2 == nextByKey'
           count2 == deliveredCount'
<1>4. Delivery(k, m, h, nextByKey, held2, next2)
  <2>1. held2 = {g \in h : g[1] # k \/ g[2] >= nextByKey[k] + m}
    BY <1>1 DEF Unhold
  <2>2. next2 = [nextByKey EXCEPT ![k] = @ + m]
    BY <1>1
  <2> HIDE DEF held2, next2
  <2> QED BY <1>2, <2>1, <2>2 DEF Delivery
<1>5. /\ Placement(out, queueIndex, held2, next2)
      /\ Counted(out, held2, next2, free, flying, backlog - m, count2)
  <2>1. count2 = deliveredCount + m
    BY <1>1
  <2> HIDE DEF held2, next2, count2
  <2> QED BY <1>2, <1>4, <2>1, BooksDrain
<1>6. LastInFlight(out, queueIndex, flying, backlog - m)
  <2> SUFFICES ASSUME (backlog - m) + flying >= Cap + NWorkers * Concurrency,
                      NEW p \in Flying(out)
               PROVE  Position(p) = queueIndex - 1
    BY DEF LastInFlight
  <2>1. LastInFlight(Out, queueIndex, totalInFlight, bufferedBytes)
    BY DEF Inv, BooksBalance
  <2>2. bufferedBytes + totalInFlight >= Cap + NWorkers * Concurrency
    <3> DEFINE limit == Cap + NWorkers * Concurrency
    <3>1. limit \in Int
      BY FiniteWorkers, LanesAssumption, BudgetAssumption
    <3>2. backlog \in 0 .. TotalParts /\ flying \in 0 .. NWorkers * Concurrency
      BY BooksFacts
    <3>3. bufferedBytes \in 0 .. TotalParts /\ totalInFlight \in 0 .. NWorkers * Concurrency
      BY BooksFacts DEF Inv, BooksBalance
    <3>4. (backlog - m) + flying >= limit
      OBVIOUS
    <3>5. /\ backlog \in Int /\ flying \in Int /\ bufferedBytes \in Int /\ totalInFlight \in Int
      <4>1. NWorkers * Concurrency \in Nat
        BY FiniteWorkers, LanesAssumption
      <4> QED BY <3>2, <3>3, <4>1, TotalFacts
    <3> HIDE DEF limit
    <3>6. bufferedBytes + totalInFlight >= limit
      BY <1>2, <3>1, <3>4, <3>5
    <3> QED BY <3>6 DEF limit
  <2>3. p \in Flying(Out)
    OBVIOUS
  <2> QED BY <2>1, <2>2, <2>3 DEF LastInFlight
<1>7. \A w \in Workers : /\ ~dispatchStopped[w] /\ ~Holds(inbox[w], "stop")
                         /\ doneEmitted[w] = "no"
  BY NoStopYet
<1>8. InPlaces /\ UNCHANGED <<running, broken, dispatchInFlight>>
  BY DEF Inv, workerStateVars
<1> DEFINE posts == IF deliveryMode = "ordered-drop" THEN Posts(m) ELSE NoPosts
<1>9. Releases(k, h, m) \in [Workers -> Seq({"release"} \X AllParts)]
  BY <1>2, <1>3, ReleasesFacts
<1>10. ASSUME NEW w \in Workers
       PROVE  /\ posts[w] \in Seq(Orders)
              /\ deliveryMode = "ordered-drop" =>
                   Sent(posts[w], "release") = {<<k, i>> : i \in Freed(k, h, m, w)}
              /\ deliveryMode # "ordered-drop" => Sent(posts[w], "release") = {}
              /\ Once(posts[w], "release")
              /\ Holds(posts[w], "stop") <=> deliveryMode = "ordered-drop" /\ deliveryDone'
              /\ ~Holds(posts[w], "stop") \/ \A q \in Seq(InMessages) :
                     ~Holds(q, "stop") => StopEnds(q \o posts[w])
  <2>1. CASE deliveryMode # "ordered-drop"
    <3>1. posts[w] = <<>>
      BY <2>1 DEF NoPosts
    <3> HIDE DEF posts
    <3>2. posts[w] \in Seq(Orders)
      BY <3>1
    <3> QED BY <2>1, <3>1, <3>2, EmptyQueue
  <2>2. CASE deliveryMode = "ordered-drop"
    <3> DEFINE r == Releases(k, h, m)[w]
    <3>1. r \in Seq({"release"} \X AllParts)
      BY <1>9
    <3>2. /\ Sent(r, "release") = {<<k, i>> : i \in Freed(k, h, m, w)}
          /\ Once(r, "release") /\ ~Holds(r, "stop")
      BY <1>2, <1>3, ReleasesFacts
    <3>3. r \in Seq(Orders)
      <4>1. {"release"} \X AllParts \subseteq Orders
        BY DEF Orders
      <4> HIDE DEF r
      <4> QED BY <3>1, <4>1
    <3>4. CASE ~deliveryDone'
      <4>1. posts[w] = r \o <<>>
        BY <2>2, <3>4
      <4> HIDE DEF posts, r
      <4>2. posts[w] = r
        BY <3>3, <4>1
      <4> QED BY <2>2, <3>2, <3>3, <3>4, <4>2
    <3>5. CASE deliveryDone'
      <4>1. posts[w] = r \o <<<<"stop">>>>
        BY <2>2, <3>5 DEF StopAll
      <4> DEFINE s == <<<<"stop">>>>
      <4>2. /\ s \in Seq(Orders) /\ Sent(s, "release") = {}
            /\ Once(s, "release") /\ Holds(s, "stop")
        <5>1. s \in Seq(Orders)
          BY DEF Orders
        <5>2. Len(s) = 1 /\ s[1] = <<"stop">>
          OBVIOUS
        <5> HIDE DEF s
        <5>3. \A i \in 1 .. Len(s) : s[i] = <<"stop">>
          BY <5>2
        <5>4. \A i \in 1 .. Len(s) : s[i][1] = "stop"
          BY <5>3
        <5>5. Sent(s, "release") = {} /\ Once(s, "release")
          BY <5>4 DEF Sent, Once
        <5>6. Holds(s, "stop")
          BY <5>2, <5>4 DEF Holds
        <5> QED BY <5>1, <5>5, <5>6
      <4>3. posts[w] = r \o s
        BY <4>1
      <4> HIDE DEF posts, s, r
      <4>4. /\ r \o s \in Seq(Orders)
            /\ Sent(r \o s, "release") = Sent(r, "release") \cup Sent(s, "release")
            /\ Holds(r \o s, "stop") <=> Holds(r, "stop") \/ Holds(s, "stop")
            /\ Once(r \o s, "release")
        BY <3>2, <3>3, <4>2, ConcatQueue
      <4>5. ASSUME NEW q \in Seq(InMessages), ~Holds(q, "stop")
            PROVE  StopEnds(q \o posts[w])
        <5>1. r \in Seq(InMessages)
          <6>1. Orders \subseteq InMessages
            BY DEF Orders, InMessages
          <6> QED BY <3>3, <6>1
        <5>2. StopEnds(q \o (r \o <<<<"stop">>>>))
          BY <3>2, <4>5, <5>1, StopAppended
        <5> QED BY <4>1, <5>2
      <4>6. Sent(posts[w], "release") = {<<k, i>> : i \in Freed(k, h, m, w)}
        BY <3>2, <4>2, <4>3, <4>4
      <4> QED BY <2>2, <3>5, <4>2, <4>3, <4>4, <4>5, <4>6
    <3> QED BY <3>4, <3>5
  <2> QED BY <2>1, <2>2
<1>11. posts \in [Workers -> Seq(Orders)]
  <2>1. posts = [w \in Workers |-> posts[w]]
    BY DEF NoPosts
  <2> HIDE DEF posts
  <2> QED BY <1>10, <2>1
<1>12. DispatchMore(free, flying, backlog - m, posts)
  BY <1>1
<1>13. bufferedBytes' = backlog - m
  BY <1>1
<1> HIDE DEF posts
<1>14. BooksBalance' /\ InPlaces' /\ Posted(posts)
  <2> DEFINE left == backlog - m
  <2>1. /\ Placement(out, queueIndex, heldMeta', nextByKey')
        /\ Counted(out, heldMeta', nextByKey', free, flying, left, deliveredCount')
        /\ LastInFlight(out, queueIndex, flying, left)
        /\ bufferedBytes' = left
        /\ DispatchMore(free, flying, left, posts)
    BY <1>5, <1>6, <1>12, <1>13
  <2> HIDE DEF left, held2, next2, count2
  <2> QED BY <1>8, <1>11, <2>1, HandOut
<1>15. TypesKept'
  <2>1. paused' \in [Keys -> BOOLEAN] /\ deliveryDone' \in BOOLEAN
    <3>1. paused \in [Keys -> BOOLEAN] /\ deliveryDone \in BOOLEAN
      BY DEF Inv, TypesKept
    <3>2. LastDelivered(deliveredCount + m) \in BOOLEAN /\ (stopped \/ Refuses(k, direct, m)) \in BOOLEAN
      BY DEF LastDelivered, Refuses
    <3> QED BY <1>1, <3>1, <3>2
  <2>2. queued' \in [Keys -> Nat]
    <3>1. queued \in [Keys -> Nat]
      BY DEF Inv, TypesKept
    <3>2. CASE deliveryMode = "ordered-drop"
      BY <1>1, <3>1, <3>2
    <3>3. CASE deliveryMode # "ordered-drop"
      <4>1. queued' = [queued EXCEPT ![k] = @ + m - direct - took]
        BY <1>1, <3>3
      <4>2. queued[k] + m - direct - took \in Nat
        <5>1. direct > 0 => queued[k] = 0
          BY <1>2, <3>3
        <5> QED BY <1>2, <3>1, <5>1
      <4> QED BY <3>1, <4>1, <4>2
    <3> QED BY <3>2, <3>3
  <2> QED BY <2>1, <2>2 DEF Inv, TypesKept, workerStateVars
<1>16. Drained'
  <2> SUFFICES ASSUME NEW j \in Keys, ~paused'[j]
               PROVE  ~Has(heldMeta', j, nextByKey'[j])
    BY DEF Drained
  <2>1. \A n : Has(heldMeta', j, n) => Has(h, j, n)
    BY <1>1 DEF Has, Unhold
  <2>2. CASE j = k
    <3>1. nextByKey'[k] = nextByKey[k] + m
      BY <1>1, <1>3
    <3>2. ~Has(h, k, nextByKey[k] + m)
      <4>1. CASE deliveryMode = "ordered-drop"
        BY <1>2, <4>1
      <4>2. CASE deliveryMode # "ordered-drop"
        <5>1. paused'[k] = (stopped \/ Refuses(k, direct, m))
          BY <1>1, <4>2 DEF Inv, TypesKept
        <5> QED BY <1>2, <2>2, <4>2, <5>1
      <4> QED BY <4>1, <4>2
    <3> QED BY <2>1, <2>2, <3>1, <3>2
  <2>3. CASE j # k
    <3>1. nextByKey'[j] = nextByKey[j]
      BY <1>1, <1>3, <2>3
    <3>2. ~paused[j]
      <4>1. CASE deliveryMode = "ordered-drop"
        BY <1>1, <4>1
      <4>2. CASE deliveryMode # "ordered-drop"
        BY <1>1, <2>3, <4>2 DEF Inv, TypesKept
      <4> QED BY <4>1, <4>2
    <3>3. ~Has(heldMeta, j, nextByKey[j])
      BY <3>2 DEF Inv, Drained
    <3> QED BY <2>1, <2>3, <3>1, <3>3
  <2> QED BY <2>2, <2>3
<1>17. ASSUME NEW w \in Workers, NEW i \in Freed(k, h, m, w)
       PROVE  /\ <<k, i>> \in AllParts /\ <<k, i>> \notin Passed(nextByKey)
              /\ <<k, i>> \in Passed(nextByKey')
              /\ i < nextByKey[k] + m /\ <<k, i, w>> \in h
  <2>1. <<k, i, w>> \in h /\ i \in nextByKey[k] .. nextByKey[k] + m - 1
    BY DEF Freed
  <2>2. <<k, i>> \in AllParts
    BY <1>3, <2>1, TripleShape
  <2>3. nextByKey[k] \in Nat /\ nextByKey'[k] = nextByKey[k] + m
    BY <1>1, <1>3
  <2>4. ~(i < nextByKey[k]) /\ i < nextByKey[k] + m
    BY <1>2, <2>1, <2>3
  <2> QED BY <2>1, <2>2, <2>3, <2>4 DEF Passed
<1>18. Passed(nextByKey) \subseteq Passed(nextByKey')
  <2> SUFFICES ASSUME NEW p \in AllParts, p[2] < nextByKey[p[1]]
               PROVE  p[2] < nextByKey'[p[1]]
    BY DEF Passed
  <2>1. p[1] \in Keys /\ p[2] \in Int
    BY PartShape
  <2>2. nextByKey'[p[1]] = nextByKey[p[1]] \/ nextByKey'[p[1]] = nextByKey[p[1]] + m
    BY <1>1, <1>3, <2>1
  <2>3. nextByKey[p[1]] \in Nat
    BY <1>3, <2>1
  <2> QED BY <1>2, <2>1, <2>2, <2>3
<1>19. MemoryKept'
  <2> SUFFICES ASSUME NEW w \in Workers
               PROVE  Kept(w)'
    BY DEF MemoryKept
  <2>1. /\ Once(inbox[w], "release") /\ Sent(inbox[w], "release") \subseteq Passed(nextByKey)
        /\ deliveryMode # "ordered-drop" => heldChunks[w] = {} /\ Sent(inbox[w], "release") = {}
    BY DEF Inv, MemoryKept, Kept
  <2> DEFINE new == {<<k, i>> : i \in Freed(k, h, m, w)}
  <2>2. new \cap Passed(nextByKey) = {} /\ new \subseteq Passed(nextByKey')
    BY <1>17
  <2> HIDE DEF new
  <2>3. Sent(posts[w], "release") \in {new, {}} /\ Once(posts[w], "release")
    BY <1>10 DEF new
  <2>4. Sent(inbox'[w], "release") = Sent(inbox[w], "release") \cup Sent(posts[w], "release")
    BY <1>14 DEF Posted
  <2>5. Once(inbox'[w], "release") /\ Sent(inbox'[w], "release") \subseteq Passed(nextByKey')
    BY <1>14, <1>18, <2>1, <2>2, <2>3, <2>4 DEF Posted
  <2>6. heldChunks' = heldChunks /\ deliveryMode' = deliveryMode
    BY DEF workerStateVars
  <2>7. ASSUME deliveryMode = "ordered-drop"
        PROVE  heldChunks'[w] = Sent(outbox'[w], "part") \cup Bytes(heldMeta', w)
                                  \cup Sent(inbox'[w], "release")
    <3>1. heldChunks[w] = Sent(outbox'[w], "part") \cup Bytes(h, w) \cup Sent(inbox[w], "release")
      BY <2>7 DEF Memory
    <3>2. Sent(posts[w], "release") = new
      BY <1>10, <2>7 DEF new
    <3>3. Bytes(h, w) = Bytes(heldMeta', w) \cup new
      <4>0. heldMeta' = {g \in h : g[1] # k \/ g[2] >= nextByKey[k] + m}
        BY <1>1 DEF Unhold
      <4>1. ASSUME NEW g \in h, g[3] = w
            PROVE  g \in heldMeta' \/ <<g[1], g[2]>> \in new
        <5>1. g = <<g[1], g[2], w>> /\ <<g[1], g[2]>> \in AllParts
          BY <1>3, <4>1, TripleShape
        <5>2. CASE g[1] # k \/ g[2] >= nextByKey[k] + m
          BY <4>0, <5>2
        <5>3. CASE g[1] = k /\ ~(g[2] >= nextByKey[k] + m)
          <6>1. <<g[1], g[2]>> \notin Passed(nextByKey)
            BY <1>3, HeldIff
          <6>2. ~(g[2] < nextByKey[k])
            BY <5>1, <5>3, <6>1 DEF Passed
          <6>3. g[2] \in Nat /\ nextByKey[k] \in Nat
            <7>1. g[2] \in 1 .. Parts[k] /\ Parts[k] \in Nat
              BY <5>1, <5>3, PartShape
            <7> QED BY <1>3, <7>1
          <6>4. g[2] \in nextByKey[k] .. nextByKey[k] + m - 1
            BY <1>2, <5>3, <6>2, <6>3
          <6> QED BY <5>1, <5>3, <6>4 DEF new, Freed
        <5> QED BY <5>2, <5>3
      <4>2. ASSUME NEW i \in Freed(k, h, m, w)
            PROVE  <<k, i>> \in Bytes(h, w)
        <5> DEFINE g == <<k, i, w>>
        <5>1. g \in h /\ g[1] = k /\ g[2] = i /\ g[3] = w
          BY <1>17
        <5> HIDE DEF g
        <5> QED BY <5>1 DEF Bytes
      <4>3. new \subseteq Bytes(h, w)
        BY <4>2 DEF new
      <4>4. Bytes(heldMeta', w) \subseteq Bytes(h, w)
        BY <4>0 DEF Bytes
      <4>5. Bytes(h, w) \subseteq Bytes(heldMeta', w) \cup new
        BY <4>1 DEF Bytes
      <4> QED BY <4>3, <4>4, <4>5
    <3> QED BY <2>4, <2>6, <3>1, <3>2, <3>3
  <2>8. ASSUME deliveryMode # "ordered-drop"
        PROVE  heldChunks'[w] = {} /\ Sent(inbox'[w], "release") = {}
    BY <1>10, <2>1, <2>4, <2>6, <2>8
  <2> QED BY <2>5, <2>6, <2>7, <2>8 DEF Kept, Bytes
<1>20. deliveryMode' = deliveryMode /\ dispatchStopped' = dispatchStopped /\ doneEmitted' = doneEmitted
  BY DEF workerStateVars
<1>21. StopIsLast'
  <2> SUFFICES ASSUME NEW w \in Workers
               PROVE  /\ StopEnds(inbox'[w])
                      /\ ~dispatchStopped'[w] /\ doneEmitted'[w] = "no"
                      /\ Holds(inbox'[w], "stop") => deliveryDone'
    BY DEF StopIsLast
  <2>1. ~dispatchStopped'[w] /\ doneEmitted'[w] = "no"
    BY <1>7, <1>20
  <2>2. Holds(inbox'[w], "stop") <=> Holds(posts[w], "stop")
    BY <1>7, <1>14 DEF Posted
  <2>3. CASE ~Holds(posts[w], "stop")
    BY <2>1, <2>2, <2>3, NoStopEnds
  <2>4. CASE Holds(posts[w], "stop")
    <3>1. deliveryMode = "ordered-drop" /\ deliveryDone'
      BY <1>10, <2>4
    <3>2. deliveredCount' = TotalParts
      BY <1>1, <3>1 DEF LastDelivered
    <3>3. inbox'[w] = inbox[w] \o posts[w]
      BY <1>14, <3>2 DEF Posted
    <3>4. inbox[w] \in Seq(InMessages)
      BY <1>8, QueueTypes
    <3> QED BY <1>7, <1>10, <2>1, <2>4, <3>1, <3>3, <3>4
  <2> QED BY <2>3, <2>4
<1>22. DeliveryKnown'
  <2>1. finished' = finished
    OBVIOUS
  <2>2. ASSUME deliveryMode = "ordered-drop"
        PROVE  (deliveryDone' <=> deliveredCount' = TotalParts) /\ \A j \in Keys : queued'[j] = 0
    <3>1. \A j \in Keys : queued[j] = 0
      BY <2>2 DEF Inv, DeliveryKnown
    <3> QED BY <1>1, <2>2, <3>1 DEF LastDelivered
  <2>3. ASSUME deliveryMode # "ordered-drop"
        PROVE  deliveryDone' <=> finished' = Keys
    BY <1>1, <2>1, <2>3 DEF Inv, DeliveryKnown
  <2>4. ASSUME NEW j \in finished'
        PROVE  Ended(j)' /\ queued'[j] = 0
    <3>1. j \in Keys /\ j # k /\ Ended(j) /\ queued[j] = 0
      BY <2>1 DEF Inv, TypesKept, DeliveryKnown
    <3>2. nextByKey'[j] = nextByKey[j]
      BY <1>1, <1>3, <3>1
    <3>3. queued'[j] = queued[j]
      <4>1. queued \in [Keys -> Nat]
        BY DEF Inv, TypesKept
      <4> QED BY <1>1, <3>1, <4>1
    <3> QED BY <3>1, <3>2, <3>3 DEF Ended
  <2> QED BY <1>20, <2>2, <2>3, <2>4 DEF DeliveryKnown
<1> QED
  BY <1>14, <1>15, <1>16, <1>19, <1>21, <1>22

-----------------------------------------------------------------------------
(* What a step leaves alone.                                                 *)

LEMMA WorkerSame ==
  ASSUME Inv, UNCHANGED mainVars, deliveryMode' = deliveryMode,
         \A w \in Workers : Outstanding(w)' = Outstanding(w)
  PROVE  BooksBalance' /\ Drained' /\ DeliveryKnown'
<1>1. Out' = Out
  BY DEF Out
<1>2. BooksBalance'
  BY <1>1 DEF Inv, BooksBalance, mainVars
<1>3. Drained'
  BY DEF Inv, Drained, mainVars
<1>4. DeliveryKnown'
  BY DEF Inv, DeliveryKnown, Ended, mainVars
<1> QED
  BY <1>2, <1>3, <1>4

LEMMA MemorySame ==
  ASSUME Inv, UNCHANGED <<heldMeta, nextByKey, deliveryMode, heldChunks>>,
         Unmoved(Workers, outbox, outbox', "part"), Unmoved(Workers, inbox, inbox', "release")
  PROVE  MemoryKept'
<1> SUFFICES ASSUME NEW w \in Workers
             PROVE  Kept(w)'
  BY DEF MemoryKept
<1>1. Kept(w)
  BY DEF Inv, MemoryKept
<1>2. /\ Sent(outbox'[w], "part") = Sent(outbox[w], "part")
      /\ Sent(inbox'[w], "release") = Sent(inbox[w], "release")
      /\ Once(inbox[w], "release") => Once(inbox'[w], "release")
  BY DEF Unmoved
<1> QED
  BY <1>1, <1>2 DEF Kept

LEMMA StopSame ==
  ASSUME Inv, UNCHANGED <<inbox, dispatchStopped, doneEmitted, deliveryDone>>
  PROVE  StopIsLast'
BY DEF Inv, StopIsLast

LEMMA ReportsSame ==
  ASSUME Inv, UNCHANGED <<up, doneEmitted, readyCount, workerDone, outcome>>,
         Unmoved(Workers, outbox, outbox', "ready"),
         Unmoved(Workers, outbox, outbox', "worker-done"),
         outcome = "resolved" => deliveryDone'
  PROVE  ReportsCounted'
<1>1. \A w \in Workers :
        /\ Holds(outbox'[w], "ready") <=> Holds(outbox[w], "ready")
        /\ Holds(outbox'[w], "worker-done") <=> Holds(outbox[w], "worker-done")
        /\ Single(outbox[w], "ready") => Single(outbox'[w], "ready")
        /\ Single(outbox[w], "worker-done") => Single(outbox'[w], "worker-done")
  BY DEF Unmoved
<1>2. up \subseteq Workers
  BY DEF Inv, TypesKept
<1>3. Readied' = Readied /\ Reported' = Reported
  BY <1>1, <1>2 DEF Readied, Reported
<1> QED
  BY <1>1, <1>3 DEF Inv, ReportsCounted

LEMMA PlacesSame ==
  ASSUME InPlaces, UNCHANGED <<running, broken, dispatchInFlight>>,
         inbox' \in [Workers -> Seq(InMessages)], outbox' \in [Workers -> Seq(OutMessages)],
         Unmoved(Workers, inbox, inbox', "assign"), Unmoved(Workers, outbox, outbox', "part")
  PROVE  /\ InPlaces'
         /\ \A w \in Workers : Outstanding(w)' = Outstanding(w)
<1>1. \A w \in Workers :
        /\ Sent(inbox'[w], "assign") = Sent(inbox[w], "assign")
        /\ Sent(outbox'[w], "part") = Sent(outbox[w], "part")
        /\ Once(inbox[w], "assign") => Once(inbox'[w], "assign")
        /\ Once(outbox[w], "part") => Once(outbox'[w], "part")
  BY DEF Unmoved
<1>2. InPlaces'
  BY <1>1 DEF InPlaces
<1> QED
  BY <1>1, <1>2 DEF Outstanding

(* A message that is posted, or taken by its receiver.                       *)
LEMMA PostFacts ==
  ASSUME InPlaces, NEW w \in Workers, NEW m \in OutMessages, Post(w, m)
  PROVE  /\ outbox' \in [Workers -> Seq(OutMessages)]
         /\ \A type : m[1] # type => Unmoved(Workers, outbox, outbox', type)
<1>1. outbox \in [Workers -> Seq(OutMessages)]
  BY QueueTypes
<1>2. Grown(outbox, w, m, outbox')
  BY DEF Post, Grown
<1> QED
  BY <1>1, <1>2, AppendUnmoved

LEMMA DequeueFacts ==
  ASSUME InPlaces, NEW w \in Workers, NEW type, Receives(w, type), Dequeue(w)
  PROVE  /\ outbox' \in [Workers -> Seq(OutMessages)]
         /\ Head(outbox[w]) \in OutMessages
         /\ \A other : other # type => Unmoved(Workers, outbox, outbox', other)
<1>1. outbox \in [Workers -> Seq(OutMessages)]
  BY QueueTypes
<1>2. Head(outbox[w])[1] = type
  BY DEF Receives
<1>3. Shrunk(outbox, w, outbox')
  BY DEF Receives, Dequeue, Shrunk
<1> QED
  BY <1>1, <1>2, <1>3, TailUnmoved

LEMMA ConsumeFacts ==
  ASSUME InPlaces, NEW w \in Workers, NEW type, Handles(w, type), Consume(w)
  PROVE  /\ inbox' \in [Workers -> Seq(InMessages)]
         /\ Head(inbox[w]) \in InMessages
         /\ \A other : other # type => Unmoved(Workers, inbox, inbox', other)
<1>1. inbox \in [Workers -> Seq(InMessages)]
  BY QueueTypes
<1>2. Head(inbox[w])[1] = type
  BY DEF Handles
<1>3. Shrunk(inbox, w, inbox')
  BY DEF Handles, Consume, Shrunk
<1> QED
  BY <1>1, <1>2, <1>3, TailUnmoved

(* 'stop' stays the last message when another one is taken.                  *)
LEMMA ConsumeStops ==
  ASSUME Inv, NEW w \in Workers, NEW type, type # "stop", Handles(w, type), Consume(w),
         UNCHANGED <<dispatchStopped, doneEmitted, deliveryDone>>
  PROVE  StopIsLast'
<1> SUFFICES ASSUME NEW v \in Workers
             PROVE  /\ StopEnds(inbox'[v])
                    /\ dispatchStopped[v] => inbox'[v] = <<>>
                    /\ doneEmitted[v] # "no" => dispatchStopped[v]
                    /\ dispatchStopped[v] \/ Holds(inbox'[v], "stop") => deliveryDone
  BY DEF StopIsLast
<1>1. /\ StopEnds(inbox[v])
      /\ dispatchStopped[v] => inbox[v] = <<>>
      /\ doneEmitted[v] # "no" => dispatchStopped[v]
      /\ dispatchStopped[v] \/ Holds(inbox[v], "stop") => deliveryDone
  BY DEF Inv, StopIsLast
<1>2. inbox \in [Workers -> Seq(InMessages)]
  BY QueueTypes DEF Inv
<1>3. CASE v # w
  <2>1. inbox'[v] = inbox[v]
    BY <1>2, <1>3 DEF Consume
  <2> QED BY <1>1, <2>1
<1>4. CASE v = w
  <2> DEFINE q == inbox[w]
  <2>1. q \in Seq(InMessages) /\ q # <<>>
    BY <1>2 DEF Handles
  <2>2. inbox'[w] = Tail(q)
    BY <1>2 DEF Consume
  <2>3. ~dispatchStopped[w]
    BY <1>1, <1>4, <2>1
  <2>4. StopEnds(Tail(q))
    <3> SUFFICES ASSUME NEW i \in 1 .. Len(Tail(q)), Tail(q)[i][1] = "stop"
                 PROVE  i = Len(Tail(q))
      BY DEF StopEnds
    <3> HIDE DEF q
    <3>1. Len(Tail(q)) = Len(q) - 1 /\ Tail(q)[i] = q[i + 1] /\ i + 1 \in 1 .. Len(q)
      BY <2>1
    <3>2. i + 1 = Len(q)
      BY <1>1, <1>4, <3>1 DEF StopEnds, q
    <3>3. Len(q) \in Nat /\ i \in Int
      BY <2>1
    <3> QED BY ONLY <3>1, <3>2, <3>3
  <2>5. Holds(Tail(q), "stop") <=> Holds(q, "stop")
    <3>1. Head(q)[1] # "stop"
      BY DEF Handles
    <3> HIDE DEF q
    <3> QED BY <2>1, <3>1, TailQueue
  <2> QED BY <1>1, <1>4, <2>2, <2>3, <2>4, <2>5
<1> QED
  BY <1>3, <1>4

-----------------------------------------------------------------------------
(* Every step of a worker keeps the invariant.                               *)

LEMMA ReadyKeepsInv ==
  ASSUME Inv, NEW w \in Workers, Ready(w), UNCHANGED mainVars
  PROVE  Inv'
<1> DEFINE msg == <<"ready">>
<1>1. /\ w \notin up /\ up' = up \cup {w} /\ Post(w, msg)
      /\ UNCHANGED <<deliveryMode, inbox, running, broken, heldChunks, dispatchInFlight,
                     dispatchStopped, doneEmitted, dead>>
  BY DEF Ready
<1>2. InPlaces
  BY DEF Inv
<1>3. msg \in OutMessages
  BY DEF OutMessages
<1>4. msg[1] = "ready"
  OBVIOUS
<1> HIDE DEF msg
<1>5. /\ outbox' \in [Workers -> Seq(OutMessages)]
      /\ Unmoved(Workers, outbox, outbox', "part")
      /\ Unmoved(Workers, outbox, outbox', "worker-done")
  BY <1>1, <1>2, <1>3, <1>4, PostFacts
<1>6. Unmoved(Workers, inbox, inbox', "assign") /\ Unmoved(Workers, inbox, inbox', "release")
  BY <1>1, StillUnmoved
<1>7. inbox' \in [Workers -> Seq(InMessages)]
  BY <1>1, <1>2, QueueTypes
<1>8. InPlaces' /\ \A v \in Workers : Outstanding(v)' = Outstanding(v)
  BY <1>1, <1>2, <1>5, <1>6, <1>7, PlacesSame
<1>9. BooksBalance' /\ Drained' /\ DeliveryKnown'
  BY <1>1, <1>8, WorkerSame
<1>10. MemoryKept'
  BY <1>1, <1>5, <1>6, MemorySame DEF mainVars
<1>11. StopIsLast'
  BY <1>1, StopSame DEF mainVars
<1>12. ReportsCounted'
  <2>1. \A v \in Workers :
          /\ Single(outbox[v], "ready") /\ Single(outbox[v], "worker-done")
          /\ Holds(outbox[v], "ready") => v \in up
          /\ Holds(outbox[v], "worker-done") => doneEmitted[v] = "posted"
    BY DEF Inv, ReportsCounted
  <2>2. \A v \in Workers :
          /\ Holds(outbox'[v], "worker-done") <=> Holds(outbox[v], "worker-done")
          /\ Single(outbox[v], "worker-done") => Single(outbox'[v], "worker-done")
    BY <1>5 DEF Unmoved
  <2>3. outbox \in [Workers -> Seq(OutMessages)]
    BY <1>2, QueueTypes
  <2>4. \A v \in Workers : v # w => outbox'[v] = outbox[v]
    BY <1>1, <2>3 DEF Post
  <2>5. outbox'[w] = Append(outbox[w], msg)
    BY <1>1, <2>3 DEF Post
  <2>6. Holds(outbox'[w], "ready") /\ Single(outbox'[w], "ready")
    <3>1. ~Holds(outbox[w], "ready")
      BY <1>1, <2>1
    <3>2. outbox[w] \in Seq(OutMessages)
      BY <2>3
    <3> QED BY <1>3, <1>4, <2>5, <3>1, <3>2, AppendQueue
  <2>7. Readied' = Readied
    <3>1. \A v \in up : v \in Workers /\ v # w
      BY <1>1 DEF Inv, TypesKept
    <3>2. \A v \in up : Holds(outbox'[v], "ready") <=> Holds(outbox[v], "ready")
      BY <2>4, <3>1
    <3> QED BY <1>1, <2>6, <3>2 DEF Readied
  <2>8. Reported' = Reported
    BY <1>1, <2>2 DEF Reported
  <2> QED BY <1>1, <2>1, <2>2, <2>4, <2>6, <2>7, <2>8 DEF Inv, ReportsCounted, mainVars
<1>13. TypesKept'
  BY <1>1 DEF Inv, TypesKept, mainVars
<1> QED
  BY <1>8, <1>9, <1>10, <1>11, <1>12, <1>13 DEF Inv

LEMMA DiesKeepsInv ==
  ASSUME Inv, NEW w \in Workers, Dies(w), UNCHANGED mainVars
  PROVE  Inv'
<1> DEFINE msg == <<"exit">>
<1>1. /\ dead' = dead \cup {w} /\ Post(w, msg)
      /\ UNCHANGED <<deliveryMode, inbox, up, running, broken, heldChunks, dispatchInFlight,
                     dispatchStopped, doneEmitted>>
  BY DEF Dies
<1>2. InPlaces
  BY DEF Inv
<1>3. msg \in OutMessages
  BY DEF OutMessages
<1>4. msg[1] = "exit"
  OBVIOUS
<1> HIDE DEF msg
<1>5. /\ outbox' \in [Workers -> Seq(OutMessages)]
      /\ Unmoved(Workers, outbox, outbox', "part")
      /\ Unmoved(Workers, outbox, outbox', "ready")
      /\ Unmoved(Workers, outbox, outbox', "worker-done")
  BY <1>1, <1>2, <1>3, <1>4, PostFacts
<1>6. Unmoved(Workers, inbox, inbox', "assign") /\ Unmoved(Workers, inbox, inbox', "release")
  BY <1>1, StillUnmoved
<1>7. inbox' \in [Workers -> Seq(InMessages)]
  BY <1>1, <1>2, QueueTypes
<1>8. InPlaces' /\ \A v \in Workers : Outstanding(v)' = Outstanding(v)
  BY <1>1, <1>2, <1>5, <1>6, <1>7, PlacesSame
<1>9. BooksBalance' /\ Drained' /\ DeliveryKnown'
  BY <1>1, <1>8, WorkerSame
<1>10. MemoryKept'
  BY <1>1, <1>5, <1>6, MemorySame DEF mainVars
<1>11. StopIsLast'
  BY <1>1, StopSame DEF mainVars
<1>12. ReportsCounted'
  <2>1. outcome = "resolved" => deliveryDone'
    BY DEF Inv, ReportsCounted, mainVars
  <2> QED BY <1>1, <1>5, <2>1, ReportsSame DEF mainVars
<1>13. TypesKept'
  BY <1>1 DEF Inv, TypesKept, mainVars
<1> QED
  BY <1>8, <1>9, <1>10, <1>11, <1>12, <1>13 DEF Inv

LEMMA AssignedKeepsInv ==
  ASSUME Inv, NEW w \in Workers, Assigned(w), UNCHANGED mainVars
  PROVE  Inv'
<1>1. PICK p : p = Head(inbox[w])[2]
  OBVIOUS
<1>2. /\ Handles(w, "assign") /\ Consume(w)
      /\ running' = [running EXCEPT ![w] = @ \cup {p}]
      /\ dispatchInFlight' = [dispatchInFlight EXCEPT ![w] = @ + 1]
      /\ UNCHANGED <<deliveryMode, outbox, up, broken, heldChunks, dispatchStopped,
                     doneEmitted, dead>>
  BY <1>1 DEF Assigned
<1>3. InPlaces
  BY DEF Inv
<1>4. /\ inbox \in [Workers -> Seq(InMessages)] /\ outbox \in [Workers -> Seq(OutMessages)]
      /\ running \in [Workers -> SUBSET AllParts] /\ broken \in [Workers -> SUBSET AllParts]
      /\ \A v \in Workers :
           /\ Once(inbox[v], "assign")
           /\ Once(outbox[v], "part")
           /\ Sent(inbox[v], "assign") \cap (running[v] \cup broken[v]) = {}
           /\ Sent(outbox[v], "part") \cap (running[v] \cup broken[v]) = {}
           /\ Sent(inbox[v], "assign") \cap Sent(outbox[v], "part") = {}
           /\ running[v] \cap broken[v] = {}
           /\ dispatchInFlight[v] = Cardinality(running[v] \cup broken[v])
  BY <1>3 DEF InPlaces
<1>5. /\ inbox' \in [Workers -> Seq(InMessages)]
      /\ Unmoved(Workers, inbox, inbox', "release")
      /\ Head(inbox[w]) \in InMessages
  BY <1>2, <1>3, ConsumeFacts
<1>6. /\ p \in Sent(inbox[w], "assign") /\ p \in AllParts
      /\ Sent(inbox'[w], "assign") = Sent(inbox[w], "assign") \ {p}
      /\ Once(inbox'[w], "assign")
  <2> DEFINE q == inbox[w]
  <2>1. q \in Seq(InMessages) /\ q # <<>> /\ Head(q)[1] = "assign" /\ Head(q)[2] = p
        /\ Once(q, "assign")
    BY <1>1, <1>2, <1>4 DEF Handles
  <2>2. inbox'[w] = Tail(q)
    BY <1>2, <1>4 DEF Consume
  <2>3. p \in AllParts
    BY <1>5, <2>1 DEF InMessages
  <2> HIDE DEF q
  <2>4. p \in Sent(q, "assign") /\ Sent(Tail(q), "assign") = Sent(q, "assign") \ {p}
        /\ Once(Tail(q), "assign")
    BY <2>1, TailQueue
  <2> QED BY <2>2, <2>3, <2>4 DEF q
<1>7. \A v \in Workers : v # w => inbox'[v] = inbox[v] /\ running'[v] = running[v]
                                  /\ dispatchInFlight'[v] = dispatchInFlight[v]
  BY <1>2, <1>4 DEF Consume, Inv, TypesKept
<1>8. running'[w] = running[w] \cup {p} /\ dispatchInFlight'[w] = dispatchInFlight[w] + 1
  BY <1>2, <1>4 DEF Inv, TypesKept
<1>9. running' \in [Workers -> SUBSET AllParts]
  BY <1>2, <1>4, <1>6
<1>10. dispatchInFlight'[w] = Cardinality(running'[w] \cup broken[w])
  <2> DEFINE S == running[w] \cup broken[w]
  <2>1. IsFiniteSet(S) /\ p \notin S /\ dispatchInFlight[w] = Cardinality(S)
    <3>1. S \in SUBSET AllParts
      BY <1>4
    <3>2. IsFiniteSet(S)
      BY <3>1, FiniteParts
    <3> QED BY <1>4, <1>6, <3>2
  <2>2. running'[w] \cup broken[w] = S \cup {p}
    BY <1>8
  <2> HIDE DEF S
  <2> QED BY <1>8, <2>1, <2>2, FS_AddElement
<1>11. ASSUME NEW v \in Workers
       PROVE  /\ Outstanding(v)' = Outstanding(v)
              /\ Once(inbox'[v], "assign")
              /\ Once(outbox'[v], "part")
              /\ Sent(inbox'[v], "assign") \cap (running'[v] \cup broken'[v]) = {}
              /\ Sent(outbox'[v], "part") \cap (running'[v] \cup broken'[v]) = {}
              /\ Sent(inbox'[v], "assign") \cap Sent(outbox'[v], "part") = {}
              /\ running'[v] \cap broken'[v] = {}
              /\ dispatchInFlight'[v] = Cardinality(running'[v] \cup broken'[v])
  <2>1. CASE v # w
    BY <1>2, <1>4, <1>7, <2>1 DEF Outstanding
  <2>2. CASE v = w
    <3>1. Outstanding(w)' = Outstanding(w)
      BY <1>2, <1>6, <1>8 DEF Outstanding
    <3>2. /\ Sent(inbox'[w], "assign") \cap (running'[w] \cup broken[w]) = {}
          /\ Sent(outbox[w], "part") \cap (running'[w] \cup broken[w]) = {}
          /\ Sent(inbox'[w], "assign") \cap Sent(outbox[w], "part") = {}
          /\ running'[w] \cap broken[w] = {}
      BY <1>4, <1>6, <1>8
    <3> QED BY <1>2, <1>4, <1>6, <1>10, <2>2, <3>1, <3>2
  <2> QED BY <2>1, <2>2
<1>12. InPlaces'
  BY <1>2, <1>4, <1>5, <1>9, <1>11 DEF InPlaces
<1>13. BooksBalance' /\ Drained' /\ DeliveryKnown'
  BY <1>2, <1>11, WorkerSame
<1>14. Unmoved(Workers, outbox, outbox', "part") /\ Unmoved(Workers, outbox, outbox', "ready")
       /\ Unmoved(Workers, outbox, outbox', "worker-done")
  BY <1>2, StillUnmoved
<1>15. MemoryKept'
  BY <1>2, <1>5, <1>14, MemorySame DEF mainVars
<1>16. StopIsLast'
  BY <1>2, ConsumeStops DEF mainVars
<1>17. ReportsCounted'
  <2>1. outcome = "resolved" => deliveryDone'
    BY DEF Inv, ReportsCounted, mainVars
  <2> QED BY <1>2, <1>14, <2>1, ReportsSame DEF mainVars
<1>18. TypesKept'
  <2>1. dispatchInFlight' \in [Workers -> Nat]
    BY <1>2 DEF Inv, TypesKept
  <2> QED BY <1>2, <2>1 DEF Inv, TypesKept, mainVars
<1> QED
  BY <1>12, <1>13, <1>15, <1>16, <1>17, <1>18 DEF Inv

LEMMA ReleasedKeepsInv ==
  ASSUME Inv, NEW w \in Workers, Released(w), UNCHANGED mainVars
  PROVE  Inv'
<1>1. PICK p : p = Head(inbox[w])[2]
  OBVIOUS
<1>2. /\ Handles(w, "release") /\ Consume(w)
      /\ heldChunks' = [heldChunks EXCEPT ![w] = @ \ {p}]
      /\ UNCHANGED <<deliveryMode, outbox, up, running, broken, dispatchInFlight,
                     dispatchStopped, doneEmitted, dead>>
  BY <1>1 DEF Released
<1>3. InPlaces
  BY DEF Inv
<1>4. /\ inbox' \in [Workers -> Seq(InMessages)]
      /\ Unmoved(Workers, inbox, inbox', "assign")
  BY <1>2, <1>3, ConsumeFacts
<1>5. /\ Unmoved(Workers, outbox, outbox', "part") /\ Unmoved(Workers, outbox, outbox', "ready")
      /\ Unmoved(Workers, outbox, outbox', "worker-done")
  BY <1>2, StillUnmoved
<1>6. outbox' \in [Workers -> Seq(OutMessages)]
  BY <1>2, <1>3, QueueTypes
<1>7. InPlaces' /\ \A v \in Workers : Outstanding(v)' = Outstanding(v)
  BY <1>2, <1>3, <1>4, <1>5, <1>6, PlacesSame
<1>8. BooksBalance' /\ Drained' /\ DeliveryKnown'
  BY <1>2, <1>7, WorkerSame
<1>9. StopIsLast'
  BY <1>2, ConsumeStops DEF mainVars
<1>10. ReportsCounted'
  <2>1. outcome = "resolved" => deliveryDone'
    BY DEF Inv, ReportsCounted, mainVars
  <2> QED BY <1>2, <1>5, <2>1, ReportsSame DEF mainVars
<1>11. TypesKept'
  <2>1. heldChunks' \in [Workers -> SUBSET AllParts]
    BY <1>2 DEF Inv, TypesKept
  <2> QED BY <1>2, <2>1 DEF Inv, TypesKept, mainVars
<1>12. MemoryKept'
  <2> SUFFICES ASSUME NEW v \in Workers
               PROVE  Kept(v)'
    BY DEF MemoryKept
  <2>1. Kept(v) /\ inbox \in [Workers -> Seq(InMessages)]
    BY <1>3, QueueTypes DEF Inv, MemoryKept
  <2>2. UNCHANGED <<deliveryMode, outbox, heldMeta, nextByKey>>
    BY <1>2 DEF mainVars
  <2>3. CASE v # w
    <3>1. inbox'[v] = inbox[v] /\ heldChunks'[v] = heldChunks[v]
      BY <1>2, <2>1, <2>3 DEF Consume, Inv, TypesKept
    <3> QED BY <2>1, <2>2, <3>1 DEF Kept
  <2>4. CASE v = w
    <3> DEFINE q == inbox[w]
               then == inbox'[w]
    <3>1. q \in Seq(InMessages) /\ q # <<>> /\ Head(q)[1] = "release" /\ Head(q)[2] = p
          /\ Once(q, "release") /\ Sent(q, "release") \subseteq Passed(nextByKey)
      BY <1>1, <1>2, <2>1, <2>4 DEF Handles, Kept
    <3>2. then = Tail(q)
      BY <1>2, <2>1 DEF Consume
    <3>3. heldChunks'[w] = heldChunks[w] \ {p}
      BY <1>2 DEF Inv, TypesKept
    <3>4. p \notin Bytes(heldMeta, w) /\ p \notin Sent(outbox[w], "part")
      <4>1. p \in Passed(nextByKey)
        <5> HIDE DEF q
        <5> QED BY <3>1, TailQueue
      <4>2. /\ Flying(Out) \cap Passed(nextByKey) = {}
            /\ HeldParts(heldMeta) \cap Passed(nextByKey) = {}
            /\ heldMeta \in SUBSET Triples
        BY DEF Inv, BooksBalance, Placement
      <4>3. Bytes(heldMeta, w) \subseteq HeldParts(heldMeta)
        BY <4>2, HeldIff DEF Bytes
      <4>4. p \notin Sent(outbox[w], "part")
        <5>1. p \notin Out[w]
          BY <4>1, <4>2 DEF Flying, Passed
        <5> QED BY <5>1 DEF Out, Outstanding
      <4> QED BY <4>1, <4>2, <4>3, <4>4
    <3>5. deliveryMode = "ordered-drop" =>
            heldChunks[w] = Sent(outbox[w], "part") \cup Bytes(heldMeta, w) \cup Sent(q, "release")
      BY <2>1, <2>4 DEF Kept, Bytes
    <3>6. deliveryMode # "ordered-drop" => heldChunks[w] = {} /\ Sent(q, "release") = {}
      BY <2>1, <2>4 DEF Kept
    <3> HIDE DEF q, then
    <3>7. Once(then, "release") /\ Sent(then, "release") = Sent(q, "release") \ {p}
      BY <3>1, <3>2, TailQueue
    <3>8. deliveryMode = "ordered-drop" =>
            heldChunks'[w] = Sent(outbox[w], "part") \cup Bytes(heldMeta, w) \cup Sent(then, "release")
      BY <3>3, <3>4, <3>5, <3>7
    <3>9. deliveryMode # "ordered-drop" => heldChunks'[w] = {} /\ Sent(then, "release") = {}
      BY <3>3, <3>6, <3>7
    <3>10. Sent(then, "release") \subseteq Passed(nextByKey)
      BY <3>1, <3>7
    <3> QED BY <2>2, <2>4, <3>7, <3>8, <3>9, <3>10 DEF Kept, Bytes, then
  <2> QED BY <2>3, <2>4
<1> QED
  BY <1>7, <1>8, <1>9, <1>10, <1>11, <1>12 DEF Inv

LEMMA StoppedKeepsInv ==
  ASSUME Inv, NEW w \in Workers, Stopped(w), UNCHANGED mainVars
  PROVE  Inv'
<1>1. /\ Handles(w, "stop") /\ Consume(w)
      /\ dispatchStopped' = [dispatchStopped EXCEPT ![w] = TRUE]
      /\ doneEmitted' \in {doneEmitted, [doneEmitted EXCEPT ![w] = "profiling"]}
      /\ doneEmitted' # doneEmitted => doneEmitted[w] = "no"
      /\ UNCHANGED <<deliveryMode, outbox, up, running, broken, heldChunks, dispatchInFlight, dead>>
  BY DEF Stopped, MaybeDone, IsDone, Inv, TypesKept
<1>2. InPlaces
  BY DEF Inv
<1>3. /\ inbox' \in [Workers -> Seq(InMessages)]
      /\ Unmoved(Workers, inbox, inbox', "assign") /\ Unmoved(Workers, inbox, inbox', "release")
  BY <1>1, <1>2, ConsumeFacts
<1>4. /\ Unmoved(Workers, outbox, outbox', "part") /\ Unmoved(Workers, outbox, outbox', "ready")
      /\ Unmoved(Workers, outbox, outbox', "worker-done")
  BY <1>1, StillUnmoved
<1>5. outbox' \in [Workers -> Seq(OutMessages)]
  BY <1>1, <1>2, QueueTypes
<1>6. InPlaces' /\ \A v \in Workers : Outstanding(v)' = Outstanding(v)
  BY <1>1, <1>2, <1>3, <1>4, <1>5, PlacesSame
<1>7. BooksBalance' /\ Drained' /\ DeliveryKnown'
  BY <1>1, <1>6, WorkerSame
<1>8. MemoryKept'
  BY <1>1, <1>3, <1>4, MemorySame DEF mainVars
<1>9. StopIsLast'
  <2> SUFFICES ASSUME NEW v \in Workers
               PROVE  /\ StopEnds(inbox'[v])
                      /\ dispatchStopped'[v] => inbox'[v] = <<>>
                      /\ doneEmitted'[v] # "no" => dispatchStopped'[v]
                      /\ dispatchStopped'[v] \/ Holds(inbox'[v], "stop") => deliveryDone'
    BY DEF StopIsLast
  <2>1. /\ StopEnds(inbox[v])
        /\ dispatchStopped[v] => inbox[v] = <<>>
        /\ doneEmitted[v] # "no" => dispatchStopped[v]
        /\ dispatchStopped[v] \/ Holds(inbox[v], "stop") => deliveryDone
    BY DEF Inv, StopIsLast
  <2>2. inbox \in [Workers -> Seq(InMessages)] /\ deliveryDone' = deliveryDone
    BY <1>2, QueueTypes DEF mainVars
  <2>3. CASE v # w
    <3>1. inbox'[v] = inbox[v]
      BY <1>1, <2>2, <2>3 DEF Consume
    <3>2. dispatchStopped'[v] = dispatchStopped[v] /\ doneEmitted'[v] = doneEmitted[v]
      BY <1>1, <2>3 DEF Inv, TypesKept
    <3> QED BY <2>1, <2>2, <3>1, <3>2
  <2>4. CASE v = w
    <3> DEFINE q == inbox[w]
    <3>1. q \in Seq(InMessages) /\ q # <<>> /\ Head(q)[1] = "stop"
      BY <1>1, <2>2 DEF Handles
    <3>2. inbox'[w] = Tail(q)
      BY <1>1, <2>2 DEF Consume
    <3>3. StopEnds(q)
      BY <2>1, <2>4
    <3> HIDE DEF q
    <3>4. Len(q) = 1
      <4>1. Len(q) \in Nat /\ 1 \in 1 .. Len(q) /\ q[1] = Head(q)
        BY <3>1
      <4>2. q[1][1] = "stop"
        BY <3>1, <4>1
      <4> QED BY <3>3, <4>1, <4>2 DEF StopEnds
    <3>5. Tail(q) = <<>>
      <4> DEFINE rest == Tail(q)
      <4>1. rest \in Seq(InMessages) /\ Len(rest) = 0
        BY <3>1, <3>4
      <4> HIDE DEF rest
      <4>2. rest = <<>>
        BY <4>1
      <4> QED BY <4>2 DEF rest
    <3>6. Holds(q, "stop")
      BY <3>1, TailQueue
    <3>7. dispatchStopped'[w]
      BY <1>1 DEF Inv, TypesKept
    <3>8. StopEnds(<<>>)
      BY EmptyQueue, NoStopEnds
    <3> QED BY <2>1, <2>2, <2>4, <3>2, <3>5, <3>6, <3>7, <3>8 DEF q
  <2> QED BY <2>3, <2>4
<1>10. ReportsCounted'
  <2>1. \A v \in Workers : doneEmitted'[v] = "posted" <=> doneEmitted[v] = "posted"
    BY <1>1 DEF Inv, TypesKept
  <2>2. Reported' = Reported
    BY <1>1, <2>1 DEF Reported
  <2>3. Readied' = Readied
    BY <1>1 DEF Readied
  <2> QED BY <1>1, <2>1, <2>2, <2>3 DEF Inv, ReportsCounted, mainVars
<1>11. TypesKept'
  <2>1. dispatchStopped' \in [Workers -> BOOLEAN] /\ doneEmitted' \in [Workers -> DoneStates]
    BY <1>1 DEF Inv, TypesKept, DoneStates
  <2> QED BY <1>1, <2>1 DEF Inv, TypesKept, mainVars
<1> QED
  BY <1>6, <1>7, <1>8, <1>9, <1>10, <1>11 DEF Inv

LEMMA PostDoneKeepsInv ==
  ASSUME Inv, NEW w \in Workers, PostDone(w), UNCHANGED mainVars
  PROVE  Inv'
<1> DEFINE msg == <<"worker-done">>
<1>1. /\ doneEmitted[w] = "profiling" /\ Post(w, msg)
      /\ doneEmitted' = [doneEmitted EXCEPT ![w] = "posted"]
      /\ heldChunks' = [heldChunks EXCEPT ![w] = {}]
      /\ UNCHANGED <<deliveryMode, inbox, up, running, broken, dispatchInFlight,
                     dispatchStopped, dead>>
  BY DEF PostDone
<1>2. InPlaces
  BY DEF Inv
<1>3. msg \in OutMessages
  BY DEF OutMessages
<1>4. msg[1] = "worker-done"
  OBVIOUS
<1> HIDE DEF msg
<1>5. /\ outbox' \in [Workers -> Seq(OutMessages)]
      /\ Unmoved(Workers, outbox, outbox', "part")
      /\ Unmoved(Workers, outbox, outbox', "ready")
  BY <1>1, <1>2, <1>3, <1>4, PostFacts
<1>6. Unmoved(Workers, inbox, inbox', "assign") /\ Unmoved(Workers, inbox, inbox', "release")
  BY <1>1, StillUnmoved
<1>7. inbox' \in [Workers -> Seq(InMessages)]
  BY <1>1, <1>2, QueueTypes
<1>8. InPlaces' /\ \A v \in Workers : Outstanding(v)' = Outstanding(v)
  BY <1>1, <1>2, <1>5, <1>6, <1>7, PlacesSame
<1>9. BooksBalance' /\ Drained' /\ DeliveryKnown'
  BY <1>1, <1>8, WorkerSame
<1>10. dispatchStopped[w] /\ deliveryDone /\ inbox[w] = <<>>
  BY <1>1 DEF Inv, StopIsLast
<1>11. heldChunks'[w] = {} /\ \A v \in Workers : v # w => heldChunks'[v] = heldChunks[v]
  BY <1>1 DEF Inv, TypesKept
<1>12. MemoryKept'
  <2> SUFFICES ASSUME NEW v \in Workers
               PROVE  Kept(v)'
    BY DEF MemoryKept
  <2>1. Kept(v)
    BY DEF Inv, MemoryKept
  <2>2. /\ UNCHANGED <<deliveryMode, inbox, heldMeta, nextByKey>>
        /\ Sent(outbox'[v], "part") = Sent(outbox[v], "part")
    BY <1>1, <1>5 DEF mainVars, Unmoved
  <2>3. CASE v # w
    BY <1>11, <2>1, <2>2, <2>3 DEF Kept
  <2>4. CASE v = w
    <3>1. Outstanding(w) = {} /\ heldMeta = {}
      BY <1>10, DoneIsDelivered
    <3>2. Sent(outbox[w], "part") = {} /\ Sent(inbox[w], "release") = {}
      BY <1>10, <3>1, EmptyQueue DEF Outstanding
    <3> QED BY <1>11, <2>1, <2>2, <2>4, <3>1, <3>2 DEF Kept
  <2> QED BY <2>3, <2>4
<1>13. doneEmitted'[w] = "posted" /\ \A v \in Workers : v # w => doneEmitted'[v] = doneEmitted[v]
  BY <1>1 DEF Inv, TypesKept
<1>14. StopIsLast'
  BY <1>1, <1>10, <1>13 DEF Inv, StopIsLast, mainVars
<1>15. ReportsCounted'
  <2>1. \A v \in Workers :
          /\ Single(outbox[v], "ready") /\ Single(outbox[v], "worker-done")
          /\ Holds(outbox[v], "ready") => v \in up
          /\ Holds(outbox[v], "worker-done") => doneEmitted[v] = "posted"
    BY DEF Inv, ReportsCounted
  <2>2. \A v \in Workers :
          /\ Holds(outbox'[v], "ready") <=> Holds(outbox[v], "ready")
          /\ Single(outbox[v], "ready") => Single(outbox'[v], "ready")
    BY <1>5 DEF Unmoved
  <2>3. outbox \in [Workers -> Seq(OutMessages)]
    BY <1>2, QueueTypes
  <2>4. \A v \in Workers : v # w => outbox'[v] = outbox[v]
    BY <1>1, <2>3 DEF Post
  <2>5. outbox'[w] = Append(outbox[w], msg)
    BY <1>1, <2>3 DEF Post
  <2>6. Holds(outbox'[w], "worker-done") /\ Single(outbox'[w], "worker-done")
    <3>1. ~Holds(outbox[w], "worker-done")
      BY <1>1, <2>1
    <3>2. outbox[w] \in Seq(OutMessages)
      BY <2>3
    <3> QED BY <1>3, <1>4, <2>5, <3>1, <3>2, AppendQueue
  <2>7. Reported' = Reported
    <3>1. w \notin Reported /\ w \notin Reported'
      BY <1>1, <2>6 DEF Reported
    <3>2. \A v \in Workers : v # w => (v \in Reported' <=> v \in Reported)
      BY <1>13, <2>4 DEF Reported
    <3> QED BY <3>1, <3>2 DEF Reported
  <2>8. Readied' = Readied
    <3>1. \A v \in up : v \in Workers
      BY DEF Inv, TypesKept
    <3> QED BY <1>1, <2>2, <3>1 DEF Readied
  <2> QED BY <1>1, <1>13, <2>1, <2>2, <2>4, <2>6, <2>7, <2>8 DEF Inv, ReportsCounted, mainVars
<1>16. TypesKept'
  <2>1. heldChunks' \in [Workers -> SUBSET AllParts] /\ doneEmitted' \in [Workers -> DoneStates]
    BY <1>1 DEF Inv, TypesKept, DoneStates
  <2> QED BY <1>1, <2>1 DEF Inv, TypesKept, mainVars
<1> QED
  BY <1>8, <1>9, <1>12, <1>14, <1>15, <1>16 DEF Inv

(* A part that leaves the fetches.                                           *)
LEMMA PartFailsKeepsInv ==
  ASSUME Inv, NEW w \in Workers, NEW p \in running[w], PartFails(w, p), UNCHANGED mainVars
  PROVE  Inv'
<1> DEFINE msg == <<"error">>
<1>1. /\ Post(w, msg)
      /\ running' = [running EXCEPT ![w] = @ \ {p}]
      /\ broken' = [broken EXCEPT ![w] = @ \cup {p}]
      /\ UNCHANGED <<deliveryMode, inbox, up, heldChunks, dispatchInFlight, dispatchStopped,
                     doneEmitted, dead>>
  BY DEF PartFails
<1>2. InPlaces
  BY DEF Inv
<1>3. msg \in OutMessages
  BY DEF OutMessages
<1>4. msg[1] = "error"
  OBVIOUS
<1> HIDE DEF msg
<1>5. /\ outbox' \in [Workers -> Seq(OutMessages)]
      /\ Unmoved(Workers, outbox, outbox', "part")
      /\ Unmoved(Workers, outbox, outbox', "ready")
      /\ Unmoved(Workers, outbox, outbox', "worker-done")
  BY <1>1, <1>2, <1>3, <1>4, PostFacts
<1>6. Unmoved(Workers, inbox, inbox', "assign") /\ Unmoved(Workers, inbox, inbox', "release")
  BY <1>1, StillUnmoved
<1>7. inbox' \in [Workers -> Seq(InMessages)]
  BY <1>1, <1>2, QueueTypes
<1>8. /\ running \in [Workers -> SUBSET AllParts] /\ broken \in [Workers -> SUBSET AllParts]
      /\ \A v \in Workers : running[v] \cap broken[v] = {}
  BY <1>2 DEF InPlaces
<1>9. running' \in [Workers -> SUBSET AllParts] /\ broken' \in [Workers -> SUBSET AllParts]
  BY <1>1, <1>8
<1>10. \A v \in Workers : /\ running'[v] \cup broken'[v] = running[v] \cup broken[v]
                          /\ running'[v] \cap broken'[v] = {}
  BY <1>1, <1>8
<1>11. \A v \in Workers :
         /\ Sent(outbox'[v], "part") = Sent(outbox[v], "part")
         /\ Once(outbox[v], "part") => Once(outbox'[v], "part")
  BY <1>5 DEF Unmoved
<1>12. InPlaces'
  BY <1>1, <1>2, <1>5, <1>7, <1>9, <1>10, <1>11 DEF InPlaces
<1>13. \A v \in Workers : Outstanding(v)' = Outstanding(v)
  <2> SUFFICES ASSUME NEW v \in Workers
               PROVE  Outstanding(v)' = Outstanding(v)
    OBVIOUS
  <2>1. running'[v] \cup broken'[v] = running[v] \cup broken[v]
    BY <1>10
  <2>2. Sent(outbox'[v], "part") = Sent(outbox[v], "part") /\ inbox' = inbox
    BY <1>1, <1>11
  <2> QED BY <2>1, <2>2 DEF Outstanding
<1>14. BooksBalance' /\ Drained' /\ DeliveryKnown'
  BY <1>1, <1>13, WorkerSame
<1>15. MemoryKept'
  BY <1>1, <1>5, <1>6, MemorySame DEF mainVars
<1>16. StopIsLast'
  BY <1>1, StopSame DEF mainVars
<1>17. ReportsCounted'
  <2>1. outcome = "resolved" => deliveryDone'
    BY DEF Inv, ReportsCounted, mainVars
  <2> QED BY <1>1, <1>5, <2>1, ReportsSame DEF mainVars
<1>18. TypesKept'
  BY <1>1 DEF Inv, TypesKept, mainVars
<1> QED
  BY <1>12, <1>14, <1>15, <1>16, <1>17, <1>18 DEF Inv

LEMMA PartDoneKeepsInv ==
  ASSUME Inv, NEW w \in Workers, NEW p \in running[w], PartDone(w, p), UNCHANGED mainVars
  PROVE  Inv'
<1> DEFINE msg == <<"part", p>>
<1>1. /\ Post(w, msg)
      /\ running' = [running EXCEPT ![w] = @ \ {p}]
      /\ heldChunks' = [heldChunks EXCEPT ![w] = Keeps(w, p)]
      /\ dispatchInFlight' = [dispatchInFlight EXCEPT ![w] = @ - 1]
      /\ UNCHANGED <<deliveryMode, inbox, up, broken, dispatchStopped, dead>>
  BY DEF PartDone, CountAnswered, Inv, TypesKept
<1>2. InPlaces
  BY DEF Inv
<1>3. /\ inbox \in [Workers -> Seq(InMessages)] /\ outbox \in [Workers -> Seq(OutMessages)]
      /\ running \in [Workers -> SUBSET AllParts] /\ broken \in [Workers -> SUBSET AllParts]
      /\ \A v \in Workers :
           /\ Once(inbox[v], "assign")
           /\ Once(outbox[v], "part")
           /\ Sent(inbox[v], "assign") \cap (running[v] \cup broken[v]) = {}
           /\ Sent(outbox[v], "part") \cap (running[v] \cup broken[v]) = {}
           /\ Sent(inbox[v], "assign") \cap Sent(outbox[v], "part") = {}
           /\ running[v] \cap broken[v] = {}
           /\ dispatchInFlight[v] = Cardinality(running[v] \cup broken[v])
  BY <1>2 DEF InPlaces
<1>4. p \in AllParts
  BY <1>3
<1>5. msg \in OutMessages
  BY <1>4 DEF OutMessages
<1>6. msg[1] = "part" /\ msg[2] = p
  OBVIOUS
<1> HIDE DEF msg
<1>7. /\ outbox' \in [Workers -> Seq(OutMessages)]
      /\ Unmoved(Workers, outbox, outbox', "ready")
      /\ Unmoved(Workers, outbox, outbox', "worker-done")
  BY <1>1, <1>2, <1>5, <1>6, PostFacts
<1>8. /\ Sent(outbox'[w], "part") = Sent(outbox[w], "part") \cup {p}
      /\ Once(outbox'[w], "part")
  <2> DEFINE q == outbox[w]
  <2>1. q \in Seq(OutMessages) /\ Once(q, "part") /\ p \notin Sent(q, "part")
    BY <1>3
  <2>2. outbox'[w] = Append(q, msg)
    BY <1>1, <1>3 DEF Post
  <2> HIDE DEF q
  <2>3. Sent(Append(q, msg), "part") = Sent(q, "part") \cup {p} /\ Once(Append(q, msg), "part")
    BY <1>5, <1>6, <2>1, AppendQueue
  <2> QED BY <2>2, <2>3 DEF q
<1>9. \A v \in Workers : v # w => /\ outbox'[v] = outbox[v] /\ running'[v] = running[v]
                                  /\ dispatchInFlight'[v] = dispatchInFlight[v]
                                  /\ heldChunks'[v] = heldChunks[v]
  BY <1>1, <1>3 DEF Post, Inv, TypesKept
<1>10. /\ running'[w] = running[w] \ {p} /\ dispatchInFlight'[w] = dispatchInFlight[w] - 1
       /\ heldChunks'[w] = Keeps(w, p)
  BY <1>1, <1>3 DEF Inv, TypesKept
<1>11. running' \in [Workers -> SUBSET AllParts]
  BY <1>1, <1>3
<1>12. dispatchInFlight'[w] = Cardinality(running'[w] \cup broken[w]) /\ dispatchInFlight'[w] \in Nat
  <2> DEFINE S == running[w] \cup broken[w]
  <2>1. IsFiniteSet(S) /\ p \in S /\ dispatchInFlight[w] = Cardinality(S)
    <3>1. S \in SUBSET AllParts
      BY <1>3
    <3>2. IsFiniteSet(S)
      BY <3>1, FiniteParts
    <3> QED BY <1>3, <3>2
  <2>2. running'[w] \cup broken[w] = S \ {p}
    BY <1>3, <1>10
  <2> HIDE DEF S
  <2>3. Cardinality(S \ {p}) \in Nat /\ Cardinality(S \ {p}) = Cardinality(S) - 1
    BY <2>1, RemovedSize
  <2> QED BY <1>10, <2>1, <2>2, <2>3
<1>13. ASSUME NEW v \in Workers
       PROVE  /\ Outstanding(v)' = Outstanding(v)
              /\ Once(inbox'[v], "assign")
              /\ Once(outbox'[v], "part")
              /\ Sent(inbox'[v], "assign") \cap (running'[v] \cup broken'[v]) = {}
              /\ Sent(outbox'[v], "part") \cap (running'[v] \cup broken'[v]) = {}
              /\ Sent(inbox'[v], "assign") \cap Sent(outbox'[v], "part") = {}
              /\ running'[v] \cap broken'[v] = {}
              /\ dispatchInFlight'[v] = Cardinality(running'[v] \cup broken'[v])
  <2>1. CASE v # w
    BY <1>1, <1>3, <1>9, <2>1 DEF Outstanding
  <2>2. CASE v = w
    <3>1. Outstanding(w)' = Outstanding(w)
      BY <1>1, <1>8, <1>10 DEF Outstanding
    <3>2. /\ Sent(inbox[w], "assign") \cap (running'[w] \cup broken[w]) = {}
          /\ Sent(outbox'[w], "part") \cap (running'[w] \cup broken[w]) = {}
          /\ Sent(inbox[w], "assign") \cap Sent(outbox'[w], "part") = {}
          /\ running'[w] \cap broken[w] = {}
      BY <1>3, <1>8, <1>10
    <3> QED BY <1>1, <1>3, <1>8, <1>12, <2>2, <3>1, <3>2
  <2> QED BY <2>1, <2>2
<1>14. InPlaces'
  BY <1>1, <1>3, <1>7, <1>11, <1>13 DEF InPlaces
<1>15. BooksBalance' /\ Drained' /\ DeliveryKnown'
  BY <1>1, <1>13, WorkerSame
<1>16. MemoryKept'
  <2> SUFFICES ASSUME NEW v \in Workers
               PROVE  Kept(v)'
    BY DEF MemoryKept
  <2>1. Kept(v)
    BY DEF Inv, MemoryKept
  <2>2. UNCHANGED <<deliveryMode, inbox, heldMeta, nextByKey>>
    BY <1>1 DEF mainVars
  <2>3. CASE v # w
    BY <1>9, <2>1, <2>2, <2>3 DEF Kept
  <2>4. CASE v = w
    <3>1. /\ deliveryMode = "ordered-drop" => heldChunks'[w] = heldChunks[w] \cup {p}
          /\ deliveryMode # "ordered-drop" => heldChunks'[w] = heldChunks[w]
      BY <1>10 DEF Keeps
    <3> QED BY <1>8, <2>1, <2>2, <2>4, <3>1 DEF Kept
  <2> QED BY <2>3, <2>4
<1>17. doneEmitted' = doneEmitted
  <2>1. ~deliveryDone
    <3>1. Outstanding(w) # {}
      BY DEF Outstanding
    <3> QED BY <3>1, DoneIsDelivered
  <2>2. ~dispatchStopped[w]
    BY <2>1, NoStopYet
  <2> QED BY <2>2 DEF PartDone, MaybeDone, IsDone, Inv, TypesKept
<1>18. StopIsLast'
  BY <1>1, <1>17, StopSame DEF mainVars
<1>19. ReportsCounted'
  <2>1. outcome = "resolved" => deliveryDone'
    BY DEF Inv, ReportsCounted, mainVars
  <2> QED BY <1>1, <1>7, <1>17, <2>1, ReportsSame DEF mainVars
<1>20. TypesKept'
  <2>1. dispatchInFlight' \in [Workers -> Nat]
    BY <1>1, <1>12 DEF Inv, TypesKept
  <2>2. heldChunks' \in [Workers -> SUBSET AllParts]
    <3>1. Keeps(w, p) \subseteq AllParts
      BY <1>4 DEF Keeps, Inv, TypesKept
    <3> QED BY <1>1, <3>1 DEF Inv, TypesKept
  <2> QED BY <1>1, <1>17, <2>1, <2>2 DEF Inv, TypesKept, mainVars
<1> QED
  BY <1>14, <1>15, <1>16, <1>18, <1>19, <1>20 DEF Inv

-----------------------------------------------------------------------------
(* Every step of main keeps the invariant.                                   *)

LEMMA WorkerReadyKeepsInv ==
  ASSUME Inv, NEW w \in Workers, WorkerReady(w)
  PROVE  Inv'
<1>1. /\ Receives(w, "ready") /\ Dequeue(w) /\ readyCount' = readyCount + 1
      /\ \/ DispatchMore(freeLanes, totalInFlight, bufferedBytes, NoPosts)
         \/ UNCHANGED <<inbox, freeLanes, totalInFlight, queueIndex>>
      /\ UNCHANGED <<workerStateVars, dead, bufferedBytes, heldMeta, nextByKey, deliveredCount,
                     deliveryDone, workerDone, paused, queued, finished, outcome>>
  BY DEF WorkerReady
<1>2. InPlaces
  BY DEF Inv
<1>3. /\ outbox' \in [Workers -> Seq(OutMessages)]
      /\ Unmoved(Workers, outbox, outbox', "part")
      /\ Unmoved(Workers, outbox, outbox', "worker-done")
  BY <1>1, <1>2, DequeueFacts
<1>4. UNCHANGED <<deliveryMode, up, running, broken, heldChunks, dispatchInFlight,
                  dispatchStopped, doneEmitted>>
  BY <1>1 DEF workerStateVars
<1>5. /\ InPlaces' /\ BooksBalance'
      /\ \A v \in Workers : /\ Sent(inbox'[v], "release") = Sent(inbox[v], "release")
                            /\ Once(inbox[v], "release") => Once(inbox'[v], "release")
                            /\ Holds(inbox'[v], "stop") <=> Holds(inbox[v], "stop")
      /\ deliveredCount = TotalParts => inbox' = inbox
  <2>1. CASE DispatchMore(freeLanes, totalInFlight, bufferedBytes, NoPosts)
    <3>1. Answered(Out)
      <4>1. \A v \in Workers :
              /\ Sent(outbox'[v], "part") = Sent(outbox[v], "part")
              /\ Once(outbox[v], "part") => Once(outbox'[v], "part")
        BY <1>3 DEF Unmoved
      <4>2. \A v \in Workers : Once(outbox[v], "part")
        BY <1>2 DEF InPlaces
      <4> QED BY <1>3, <4>1, <4>2 DEF Answered, Out, Outstanding
    <3>2. NoPosts \in [Workers -> Seq(Orders)]
      BY DEF NoPosts
    <3>3. /\ Placement(Out, queueIndex, heldMeta', nextByKey')
          /\ Counted(Out, heldMeta', nextByKey', freeLanes, totalInFlight, bufferedBytes,
                     deliveredCount')
          /\ LastInFlight(Out, queueIndex, totalInFlight, bufferedBytes)
      BY <1>1 DEF Inv, BooksBalance
    <3>4. bufferedBytes' = bufferedBytes /\ UNCHANGED <<running, broken, dispatchInFlight>>
      BY <1>1, <1>4
    <3>5. BooksBalance' /\ InPlaces' /\ Posted(NoPosts)
      BY <1>2, <2>1, <3>1, <3>2, <3>3, <3>4, HandOut
    <3>6. ASSUME NEW v \in Workers
          PROVE  /\ Sent(inbox'[v], "release") = Sent(inbox[v], "release")
                 /\ Once(inbox[v], "release") => Once(inbox'[v], "release")
                 /\ Holds(inbox'[v], "stop") <=> Holds(inbox[v], "stop")
      <4>1. NoPosts[v] = <<>>
        BY DEF NoPosts
      <4>2. /\ Sent(NoPosts[v], "release") = {} /\ Once(NoPosts[v], "release")
            /\ ~Holds(NoPosts[v], "stop")
        BY <4>1, EmptyQueue
      <4> QED BY <3>5, <4>2 DEF Posted
    <3>7. ASSUME deliveredCount = TotalParts
          PROVE  inbox' = inbox
      <4>1. inbox' = [v \in Workers |-> inbox[v] \o NoPosts[v]]
        BY <1>1, <3>5, <3>7 DEF Posted
      <4>2. inbox \in [Workers -> Seq(InMessages)]
        BY <1>2, QueueTypes
      <4>3. \A v \in Workers : inbox[v] \o NoPosts[v] = inbox[v]
        <5> SUFFICES ASSUME NEW v \in Workers
                     PROVE  inbox[v] \o NoPosts[v] = inbox[v]
          OBVIOUS
        <5>1. NoPosts[v] = <<>> /\ inbox[v] \in Seq(InMessages)
          BY <4>2 DEF NoPosts
        <5> QED BY <5>1
      <4> QED BY <4>1, <4>2, <4>3
    <3> QED BY <3>5, <3>6, <3>7
  <2>2. CASE UNCHANGED <<inbox, freeLanes, totalInFlight, queueIndex>>
    <3>1. inbox' \in [Workers -> Seq(InMessages)] /\ Unmoved(Workers, inbox, inbox', "assign")
      BY <1>2, <2>2, QueueTypes, StillUnmoved
    <3>2. InPlaces' /\ \A v \in Workers : Outstanding(v)' = Outstanding(v)
      BY <1>2, <1>3, <1>4, <3>1, PlacesSame
    <3>3. Out' = Out
      BY <3>2 DEF Out
    <3>4. BooksBalance'
      BY <1>1, <2>2, <3>3 DEF Inv, BooksBalance
    <3> QED BY <2>2, <3>2, <3>4
  <2> QED BY <1>1, <2>1, <2>2
<1>6. Drained'
  BY <1>1 DEF Inv, Drained
<1>7. DeliveryKnown'
  BY <1>1, <1>4 DEF Inv, DeliveryKnown, Ended
<1>8. MemoryKept'
  <2> SUFFICES ASSUME NEW v \in Workers
               PROVE  Kept(v)'
    BY DEF MemoryKept
  <2>1. Kept(v)
    BY DEF Inv, MemoryKept
  <2>2. Sent(outbox'[v], "part") = Sent(outbox[v], "part")
    BY <1>3 DEF Unmoved
  <2> QED BY <1>1, <1>4, <1>5, <2>1, <2>2 DEF Kept
<1>9. StopIsLast'
  <2>1. CASE deliveryDone
    <3>1. inbox' = inbox
      BY <1>5, <2>1, DoneIsDelivered
    <3> QED BY <1>1, <1>4, <3>1, StopSame
  <2>2. CASE ~deliveryDone
    <3>1. \A v \in Workers : /\ ~dispatchStopped[v] /\ ~Holds(inbox[v], "stop")
                             /\ doneEmitted[v] = "no"
      BY <2>2, NoStopYet
    <3>2. \A v \in Workers : ~Holds(inbox'[v], "stop")
      BY <1>5, <3>1
    <3>3. \A v \in Workers : StopEnds(inbox'[v])
      BY <3>2, NoStopEnds
    <3> QED BY <1>4, <3>1, <3>2, <3>3 DEF StopIsLast
  <2> QED BY <2>1, <2>2
<1>10. ReportsCounted'
  <2>1. /\ \A v \in Workers :
             /\ Single(outbox[v], "ready") /\ Single(outbox[v], "worker-done")
             /\ Holds(outbox[v], "ready") => v \in up
             /\ Holds(outbox[v], "worker-done") => doneEmitted[v] = "posted"
        /\ readyCount = Cardinality(Readied)
    BY DEF Inv, ReportsCounted
  <2>2. \A v \in Workers :
          /\ Holds(outbox'[v], "worker-done") <=> Holds(outbox[v], "worker-done")
          /\ Single(outbox[v], "worker-done") => Single(outbox'[v], "worker-done")
    BY <1>3 DEF Unmoved
  <2>3. outbox \in [Workers -> Seq(OutMessages)]
    BY <1>2, QueueTypes
  <2>4. \A v \in Workers : v # w => outbox'[v] = outbox[v]
    BY <1>1, <2>3 DEF Dequeue
  <2>5. /\ Holds(outbox[w], "ready") /\ ~Holds(outbox'[w], "ready")
        /\ Single(outbox'[w], "ready")
    <3> DEFINE q == outbox[w]
    <3>1. q \in Seq(OutMessages) /\ q # <<>> /\ Head(q)[1] = "ready" /\ Single(q, "ready")
      BY <1>1, <2>1, <2>3 DEF Receives
    <3>2. outbox'[w] = Tail(q)
      BY <1>1, <2>3 DEF Dequeue
    <3> HIDE DEF q
    <3>3. Holds(q, "ready") /\ ~Holds(Tail(q), "ready") /\ Single(Tail(q), "ready")
      BY <3>1, TailQueue
    <3> QED BY <3>2, <3>3 DEF q
  <2>6. Readied' = Readied \cup {w} /\ w \notin Readied
    <3>1. w \in up /\ up \subseteq Workers /\ up' = up
      BY <1>4, <2>1, <2>5 DEF Inv, TypesKept
    <3>2. \A v \in up : v # w => (Holds(outbox'[v], "ready") <=> Holds(outbox[v], "ready"))
      BY <2>4, <3>1
    <3> QED BY <2>5, <3>1, <3>2 DEF Readied
  <2>7. readyCount' = Cardinality(Readied')
    <3>1. IsFiniteSet(Readied)
      <4>1. Readied \subseteq Workers
        BY DEF Readied, Inv, TypesKept
      <4> QED BY <4>1, FiniteWorkers, FS_Subset
    <3> QED BY <1>1, <2>1, <2>6, <3>1, FS_AddElement
  <2>8. Reported' = Reported
    BY <1>4, <2>2 DEF Reported
  <2> QED BY <1>1, <1>4, <2>1, <2>2, <2>4, <2>5, <2>7, <2>8 DEF Inv, ReportsCounted
<1>11. TypesKept'
  BY <1>1, <1>4 DEF Inv, TypesKept
<1> QED
  BY <1>5, <1>6, <1>7, <1>8, <1>9, <1>10, <1>11 DEF Inv

LEMMA PartReadyKeepsInv ==
  ASSUME Inv, NEW w \in Workers, PartReady(w)
  PROVE  Inv'
<1>1. PICK p : p = Head(outbox[w])[2]
  OBVIOUS
<1> DEFINE k == p[1]
           t == <<p[1], p[2], w>>
           h == heldMeta \cup {t}
           free == [freeLanes EXCEPT ![w] = @ + 1]
           out == [Out EXCEPT ![w] = @ \ {p}]
           backlog == bufferedBytes + 1
           flying == totalInFlight - 1
           stopped == paused[k]
<1>2. /\ Receives(w, "part") /\ Dequeue(w)
      /\ DrainAndDispatch(k, h, backlog, stopped, free, flying, 0)
      /\ UNCHANGED <<workerStateVars, dead, readyCount, workerDone, finished, outcome>>
  BY <1>1 DEF PartReady
<1>3. InPlaces
  BY DEF Inv
<1>4. /\ outbox \in [Workers -> Seq(OutMessages)]
      /\ \A v \in Workers :
           /\ Once(outbox[v], "part")
           /\ Sent(outbox[v], "part") \cap (running[v] \cup broken[v]) = {}
           /\ Sent(inbox[v], "assign") \cap Sent(outbox[v], "part") = {}
  BY <1>3 DEF InPlaces
<1>5. /\ outbox' \in [Workers -> Seq(OutMessages)] /\ Head(outbox[w]) \in OutMessages
      /\ Unmoved(Workers, outbox, outbox', "ready")
      /\ Unmoved(Workers, outbox, outbox', "worker-done")
  BY <1>2, <1>3, DequeueFacts
<1>6. /\ p \in Sent(outbox[w], "part") /\ p \in AllParts
      /\ Sent(outbox'[w], "part") = Sent(outbox[w], "part") \ {p}
      /\ Once(outbox'[w], "part")
  <2> DEFINE q == outbox[w]
  <2>1. q \in Seq(OutMessages) /\ q # <<>> /\ Head(q)[1] = "part" /\ Head(q)[2] = p
        /\ Once(q, "part")
    BY <1>1, <1>2, <1>4 DEF Receives
  <2>2. outbox'[w] = Tail(q)
    BY <1>2, <1>4 DEF Dequeue
  <2>3. p \in AllParts
    BY <1>5, <2>1 DEF OutMessages
  <2> HIDE DEF q
  <2>4. p \in Sent(q, "part") /\ Sent(Tail(q), "part") = Sent(q, "part") \ {p}
        /\ Once(Tail(q), "part")
    BY <2>1, TailQueue
  <2> QED BY <2>2, <2>3, <2>4 DEF q
<1>7. \A v \in Workers : v # w => outbox'[v] = outbox[v]
  BY <1>2, <1>4 DEF Dequeue
<1>8. p \in Out[w]
  BY <1>6 DEF Out, Outstanding
<1>9. Answered(out)
  <2> SUFFICES ASSUME NEW v \in Workers
               PROVE  /\ Once(outbox'[v], "part")
                      /\ Sent(outbox'[v], "part") \subseteq Sent(outbox[v], "part")
                      /\ out[v] = Sent(inbox[v], "assign") \cup running[v] \cup broken[v]
                                    \cup Sent(outbox'[v], "part")
    BY <1>5 DEF Answered
  <2>1. CASE v # w
    <3>1. out[v] = Outstanding(v)
      BY <2>1 DEF Out
    <3> QED BY <1>4, <1>7, <2>1, <3>1 DEF Outstanding
  <2>2. CASE v = w
    <3>1. out[w] = Outstanding(w) \ {p}
      BY DEF Out
    <3> HIDE DEF out
    <3> QED BY <1>4, <1>6, <2>2, <3>1 DEF Outstanding
  <2> QED BY <2>1, <2>2
<1>10. /\ Placement(Out, queueIndex, heldMeta, nextByKey)
       /\ Counted(Out, heldMeta, nextByKey, freeLanes, totalInFlight, bufferedBytes, deliveredCount)
  BY DEF Inv, BooksBalance
<1>11. Arrived(w, p, Out, heldMeta, freeLanes, out, h, free)
  BY DEF Arrived
<1>12. /\ k \in Keys /\ p = <<p[1], p[2]>> /\ p[2] \in 1 .. Parts[k] /\ Parts[k] \in Nat
       /\ nextByKey \in [Keys -> Nat]
  BY <1>6, <1>10, PartShape DEF Placement
<1>13. backlog + flying <= bufferedBytes + totalInFlight
  <2>1. bufferedBytes \in 0 .. TotalParts /\ totalInFlight \in 0 .. NWorkers * Concurrency
    BY <1>10, BooksFacts
  <2>2. NWorkers * Concurrency \in Nat
    BY FiniteWorkers, LanesAssumption
  <2>3. bufferedBytes \in Int /\ totalInFlight \in Int
    BY <2>1, <2>2, TotalFacts
  <2> QED BY <2>3
<1>14. ~deliveryDone
  <2>1. Outstanding(w) # {}
    BY <1>6 DEF Outstanding
  <2> QED BY <2>1, DoneIsDelivered
<1>15. k \notin finished
  <2>1. p \in Flying(Out)
    BY <1>6, <1>8 DEF Flying
  <2>2. ~(p[2] < nextByKey[k])
    BY <1>6, <1>10, <2>1 DEF Placement, Passed
  <2>3. ~Ended(k)
    BY <1>12, <2>2 DEF Ended
  <2> QED BY <2>3 DEF Inv, DeliveryKnown
<1>16. stopped \in BOOLEAN /\ 0 <= queued[k]
  BY <1>12 DEF Inv, TypesKept
<1>17. \A j \in Keys \ {k} : \A n : Has(h, j, n) => Has(heldMeta, j, n)
  BY DEF Has
<1>18. deliveryMode = "ordered-drop" => Memory(h)
  <2> SUFFICES ASSUME deliveryMode = "ordered-drop", NEW v \in Workers
               PROVE  heldChunks[v] = Sent(outbox'[v], "part") \cup Bytes(h, v)
                                        \cup Sent(inbox[v], "release")
    BY DEF Memory
  <2>1. heldChunks[v] = Sent(outbox[v], "part") \cup Bytes(heldMeta, v) \cup Sent(inbox[v], "release")
    BY DEF Inv, MemoryKept, Kept, Bytes
  <2>2. CASE v # w
    <3>1. Bytes(h, v) = Bytes(heldMeta, v)
      BY <2>2 DEF Bytes
    <3> QED BY <1>7, <2>1, <2>2, <3>1
  <2>3. CASE v = w
    <3>1. t[1] = p[1] /\ t[2] = p[2] /\ t[3] = w
      OBVIOUS
    <3> HIDE DEF t
    <3>2. Bytes(h, w) = Bytes(heldMeta, w) \cup {<<p[1], p[2]>>}
      BY <3>1 DEF Bytes
    <3>3. Bytes(h, w) = Bytes(heldMeta, w) \cup {p}
      BY <1>12, <3>2
    <3> QED BY <1>6, <2>1, <2>3, <3>3
  <2> QED BY <2>2, <2>3
<1> HIDE DEF k, t, h, free, out, backlog, flying, stopped
<1>19. /\ Placement(out, queueIndex, h, nextByKey)
       /\ Counted(out, h, nextByKey, free, flying, backlog, deliveredCount)
       /\ Flying(out) \subseteq Flying(Out)
  BY <1>8, <1>10, <1>11, BooksArrive DEF flying, backlog
<1>20. /\ TypesKept' /\ InPlaces' /\ BooksBalance' /\ Drained' /\ MemoryKept'
       /\ StopIsLast' /\ DeliveryKnown'
  BY <1>2, <1>9, <1>12, <1>13, <1>14, <1>15, <1>16, <1>17, <1>18, <1>19, DrainKeeps
<1>21. ReportsCounted'
  <2>1. outcome # "resolved"
    BY <1>2 DEF Receives
  <2>2. UNCHANGED <<up, doneEmitted, readyCount, workerDone, outcome>>
    BY <1>2 DEF workerStateVars
  <2> QED BY <1>5, <2>1, <2>2, ReportsSame
<1> QED
  BY <1>20, <1>21 DEF Inv

(* A report, or a failure, that main takes changes nothing in the books.     *)
LEMMA SettlingSame ==
  ASSUME Inv, outbox' \in [Workers -> Seq(OutMessages)], Unmoved(Workers, outbox, outbox', "part"),
         dead' \subseteq Workers, outcome' \in {"running", "resolved", "failed"},
         UNCHANGED <<inbox, workerStateVars, readyCount, queueIndex, freeLanes,
                     totalInFlight, bufferedBytes, heldMeta, nextByKey, deliveredCount,
                     deliveryDone, paused, queued, finished>>
  PROVE  /\ TypesKept' /\ InPlaces' /\ BooksBalance' /\ Drained' /\ MemoryKept'
         /\ StopIsLast' /\ DeliveryKnown'
<1>1. UNCHANGED <<deliveryMode, up, running, broken, heldChunks, dispatchInFlight,
                  dispatchStopped, doneEmitted>>
  BY DEF workerStateVars
<1>2. Unmoved(Workers, inbox, inbox', "assign") /\ Unmoved(Workers, inbox, inbox', "release")
  BY StillUnmoved
<1>3. InPlaces
  BY DEF Inv
<1>4. inbox' \in [Workers -> Seq(InMessages)]
  BY <1>3, QueueTypes
<1>5. InPlaces' /\ \A v \in Workers : Outstanding(v)' = Outstanding(v)
  BY <1>1, <1>2, <1>3, <1>4, PlacesSame
<1>6. Out' = Out
  BY <1>5 DEF Out
<1>7. BooksBalance'
  BY <1>6 DEF Inv, BooksBalance
<1>8. Drained'
  BY DEF Inv, Drained
<1>9. DeliveryKnown'
  BY <1>1 DEF Inv, DeliveryKnown, Ended
<1>10. MemoryKept'
  BY <1>1, <1>2, MemorySame
<1>11. StopIsLast'
  BY <1>1, StopSame
<1>12. TypesKept'
  BY <1>1 DEF Inv, TypesKept
<1> QED
  BY <1>5, <1>7, <1>8, <1>9, <1>10, <1>11, <1>12

LEMMA WorkerDoneKeepsInv ==
  ASSUME Inv, NEW w \in Workers, WorkerDone(w)
  PROVE  Inv'
<1>1. /\ Receives(w, "worker-done") /\ Dequeue(w) /\ workerDone' = workerDone + 1
      /\ outcome' = (IF Resolves(deliveryDone, workerDone') THEN "resolved" ELSE outcome)
      /\ dead' = IF outcome' = "running" THEN dead ELSE Workers
      /\ UNCHANGED <<inbox, workerStateVars, readyCount, queueIndex, freeLanes,
                     totalInFlight, bufferedBytes, heldMeta, nextByKey, deliveredCount,
                     deliveryDone, paused, queued, finished>>
  BY DEF WorkerDone, MaybeResolve, Settle
<1>2. InPlaces
  BY DEF Inv
<1>3. /\ outbox' \in [Workers -> Seq(OutMessages)]
      /\ Unmoved(Workers, outbox, outbox', "part")
      /\ Unmoved(Workers, outbox, outbox', "ready")
  BY <1>1, <1>2, DequeueFacts
<1>4. dead' \subseteq Workers /\ outcome' \in {"running", "resolved", "failed"}
  BY <1>1 DEF Inv, TypesKept
<1>5. /\ TypesKept' /\ InPlaces' /\ BooksBalance' /\ Drained' /\ MemoryKept'
      /\ StopIsLast' /\ DeliveryKnown'
  BY <1>1, <1>3, <1>4, SettlingSame
<1>6. UNCHANGED <<up, doneEmitted>>
  BY <1>1 DEF workerStateVars
<1>7. ReportsCounted'
  <2>1. /\ \A v \in Workers :
             /\ Single(outbox[v], "ready") /\ Single(outbox[v], "worker-done")
             /\ Holds(outbox[v], "ready") => v \in up
             /\ Holds(outbox[v], "worker-done") => doneEmitted[v] = "posted"
        /\ workerDone = Cardinality(Reported)
    BY DEF Inv, ReportsCounted
  <2>2. \A v \in Workers :
          /\ Holds(outbox'[v], "ready") <=> Holds(outbox[v], "ready")
          /\ Single(outbox[v], "ready") => Single(outbox'[v], "ready")
    BY <1>3 DEF Unmoved
  <2>3. outbox \in [Workers -> Seq(OutMessages)]
    BY <1>2, QueueTypes
  <2>4. \A v \in Workers : v # w => outbox'[v] = outbox[v]
    BY <1>1, <2>3 DEF Dequeue
  <2>5. /\ Holds(outbox[w], "worker-done") /\ ~Holds(outbox'[w], "worker-done")
        /\ Single(outbox'[w], "worker-done")
    <3> DEFINE q == outbox[w]
    <3>1. /\ q \in Seq(OutMessages) /\ q # <<>> /\ Head(q)[1] = "worker-done"
          /\ Single(q, "worker-done")
      BY <1>1, <2>1, <2>3 DEF Receives
    <3>2. outbox'[w] = Tail(q)
      BY <1>1, <2>3 DEF Dequeue
    <3> HIDE DEF q
    <3>3. /\ Holds(q, "worker-done") /\ ~Holds(Tail(q), "worker-done")
          /\ Single(Tail(q), "worker-done")
      BY <3>1, TailQueue
    <3> QED BY <3>2, <3>3 DEF q
  <2>6. Reported' = Reported \cup {w} /\ w \notin Reported
    <3>1. doneEmitted[w] = "posted"
      BY <2>1, <2>5
    <3>2. \A v \in Workers : v # w => (v \in Reported' <=> v \in Reported)
      BY <1>6, <2>4 DEF Reported
    <3>3. w \in Reported' /\ w \notin Reported
      BY <1>6, <2>5, <3>1 DEF Reported
    <3> QED BY <3>2, <3>3 DEF Reported
  <2>7. workerDone' = Cardinality(Reported')
    <3>1. IsFiniteSet(Reported)
      <4>1. Reported \subseteq Workers
        BY DEF Reported
      <4> QED BY <4>1, FiniteWorkers, FS_Subset
    <3> QED BY <1>1, <2>1, <2>6, <3>1, FS_AddElement
  <2>8. Readied' = Readied
    <3>1. \A v \in up : v \in Workers
      BY DEF Inv, TypesKept
    <3> QED BY <1>6, <2>2, <3>1 DEF Readied
  <2>9. outcome' = "resolved" => deliveryDone' /\ workerDone' = NWorkers
    <3>1. outcome = "running"
      BY <1>1 DEF Receives
    <3> QED BY <1>1, <3>1 DEF Resolves
  <2> QED BY <1>1, <1>6, <2>1, <2>2, <2>4, <2>5, <2>7, <2>8, <2>9 DEF Inv, ReportsCounted
<1> QED
  BY <1>5, <1>7 DEF Inv

LEMMA WorkerFailedKeepsInv ==
  ASSUME Inv, NEW w \in Workers, WorkerFailed(w)
  PROVE  Inv'
<1>1. /\ Dequeue(w) /\ outcome' = "failed" /\ dead' = Workers
      /\ UNCHANGED <<inbox, workerStateVars, readyCount, queueIndex, freeLanes,
                     totalInFlight, bufferedBytes, heldMeta, nextByKey, deliveredCount,
                     deliveryDone, workerDone, paused, queued, finished>>
  BY DEF WorkerFailed, Settle
<1>2. PICK type \in {"error", "exit"} : Receives(w, type)
  BY DEF WorkerFailed
<1>3. InPlaces
  BY DEF Inv
<1>4. /\ outbox' \in [Workers -> Seq(OutMessages)]
      /\ \A other : other # type => Unmoved(Workers, outbox, outbox', other)
  BY <1>1, <1>2, <1>3, DequeueFacts
<1>5. /\ Unmoved(Workers, outbox, outbox', "part")
      /\ Unmoved(Workers, outbox, outbox', "ready")
      /\ Unmoved(Workers, outbox, outbox', "worker-done")
  BY <1>4
<1>6. /\ TypesKept' /\ InPlaces' /\ BooksBalance' /\ Drained' /\ MemoryKept'
      /\ StopIsLast' /\ DeliveryKnown'
  <2>1. dead' \subseteq Workers /\ outcome' \in {"running", "resolved", "failed"}
    BY <1>1
  <2> QED BY <1>1, <1>4, <1>5, <2>1, SettlingSame
<1>7. ReportsCounted'
  <2>1. \A v \in Workers :
          /\ Holds(outbox'[v], "ready") <=> Holds(outbox[v], "ready")
          /\ Holds(outbox'[v], "worker-done") <=> Holds(outbox[v], "worker-done")
          /\ Single(outbox[v], "ready") => Single(outbox'[v], "ready")
          /\ Single(outbox[v], "worker-done") => Single(outbox'[v], "worker-done")
    BY <1>5 DEF Unmoved
  <2>2. UNCHANGED <<up, doneEmitted>> /\ up \subseteq Workers
    BY <1>1 DEF workerStateVars, Inv, TypesKept
  <2>3. Readied' = Readied /\ Reported' = Reported
    BY <2>1, <2>2 DEF Readied, Reported
  <2> QED BY <1>1, <2>1, <2>2, <2>3 DEF Inv, ReportsCounted
<1> QED
  BY <1>6, <1>7 DEF Inv

LEMMA SinkTakesKeepsInv ==
  ASSUME Inv, NEW k \in Keys, SinkTakes(k)
  PROVE  Inv'
<1>1. /\ outcome = "running" /\ queued[k] > 0
      /\ \/ DrainAndDispatch(k, heldMeta, bufferedBytes, FALSE, freeLanes, totalInFlight, 1)
         \/ /\ queued' = [queued EXCEPT ![k] = @ - 1]
            /\ UNCHANGED <<inbox, queueIndex, freeLanes, totalInFlight, bufferedBytes,
                           heldMeta, nextByKey, deliveredCount, deliveryDone, paused>>
      /\ UNCHANGED <<outbox, workerStateVars, dead, readyCount, workerDone, finished, outcome>>
  BY DEF SinkTakes
<1>2. UNCHANGED <<deliveryMode, up, running, broken, heldChunks, dispatchInFlight,
                  dispatchStopped, doneEmitted>>
  BY <1>1 DEF workerStateVars
<1>3. InPlaces
  BY DEF Inv
<1>4. queued \in [Keys -> Nat]
  BY DEF Inv, TypesKept
<1>5. deliveryMode # "ordered-drop" /\ k \notin finished
  <2>1. queued[k] # 0
    BY <1>1, <1>4
  <2> QED BY <2>1 DEF Inv, DeliveryKnown
<1>6. ~deliveryDone
  BY <1>5 DEF Inv, DeliveryKnown
<1>7. /\ Unmoved(Workers, outbox, outbox', "part") /\ Unmoved(Workers, outbox, outbox', "ready")
      /\ Unmoved(Workers, outbox, outbox', "worker-done")
  BY <1>1, StillUnmoved
<1>8. outbox' \in [Workers -> Seq(OutMessages)]
  BY <1>1, <1>3, QueueTypes
<1>9. /\ TypesKept' /\ InPlaces' /\ BooksBalance' /\ Drained' /\ MemoryKept'
      /\ StopIsLast' /\ DeliveryKnown'
  <2>1. CASE DrainAndDispatch(k, heldMeta, bufferedBytes, FALSE, freeLanes, totalInFlight, 1)
    <3>1. Answered(Out)
      <4>1. \A v \in Workers : Once(outbox[v], "part")
        BY <1>3 DEF InPlaces
      <4> QED BY <1>1, <1>8, <4>1 DEF Answered, Out, Outstanding
    <3>2. /\ Placement(Out, queueIndex, heldMeta, nextByKey)
          /\ Counted(Out, heldMeta, nextByKey, freeLanes, totalInFlight, bufferedBytes,
                     deliveredCount)
      BY DEF Inv, BooksBalance
    <3>3. bufferedBytes + totalInFlight <= bufferedBytes + totalInFlight
      <4>1. bufferedBytes \in 0 .. TotalParts /\ totalInFlight \in 0 .. NWorkers * Concurrency
        BY <3>2, BooksFacts
      <4>2. NWorkers * Concurrency \in Nat
        BY FiniteWorkers, LanesAssumption
      <4>3. bufferedBytes \in Int /\ totalInFlight \in Int
        BY <4>1, <4>2, TotalFacts
      <4> QED BY <4>3
    <3>4. 1 <= queued[k] /\ 1 \in {0, 1} /\ FALSE \in BOOLEAN
      BY <1>1, <1>4
    <3>5. deliveryMode = "ordered-drop" => Memory(heldMeta)
      BY <1>5
    <3>6. \A j \in Keys \ {k} : \A n : Has(heldMeta, j, n) => Has(heldMeta, j, n)
      OBVIOUS
    <3>7. Flying(Out) \subseteq Flying(Out) /\ UNCHANGED <<workerStateVars, dead, finished, outcome>>
      BY <1>1
    <3> QED BY <1>5, <1>6, <2>1, <3>1, <3>2, <3>3, <3>4, <3>5, <3>6, <3>7, DrainKeeps
  <2>2. CASE /\ queued' = [queued EXCEPT ![k] = @ - 1]
             /\ UNCHANGED <<inbox, queueIndex, freeLanes, totalInFlight, bufferedBytes,
                            heldMeta, nextByKey, deliveredCount, deliveryDone, paused>>
    <3>1. /\ inbox' \in [Workers -> Seq(InMessages)]
          /\ Unmoved(Workers, inbox, inbox', "assign") /\ Unmoved(Workers, inbox, inbox', "release")
      BY <1>3, <2>2, QueueTypes, StillUnmoved
    <3>2. InPlaces' /\ \A v \in Workers : Outstanding(v)' = Outstanding(v)
      BY <1>2, <1>3, <1>7, <1>8, <3>1, PlacesSame
    <3>3. Out' = Out
      BY <3>2 DEF Out
    <3>4. BooksBalance'
      BY <2>2, <3>3 DEF Inv, BooksBalance
    <3>5. Drained'
      BY <2>2 DEF Inv, Drained
    <3>6. MemoryKept'
      BY <1>2, <1>7, <2>2, <3>1, MemorySame
    <3>7. StopIsLast'
      BY <1>2, <2>2, StopSame
    <3>8. queued' \in [Keys -> Nat] /\ \A j \in Keys : j # k => queued'[j] = queued[j]
      BY <1>1, <1>4, <2>2
    <3>9. TypesKept'
      BY <1>1, <1>2, <2>2, <3>8 DEF Inv, TypesKept
    <3>10. DeliveryKnown'
      <4>1. ASSUME NEW j \in finished
            PROVE  Ended(j)' /\ queued'[j] = 0
        <5>1. j \in Keys /\ j # k /\ Ended(j) /\ queued[j] = 0
          BY <1>5 DEF Inv, TypesKept, DeliveryKnown
        <5> QED BY <2>2, <3>8, <5>1 DEF Ended
      <4> QED BY <1>1, <1>2, <1>5, <2>2, <4>1 DEF Inv, DeliveryKnown
    <3> QED BY <3>2, <3>4, <3>5, <3>6, <3>7, <3>9, <3>10
  <2> QED BY <1>1, <2>1, <2>2
<1>10. ReportsCounted'
  BY <1>1, <1>2, <1>7, ReportsSame
<1> QED
  BY <1>9, <1>10 DEF Inv

LEMMA SinkFinishesKeepsInv ==
  ASSUME Inv, NEW k \in Keys, SinkFinishes(k)
  PROVE  Inv'
<1>1. /\ outcome = "running" /\ deliveryMode = "ordered-stream"
      /\ Ended(k) /\ queued[k] = 0 /\ k \notin finished
      /\ finished' = finished \cup {k}
      /\ deliveryDone' = (finished' = Keys)
      /\ inbox' = [w \in Workers |-> IF deliveryDone' THEN Append(inbox[w], <<"stop">>) ELSE inbox[w]]
      /\ outcome' = (IF Resolves(deliveryDone', workerDone) THEN "resolved" ELSE outcome)
      /\ dead' = IF outcome' = "running" THEN dead ELSE Workers
      /\ UNCHANGED <<outbox, workerStateVars, readyCount, queueIndex, freeLanes,
                     totalInFlight, bufferedBytes, heldMeta, nextByKey, deliveredCount,
                     workerDone, paused, queued>>
  BY DEF SinkFinishes, MaybeResolve, Settle
<1>2. UNCHANGED <<deliveryMode, up, running, broken, heldChunks, dispatchInFlight,
                  dispatchStopped, doneEmitted>>
  BY <1>1 DEF workerStateVars
<1>3. InPlaces
  BY DEF Inv
<1>4. inbox \in [Workers -> Seq(InMessages)]
  BY <1>3, QueueTypes
<1>5. ~deliveryDone
  BY <1>1 DEF Inv, DeliveryKnown
<1>6. \A w \in Workers : /\ ~dispatchStopped[w] /\ ~Holds(inbox[w], "stop")
                         /\ doneEmitted[w] = "no"
  BY <1>5, NoStopYet
<1>7. ASSUME NEW w \in Workers
      PROVE  /\ inbox'[w] \in Seq(InMessages)
             /\ \A type : type # "stop" =>
                  /\ Sent(inbox'[w], type) = Sent(inbox[w], type)
                  /\ Holds(inbox'[w], type) <=> Holds(inbox[w], type)
                  /\ Once(inbox[w], type) => Once(inbox'[w], type)
                  /\ Single(inbox[w], type) => Single(inbox'[w], type)
             /\ StopEnds(inbox'[w])
             /\ Holds(inbox'[w], "stop") => deliveryDone'
  <2>1. CASE ~deliveryDone'
    <3>1. inbox'[w] = inbox[w]
      BY <1>1, <2>1
    <3> QED BY <1>4, <1>6, <3>1, NoStopEnds
  <2>2. CASE deliveryDone'
    <3> DEFINE q == inbox[w]
               s == <<"stop">>
               then == inbox'[w]
    <3>1. q \in Seq(InMessages) /\ ~Holds(q, "stop") /\ then = Append(q, s)
      BY <1>1, <1>4, <1>6, <2>2
    <3>2. s \in InMessages /\ s[1] = "stop"
      BY DEF InMessages
    <3> HIDE DEF q, s, then
    <3>3. then \in Seq(InMessages)
      BY <3>1, <3>2
    <3>4. \A type : type # "stop" =>
                  /\ Sent(then, type) = Sent(q, type)
                  /\ Holds(then, type) <=> Holds(q, type)
                  /\ Once(q, type) => Once(then, type)
                  /\ Single(q, type) => Single(then, type)
      BY <3>1, <3>2, AppendQueue
    <3>5. StopEnds(then)
      <4> SUFFICES ASSUME NEW i \in 1 .. Len(then), then[i][1] = "stop", i # Len(then)
                   PROVE  FALSE
        BY DEF StopEnds
      <4>1. Len(then) = Len(q) + 1 /\ Len(q) \in Nat
        BY <3>1, <3>2
      <4>2. i \in 1 .. Len(q)
        BY <4>1
      <4>3. then[i] = q[i]
        BY <3>1, <3>2, <4>2
      <4> QED BY <3>1, <4>2, <4>3 DEF Holds
    <3> QED BY <2>2, <3>3, <3>4, <3>5 DEF q, then
  <2> QED BY <2>1, <2>2
<1>8. inbox' \in [Workers -> Seq(InMessages)]
  <2>1. inbox' = [w \in Workers |-> inbox'[w]]
    BY <1>1
  <2> QED BY <1>7, <2>1
<1>9. Unmoved(Workers, inbox, inbox', "assign") /\ Unmoved(Workers, inbox, inbox', "release")
  BY <1>7 DEF Unmoved
<1>10. /\ Unmoved(Workers, outbox, outbox', "part") /\ Unmoved(Workers, outbox, outbox', "ready")
       /\ Unmoved(Workers, outbox, outbox', "worker-done")
  BY <1>1, StillUnmoved
<1>11. outbox' \in [Workers -> Seq(OutMessages)]
  BY <1>1, <1>3, QueueTypes
<1>12. InPlaces' /\ \A v \in Workers : Outstanding(v)' = Outstanding(v)
  BY <1>2, <1>3, <1>8, <1>9, <1>10, <1>11, PlacesSame
<1>13. BooksBalance'
  <2>1. Out' = Out
    BY <1>12 DEF Out
  <2> QED BY <1>1, <2>1 DEF Inv, BooksBalance
<1>14. Drained'
  BY <1>1 DEF Inv, Drained
<1>15. MemoryKept'
  BY <1>1, <1>2, <1>9, <1>10, MemorySame
<1>16. StopIsLast'
  BY <1>2, <1>6, <1>7 DEF StopIsLast
<1>17. DeliveryKnown'
  <2>1. ASSUME NEW j \in finished'
        PROVE  Ended(j)' /\ queued'[j] = 0
    <3>1. Ended(j) /\ queued[j] = 0
      BY <1>1 DEF Inv, DeliveryKnown
    <3> QED BY <1>1, <3>1 DEF Ended
  <2> QED BY <1>1, <1>2, <2>1 DEF DeliveryKnown
<1>18. ReportsCounted'
  <2>1. Readied' = Readied /\ Reported' = Reported
    BY <1>1, <1>2 DEF Readied, Reported
  <2>2. outcome' = "resolved" => deliveryDone' /\ workerDone' = NWorkers
    BY <1>1 DEF Resolves
  <2> QED BY <1>1, <1>2, <2>1, <2>2 DEF Inv, ReportsCounted
<1>19. TypesKept'
  <2>1. outcome' \in {"running", "resolved", "failed"} /\ dead' \subseteq Workers
    BY <1>1 DEF Inv, TypesKept
  <2>2. deliveryDone' \in BOOLEAN /\ finished' \subseteq Keys
    BY <1>1 DEF Inv, TypesKept
  <2> QED BY <1>1, <1>2, <2>1, <2>2 DEF Inv, TypesKept
<1> QED
  BY <1>12, <1>13, <1>14, <1>15, <1>16, <1>17, <1>18, <1>19 DEF Inv

-----------------------------------------------------------------------------
(* The invariant holds.                                                      *)

LEMMA InitEstablishesInv ==
  Init => Inv
<1> SUFFICES ASSUME Init
             PROVE  Inv
  OBVIOUS
<1>1. /\ inbox = [w \in Workers |-> <<>>] /\ outbox = [w \in Workers |-> <<>>]
      /\ up = {} /\ dead = {}
      /\ running = [w \in Workers |-> {}] /\ broken = [w \in Workers |-> {}]
      /\ heldChunks = [w \in Workers |-> {}] /\ dispatchInFlight = [w \in Workers |-> 0]
      /\ dispatchStopped = [w \in Workers |-> FALSE]
      /\ doneEmitted = [w \in Workers |-> "no"]
      /\ deliveryMode \in Sinks
  BY DEF Init, WorkerInit
<1>2. /\ readyCount = 0 /\ queueIndex = 0 /\ freeLanes = [w \in Workers |-> Concurrency]
      /\ totalInFlight = 0 /\ bufferedBytes = 0 /\ heldMeta = {}
      /\ nextByKey = [k \in Keys |-> 1] /\ deliveredCount = 0 /\ deliveryDone = FALSE
      /\ workerDone = 0 /\ paused = [k \in Keys |-> FALSE] /\ queued = [k \in Keys |-> 0]
      /\ finished = {} /\ outcome = "running"
  BY DEF Init
<1>3. \A w \in Workers : inbox[w] = <<>> /\ outbox[w] = <<>> /\ running[w] = {} /\ broken[w] = {}
                         /\ heldChunks[w] = {} /\ dispatchInFlight[w] = 0
                         /\ ~dispatchStopped[w] /\ doneEmitted[w] = "no"
  BY <1>1
<1>4. /\ \A type : /\ Sent(<<>>, type) = {} /\ ~Holds(<<>>, type)
                   /\ Once(<<>>, type) /\ Single(<<>>, type)
      /\ Cardinality({}) = 0
  BY EmptyQueue, FS_EmptySet
<1>5. TypesKept
  BY <1>1, <1>2 DEF TypesKept, DoneStates
<1>6. InPlaces
  <2>1. inbox \in [Workers -> Seq(InMessages)] /\ outbox \in [Workers -> Seq(OutMessages)]
    BY <1>1
  <2>2. running \in [Workers -> SUBSET AllParts] /\ broken \in [Workers -> SUBSET AllParts]
    BY <1>1
  <2>3. \A w \in Workers : Cardinality(running[w] \cup broken[w]) = 0
    <3>1. \A w \in Workers : running[w] \cup broken[w] = {}
      BY <1>3
    <3> QED BY <1>4, <3>1
  <2> QED BY <1>3, <1>4, <2>1, <2>2, <2>3 DEF InPlaces
<1>7. \A w \in Workers : Out[w] = {}
  BY <1>3, <1>4 DEF Out, Outstanding
<1>8. Flying(Out) = {} /\ HeldParts(heldMeta) = {}
  BY <1>2, <1>7 DEF Flying, HeldParts, Has
<1>9. Passed(nextByKey) = {}
  <2> SUFFICES ASSUME NEW p \in AllParts, p[2] < nextByKey[p[1]]
               PROVE  FALSE
    BY DEF Passed
  <2>1. p[1] \in Keys /\ p[2] \in 1 .. Parts[p[1]] /\ Parts[p[1]] \in Nat
    BY PartShape
  <2> QED BY <1>2, <2>1
<1>10. BooksBalance
  <2>1. Out \in [Workers -> SUBSET AllParts] /\ \A v, w \in Workers : v # w => Out[v] \cap Out[w] = {}
    BY <1>7 DEF Out
  <2>2. queueIndex \in 0 .. TotalParts /\ Issued(queueIndex) = {}
    BY <1>2, TotalFacts, IssuedFacts
  <2>3. nextByKey \in [Keys -> Nat] /\ \A k \in Keys : nextByKey[k] \in 1 .. Parts[k] + 1
    <3>1. \A k \in Keys : 1 \in 1 .. Parts[k] + 1
      BY PartShape
    <3> QED BY <1>2, <3>1
  <2>4. Placement(Out, queueIndex, heldMeta, nextByKey)
    BY <1>2, <1>8, <1>9, <2>1, <2>2, <2>3 DEF Placement
  <2>5. freeLanes \in [Workers -> 0 .. Concurrency]
        /\ \A w \in Workers : freeLanes[w] = Concurrency - Cardinality(Out[w])
    <3>1. Concurrency \in 0 .. Concurrency /\ Concurrency = Concurrency - 0
      BY LanesAssumption
    <3> QED BY <1>2, <1>4, <1>7, <3>1
  <2>6. Counted(Out, heldMeta, nextByKey, freeLanes, totalInFlight, bufferedBytes, deliveredCount)
    BY <1>2, <1>4, <1>8, <1>9, <2>5 DEF Counted
  <2>7. LastInFlight(Out, queueIndex, totalInFlight, bufferedBytes)
    BY <1>8 DEF LastInFlight
  <2> QED BY <2>4, <2>6, <2>7 DEF BooksBalance
<1>11. Drained
  BY <1>2 DEF Drained, Has
<1>12. MemoryKept
  BY <1>2, <1>3, <1>4 DEF MemoryKept, Kept
<1>13. StopIsLast
  BY <1>2, <1>3, <1>4, NoStopEnds DEF StopIsLast
<1>14. DeliveryKnown
  <2>1. Keys # {}
    <3>1. AllParts # {}
      BY TotalFacts, FS_EmptySet
    <3> QED BY <3>1 DEF AllParts
  <2>2. deliveryDone <=> deliveredCount = TotalParts
    BY <1>2, TotalFacts
  <2> QED BY <1>2, <2>1, <2>2 DEF DeliveryKnown
<1>15. ReportsCounted
  <2>1. Readied = {} /\ Reported = {}
    BY <1>1, <1>3 DEF Readied, Reported
  <2> QED BY <1>2, <1>3, <1>4, <2>1 DEF ReportsCounted
<1> QED
  BY <1>5, <1>6, <1>10, <1>11, <1>12, <1>13, <1>14, <1>15 DEF Inv

LEMMA NextKeepsInv ==
  Inv /\ [Next]_vars => Inv'
<1> SUFFICES ASSUME Inv, [Next]_vars
             PROVE  Inv'
  OBVIOUS
<1>1. CASE UNCHANGED vars
  <2>1. UNCHANGED <<inbox, outbox, deliveryMode, up, running, broken, heldChunks,
                    dispatchInFlight, dispatchStopped, doneEmitted, dead>>
    BY <1>1 DEF vars, workerVars, workerStateVars
  <2>2. UNCHANGED mainVars
    BY <1>1 DEF vars
  <2>3. InPlaces' /\ \A w \in Workers : Outstanding(w)' = Outstanding(w)
    BY <2>1 DEF Inv, InPlaces, Outstanding
  <2>4. BooksBalance' /\ Drained' /\ DeliveryKnown'
    BY <2>1, <2>2, <2>3, WorkerSame
  <2>5. /\ Unmoved(Workers, inbox, inbox', "release") /\ Unmoved(Workers, outbox, outbox', "part")
        /\ Unmoved(Workers, outbox, outbox', "ready") /\ Unmoved(Workers, outbox, outbox', "worker-done")
    BY <2>1, StillUnmoved
  <2>6. MemoryKept' /\ StopIsLast'
    BY <2>1, <2>2, <2>5, MemorySame, StopSame DEF mainVars
  <2>7. ReportsCounted'
    <3>1. outcome = "resolved" => deliveryDone'
      BY <2>2 DEF Inv, ReportsCounted, mainVars
    <3> QED BY <2>1, <2>2, <2>5, <3>1, ReportsSame DEF mainVars
  <2>8. TypesKept'
    BY <2>1, <2>2 DEF Inv, TypesKept, mainVars
  <2> QED BY <2>3, <2>4, <2>6, <2>7, <2>8 DEF Inv
<1>2. ASSUME NEW w \in Workers, WorkerReady(w) \/ PartReady(w) \/ WorkerDone(w) \/ WorkerFailed(w)
      PROVE  Inv'
  BY <1>2, WorkerReadyKeepsInv, PartReadyKeepsInv, WorkerDoneKeepsInv, WorkerFailedKeepsInv
<1>3. ASSUME NEW w \in Workers, WorkerStep(w), UNCHANGED mainVars
      PROVE  Inv'
  BY <1>3, ReadyKeepsInv, AssignedKeepsInv, ReleasedKeepsInv, StoppedKeepsInv, PostDoneKeepsInv,
     PartDoneKeepsInv, PartFailsKeepsInv DEF WorkerStep
<1>4. ASSUME NEW w \in Workers, Dies(w), UNCHANGED mainVars
      PROVE  Inv'
  BY <1>4, DiesKeepsInv
<1>5. ASSUME NEW k \in Keys, SinkTakes(k) \/ SinkFinishes(k)
      PROVE  Inv'
  BY <1>5, SinkTakesKeepsInv, SinkFinishesKeepsInv
<1> QED
  BY <1>1, <1>2, <1>3, <1>4, <1>5 DEF Next

(* The inductive invariant of an iteration over a fixed list of parts.       *)
THEOREM InvAlways ==
  Spec => []Inv
<1>1. Init => Inv
  BY InitEstablishesInv
<1>2. Inv /\ [Next]_vars => Inv'
  BY NextKeepsInv
<1> QED
  BY <1>1, <1>2, PTL DEF Spec

-----------------------------------------------------------------------------
(* What follows from it.                                                     *)

LEMMA SingleHolder ==
  ASSUME NEW S, S \subseteq Workers, \A v, w \in S : v = w
  PROVE  Cardinality(S) = IF S = {} THEN 0 ELSE 1
<1>1. CASE S = {}
  BY <1>1, FS_EmptySet
<1>2. CASE S # {}
  <2>1. PICK w : w \in S
    BY <1>2
  <2>2. S = {w}
    BY <2>1
  <2>3. Cardinality({w}) = 1
    BY FS_Singleton
  <2> QED BY <1>2, <2>2, <2>3
<1> QED
  BY <1>1, <1>2

LEMMA InvImpliesAccounting ==
  Inv => Accounting
<1> SUFFICES ASSUME Inv
             PROVE  Accounting
  OBVIOUS
<1>1. /\ Placement(Out, queueIndex, heldMeta, nextByKey)
      /\ Counted(Out, heldMeta, nextByKey, freeLanes, totalInFlight, bufferedBytes, deliveredCount)
  BY DEF Inv, BooksBalance
<1>2. /\ Out \in [Workers -> SUBSET AllParts]
      /\ \A v, w \in Workers : v # w => Out[v] \cap Out[w] = {}
      /\ heldMeta \in SUBSET Triples
      /\ \A g, h \in heldMeta : g[1] = h[1] /\ g[2] = h[2] => g = h
      /\ queueIndex \in 0 .. TotalParts /\ nextByKey \in [Keys -> Nat]
      /\ Issued(queueIndex) = Flying(Out) \cup HeldParts(heldMeta) \cup Passed(nextByKey)
      /\ Flying(Out) \cap HeldParts(heldMeta) = {}
      /\ Flying(Out) \cap Passed(nextByKey) = {}
      /\ HeldParts(heldMeta) \cap Passed(nextByKey) = {}
  BY <1>1 DEF Placement
<1>3. /\ freeLanes \in [Workers -> 0 .. Concurrency]
      /\ \A w \in Workers : freeLanes[w] = Concurrency - Cardinality(Out[w])
      /\ totalInFlight = Cardinality(Flying(Out))
      /\ bufferedBytes = Cardinality(heldMeta)
      /\ deliveredCount = Cardinality(Passed(nextByKey))
  BY <1>1 DEF Counted
<1>4. \A w \in Workers : Out[w] = Outstanding(w)
  BY DEF Out
<1>5. \A w \in Workers : dispatchInFlight[w] = Cardinality(running[w] \cup broken[w])
  BY DEF Inv, InPlaces
<1>6. dispatchInFlight \in [Workers -> 0 .. Concurrency]
  <2>1. ASSUME NEW w \in Workers
        PROVE  dispatchInFlight[w] \in 0 .. Concurrency
    <3> DEFINE S == running[w] \cup broken[w]
    <3>1. S \subseteq Out[w] /\ dispatchInFlight[w] = Cardinality(S)
      BY <1>4, <1>5 DEF Outstanding
    <3>2. IsFiniteSet(Out[w]) /\ Cardinality(Out[w]) \in Nat
      BY <1>2, FiniteParts
    <3> HIDE DEF S
    <3>3. Cardinality(S) \in Nat /\ Cardinality(S) <= Cardinality(Out[w])
      BY <3>1, <3>2, FS_Subset, FS_CardinalityType
    <3>4. freeLanes[w] \in 0 .. Concurrency /\ freeLanes[w] = Concurrency - Cardinality(Out[w])
      BY <1>3
    <3> QED BY <3>1, <3>2, <3>3, <3>4, LanesAssumption
  <2> QED BY <2>1 DEF Inv, TypesKept
<1>7. readyCount \in 0 .. NWorkers /\ workerDone \in 0 .. NWorkers
  <2>1. /\ Readied \subseteq Workers /\ readyCount = Cardinality(Readied)
        /\ Reported \subseteq Workers /\ workerDone = Cardinality(Reported)
    BY DEF Inv, TypesKept, ReportsCounted, Readied, Reported
  <2>2. /\ Cardinality(Readied) \in Nat /\ Cardinality(Readied) <= NWorkers
        /\ Cardinality(Reported) \in Nat /\ Cardinality(Reported) <= NWorkers
    BY <2>1, FiniteWorkers, FS_Subset, FS_CardinalityType
  <2> QED BY <2>1, <2>2, FiniteWorkers
<1>8. TypeOK
  <2>1. /\ totalInFlight \in 0 .. NWorkers * Concurrency
        /\ bufferedBytes \in 0 .. TotalParts /\ deliveredCount \in 0 .. TotalParts
    BY <1>1, BooksFacts
  <2>2. \A w \in Workers : /\ Sent(inbox[w], "assign") \subseteq AllParts
                           /\ Sent(outbox[w], "part") \subseteq AllParts
    BY <1>2, <1>4 DEF Outstanding
  <2>3. \A w \in Workers : Sent(inbox[w], "release") \subseteq AllParts
    BY DEF Inv, MemoryKept, Kept, Passed
  <2>4. /\ running \in [Workers -> SUBSET AllParts] /\ broken \in [Workers -> SUBSET AllParts]
    BY DEF Inv, InPlaces
  <2>5. heldMeta \subseteq {<<p[1], p[2], w>> : p \in AllParts, w \in Workers}
    BY <1>2 DEF Triples
  <2> QED BY <1>2, <1>3, <1>6, <1>7, <2>1, <2>2, <2>3, <2>4, <2>5 DEF Inv, TypesKept, TypeOK
<1>9. ASSUME NEW p \in AllParts
      PROVE  Cardinality(Owners(p)) = IF p \in Flying(Out) THEN 1 ELSE 0
  <2>1. Owners(p) \subseteq Workers /\ \A v, w \in Owners(p) : v = w
    BY <1>2, <1>4 DEF Owners
  <2>2. Owners(p) = {} <=> p \notin Flying(Out)
    BY <1>4 DEF Owners, Flying
  <2> QED BY <2>1, <2>2, SingleHolder
<1>10. PartsAccounted
  <2> SUFFICES ASSUME NEW p \in AllParts
               PROVE  Cardinality({w \in Workers : p \in Outstanding(w)})
                        + Cardinality({w \in Workers : <<p[1], p[2], w>> \in heldMeta})
                        + (IF Position(p) >= queueIndex THEN 1 ELSE 0)
                        + (IF Delivered(p) THEN 1 ELSE 0) = 1
    BY DEF PartsAccounted
  <2> DEFINE mine == Cardinality({w \in Workers : p \in Outstanding(w)})
             keeps == {w \in Workers : <<p[1], p[2], w>> \in heldMeta}
             held == Cardinality(keeps)
  <2>1. mine = IF p \in Flying(Out) THEN 1 ELSE 0
    BY <1>9 DEF Owners
  <2>2. held = IF p \in HeldParts(heldMeta) THEN 1 ELSE 0
    <3>1. \A v, w \in keeps : v = w
      <4> SUFFICES ASSUME NEW v \in keeps, NEW w \in keeps
                   PROVE  v = w
        OBVIOUS
      <4> DEFINE g == <<p[1], p[2], v>>
                 h == <<p[1], p[2], w>>
      <4>1. g \in heldMeta /\ h \in heldMeta /\ g[1] = h[1] /\ g[2] = h[2] /\ g[3] = v /\ h[3] = w
        OBVIOUS
      <4> HIDE DEF g, h
      <4>2. g = h
        BY <1>2, <4>1
      <4> QED BY <4>1, <4>2
    <3>2. keeps = {} <=> p \notin HeldParts(heldMeta)
      BY DEF HeldParts, Has
    <3>3. keeps \subseteq Workers
      OBVIOUS
    <3> HIDE DEF keeps
    <3> QED BY <3>1, <3>2, <3>3, SingleHolder
  <2>3. Delivered(p) <=> p \in Passed(nextByKey)
    BY DEF Delivered, Passed
  <2>4. Position(p) >= queueIndex <=> p \notin Issued(queueIndex)
    <3>1. Position(p) \in Int /\ queueIndex \in Int
      <4>1. Position(p) \in 0 .. TotalParts - 1
        BY PositionFacts
      <4> QED BY <1>2, <4>1, TotalFacts
    <3>2. Position(p) >= queueIndex <=> ~(Position(p) < queueIndex)
      BY ONLY <3>1
    <3> QED BY <3>2 DEF Issued
  <2> HIDE DEF mine, held, keeps
  <2>5. mine + held + (IF Position(p) >= queueIndex THEN 1 ELSE 0)
          + (IF Delivered(p) THEN 1 ELSE 0) = 1
    <3>1. CASE p \in Flying(Out)
      <4>1. p \notin HeldParts(heldMeta) /\ p \notin Passed(nextByKey) /\ p \in Issued(queueIndex)
        BY <1>2, <3>1
      <4>2. mine = 1 /\ held = 0 /\ ~Delivered(p) /\ ~(Position(p) >= queueIndex)
        BY <2>1, <2>2, <2>3, <2>4, <3>1, <4>1
      <4> QED BY ONLY <4>2
    <3>2. CASE p \in HeldParts(heldMeta)
      <4>1. p \notin Flying(Out) /\ p \notin Passed(nextByKey) /\ p \in Issued(queueIndex)
        BY <1>2, <3>2
      <4>2. mine = 0 /\ held = 1 /\ ~Delivered(p) /\ ~(Position(p) >= queueIndex)
        BY <2>1, <2>2, <2>3, <2>4, <3>2, <4>1
      <4> QED BY ONLY <4>2
    <3>3. CASE p \in Passed(nextByKey)
      <4>1. p \notin Flying(Out) /\ p \notin HeldParts(heldMeta) /\ p \in Issued(queueIndex)
        BY <1>2, <3>3
      <4>2. mine = 0 /\ held = 0 /\ Delivered(p) /\ ~(Position(p) >= queueIndex)
        BY <2>1, <2>2, <2>3, <2>4, <3>3, <4>1
      <4> QED BY ONLY <4>2
    <3>4. CASE p \notin Issued(queueIndex)
      <4>1. p \notin Flying(Out) /\ p \notin HeldParts(heldMeta) /\ p \notin Passed(nextByKey)
        BY <1>2, <3>4
      <4>2. mine = 0 /\ held = 0 /\ ~Delivered(p) /\ Position(p) >= queueIndex
        BY <2>1, <2>2, <2>3, <2>4, <3>4, <4>1
      <4> QED BY ONLY <4>2
    <3> QED BY <1>2, <3>1, <3>2, <3>3, <3>4
  <2> QED BY <2>5 DEF mine, held, keeps
<1>11. CountersMatch
  <2>1. {p \in AllParts : Owners(p) # {}} = Flying(Out)
    BY <1>4 DEF Owners, Flying
  <2>2. {p \in AllParts : Delivered(p)} = Passed(nextByKey)
    BY DEF Delivered, Passed
  <2> QED BY <1>3, <1>4, <1>5, <2>1, <2>2 DEF CountersMatch
<1> QED
  BY <1>8, <1>10, <1>11 DEF Accounting

LEMMA InvImpliesBacklog ==
  Inv => BacklogBounded
<1> SUFFICES ASSUME Inv,
                    totalInFlight = 0 \/ bufferedBytes + totalInFlight >= Cap + NWorkers * Concurrency,
                    NEW h \in heldMeta
             PROVE  paused[h[1]]
  BY DEF BacklogBounded
<1>1. /\ Placement(Out, queueIndex, heldMeta, nextByKey)
      /\ Counted(Out, heldMeta, nextByKey, freeLanes, totalInFlight, bufferedBytes, deliveredCount)
      /\ LastInFlight(Out, queueIndex, totalInFlight, bufferedBytes)
  BY DEF Inv, BooksBalance
<1>2. \A p \in Flying(Out) : Position(p) = queueIndex - 1
  <2>1. CASE totalInFlight = 0
    <3>1. Flying(Out) = {}
      BY <1>1, <2>1, BooksFacts
    <3> QED BY <3>1
  <2>2. CASE bufferedBytes + totalInFlight >= Cap + NWorkers * Concurrency
    BY <1>1, <2>2 DEF LastInFlight
  <2> QED BY <2>1, <2>2
<1>3. Has(heldMeta, h[1], nextByKey[h[1]])
  BY <1>1, <1>2, HeldWaits
<1>4. h[1] \in Keys
  <2>1. h \in Triples
    BY <1>1 DEF Placement
  <2>2. <<h[1], h[2]>> \in AllParts
    BY <2>1, TripleShape
  <2> QED BY <2>2, PartShape
<1> QED
  BY <1>3, <1>4 DEF Inv, Drained

LEMMA InvImpliesMemory ==
  Inv => MemoryFollowsDelivery
BY DEF Inv, MemoryKept, Kept, MemoryFollowsDelivery

LEMMA InvImpliesComplete ==
  Inv => ResolvedIsComplete
<1> SUFFICES ASSUME Inv
             PROVE  ResolvedIsComplete
  OBVIOUS
<1>1. ASSUME NEW w \in Workers, dispatchStopped[w] \/ Holds(inbox[w], "stop")
      PROVE  Outstanding(w) = {} /\ queueIndex = TotalParts
  <2>1. deliveryDone
    BY <1>1 DEF Inv, StopIsLast
  <2> QED BY <2>1, DoneIsDelivered
<1>2. ASSUME outcome = "resolved"
      PROVE  /\ deliveredCount = TotalParts /\ heldMeta = {}
             /\ deliveryMode = "ordered-stream" => finished = Keys
             /\ \A w \in Workers : doneEmitted[w] = "posted" /\ heldChunks[w] = {}
  <2>1. deliveryDone /\ workerDone = NWorkers
    BY <1>2 DEF Inv, ReportsCounted
  <2>2. /\ deliveredCount = TotalParts /\ heldMeta = {}
        /\ \A w \in Workers : Outstanding(w) = {}
    BY <2>1, DoneIsDelivered
  <2>3. Reported = Workers
    <3>1. Reported \subseteq Workers /\ Cardinality(Reported) = NWorkers
      BY <2>1 DEF Inv, ReportsCounted, Reported
    <3> QED BY <3>1, FiniteWorkers, FS_Subset
  <2>4. \A w \in Workers : doneEmitted[w] = "posted"
    BY <2>3 DEF Reported
  <2>5. ASSUME NEW w \in Workers
        PROVE  heldChunks[w] = {}
    <3>1. inbox[w] = <<>>
      BY <2>4 DEF Inv, StopIsLast
    <3>2. Sent(inbox[w], "release") = {} /\ Sent(outbox[w], "part") = {}
      BY <2>2, <3>1, EmptyQueue DEF Outstanding
    <3> QED BY <2>2, <3>2 DEF Inv, MemoryKept, Kept
  <2>6. deliveryMode = "ordered-stream" => finished = Keys
    BY <2>1 DEF Inv, DeliveryKnown
  <2> QED BY <2>2, <2>4, <2>5, <2>6
<1> QED
  BY <1>1, <1>2 DEF ResolvedIsComplete

-----------------------------------------------------------------------------
(* The properties of the runs, for every value of the constants.             *)

(* Through deaths, failures and late messages a part of runOrdered is in one *)
(* place at any time, across both threads and the queues between them, and   *)
(* what either thread counts is what a recount would give.                   *)
THEOREM IterationBooksAgree ==
  Spec => []Accounting
BY InvAlways, InvImpliesAccounting, PTL

(* dispatchMore "can't hang" on its own cap: once the backlog is full, or    *)
(* nothing is in flight, all that main holds waits for a full consumer, and  *)
(* nothing waits for a part that was never issued.                           *)
THEOREM BacklogIsBounded ==
  Spec => []BacklogBounded
BY InvAlways, InvImpliesBacklog, PTL

(* In ordered-drop a worker keeps a part from its answer to the release that *)
(* the delivery of the part posts to it, and no longer.                      *)
THEOREM MemoryIsReleased ==
  Spec => []MemoryFollowsDelivery
BY InvAlways, InvImpliesMemory, PTL

(* 'stop' interrupts nothing, and maybeResolve resolves only when all parts  *)
(* were delivered and taken, no bytes are kept and all workers have          *)
(* reported.                                                                 *)
THEOREM ResolvedIsAll ==
  Spec => []ResolvedIsComplete
BY InvAlways, InvImpliesComplete, PTL
=============================================================================
