-------------------------- MODULE DownloadPoolProofs --------------------------
(***************************************************************************)
(* Proofs about DownloadPool, for every batch, pool and number of lanes.   *)
(***************************************************************************)
EXTENDS DownloadPool, OperatorLemmas

-----------------------------------------------------------------------------
(* The inductive invariant.                                                  *)

InMessages == ({"assign"} \X AllParts) \cup {<<"stop">>}
OutMessages ==
  ({"part"} \X AllParts) \cup {<<"ready">>, <<"error">>, <<"exit">>, <<"worker-done">>}

(* What is in the queues, and that a part is in one place of its worker.     *)
InPlaces ==
  /\ inbox \in [Workers -> Seq(InMessages)]
  /\ outbox \in [Workers -> Seq(OutMessages)]
  /\ running \in [Workers -> SUBSET AllParts]
  /\ broken \in [Workers -> SUBSET AllParts]
  /\ \A w \in Workers :
       /\ Once(inbox[w], "assign")
       /\ Once(outbox[w], "part")
       /\ Sent(inbox[w], "assign") \cap (running[w] \cup broken[w]) = {}
       /\ Sent(outbox[w], "part") \cap (running[w] \cup broken[w]) = {}
       /\ Sent(inbox[w], "assign") \cap Sent(outbox[w], "part") = {}
       /\ running[w] \cap broken[w] = {}
       /\ dispatchInFlight[w] = Cardinality(running[w] \cup broken[w])

Flying(out) == {p \in AllParts : \E w \in Workers : p \in out[w]}
FlyingOf(out, k) == {p \in Flying(out) : p[1] = k}
Given(cur) == {p \in AllParts : p[2] <= cur[p[1]]}

(* The books, when out[w] is outstanding at w, cur are the cursors, arr the  *)
(* answers counted per object, free the free lanes, flying and count what    *)
(* totalInFlight and deliveredCount say.                                     *)
Balanced(out, cur, arr, free, flying, count) ==
  /\ out \in [Workers -> SUBSET AllParts]
  /\ \A v, w \in Workers : v # w => out[v] \cap out[w] = {}
  /\ Flying(out) \subseteq Given(cur)
  /\ cur \in [Keys -> Nat] /\ arr \in [Keys -> Nat]
  /\ \A k \in Keys : /\ cur[k] <= Parts[k]
                     /\ cur[k] = arr[k] + Cardinality(FlyingOf(out, k))
  /\ free \in [Workers -> 0 .. Concurrency]
  /\ \A w \in Workers : free[w] = Concurrency - Cardinality(out[w])
  /\ flying = Cardinality(Flying(out))
  /\ count = Cardinality(Given(cur) \ Flying(out))

Out == [w \in Workers |-> Outstanding(w)]
BooksBalance == Balanced(Out, cursor, arrived, freeLanes, totalInFlight, deliveredCount)

Listed == {active[i] : i \in 1 .. Len(active)}

(* An object leaves this.objects with its last part.                         *)
ObjectsOpen ==
  \A k \in Keys : /\ k \notin Listed => k \notin objects /\ cursor[k] = 0
                  /\ k \in Listed \ objects => arrived[k] = Parts[k]
                  /\ call[k] = "resolved" => arrived[k] = Parts[k]

(* What is not on its way to a worker or with it has been written.           *)
AnsweredIsWritten ==
  deliveryMode = "file" =>
    \A p \in Given(cursor) :
      (\A w \in Workers : p \notin Sent(inbox[w], "assign") \cup running[w] \cup broken[w])
        => wrote[p] = Chunks

Reported == {w \in Workers : doneEmitted[w] = "posted" /\ ~Holds(outbox[w], "worker-done")}

ReportsCounted ==
  /\ \A w \in Workers : /\ Single(outbox[w], "worker-done")
                        /\ Holds(outbox[w], "worker-done") => doneEmitted[w] = "posted"
  /\ workerDone = Cardinality(Reported)
  /\ closing = "stopped" /\ ~failed => workerDone = NWorkers

TypesKept ==
  /\ deliveryMode \in Modes
  /\ up \subseteq Workers /\ dead \subseteq Workers
  /\ heldChunks = [w \in Workers |-> {}]
  /\ dispatchInFlight \in [Workers -> Nat]
  /\ dispatchStopped \in [Workers -> BOOLEAN]
  /\ doneEmitted \in [Workers -> DoneStates]
  /\ call \in [Keys -> CallStates]
  /\ objects \subseteq Keys /\ active \in Seq(Keys)
  /\ rr \in 0 .. RRModulus - 1
  /\ failed \in BOOLEAN /\ crashed \in BOOLEAN
  /\ closing \in ClosingStates
  /\ wrote \in [AllParts -> 0 .. Chunks]

Inv ==
  /\ TypesKept /\ InPlaces /\ BooksBalance /\ ObjectsOpen /\ AnsweredIsWritten
  /\ ReportsCounted

-----------------------------------------------------------------------------
(* The finite sets that everything else is a subset of.                      *)

LEMMA PartShape ==
  /\ \A k, n : <<k, n>> \in AllParts <=> k \in Keys /\ n \in 1 .. Parts[k]
  /\ \A p \in AllParts : p = <<p[1], p[2]>> /\ p[1] \in Keys /\ p[2] \in 1 .. Parts[p[1]]
  /\ \A k \in Keys : Parts[k] \in Nat /\ Parts[k] > 0
<1>1. \A k \in Keys : Parts[k] \in Nat /\ Parts[k] > 0
  BY KeysAssumption
<1>2. \A p : p \in AllParts <=> \E k \in Keys : p \in {k} \X (1 .. Parts[k])
  BY DEF AllParts
<1> QED
  BY <1>1, <1>2

LEMMA FiniteParts ==
  \A S \in SUBSET AllParts :
    /\ IsFiniteSet(S) /\ Cardinality(S) \in Nat
    /\ Cardinality(S) <= Cardinality(AllParts)
    /\ Cardinality(S) = 0 <=> S = {}
<1>1. Parts \in [Keys -> Nat]
  BY KeysAssumption
<1>2. IsFiniteSet(AllParts)
  BY <1>1, KeysAssumption, FiniteRows DEF AllParts
<1> QED
  BY <1>2, FS_Subset, FS_CardinalityType, FS_EmptySet

LEMMA FiniteWorkers ==
  /\ IsFiniteSet(Workers) /\ Cardinality(Workers) = NWorkers
  /\ NWorkers \in Nat /\ NWorkers > 0
<1>1. 1 \in Int /\ NWorkers \in Int /\ NWorkers > 0
  BY WorkersAssumption
<1>2. IsFiniteSet(1 .. NWorkers) /\ Cardinality(1 .. NWorkers) = NWorkers
  BY <1>1, FS_Interval
<1> QED
  BY <1>1, <1>2 DEF Workers

-----------------------------------------------------------------------------
(* The books.                                                                *)

(* more[w] is handed out to w.                                               *)
Taken(out, more, free, flying, out2, free2, flying2) ==
  /\ \A v, w \in Workers : v # w => more[v] \cap more[w] = {}
  /\ \A w \in Workers : Cardinality(more[w]) <= free[w]
  /\ out2 = [w \in Workers |-> out[w] \cup more[w]]
  /\ free2 = [w \in Workers |-> free[w] - Cardinality(more[w])]
  /\ flying2 = flying + Cardinality(Flying(more))

(* Handing more[w] out to w, up to the cursors `next', keeps them.           *)
LEMMA BooksHand ==
  ASSUME NEW out, NEW cur, NEW arr, NEW free, NEW flying, NEW count,
         Balanced(out, cur, arr, free, flying, count),
         NEW next \in [Keys -> Nat],
         \A k \in Keys : cur[k] <= next[k] /\ next[k] <= Parts[k],
         NEW more \in [Workers -> SUBSET AllParts],
         Flying(more) = Given(next) \ Given(cur),
         NEW out2, NEW free2, NEW flying2,
         Taken(out, more, free, flying, out2, free2, flying2)
  PROVE  Balanced(out2, next, arr, free2, flying2, count)
<1>t. /\ \A v, w \in Workers : v # w => more[v] \cap more[w] = {}
      /\ \A w \in Workers : Cardinality(more[w]) <= free[w]
      /\ out2 = [w \in Workers |-> out[w] \cup more[w]]
      /\ free2 = [w \in Workers |-> free[w] - Cardinality(more[w])]
      /\ flying2 = flying + Cardinality(Flying(more))
  BY DEF Taken
<1>0. /\ out \in [Workers -> SUBSET AllParts]
      /\ \A v, w \in Workers : v # w => out[v] \cap out[w] = {}
      /\ Flying(out) \subseteq Given(cur)
      /\ cur \in [Keys -> Nat] /\ arr \in [Keys -> Nat]
      /\ \A k \in Keys : /\ cur[k] <= Parts[k]
                         /\ cur[k] = arr[k] + Cardinality(FlyingOf(out, k))
      /\ free \in [Workers -> 0 .. Concurrency]
      /\ \A w \in Workers : free[w] = Concurrency - Cardinality(out[w])
      /\ flying = Cardinality(Flying(out))
      /\ count = Cardinality(Given(cur) \ Flying(out))
  BY DEF Balanced
<1>1. \A p : p \in Flying(out2) <=> p \in Flying(out) \cup Flying(more)
  BY <1>t DEF Flying
<1>2. Flying(out2) = Flying(out) \cup Flying(more)
  BY <1>1
<1>3. Given(cur) \subseteq Given(next)
  <2> SUFFICES ASSUME NEW p \in AllParts, p[2] <= cur[p[1]]
               PROVE  p[2] <= next[p[1]]
    BY DEF Given
  <2> QED BY <1>0, PartShape
<1>4. /\ Flying(out) \cap Flying(more) = {}
      /\ Flying(out2) \subseteq Given(next)
      /\ Given(next) \ Flying(out2) = Given(cur) \ Flying(out)
  BY <1>0, <1>2, <1>3
<1>5. /\ \A w \in Workers : out[w] \subseteq Flying(out) /\ more[w] \subseteq Flying(more)
      /\ Flying(out) \subseteq AllParts /\ Flying(more) \subseteq AllParts
  BY <1>0 DEF Flying
<1>6. \A w \in Workers : out[w] \cap more[w] = {}
  BY <1>4, <1>5
<1>7. /\ out2 \in [Workers -> SUBSET AllParts]
      /\ \A v, w \in Workers : v # w => out2[v] \cap out2[w] = {}
  <2>1. ASSUME NEW v \in Workers, NEW w \in Workers, v # w
        PROVE  out2[v] \cap out2[w] = {}
    BY <2>1, <1>0, <1>4, <1>5, <1>t
  <2> QED BY <2>1, <1>0, <1>t
<1>8. ASSUME NEW k \in Keys
      PROVE  next[k] = arr[k] + Cardinality(FlyingOf(out2, k))
  <2> DEFINE old == FlyingOf(out, k)
             run == Run(k, cur[k] + 1, next[k] - cur[k])
  <2>1. cur[k] \in Nat /\ next[k] \in Nat /\ arr[k] \in Nat /\ cur[k] <= next[k]
        /\ next[k] <= Parts[k] /\ Parts[k] \in Nat
    BY <1>0, PartShape
  <2>2. \A p : p \in run <=> p \in AllParts /\ p[1] = k /\ cur[k] < p[2] /\ p[2] <= next[k]
    <3>1. ASSUME NEW p \in run
          PROVE  p \in AllParts /\ p[1] = k /\ cur[k] < p[2] /\ p[2] <= next[k]
      <4>1. PICK i \in 0 .. next[k] - cur[k] - 1 : p = <<k, cur[k] + 1 + i>>
        BY DEF Run
      <4>2. p[1] = k /\ p[2] = cur[k] + 1 + i
        BY <4>1
      <4>3. cur[k] + 1 + i \in 1 .. Parts[k] /\ cur[k] < cur[k] + 1 + i
            /\ cur[k] + 1 + i <= next[k]
        BY <2>1
      <4> QED BY <4>1, <4>2, <4>3, PartShape
    <3>2. ASSUME NEW p \in AllParts, p[1] = k, cur[k] < p[2], p[2] <= next[k]
          PROVE  p \in run
      <4> DEFINE i == p[2] - cur[k] - 1
      <4>1. p[2] \in Nat /\ p = <<k, p[2]>>
        BY <3>2, PartShape
      <4>2. i \in 0 .. next[k] - cur[k] - 1 /\ p[2] = cur[k] + 1 + i
        BY <2>1, <3>2, <4>1
      <4> HIDE DEF i
      <4> QED BY <4>1, <4>2 DEF Run
    <3> QED BY <3>1, <3>2
  <2>3. \A p : p \in FlyingOf(more, k) <=> p \in run
    <3>1. ASSUME NEW p \in AllParts, p[1] = k
          PROVE  p \in Flying(more) <=> cur[k] < p[2] /\ p[2] <= next[k]
      <4>1. p[2] \in Nat
        BY PartShape
      <4>2. p \in Flying(more) <=> p[2] <= next[k] /\ ~(p[2] <= cur[k])
        BY <3>1 DEF Given
      <4> QED BY <2>1, <4>1, <4>2
    <3> QED BY <1>5, <2>2, <3>1 DEF FlyingOf
  <2>4. FlyingOf(out2, k) = old \cup run /\ old \cap run = {}
    <3>1. FlyingOf(more, k) = run
      BY <2>3
    <3>2. FlyingOf(out2, k) = FlyingOf(out, k) \cup FlyingOf(more, k)
      BY <1>2 DEF FlyingOf
    <3>3. FlyingOf(out, k) \cap FlyingOf(more, k) = {}
      BY <1>4 DEF FlyingOf
    <3> QED BY <3>1, <3>2, <3>3
  <2>5. IsFiniteSet(run) /\ Cardinality(run) = next[k] - cur[k]
    <3>1. cur[k] + 1 \in Int /\ next[k] - cur[k] \in Nat
      BY <2>1
    <3> QED BY <3>1, RunSize
  <2>6. IsFiniteSet(old) /\ Cardinality(old) \in Nat
    BY <1>5, FiniteParts DEF FlyingOf
  <2>7. cur[k] = arr[k] + Cardinality(old)
    BY <1>0
  <2> HIDE DEF old, run
  <2>8. Cardinality(old \cup run) = Cardinality(old) + Cardinality(run)
    BY <2>4, <2>5, <2>6, DisjointUnionSize
  <2>9. Cardinality(FlyingOf(out2, k)) = Cardinality(old) + (next[k] - cur[k])
    BY <2>4, <2>5, <2>8
  <2> QED BY <2>1, <2>6, <2>7, <2>9
<1>9. ASSUME NEW w \in Workers
      PROVE  /\ free2[w] \in 0 .. Concurrency
             /\ free2[w] = Concurrency - Cardinality(out2[w])
  <2>1. /\ IsFiniteSet(out[w]) /\ Cardinality(out[w]) \in Nat
        /\ IsFiniteSet(more[w]) /\ Cardinality(more[w]) \in Nat
    BY <1>0, FiniteParts
  <2>2. Cardinality(out[w] \cup more[w]) = Cardinality(out[w]) + Cardinality(more[w])
    BY <1>6, <2>1, DisjointUnionSize
  <2>3. /\ free[w] = Concurrency - Cardinality(out[w]) /\ Cardinality(more[w]) <= free[w]
        /\ free2[w] = free[w] - Cardinality(more[w]) /\ out2[w] = out[w] \cup more[w]
    BY <1>0, <1>t
  <2>4. Concurrency \in Nat
    BY LanesAssumption
  <2> QED BY <2>1, <2>2, <2>3, <2>4
<1>10. free2 \in [Workers -> 0 .. Concurrency]
  BY <1>9, <1>t
<1>11. Cardinality(Flying(out2)) = flying2
  <2>1. IsFiniteSet(Flying(out)) /\ IsFiniteSet(Flying(more))
    BY <1>5, FiniteParts
  <2> QED BY <1>0, <1>2, <1>4, <1>t, <2>1, DisjointUnionSize
<1> QED
  BY <1>0, <1>4, <1>7, <1>8, <1>9, <1>10, <1>11 DEF Balanced

(* p is answered by w.                                                       *)
Answered(w, p, out, arr, free, out2, arr2, free2) ==
  /\ out2 = [out EXCEPT ![w] = @ \ {p}]
  /\ arr2 = [arr EXCEPT ![p[1]] = @ + 1]
  /\ free2 = [free EXCEPT ![w] = @ + 1]

(* The answer for p takes it off them.                                       *)
LEMMA BooksAnswer ==
  ASSUME NEW out, NEW cur, NEW arr, NEW free, NEW flying, NEW count,
         Balanced(out, cur, arr, free, flying, count),
         NEW w \in Workers, NEW p \in out[w],
         NEW out2, NEW arr2, NEW free2, Answered(w, p, out, arr, free, out2, arr2, free2)
  PROVE  Balanced(out2, cur, arr2, free2, flying - 1, count + 1)
<1>a. /\ out2 = [out EXCEPT ![w] = @ \ {p}]
      /\ arr2 = [arr EXCEPT ![p[1]] = @ + 1]
      /\ free2 = [free EXCEPT ![w] = @ + 1]
  BY DEF Answered
<1>0. /\ out \in [Workers -> SUBSET AllParts]
      /\ \A v, x \in Workers : v # x => out[v] \cap out[x] = {}
      /\ Flying(out) \subseteq Given(cur)
      /\ cur \in [Keys -> Nat] /\ arr \in [Keys -> Nat]
      /\ \A k \in Keys : /\ cur[k] <= Parts[k]
                         /\ cur[k] = arr[k] + Cardinality(FlyingOf(out, k))
      /\ free \in [Workers -> 0 .. Concurrency]
      /\ \A v \in Workers : free[v] = Concurrency - Cardinality(out[v])
      /\ flying = Cardinality(Flying(out))
      /\ count = Cardinality(Given(cur) \ Flying(out))
  BY DEF Balanced
<1>1. /\ p \in AllParts /\ p[1] \in Keys
      /\ \A v \in Workers : v # w => p \notin out[v]
  <2>1. p \in AllParts
    BY <1>0
  <2> QED BY <1>0, <2>1, PartShape
<1>2. out2 \in [Workers -> SUBSET AllParts] /\ out2[w] = out[w] \ {p}
      /\ \A v \in Workers : v # w => out2[v] = out[v]
  BY <1>0, <1>a
<1>3. Flying(out2) = Flying(out) \ {p} /\ p \in Flying(out)
  <2>1. p \in Flying(out)
    BY <1>1 DEF Flying
  <2>2. \A q : q \in Flying(out2) <=> q \in Flying(out) \ {p}
    BY <1>1, <1>2 DEF Flying
  <2> QED BY <2>1, <2>2
<1>4. \A v, x \in Workers : v # x => out2[v] \cap out2[x] = {}
  <2>1. \A v \in Workers : out2[v] \subseteq out[v]
    BY <1>2
  <2> QED BY <1>0, <2>1
<1>5. Flying(out2) \subseteq Given(cur) /\ Flying(out) \subseteq AllParts
  BY <1>0, <1>3 DEF Flying
<1>6. IsFiniteSet(Flying(out)) /\ Cardinality(Flying(out2)) = flying - 1
  <2>1. IsFiniteSet(Flying(out))
    BY <1>5, FiniteParts
  <2> QED BY <1>0, <1>3, <2>1, RemovedSize
<1>7. ASSUME NEW k \in Keys
      PROVE  cur[k] = arr2[k] + Cardinality(FlyingOf(out2, k))
  <2>1. IsFiniteSet(FlyingOf(out, k)) /\ Cardinality(FlyingOf(out, k)) \in Nat
    BY <1>5, FiniteParts DEF FlyingOf
  <2>2. cur[k] = arr[k] + Cardinality(FlyingOf(out, k)) /\ arr[k] \in Nat
    BY <1>0
  <2>3. CASE k = p[1]
    <3>1. FlyingOf(out2, k) = FlyingOf(out, k) \ {p} /\ p \in FlyingOf(out, k)
      BY <1>3, <2>3 DEF FlyingOf
    <3>2. Cardinality(FlyingOf(out2, k)) = Cardinality(FlyingOf(out, k)) - 1
      BY <2>1, <3>1, RemovedSize
    <3>3. arr2[k] = arr[k] + 1
      BY <1>0, <1>a, <2>3
    <3> QED BY <2>1, <2>2, <3>2, <3>3
  <2>4. CASE k # p[1]
    <3>1. FlyingOf(out2, k) = FlyingOf(out, k)
      BY <1>3, <2>4 DEF FlyingOf
    <3>2. arr2[k] = arr[k]
      BY <1>0, <1>a, <2>4
    <3> QED BY <2>2, <3>1, <3>2
  <2> QED BY <2>3, <2>4
<1>8. arr2 \in [Keys -> Nat]
  BY <1>0, <1>1, <1>a
<1>9. ASSUME NEW v \in Workers
      PROVE  free2[v] \in 0 .. Concurrency /\ free2[v] = Concurrency - Cardinality(out2[v])
  <2>1. IsFiniteSet(out[v]) /\ Cardinality(out[v]) \in Nat
    BY <1>0, FiniteParts
  <2>2. free[v] = Concurrency - Cardinality(out[v]) /\ free[v] \in 0 .. Concurrency
    BY <1>0
  <2>3. Concurrency \in Nat
    BY LanesAssumption
  <2>4. CASE v = w
    <3>1. /\ Cardinality(out2[v]) = Cardinality(out[v]) - 1
          /\ Cardinality(out2[v]) \in Nat
      BY <1>2, <2>1, <2>4, RemovedSize
    <3>2. free2[v] = free[v] + 1
      BY <1>0, <1>a, <2>4
    <3> QED BY <2>1, <2>2, <2>3, <3>1, <3>2
  <2>5. CASE v # w
    <3>1. free2[v] = free[v] /\ out2[v] = out[v]
      BY <1>0, <1>2, <1>a, <2>5
    <3> QED BY <2>2, <3>1
  <2> QED BY <2>4, <2>5
<1>10. free2 \in [Workers -> 0 .. Concurrency]
  <2>1. DOMAIN free2 = Workers /\ free2 = [v \in Workers |-> free2[v]]
    BY <1>0, <1>a
  <2> QED BY <1>9, <2>1
<1>11. Cardinality(Given(cur) \ Flying(out2)) = count + 1
  <2> DEFINE S == Given(cur) \ Flying(out)
  <2>1. Given(cur) \ Flying(out2) = S \cup {p} /\ p \notin S
    BY <1>0, <1>3
  <2>2. IsFiniteSet(S)
    BY FiniteParts DEF Given
  <2>3. Cardinality(S \cup {p}) = Cardinality(S) + 1
    <3> HIDE DEF S
    <3> QED BY <2>1, <2>2, FS_AddElement
  <2> QED BY <1>0, <2>1, <2>3
<1> QED
  BY <1>0, <1>2, <1>4, <1>5, <1>6, <1>7, <1>8, <1>9, <1>10, <1>11 DEF Balanced

(* What the books say of the bounds, and of objects with all answers.        *)
LEMMA BooksFacts ==
  ASSUME NEW out, NEW cur, NEW arr, NEW free, NEW flying, NEW count,
         Balanced(out, cur, arr, free, flying, count)
  PROVE  /\ flying \in 0 .. NWorkers * Concurrency
         /\ count \in 0 .. Cardinality(AllParts)
         /\ \A p \in Flying(out) : arr[p[1]] < cur[p[1]]
         /\ \A k \in Keys : arr[k] <= cur[k]
         /\ \A k \in Keys : arr[k] = Parts[k] => cur[k] = Parts[k] /\ FlyingOf(out, k) = {}
         /\ (\A k \in Keys : arr[k] = Parts[k]) =>
              /\ \A w \in Workers : out[w] = {}
              /\ count = Cardinality(AllParts)
<1>0. /\ out \in [Workers -> SUBSET AllParts]
      /\ \A v, x \in Workers : v # x => out[v] \cap out[x] = {}
      /\ Flying(out) \subseteq Given(cur)
      /\ cur \in [Keys -> Nat] /\ arr \in [Keys -> Nat]
      /\ \A k \in Keys : /\ cur[k] <= Parts[k]
                         /\ cur[k] = arr[k] + Cardinality(FlyingOf(out, k))
      /\ free \in [Workers -> 0 .. Concurrency]
      /\ \A v \in Workers : free[v] = Concurrency - Cardinality(out[v])
      /\ flying = Cardinality(Flying(out))
      /\ count = Cardinality(Given(cur) \ Flying(out))
  BY DEF Balanced
<1>1. Flying(out) \subseteq AllParts /\ \A k : FlyingOf(out, k) \subseteq AllParts
  BY DEF Flying, FlyingOf
<1>2. flying \in 0 .. NWorkers * Concurrency
  <2> DEFINE tag == [p \in Flying(out) |-> CHOOSE w \in Workers : p \in out[w]]
             Tagged(w) == {p \in Flying(out) : tag[p] = w}
  <2>1. \A p \in Flying(out) : tag[p] \in Workers /\ p \in out[tag[p]]
    BY DEF Flying
  <2>2. tag \in [Flying(out) -> Workers]
    BY <2>1
  <2>3. Concurrency \in Nat
    BY LanesAssumption
  <2>4. ASSUME NEW w \in Workers
        PROVE  IsFiniteSet(Tagged(w)) /\ Cardinality(Tagged(w)) <= Concurrency
    <3>1. Tagged(w) \subseteq out[w]
      BY <2>1
    <3>2. IsFiniteSet(out[w]) /\ Cardinality(out[w]) \in Nat
      BY <1>0, FiniteParts
    <3>3. /\ IsFiniteSet(Tagged(w)) /\ Cardinality(Tagged(w)) \in Nat
          /\ Cardinality(Tagged(w)) <= Cardinality(out[w])
      <4> HIDE DEF Tagged
      <4> QED BY <3>1, <3>2, FS_Subset, FS_CardinalityType
    <3>4. free[w] = Concurrency - Cardinality(out[w]) /\ free[w] \in 0 .. Concurrency
      BY <1>0
    <3> HIDE DEF Tagged
    <3> QED BY <2>3, <3>2, <3>3, <3>4
  <2>5. Cardinality(Flying(out)) <= Cardinality(Workers) * Concurrency
    <3> HIDE DEF tag
    <3> QED BY <2>2, <2>3, <2>4, FiniteWorkers, TaggedSize
  <2>6. Cardinality(Flying(out)) \in Nat
    BY <1>1, FiniteParts
  <2>7. NWorkers * Concurrency \in Int
    BY <2>3, FiniteWorkers
  <2> QED BY <1>0, <2>5, <2>6, <2>7, FiniteWorkers
<1>3. count \in 0 .. Cardinality(AllParts)
  <2>1. Given(cur) \ Flying(out) \subseteq AllParts
    BY DEF Given
  <2> QED BY <1>0, <2>1, FiniteParts
<1>4. \A k \in Keys : arr[k] <= cur[k]
  <2> SUFFICES ASSUME NEW k \in Keys
               PROVE  arr[k] <= cur[k]
    OBVIOUS
  <2>1. Cardinality(FlyingOf(out, k)) \in Nat
    BY <1>1, FiniteParts
  <2> QED BY <1>0, <2>1
<1>5. ASSUME NEW k \in Keys, arr[k] = Parts[k]
      PROVE  cur[k] = Parts[k] /\ FlyingOf(out, k) = {}
  <2>1. /\ Cardinality(FlyingOf(out, k)) \in Nat
        /\ Cardinality(FlyingOf(out, k)) = 0 => FlyingOf(out, k) = {}
    BY <1>1, FiniteParts
  <2>2. cur[k] = arr[k] + Cardinality(FlyingOf(out, k)) /\ cur[k] <= Parts[k]
        /\ arr[k] \in Nat
    BY <1>0
  <2> QED BY <1>5, <2>1, <2>2
<1>6. ASSUME NEW p \in Flying(out)
      PROVE  arr[p[1]] < cur[p[1]]
  <2>1. p[1] \in Keys /\ p \in FlyingOf(out, p[1])
    BY <1>1, PartShape DEF FlyingOf
  <2>2. /\ Cardinality(FlyingOf(out, p[1])) \in Nat
        /\ Cardinality(FlyingOf(out, p[1])) # 0
    BY <1>1, <2>1, FiniteParts
  <2>3. cur[p[1]] = arr[p[1]] + Cardinality(FlyingOf(out, p[1])) /\ arr[p[1]] \in Nat
    BY <1>0, <2>1
  <2> QED BY <2>2, <2>3
<1>7. ASSUME \A k \in Keys : arr[k] = Parts[k]
      PROVE  (\A w \in Workers : out[w] = {}) /\ count = Cardinality(AllParts)
  <2>1. Flying(out) = {}
    <3> SUFFICES ASSUME NEW p \in Flying(out)
                 PROVE  FALSE
      OBVIOUS
    <3>1. p[1] \in Keys /\ p \in FlyingOf(out, p[1])
      BY <1>1, PartShape DEF FlyingOf
    <3> QED BY <1>5, <1>7, <3>1
  <2>2. \A w \in Workers : out[w] \subseteq Flying(out)
    BY <1>0 DEF Flying
  <2>3. Given(cur) = AllParts
    <3> SUFFICES ASSUME NEW p \in AllParts
                 PROVE  p[2] <= cur[p[1]]
      BY DEF Given
    <3> QED BY <1>5, <1>7, PartShape
  <2>4. Given(cur) \ Flying(out) = AllParts
    BY <2>1, <2>3
  <2> QED BY <1>0, <2>1, <2>2, <2>4
<1> QED
  BY <1>2, <1>3, <1>4, <1>5, <1>6, <1>7

-----------------------------------------------------------------------------
(* What a call of _dispatchMore does.                                        *)

(* The turns of the round robin number the waiting parts; of one object the  *)
(* part of the lower number comes first.                                     *)
LEMMA TurnsFacts ==
  ASSUME NEW ACTION order, order \in Seq(Keys), cursor \in [Keys -> Nat], rr \in Nat
  PROVE  LET count == Cardinality(Waiting(order))
             look  == [p \in Waiting(order) |-> Look(order, rr, cursor, p)]
             turns == [i \in 1 .. count |->
                         CHOOSE p \in Waiting(order) : Cardinality(Earlier(order, p)) = i - 1]
         IN  /\ Waiting(order) \subseteq AllParts /\ count \in Nat
             /\ look \in [Waiting(order) -> Nat]
             /\ turns \in [1 .. count -> Waiting(order)]
             /\ \A i, j \in 1 .. count : turns[i] = turns[j] => i = j
             /\ \A p \in Waiting(order) : \E i \in 1 .. count : turns[i] = p
             /\ \A i, j \in 1 .. count : look[turns[i]] < look[turns[j]] => i < j
             /\ \A p, q \in Waiting(order) :
                  p[1] = q[1] /\ p[2] < q[2] => look[p] < look[q]
<1> DEFINE W == Waiting(order)
           count == Cardinality(W)
           look == [p \in W |-> Look(order, rr, cursor, p)]
           before == [p \in W |-> {q \in W : look[q] < look[p]}]
           turns == [i \in 1 .. count |-> CHOOSE p \in W : Cardinality(Earlier(order, p)) = i - 1]
<1>1. W \subseteq AllParts /\ IsFiniteSet(W) /\ count \in Nat
  <2>1. W \subseteq AllParts
    BY DEF Waiting
  <2> QED BY <2>1, FiniteParts
<1>2. \A p \in W : /\ p \in Keys \X Nat /\ p[2] > cursor[p[1]]
                   /\ \E i \in 1 .. Len(order) : order[i] = p[1]
  <2> SUFFICES ASSUME NEW p \in W
               PROVE  /\ p \in Keys \X Nat /\ p[2] > cursor[p[1]]
                      /\ \E i \in 1 .. Len(order) : order[i] = p[1]
    OBVIOUS
  <2>1. /\ p \in AllParts /\ p[2] > cursor[p[1]]
        /\ \E i \in 1 .. Len(order) : order[i] = p[1]
    BY DEF Waiting
  <2>2. p = <<p[1], p[2]>> /\ p[1] \in Keys /\ p[2] \in Nat
    BY <2>1, PartShape
  <2>3. p \in Keys \X Nat
    BY <2>2
  <2> QED BY <2>1, <2>3
<1> HIDE DEF W
<1>3. /\ \A p \in W : Look(order, rr, cursor, p) \in Nat
      /\ \A p, q \in W : Look(order, rr, cursor, p) = Look(order, rr, cursor, q) => p = q
      /\ \A p, q \in W : p[1] = q[1] => (Look(order, rr, cursor, p) < Look(order, rr, cursor, q)
                                          <=> p[2] < q[2])
  BY <1>2, LooksApart
<1>4. /\ look \in [W -> Nat]
      /\ \A p, q \in W : look[p] = look[q] => p = q
      /\ \A p, q \in W : p[1] = q[1] /\ p[2] < q[2] => look[p] < look[q]
  BY <1>3
<1>5. \A p \in W : Earlier(order, p) = before[p]
  BY DEF Earlier, W
<1>7. /\ before \in [W -> SUBSET W]
      /\ \A x \in W : x \notin before[x]
      /\ \A x, y \in W : y \in before[x] => before[y] \subseteq before[x]
      /\ \A x, y \in W : x # y => x \in before[y] \/ y \in before[x]
      /\ \A x, y \in W : look[y] < look[x] => y \in before[x]
  <2> HIDE DEF look
  <2> QED BY <1>4
<1> HIDE DEF before, look
<1>8. /\ \A x, y \in W : y \in before[x] => Cardinality(before[y]) < Cardinality(before[x])
      /\ \A x, y \in W : Cardinality(before[x]) = Cardinality(before[y]) => x = y
      /\ \A x \in W : Cardinality(before[x]) \in 0 .. count - 1
      /\ \A i \in 0 .. count - 1 : \E x \in W : Cardinality(before[x]) = i
  BY <1>1, <1>7, Ranking
<1>9. \A i \in 1 .. count : turns[i] \in W /\ Cardinality(before[turns[i]]) = i - 1
  <2> SUFFICES ASSUME NEW i \in 1 .. count
               PROVE  turns[i] \in W /\ Cardinality(before[turns[i]]) = i - 1
    OBVIOUS
  <2>1. i - 1 \in 0 .. count - 1
    BY <1>1
  <2>2. \E p \in W : Cardinality(Earlier(order, p)) = i - 1
    BY <1>5, <1>8, <2>1
  <2>3. turns[i] = CHOOSE p \in W : Cardinality(Earlier(order, p)) = i - 1
    OBVIOUS
  <2> HIDE DEF turns
  <2>4. turns[i] \in W /\ Cardinality(Earlier(order, turns[i])) = i - 1
    BY <2>2, <2>3
  <2> QED BY <1>5, <2>4
<1>10. turns \in [1 .. count -> W]
  BY <1>9
<1> HIDE DEF turns
<1>11. \A i, j \in 1 .. count : turns[i] = turns[j] => i = j
  <2> SUFFICES ASSUME NEW i \in 1 .. count, NEW j \in 1 .. count, turns[i] = turns[j]
               PROVE  i = j
    OBVIOUS
  <2>1. i - 1 = j - 1
    BY <1>9
  <2> QED BY <1>1, <2>1
<1>12. \A p \in W : \E i \in 1 .. count : turns[i] = p
  <2> SUFFICES ASSUME NEW p \in W
               PROVE  \E i \in 1 .. count : turns[i] = p
    OBVIOUS
  <2> DEFINE i == Cardinality(before[p]) + 1
  <2>1. i \in 1 .. count /\ i - 1 = Cardinality(before[p])
    BY <1>1, <1>8
  <2> HIDE DEF i
  <2> QED BY <1>8, <1>9, <2>1
<1>13. \A i, j \in 1 .. count : look[turns[i]] < look[turns[j]] => i < j
  <2> SUFFICES ASSUME NEW i \in 1 .. count, NEW j \in 1 .. count,
                      look[turns[i]] < look[turns[j]]
               PROVE  i < j
    OBVIOUS
  <2>1. Cardinality(before[turns[i]]) < Cardinality(before[turns[j]])
    BY <1>7, <1>8, <1>9
  <2>2. i - 1 < j - 1
    BY <1>9, <2>1
  <2> QED BY <1>1, <2>2
<1> QED
  BY <1>1, <1>4, <1>10, <1>11, <1>12, <1>13 DEF W, look, turns

(* Of object k, what is gone are its next parts, and mine are these.         *)
NextOf(k, low, gone, mine) ==
  /\ Cardinality(mine) \in 0 .. Parts[k] - low
  /\ \A n \in 1 .. Parts[k] :
       <<k, n>> \in gone <=> low < n /\ n <= low + Cardinality(mine)

(* Of the parts W, those of the first turns are gone.                        *)
FirstTurns(W, count, turns, look, placed, gone) ==
  /\ W \subseteq AllParts /\ count \in Nat /\ placed \in 0 .. count
  /\ turns \in [1 .. count -> W] /\ look \in [W -> Nat]
  /\ \A p \in W : \E i \in 1 .. count : turns[i] = p
  /\ \A i, j \in 1 .. count : look[turns[i]] < look[turns[j]] => i < j
  /\ \A p, q \in W : p[1] = q[1] /\ p[2] < q[2] => look[p] < look[q]
  /\ \A p : p \in gone <=> \E i \in 1 .. placed : turns[i] = p

(* The first turns of an object are its next parts.                          *)
LEMMA NextParts ==
  ASSUME NEW W, NEW count, NEW turns, NEW look, NEW placed, NEW gone,
         FirstTurns(W, count, turns, look, placed, gone),
         NEW from \in [Keys -> Nat], NEW k \in Keys, from[k] <= Parts[k],
         \A p \in W : p[2] > from[p[1]],
         \A n \in 1 .. Parts[k] : n > from[k] => <<k, n>> \in W,
         NEW mine, \A p : p \in mine <=> p \in gone /\ p[1] = k
  PROVE  NextOf(k, from[k], gone, mine)
<1>0. /\ W \subseteq AllParts /\ count \in Nat /\ placed \in 0 .. count
      /\ turns \in [1 .. count -> W] /\ look \in [W -> Nat]
      /\ \A p \in W : \E i \in 1 .. count : turns[i] = p
      /\ \A i, j \in 1 .. count : look[turns[i]] < look[turns[j]] => i < j
      /\ \A p, q \in W : p[1] = q[1] /\ p[2] < q[2] => look[p] < look[q]
      /\ \A p : p \in gone <=> \E i \in 1 .. placed : turns[i] = p
  BY DEF FirstTurns
<1> DEFINE D == {d \in 1 .. Parts[k] - from[k] : <<k, from[k] + d>> \in gone}
           c == Cardinality(D)
<1>1. /\ from[k] \in Nat /\ Parts[k] \in Nat /\ Parts[k] - from[k] \in Nat
      /\ placed \in Nat /\ placed <= count /\ gone \subseteq W
  <2>1. Parts[k] \in Nat
    BY PartShape
  <2>2. placed \in Nat /\ placed <= count /\ \A i \in 1 .. placed : i \in 1 .. count
    BY <1>0
  <2>3. gone \subseteq W
    BY <1>0, <2>2
  <2> QED BY <2>1, <2>2, <2>3
<1>2. ASSUME NEW d \in D, NEW j \in 1 .. d
      PROVE  j \in D
  <2> DEFINE p == <<k, from[k] + d>>
             q == <<k, from[k] + j>>
  <2>1. d \in 1 .. Parts[k] - from[k] /\ p \in gone /\ p \in W
    BY <1>1
  <2> HIDE DEF D, p, q
  <2>a. d \in Nat /\ d <= Parts[k] - from[k] /\ j \in Nat /\ 1 <= j /\ j <= d
    BY <1>1, <2>1
  <2>2. j \in 1 .. Parts[k] - from[k] /\ from[k] + j \in 1 .. Parts[k] /\ from[k] + j > from[k]
        /\ j <= d
    BY <1>1, <2>a
  <2>3. q \in W
    BY <2>1, <2>2 DEF p, q
  <2>4. CASE j = d
    BY <2>4
  <2>5. CASE j # d
    <3>1. p[1] = q[1] /\ q[2] < p[2]
      BY <1>1, <2>1, <2>2, <2>5 DEF p, q
    <3>2. look[q] < look[p]
      BY <1>0, <2>1, <2>3, <3>1
    <3>3. PICK a \in 1 .. placed : turns[a] = p
      BY <1>0, <2>1
    <3>4. PICK b \in 1 .. count : turns[b] = q
      BY <1>0, <2>3
    <3>5. b < a
      BY <1>0, <1>1, <3>2, <3>3, <3>4
    <3>6. b \in 1 .. placed
      BY <1>1, <3>3, <3>4, <3>5
    <3>7. q \in gone
      BY <1>0, <3>4, <3>6
    <3> QED BY <2>2, <3>7 DEF q, D
  <2> QED BY <2>4, <2>5
<1>3. c \in 0 .. Parts[k] - from[k] /\ D = 1 .. c
  <2>1. D \in SUBSET (1 .. Parts[k] - from[k])
    OBVIOUS
  <2> HIDE DEF D
  <2> QED BY <1>1, <1>2, <2>1, InitialSegment
<1>4. ASSUME NEW n \in 1 .. Parts[k]
      PROVE  <<k, n>> \in gone <=> from[k] < n /\ n <= from[k] + c
  <2> DEFINE d == n - from[k]
  <2>1. d \in Int /\ n = from[k] + d
    BY <1>1
  <2>2. <<k, n>> \in gone => from[k] < n
    BY <1>1
  <2>3. from[k] < n => d \in 1 .. Parts[k] - from[k]
    BY <1>1
  <2>4. from[k] < n => (<<k, n>> \in gone <=> d \in D)
    BY <2>1, <2>3
  <2>5. from[k] < n => (d \in D <=> d <= c)
    <3> HIDE DEF D
    <3> QED BY <1>3, <2>1, <2>3
  <2>6. d <= c <=> n <= from[k] + c
    <3> HIDE DEF c
    <3> QED BY <1>1, <1>3
  <2> HIDE DEF d, c, D
  <2> QED BY <2>2, <2>4, <2>5, <2>6
<1>5. mine = Run(k, from[k] + 1, c)
  <2>1. ASSUME NEW p \in mine
        PROVE  p \in Run(k, from[k] + 1, c)
    <3>0. p \in gone /\ p[1] = k /\ p \in AllParts
      BY <1>0, <1>1
    <3>1. p \in AllParts /\ p = <<k, p[2]>> /\ p[2] \in 1 .. Parts[k] /\ p \in gone
      BY <3>0, PartShape
    <3>2. from[k] < p[2] /\ p[2] <= from[k] + c
      BY <1>4, <3>1
    <3> DEFINE i == p[2] - from[k] - 1
    <3> HIDE DEF c
    <3>3. i \in 0 .. c - 1 /\ p[2] = from[k] + 1 + i
      BY ONLY <1>1, <1>3, <3>1, <3>2
    <3> HIDE DEF i
    <3> QED BY <3>1, <3>3 DEF Run
  <2>2. ASSUME NEW p \in Run(k, from[k] + 1, c)
        PROVE  p \in mine
    <3>1. PICK i \in 0 .. c - 1 : p = <<k, from[k] + 1 + i>>
      BY DEF Run
    <3>2. /\ from[k] + 1 + i \in 1 .. Parts[k] /\ from[k] < from[k] + 1 + i
          /\ from[k] + 1 + i <= from[k] + c
      <4> HIDE DEF c
      <4> QED BY <1>1, <1>3
    <3> QED BY <1>4, <3>1, <3>2
  <2> QED BY <2>1, <2>2
<1>6. Cardinality(mine) = c
  <2>1. from[k] + 1 \in Int /\ c \in Nat
    BY <1>1, <1>3
  <2> HIDE DEF c
  <2> QED BY <1>5, <2>1, RunSize
<1> HIDE DEF c
<1>7. /\ Cardinality(mine) \in 0 .. Parts[k] - from[k]
      /\ \A n \in 1 .. Parts[k] :
           <<k, n>> \in gone <=> from[k] < n /\ n <= from[k] + Cardinality(mine)
  BY <1>3, <1>4, <1>6
<1> QED
  BY <1>7 DEF NextOf

(* more[w] are the parts that w is sent, by the messages sent[w].            *)
Dispatched(order, free, flying, more, sent) ==
  /\ \A v, w \in Workers : v # w => more[v] \cap more[w] = {}
  /\ \A w \in Workers : /\ Cardinality(more[w]) <= free[w]
                        /\ Sent(sent[w], "assign") = more[w] /\ Once(sent[w], "assign")
  /\ cursor' \in [Keys -> Nat]
  /\ \A k \in Keys : cursor[k] <= cursor'[k] /\ cursor'[k] <= Parts[k]
  /\ \A k \in Keys : (\A i \in 1 .. Len(order) : order[i] # k) => cursor'[k] = cursor[k]
  /\ Flying(more) = Given(cursor') \ Given(cursor)
  /\ inbox' = [w \in Workers |-> inbox[w] \o sent[w]]
  /\ freeLanes' = [w \in Workers |-> free[w] - Cardinality(more[w])]
  /\ totalInFlight' = flying + Cardinality(Flying(more))
  /\ rr' \in 0 .. RRModulus - 1

LEMMA DispatchEffect ==
  ASSUME NEW ACTION order, NEW STATE free, NEW STATE flying,
         order \in Seq(Keys), rr \in Nat, free \in [Workers -> Nat],
         cursor \in [Keys -> Nat], \A k \in Keys : cursor[k] <= Parts[k],
         DispatchMore(order, free, flying)
  PROVE  \E more \in [Workers -> SUBSET AllParts],
            sent \in [Workers -> Seq({"assign"} \X AllParts)] :
           Dispatched(order, free, flying, more, sent)
<1> DEFINE W == Waiting(order)
           count == Cardinality(W)
           look == [p \in W |-> Look(order, rr, cursor, p)]
           turns == [i \in 1 .. count |-> CHOOSE p \in W : Cardinality(Earlier(order, p)) = i - 1]
           placed == Placed(free, count)
           gone == {turns[i] : i \in 1 .. placed}
           assigns == [i \in 1 .. count |-> <<"assign", turns[i]>>]
           given == [w \in Workers |-> Shares(free, assigns, w)]
           Slot(w, i) == SlotsBefore(free, w, i) + 1
           size == [k \in Keys |-> Cardinality({p \in gone : p[1] = k})]
<1>1. /\ W \subseteq AllParts /\ count \in Nat
      /\ look \in [W -> Nat]
      /\ turns \in [1 .. count -> W]
      /\ \A i, j \in 1 .. count : turns[i] = turns[j] => i = j
      /\ \A p \in W : \E i \in 1 .. count : turns[i] = p
      /\ \A i, j \in 1 .. count : look[turns[i]] < look[turns[j]] => i < j
      /\ \A p, q \in W : p[1] = q[1] /\ p[2] < q[2] => look[p] < look[q]
  BY TurnsFacts
<1>2. \E looks \in {CHOOSE n \in Looks(order, rr, cursor, gone) : TRUE}, dry \in BOOLEAN :
        /\ inbox' = [w \in Workers |-> inbox[w] \o given[w]]
        /\ freeLanes' = [w \in Workers |-> free[w] - Len(given[w])]
        /\ totalInFlight' = flying + placed
        /\ cursor' = [k \in Keys |-> cursor[k] + Cardinality({p \in gone : p[1] = k})]
        /\ rr' = (rr + looks + IF dry THEN Len(order) ELSE 0) % RRModulus
  BY Zenon DEF DispatchMore
<1>3. \A p : p \in W <=> /\ p \in AllParts /\ p[2] > cursor[p[1]]
                         /\ \E i \in 1 .. Len(order) : order[i] = p[1]
  BY DEF Waiting
<1>a. \A p \in W : look[p] = Look(order, rr, cursor, p)
  OBVIOUS
<1> HIDE DEF W, look, turns
<1>4. assigns \in [1 .. count -> {"assign"} \X W]
  BY <1>1
<1>5. /\ placed \in 0 .. count
      /\ \A w \in Workers : /\ given[w] \in Seq({"assign"} \X W)
                            /\ Len(given[w]) \in 0 .. free[w]
      /\ \A w \in Workers : \A i \in 1 .. Len(given[w]) :
           Slot(w, i) \in 1 .. placed /\ given[w][i] = assigns[Slot(w, i)]
      /\ \A v, w \in Workers : \A i \in 1 .. Len(given[v]) : \A j \in 1 .. Len(given[w]) :
           Slot(v, i) = Slot(w, j) => v = w /\ i = j
      /\ \A j \in 1 .. placed : \E w \in Workers : \E i \in 1 .. Len(given[w]) :
           Slot(w, i) = j
  <2>1. free \in [1 .. NWorkers -> Nat] /\ NWorkers \in Nat
    BY FiniteWorkers DEF Workers
  <2>2. \A w \in 1 .. NWorkers : given[w] = Shares(free, assigns, w)
    BY DEF Workers
  <2> HIDE DEF assigns, given, count, placed
  <2>3. DealtOut(NWorkers, free, {"assign"} \X W, count, assigns, given)
    BY <1>1, <1>4, <2>1, <2>2, SharesDealt
  <2> QED BY <2>3 DEF DealtOut, Workers, placed
<1> HIDE DEF given, placed
<1>b. \A j \in 1 .. placed : j \in 1 .. count
  BY <1>1, <1>5
<1>c. \A p : p \in gone <=> \E j \in 1 .. placed : turns[j] = p
  OBVIOUS
<1> HIDE DEF gone, count
<1>d. FirstTurns(W, count, turns, look, placed, gone)
  BY <1>1, <1>5, <1>c DEF FirstTurns
<1>6. gone \subseteq W /\ IsFiniteSet(gone) /\ Cardinality(gone) = placed
  <2>1. placed \in Nat
    BY <1>1, <1>5
  <2>2. \A i, j \in 1 .. placed : turns[i] = turns[j] => i = j
    BY <1>1, <1>b
  <2>3. gone \subseteq W
    BY <1>1, <1>b, <1>c
  <2> QED BY <1>c, <2>1, <2>2, <2>3, ImageSize
<1>7. \A w \in Workers : \A i \in 1 .. Len(given[w]) :
        /\ Slot(w, i) \in 1 .. placed /\ given[w][i] = <<"assign", turns[Slot(w, i)]>>
        /\ given[w][i][1] = "assign" /\ given[w][i][2] = turns[Slot(w, i)]
        /\ given[w][i][2] \in gone
  <2> SUFFICES ASSUME NEW w \in Workers, NEW i \in 1 .. Len(given[w])
               PROVE  /\ Slot(w, i) \in 1 .. placed
                      /\ given[w][i] = <<"assign", turns[Slot(w, i)]>>
                      /\ given[w][i][1] = "assign"
                      /\ given[w][i][2] = turns[Slot(w, i)]
                      /\ given[w][i][2] \in gone
    OBVIOUS
  <2>1. Slot(w, i) \in 1 .. placed /\ given[w][i] = assigns[Slot(w, i)]
    BY <1>5
  <2> HIDE DEF Slot
  <2>2. Slot(w, i) \in 1 .. count
    BY <1>b, <2>1
  <2>3. assigns[Slot(w, i)] = <<"assign", turns[Slot(w, i)]>>
    BY <2>2
  <2> QED BY <1>c, <2>1, <2>3
<1> HIDE DEF assigns
<1>8. \A v, w \in Workers : \A i \in 1 .. Len(given[v]) : \A j \in 1 .. Len(given[w]) :
        given[v][i][2] = given[w][j][2] => v = w /\ i = j
  <2> SUFFICES ASSUME NEW v \in Workers, NEW w \in Workers,
                      NEW i \in 1 .. Len(given[v]), NEW j \in 1 .. Len(given[w]),
                      given[v][i][2] = given[w][j][2]
               PROVE  v = w /\ i = j
    OBVIOUS
  <2>1. turns[Slot(v, i)] = turns[Slot(w, j)]
    BY <1>7
  <2>2. Slot(v, i) \in 1 .. placed /\ Slot(w, j) \in 1 .. placed
    BY <1>7
  <2> HIDE DEF Slot
  <2>3. Slot(v, i) \in 1 .. count /\ Slot(w, j) \in 1 .. count
    BY <1>b, <2>2
  <2>4. Slot(v, i) = Slot(w, j)
    BY <1>1, <2>1, <2>3
  <2> QED BY <1>5, <2>4
<1> DEFINE more == [w \in Workers |-> Sent(given[w], "assign")]
<1>9. \A w \in Workers : \A p : p \in more[w] <=> \E i \in 1 .. Len(given[w]) : given[w][i][2] = p
  <2> HIDE DEF Slot
  <2> QED BY <1>7 DEF Sent
<1>10. /\ \A w \in Workers : more[w] \subseteq gone
       /\ more \in [Workers -> SUBSET AllParts]
  <2>1. \A w \in Workers : \A i \in 1 .. Len(given[w]) : given[w][i][2] \in gone
    BY <1>7
  <2>2. \A w \in Workers : more[w] \subseteq gone
    BY <1>9, <2>1
  <2>3. \A w \in Workers : more[w] \in SUBSET AllParts
    BY <1>1, <1>6, <2>2
  <2> QED BY <2>2, <2>3
<1>11. \A v, w \in Workers : v # w => more[v] \cap more[w] = {}
  <2> SUFFICES ASSUME NEW v \in Workers, NEW w \in Workers, NEW p \in more[v] \cap more[w]
               PROVE  v = w
    OBVIOUS
  <2>1. p \in more[v] /\ p \in more[w]
    OBVIOUS
  <2> HIDE DEF more
  <2>2. PICK i \in 1 .. Len(given[v]) : given[v][i][2] = p
    BY <1>9, <2>1
  <2>3. PICK j \in 1 .. Len(given[w]) : given[w][j][2] = p
    BY <1>9, <2>1
  <2> QED BY <1>8, <2>2, <2>3
<1>12. ASSUME NEW w \in Workers
       PROVE  /\ Once(given[w], "assign") /\ Sent(given[w], "assign") = more[w]
              /\ Cardinality(more[w]) = Len(given[w])
              /\ Cardinality(more[w]) <= free[w]
              /\ given[w] \in Seq({"assign"} \X AllParts)
  <2>1. Once(given[w], "assign")
    BY <1>8 DEF Once
  <2>2. Sent(given[w], "assign") = more[w]
    OBVIOUS
  <2> DEFINE f == [i \in 1 .. Len(given[w]) |-> given[w][i][2]]
             m == Len(given[w])
  <2>3. m \in Nat /\ m <= free[w]
    <3>1. free[w] \in Nat /\ Len(given[w]) \in 0 .. free[w]
      BY <1>5
    <3> QED BY <3>1
  <2>4. \A i, j \in 1 .. m : f[i] = f[j] => i = j
    BY <1>8
  <2>5. \A p : p \in more[w] <=> \E i \in 1 .. m : f[i] = p
    BY <1>9
  <2>7. given[w] \in Seq({"assign"} \X AllParts)
    <3>1. given[w] \in Seq({"assign"} \X W)
      BY <1>5
    <3>2. {"assign"} \X W \subseteq {"assign"} \X AllParts
      BY <1>1
    <3> QED BY <3>1, <3>2
  <2>8. Cardinality(more[w]) = m
    <3> HIDE DEF f, m, more
    <3> QED BY <2>3, <2>4, <2>5, ImageSize
  <2> HIDE DEF more, f
  <2> QED BY <2>1, <2>2, <2>3, <2>7, <2>8
<1>13. Flying(more) = gone
  <2>1. ASSUME NEW p \in gone
        PROVE  \E w \in Workers : p \in more[w]
    <3>1. PICK j \in 1 .. placed : turns[j] = p
      BY <1>c
    <3>2. PICK w \in Workers : \E i \in 1 .. Len(given[w]) : Slot(w, i) = j
      BY <1>5
    <3>3. PICK i \in 1 .. Len(given[w]) : Slot(w, i) = j
      BY <3>2
    <3>4. given[w][i] = <<"assign", turns[j]>>
      BY <1>7, <3>3
    <3>5. given[w][i][2] = p
      BY <3>1, <3>4
    <3> HIDE DEF more
    <3> QED BY <1>9, <3>5
  <2> HIDE DEF more
  <2>2. gone \subseteq AllParts
    BY <1>1, <1>6
  <2> QED BY <1>10, <2>1, <2>2 DEF Flying
<1> HIDE DEF more
<1>14. ASSUME NEW k \in Keys
       PROVE  /\ cursor'[k] = cursor[k] + size[k]
              /\ size[k] \in 0 .. Parts[k] - cursor[k]
              /\ \A n \in 1 .. Parts[k] :
                   <<k, n>> \in gone <=> cursor[k] < n /\ n <= cursor[k] + size[k]
              /\ (\A i \in 1 .. Len(order) : order[i] # k) => size[k] = 0
  <2> DEFINE mine == {p \in gone : p[1] = k}
  <2>1. cursor'[k] = cursor[k] + size[k] /\ size[k] = Cardinality(mine)
    BY <1>2
  <2>2. CASE \E i \in 1 .. Len(order) : order[i] = k
    <3>1. \A p \in W : p[2] > cursor[p[1]]
      BY <1>3
    <3>2. \A n \in 1 .. Parts[k] : n > cursor[k] => <<k, n>> \in W
      BY <1>3, <2>2, PartShape
    <3>3. /\ Cardinality(mine) \in 0 .. Parts[k] - cursor[k]
          /\ \A n \in 1 .. Parts[k] :
               <<k, n>> \in gone <=> cursor[k] < n /\ n <= cursor[k] + Cardinality(mine)
      <4>1. \A p : p \in mine <=> p \in gone /\ p[1] = k
        OBVIOUS
      <4> HIDE DEF mine
      <4>2. NextOf(k, cursor[k], gone, mine)
        BY <1>d, <3>1, <3>2, <4>1, NextParts
      <4> QED BY <4>2 DEF NextOf
    <3> HIDE DEF size, mine
    <3> QED BY <2>1, <2>2, <3>3
  <2>3. CASE ~ \E i \in 1 .. Len(order) : order[i] = k
    <3>1. \A p \in gone : p[1] # k
      BY <1>3, <1>6, <2>3
    <3>2. Cardinality(mine) = 0
      <4>1. mine = {}
        BY <3>1
      <4> QED BY <4>1, FS_EmptySet
    <3>3. cursor[k] \in Nat /\ Parts[k] \in Nat /\ cursor[k] <= Parts[k]
      BY PartShape
    <3>4. \A n \in 1 .. Parts[k] : <<k, n>> \notin gone
      BY <3>1
    <3> HIDE DEF size, mine
    <3> QED BY <2>1, <3>2, <3>3, <3>4
  <2> QED BY <2>2, <2>3
<1>15. /\ cursor' \in [Keys -> Nat]
       /\ \A k \in Keys : cursor[k] <= cursor'[k] /\ cursor'[k] <= Parts[k]
       /\ \A k \in Keys : (\A i \in 1 .. Len(order) : order[i] # k) => cursor'[k] = cursor[k]
       /\ \A k \in Keys : \A n \in 1 .. Parts[k] :
            <<k, n>> \in gone <=> cursor[k] < n /\ n <= cursor'[k]
  <2> HIDE DEF size
  <2>1. ASSUME NEW k \in Keys
        PROVE  /\ cursor'[k] \in Nat
               /\ cursor[k] <= cursor'[k] /\ cursor'[k] <= Parts[k]
               /\ (\A i \in 1 .. Len(order) : order[i] # k) => cursor'[k] = cursor[k]
               /\ \A n \in 1 .. Parts[k] :
                    <<k, n>> \in gone <=> cursor[k] < n /\ n <= cursor'[k]
    <3> DEFINE c == cursor'[k]
               s == size[k]
    <3>1. /\ c = cursor[k] + s /\ s \in 0 .. Parts[k] - cursor[k]
          /\ cursor[k] \in Nat /\ Parts[k] \in Nat
          /\ \A n \in 1 .. Parts[k] :
               <<k, n>> \in gone <=> cursor[k] < n /\ n <= cursor[k] + s
          /\ (\A i \in 1 .. Len(order) : order[i] # k) => s = 0
      BY <1>14, PartShape
    <3> HIDE DEF c, s
    <3>2. /\ c \in Nat /\ cursor[k] <= c /\ c <= Parts[k]
          /\ (\A i \in 1 .. Len(order) : order[i] # k) => c = cursor[k]
          /\ \A n \in 1 .. Parts[k] : <<k, n>> \in gone <=> cursor[k] < n /\ n <= c
      BY ONLY <3>1
    <3> QED BY <3>2 DEF c
  <2>2. cursor' = [k \in Keys |-> cursor'[k]]
    BY <1>2
  <2> QED BY <2>1, <2>2
<1>16. gone = Given(cursor') \ Given(cursor)
  <2>1. gone \subseteq AllParts
    BY <1>1, <1>6
  <2>2. ASSUME NEW p \in AllParts
        PROVE  p \in gone <=> p[2] <= cursor'[p[1]] /\ ~(p[2] <= cursor[p[1]])
    <3>1. p = <<p[1], p[2]>> /\ p[1] \in Keys /\ p[2] \in 1 .. Parts[p[1]]
      BY PartShape
    <3>2. cursor[p[1]] \in Nat /\ cursor'[p[1]] \in Nat /\ Parts[p[1]] \in Nat
      BY <1>15, <3>1, PartShape
    <3>3. p \in gone <=> cursor[p[1]] < p[2] /\ p[2] <= cursor'[p[1]]
      BY <1>15, <3>1
    <3>4. cursor[p[1]] < p[2] <=> ~(p[2] <= cursor[p[1]])
      BY <3>1, <3>2
    <3> QED BY <3>3, <3>4
  <2> QED BY <2>1, <2>2 DEF Given
<1>17. rr' \in 0 .. RRModulus - 1
  <2> DEFINE looks == CHOOSE n \in Looks(order, rr, cursor, gone) : TRUE
  <2>1. looks \in Nat
    <3>1. ASSUME gone = {}
          PROVE  0 \in Looks(order, rr, cursor, gone)
      BY <3>1 DEF Looks
    <3>2. ASSUME gone # {}
          PROVE  look[turns[placed]] + 1 \in Looks(order, rr, cursor, gone)
      <4>1. placed \in 1 .. placed /\ placed \in 1 .. count
        BY <1>1, <1>5, <1>c, <3>2
      <4>2. turns[placed] \in gone /\ turns[placed] \in W
        BY <1>1, <1>c, <4>1
      <4>3. ASSUME NEW p \in gone
            PROVE  Look(order, rr, cursor, p) < look[turns[placed]] + 1
        <5>1. PICK i \in 1 .. placed : turns[i] = p
          BY <1>c
        <5>2. p \in W
          BY <1>6
        <5>3. i \in 1 .. count /\ i <= placed
          BY <1>1, <1>5, <5>1
        <5>4. look[p] \in Nat /\ look[turns[placed]] \in Nat
          BY <1>1, <4>2, <5>2
        <5>5. ~(look[turns[placed]] < look[p])
          <6>1. ~(placed < i)
            BY <4>1, <5>3
          <6> QED BY <1>1, <4>1, <5>1, <5>3, <6>1
        <5> QED BY <1>a, <5>2, <5>4, <5>5
      <4>4. look[turns[placed]] + 1 = Look(order, rr, cursor, turns[placed]) + 1
        BY <1>a, <4>2
      <4> QED BY <4>2, <4>3, <4>4 DEF Looks
    <3>3. Looks(order, rr, cursor, gone) # {}
      BY <3>1, <3>2
    <3>4. Looks(order, rr, cursor, gone) \subseteq Nat
      <4>1. \A p \in gone : Look(order, rr, cursor, p) \in Nat
        BY <1>1, <1>6, <1>a
      <4> QED BY <4>1 DEF Looks
    <3> QED BY <3>3, <3>4
  <2>2. PICK dry \in BOOLEAN :
          rr' = (rr + looks + IF dry THEN Len(order) ELSE 0) % RRModulus
    BY <1>2
  <2> HIDE DEF looks
  <2> DEFINE a == rr + looks + IF dry THEN Len(order) ELSE 0
  <2>3. a \in Int
    BY <2>1
  <2>4. RRModulus \in Nat /\ RRModulus > 0
    BY ModulusAssumption
  <2> HIDE DEF a
  <2>5. a % RRModulus \in 0 .. RRModulus - 1
    BY <2>3, <2>4, ModFacts
  <2>6. rr' = a % RRModulus
    BY <2>2 DEF a
  <2> QED BY <2>5, <2>6
<1>18. /\ inbox' = [w \in Workers |-> inbox[w] \o given[w]]
       /\ freeLanes' = [w \in Workers |-> free[w] - Cardinality(more[w])]
       /\ totalInFlight' = flying + Cardinality(Flying(more))
  <2>1. freeLanes' = [w \in Workers |-> free[w] - Len(given[w])] /\ totalInFlight' = flying + placed
        /\ inbox' = [w \in Workers |-> inbox[w] \o given[w]]
    BY <1>2
  <2>2. \A w \in Workers : Cardinality(more[w]) = Len(given[w])
    BY <1>12
  <2> QED BY <1>6, <1>13, <2>1, <2>2
<1>19. given \in [Workers -> Seq({"assign"} \X AllParts)]
  <2>1. given = [w \in Workers |-> given[w]]
    BY DEF given
  <2> QED BY <1>12, <2>1
<1>20. Dispatched(order, free, flying, more, given)
  BY <1>11, <1>12, <1>13, <1>15, <1>16, <1>17, <1>18 DEF Dispatched
<1> QED
  BY <1>10, <1>19, <1>20

-----------------------------------------------------------------------------
(* Messages that move no part and report nothing.                            *)

(* The parts do not move: what is said of their places and counts stays.     *)
LEMMA PlacesSame ==
  ASSUME InPlaces,
         inbox' \in [Workers -> Seq(InMessages)], outbox' \in [Workers -> Seq(OutMessages)],
         Unmoved(Workers, inbox, inbox', "assign"), Unmoved(Workers, outbox, outbox', "part"),
         UNCHANGED <<running, broken, dispatchInFlight>>
  PROVE  /\ InPlaces'
         /\ \A w \in Workers : Outstanding(w)' = Outstanding(w)
         /\ \A w \in Workers : Sent(inbox[w], "assign")' = Sent(inbox[w], "assign")
<1>1. \A w \in Workers : /\ Sent(inbox'[w], "assign") = Sent(inbox[w], "assign")
                         /\ Sent(outbox'[w], "part") = Sent(outbox[w], "part")
                         /\ Once(inbox[w], "assign") => Once(inbox'[w], "assign")
                         /\ Once(outbox[w], "part") => Once(outbox'[w], "part")
  BY DEF Unmoved
<1> QED
  BY <1>1 DEF InPlaces, Outstanding

LEMMA BooksSame ==
  ASSUME BooksBalance, \A w \in Workers : Outstanding(w)' = Outstanding(w),
         UNCHANGED <<cursor, arrived, laneVars>>
  PROVE  BooksBalance'
<1>1. Out' = Out
  BY DEF Out
<1> QED
  BY <1>1 DEF BooksBalance, laneVars

LEMMA WrittenSame ==
  ASSUME AnsweredIsWritten,
         \A w \in Workers : Sent(inbox[w], "assign")' = Sent(inbox[w], "assign"),
         UNCHANGED <<running, broken, deliveryMode, cursor, wrote>>
  PROVE  AnsweredIsWritten'
<1>1. Given(cursor)' = Given(cursor)
  BY DEF Given
<1> QED
  BY <1>1 DEF AnsweredIsWritten

LEMMA QuietStep ==
  ASSUME InPlaces, BooksBalance, AnsweredIsWritten,
         inbox' \in [Workers -> Seq(InMessages)], outbox' \in [Workers -> Seq(OutMessages)],
         Unmoved(Workers, inbox, inbox', "assign"), Unmoved(Workers, outbox, outbox', "part"),
         UNCHANGED <<running, broken, dispatchInFlight, deliveryMode, cursor, arrived, laneVars,
                     wrote>>
  PROVE  InPlaces' /\ BooksBalance' /\ AnsweredIsWritten'
BY PlacesSame, BooksSame, WrittenSame

LEMMA ReportsSame ==
  ASSUME ReportsCounted, Unmoved(Workers, outbox, outbox', "worker-done"),
         \A w \in Workers : doneEmitted'[w] = "posted" <=> doneEmitted[w] = "posted",
         workerDone' = workerDone,
         closing' = "stopped" /\ ~failed' => closing = "stopped" /\ ~failed
  PROVE  ReportsCounted'
<1>1. \A w \in Workers : /\ Holds(outbox'[w], "worker-done") <=> Holds(outbox[w], "worker-done")
                         /\ Single(outbox[w], "worker-done") => Single(outbox'[w], "worker-done")
  BY DEF Unmoved
<1>2. Reported' = Reported
  BY <1>1 DEF Reported
<1> QED
  BY <1>1, <1>2 DEF ReportsCounted

LEMMA ObjectsSame ==
  ASSUME ObjectsOpen, UNCHANGED <<objects, active, cursor, arrived>>,
         \A k \in Keys : call'[k] = "resolved" => call[k] = "resolved"
  PROVE  ObjectsOpen'
BY DEF ObjectsOpen, Listed

(* Handing out keeps the places and the books; out, arr, flying and count    *)
(* are what the caller of _dispatchMore has left.                            *)
LEMMA DispatchKeeps ==
  ASSUME NEW ACTION order, NEW STATE free, NEW STATE flying, NEW STATE out, NEW ACTION arr,
         NEW ACTION count,
         NEW ACTION more, NEW ACTION sent,
         more \in [Workers -> SUBSET AllParts],
         sent \in [Workers -> Seq({"assign"} \X AllParts)],
         InPlaces, AnsweredIsWritten,
         Balanced(out, cursor, arr, free, flying, count),
         outbox' \in [Workers -> Seq(OutMessages)],
         \A w \in Workers :
           /\ out[w] = Sent(inbox[w], "assign") \cup running[w] \cup broken[w]
                         \cup Sent(outbox'[w], "part")
           /\ Once(outbox'[w], "part")
           /\ Sent(outbox'[w], "part") \subseteq Sent(outbox[w], "part"),
         Dispatched(order, free, flying, more, sent),
         arrived' = arr, deliveredCount' = count,
         UNCHANGED <<running, broken, dispatchInFlight, deliveryMode, wrote>>
  PROVE  InPlaces' /\ BooksBalance' /\ AnsweredIsWritten'
<1> DEFINE out2 == [w \in Workers |-> out[w] \cup more[w]]
<1>1. /\ \A v, w \in Workers : v # w => more[v] \cap more[w] = {}
      /\ \A w \in Workers : /\ Cardinality(more[w]) <= free[w]
                            /\ Sent(sent[w], "assign") = more[w] /\ Once(sent[w], "assign")
      /\ cursor' \in [Keys -> Nat]
      /\ \A k \in Keys : cursor[k] <= cursor'[k] /\ cursor'[k] <= Parts[k]
      /\ Flying(more) = Given(cursor') \ Given(cursor)
      /\ inbox' = [w \in Workers |-> inbox[w] \o sent[w]]
      /\ freeLanes' = [w \in Workers |-> free[w] - Cardinality(more[w])]
      /\ totalInFlight' = flying + Cardinality(Flying(more))
  BY DEF Dispatched
<1>2. Balanced(out2, cursor', arr, freeLanes', totalInFlight', count)
  <2> DEFINE next == cursor'
  <2>1. /\ next \in [Keys -> Nat]
        /\ \A k \in Keys : cursor[k] <= next[k] /\ next[k] <= Parts[k]
        /\ Flying(more) = Given(next) \ Given(cursor)
    BY <1>1
  <2> DEFINE free2 == freeLanes'
             flying2 == totalInFlight'
  <2>2. /\ free2 = [w \in Workers |-> free[w] - Cardinality(more[w])]
        /\ flying2 = flying + Cardinality(Flying(more))
        /\ \A v, w \in Workers : v # w => more[v] \cap more[w] = {}
        /\ \A w \in Workers : Cardinality(more[w]) <= free[w]
    BY <1>1
  <2>3. out2 = [w \in Workers |-> out[w] \cup more[w]]
    OBVIOUS
  <2> HIDE DEF next, out2, free2, flying2
  <2>4. Taken(out, more, free, flying, out2, free2, flying2)
    BY <2>2, <2>3 DEF Taken
  <2>5. Balanced(out2, next, arr, free2, flying2, count)
    BY <2>1, <2>4, BooksHand
  <2> QED BY <2>5 DEF next, free2, flying2
<1>3. /\ out \in [Workers -> SUBSET AllParts]
      /\ Flying(out) \subseteq Given(cursor)
  BY DEF Balanced
<1>4. \A w \in Workers : out[w] \subseteq Flying(out) /\ more[w] \subseteq Flying(more)
  BY <1>3 DEF Flying
<1>5. \A w \in Workers : out[w] \cap more[w] = {}
  BY <1>1, <1>3, <1>4
<1>6. ASSUME NEW w \in Workers
      PROVE  /\ inbox'[w] \in Seq(InMessages)
             /\ Sent(inbox'[w], "assign") = Sent(inbox[w], "assign") \cup more[w]
             /\ Once(inbox'[w], "assign")
  <2> DEFINE q == inbox[w]
             r == sent[w]
  <2>1. q \in Seq(InMessages) /\ Once(q, "assign")
    BY DEF InPlaces
  <2>2. r \in Seq(InMessages)
    <3>1. {"assign"} \X AllParts \subseteq InMessages
      BY DEF InMessages
    <3>2. r \in Seq({"assign"} \X AllParts)
      OBVIOUS
    <3> QED BY <3>1, <3>2
  <2>3. /\ Sent(r, "assign") = more[w] /\ Once(r, "assign")
        /\ Sent(q, "assign") \cap Sent(r, "assign") = {}
    BY <1>1, <1>5
  <2>4. inbox'[w] = q \o r
    BY <1>1
  <2> HIDE DEF q, r
  <2>5. q \o r \in Seq(InMessages)
        /\ Sent(q \o r, "assign") = Sent(q, "assign") \cup Sent(r, "assign")
        /\ Once(q \o r, "assign")
    BY <2>1, <2>2, <2>3, ConcatQueue
  <2> QED BY <2>3, <2>4, <2>5 DEF q
<1>7. inbox' \in [Workers -> Seq(InMessages)]
  <2>1. inbox' = [w \in Workers |-> inbox'[w]]
    BY <1>1
  <2> QED BY <1>6, <2>1
<1>8. InPlaces'
  <2>1. /\ running \in [Workers -> SUBSET AllParts] /\ broken \in [Workers -> SUBSET AllParts]
        /\ \A w \in Workers :
             /\ Sent(inbox[w], "assign") \cap (running[w] \cup broken[w]) = {}
             /\ Sent(outbox[w], "part") \cap (running[w] \cup broken[w]) = {}
             /\ Sent(inbox[w], "assign") \cap Sent(outbox[w], "part") = {}
             /\ running[w] \cap broken[w] = {}
             /\ dispatchInFlight[w] = Cardinality(running[w] \cup broken[w])
    BY DEF InPlaces
  <2>2. \A w \in Workers :
          /\ Sent(inbox'[w], "assign") \cap (running[w] \cup broken[w]) = {}
          /\ Sent(outbox'[w], "part") \cap (running[w] \cup broken[w]) = {}
          /\ Sent(inbox'[w], "assign") \cap Sent(outbox'[w], "part") = {}
    BY <1>5, <1>6, <2>1
  <2> QED BY <1>6, <1>7, <2>1, <2>2 DEF InPlaces
<1>9. Out' = out2
  <2>1. \A w \in Workers : Outstanding(w)' = out[w] \cup more[w]
    BY <1>6 DEF Outstanding
  <2> QED BY <2>1 DEF Out
<1>10. BooksBalance'
  <2> HIDE DEF out2
  <2> QED BY <1>2, <1>9 DEF BooksBalance
<1>11. AnsweredIsWritten'
  <2> SUFFICES ASSUME deliveryMode = "file", NEW p \in Given(cursor'),
                      \A w \in Workers : p \notin Sent(inbox'[w], "assign") \cup running[w] \cup broken[w]
               PROVE  wrote[p] = Chunks
    BY DEF AnsweredIsWritten
  <2>1. \A w \in Workers : p \notin more[w] /\ p \notin Sent(inbox[w], "assign") \cup running[w] \cup broken[w]
    BY <1>6
  <2>2. p \notin Flying(more)
    BY <2>1 DEF Flying
  <2>3. p \in Given(cursor)
    BY <1>1, <2>2
  <2> QED BY <2>1, <2>3 DEF AnsweredIsWritten
<1> QED
  BY <1>8, <1>10, <1>11

(* What a call of _dispatchMore changes besides.                             *)
LEMMA DispatchRest ==
  ASSUME NEW ACTION order, NEW STATE free, NEW STATE flying, NEW ACTION more, NEW ACTION sent,
         Dispatched(order, free, flying, more, sent)
  PROVE  /\ rr' \in 0 .. RRModulus - 1
         /\ \A k \in Keys : (\A i \in 1 .. Len(order) : order[i] # k) => cursor'[k] = cursor[k]
BY DEF Dispatched

-----------------------------------------------------------------------------
(* Every action keeps the invariant.                                         *)

LEMMA QueueTypes ==
  ASSUME InPlaces
  PROVE  /\ inbox \in [Workers -> Seq(InMessages)]
         /\ outbox \in [Workers -> Seq(OutMessages)]
BY DEF InPlaces

(* A message that main takes, other than an answer or a report.              *)
LEMMA DequeueFacts ==
  ASSUME InPlaces, NEW w \in Workers, NEW type, Receives(w, type), Dequeue(w)
  PROVE  /\ outbox' \in [Workers -> Seq(OutMessages)]
         /\ Head(outbox[w]) \in OutMessages
         /\ type # "part" => Unmoved(Workers, outbox, outbox', "part")
         /\ type # "worker-done" => Unmoved(Workers, outbox, outbox', "worker-done")
<1>1. outbox \in [Workers -> Seq(OutMessages)]
  BY QueueTypes
<1>2. Head(outbox[w])[1] = type
  BY DEF Receives
<1>3. Shrunk(outbox, w, outbox')
  BY DEF Receives, Dequeue, Shrunk
<1> QED
  BY <1>1, <1>2, <1>3, TailUnmoved

LEMMA PostFacts ==
  ASSUME InPlaces, NEW w \in Workers, NEW m \in OutMessages, Post(w, m)
  PROVE  /\ outbox' \in [Workers -> Seq(OutMessages)]
         /\ m[1] # "part" => Unmoved(Workers, outbox, outbox', "part")
         /\ m[1] # "worker-done" => Unmoved(Workers, outbox, outbox', "worker-done")
<1>1. outbox \in [Workers -> Seq(OutMessages)]
  BY QueueTypes
<1>2. Grown(outbox, w, m, outbox')
  BY DEF Post, Grown
<1> QED
  BY <1>1, <1>2, AppendUnmoved

LEMMA ConsumeFacts ==
  ASSUME InPlaces, NEW w \in Workers, NEW type, Handles(w, type), Consume(w)
  PROVE  /\ inbox' \in [Workers -> Seq(InMessages)]
         /\ Head(inbox[w]) \in InMessages
         /\ type # "assign" => Unmoved(Workers, inbox, inbox', "assign")
<1>1. inbox \in [Workers -> Seq(InMessages)]
  BY QueueTypes
<1>2. Head(inbox[w])[1] = type
  BY DEF Handles
<1>3. Shrunk(inbox, w, inbox')
  BY DEF Handles, Consume, Shrunk
<1> QED
  BY <1>1, <1>2, <1>3, TailUnmoved

(* download() is called, or its HEAD fails.                                  *)
LEMMA CallKeepsInv ==
  ASSUME Inv, NEW k \in Keys, Call(k) \/ HeadFails(k)
  PROVE  Inv'
<1>1. UNCHANGED <<inbox, outbox, objects, active, rr, cursor, arrived, laneVars, failed,
                  crashed, closing, workerDone, workerStateVars, dead, wrote>>
  BY DEF Call, HeadFails
<1>2. /\ call \in [Keys -> CallStates]
      /\ call' = [call EXCEPT ![k] = "rejected"] \/ call' = [call EXCEPT ![k] = "head"]
  BY DEF Inv, TypesKept, Call, HeadFails
<1>3. /\ call' \in [Keys -> CallStates]
      /\ \A j \in Keys : call'[j] = "resolved" => call[j] = "resolved"
  BY <1>2 DEF CallStates
<1>4. TypesKept'
  BY <1>1, <1>3 DEF Inv, TypesKept, workerStateVars
<1>5. InPlaces' /\ BooksBalance' /\ AnsweredIsWritten'
  BY <1>1, QueueTypes, StillUnmoved, QuietStep DEF Inv, workerStateVars
<1>6. ObjectsOpen'
  BY <1>1, <1>3, ObjectsSame DEF Inv
<1>7. ReportsCounted'
  BY <1>1, StillUnmoved, ReportsSame DEF Inv, workerStateVars
<1> QED
  BY <1>4, <1>5, <1>6, <1>7 DEF Inv

(* A HEAD reply adds an object and hands out parts.                          *)
LEMMA HeadReplyKeepsInv ==
  ASSUME Inv, NEW k \in Keys, HeadReply(k)
  PROVE  Inv'
<1>1. /\ call[k] = "head" /\ call' = [call EXCEPT ![k] = "running"]
      /\ objects' = objects \cup {k} /\ active' = Append(active, k)
      /\ DispatchMore(active', freeLanes, totalInFlight)
      /\ UNCHANGED <<outbox, arrived, deliveredCount, failed, crashed, closing, workerDone,
                     workerStateVars, dead, wrote>>
  BY DEF HeadReply
<1>2. /\ call \in [Keys -> CallStates] /\ active \in Seq(Keys) /\ objects \subseteq Keys
      /\ rr \in Nat
  BY ModulusAssumption DEF Inv, TypesKept
<1>3. Balanced(Out, cursor, arrived, freeLanes, totalInFlight, deliveredCount)
  BY DEF Inv, BooksBalance
<1>4. /\ cursor \in [Keys -> Nat] /\ \A j \in Keys : cursor[j] <= Parts[j]
      /\ freeLanes \in [Workers -> Nat]
  <2>1. freeLanes \in [Workers -> 0 .. Concurrency] /\ Concurrency \in Nat
    BY <1>3, LanesAssumption DEF Balanced
  <2> QED BY <1>3, <2>1 DEF Balanced
<1>5. /\ active' \in Seq(Keys)
      /\ Len(active') = Len(active) + 1 /\ Len(active) \in Nat
      /\ \A i \in 1 .. Len(active) : active'[i] = active[i]
      /\ active'[Len(active) + 1] = k
  BY <1>1, <1>2, AppendProperties
<1>6. PICK more \in [Workers -> SUBSET AllParts],
           sent \in [Workers -> Seq({"assign"} \X AllParts)] :
        Dispatched(active', freeLanes, totalInFlight, more, sent)
  BY <1>1, <1>2, <1>4, <1>5, DispatchEffect
<1>7. /\ rr' \in 0 .. RRModulus - 1
      /\ \A j \in Keys : (\A i \in 1 .. Len(active') : active'[i] # j) => cursor'[j] = cursor[j]
  BY <1>6, DispatchRest
<1>8. call' \in [Keys -> CallStates]
  BY <1>1, <1>2 DEF CallStates
<1>9. TypesKept'
  BY <1>1, <1>2, <1>5, <1>7, <1>8 DEF Inv, TypesKept, workerStateVars
<1>10. \A w \in Workers :
         /\ Out[w] = Sent(inbox[w], "assign") \cup running[w] \cup broken[w]
                       \cup Sent(outbox'[w], "part")
         /\ Once(outbox'[w], "part")
  BY <1>1 DEF Inv, InPlaces, Out, Outstanding
<1>11. InPlaces' /\ BooksBalance' /\ AnsweredIsWritten'
  <2>1. InPlaces /\ AnsweredIsWritten
    BY DEF Inv
  <2>2. outbox' \in [Workers -> Seq(OutMessages)] /\ outbox' = outbox
    BY <1>1, <2>1, QueueTypes
  <2>3. /\ arrived' = arrived /\ deliveredCount' = deliveredCount
        /\ UNCHANGED <<running, broken, dispatchInFlight, deliveryMode, wrote>>
    BY <1>1 DEF workerStateVars
  <2> QED BY <1>3, <1>6, <1>10, <2>1, <2>2, <2>3, DispatchKeeps
<1>12. Listed' = Listed \cup {k}
  <2>1. \A j : (\E i \in 1 .. Len(active') : active'[i] = j)
                 <=> (\E i \in 1 .. Len(active) : active[i] = j) \/ j = k
    BY <1>5
  <2> QED BY <2>1 DEF Listed
<1>13. ObjectsOpen'
  <2> SUFFICES ASSUME NEW j \in Keys
               PROVE  /\ j \notin Listed' => j \notin objects' /\ cursor'[j] = 0
                      /\ j \in Listed' \ objects' => arrived'[j] = Parts[j]
                      /\ call'[j] = "resolved" => arrived'[j] = Parts[j]
    BY DEF ObjectsOpen
  <2>1. /\ j \notin Listed => j \notin objects /\ cursor[j] = 0
        /\ j \in Listed \ objects => arrived[j] = Parts[j]
        /\ call[j] = "resolved" => arrived[j] = Parts[j]
    BY DEF Inv, ObjectsOpen
  <2>2. j \notin Listed' => cursor'[j] = cursor[j]
    BY <1>7 DEF Listed
  <2>3. call'[j] = "resolved" => call[j] = "resolved"
    BY <1>1, <1>2
  <2> QED BY <1>1, <1>12, <2>1, <2>2, <2>3
<1>14. ReportsCounted'
  BY <1>1, StillUnmoved, ReportsSame DEF Inv, workerStateVars
<1> QED
  BY <1>9, <1>11, <1>13, <1>14 DEF Inv

(* 'ready' is taken.                                                         *)
LEMMA WorkerReadyKeepsInv ==
  ASSUME Inv, NEW w \in Workers, WorkerReady(w)
  PROVE  Inv'
<1>1. /\ Receives(w, "ready") /\ Dequeue(w)
      /\ UNCHANGED <<inbox, workerStateVars, dead, mainVars, wrote>>
  BY DEF WorkerReady
<1>2. /\ outbox' \in [Workers -> Seq(OutMessages)]
      /\ Unmoved(Workers, outbox, outbox', "part") /\ Unmoved(Workers, outbox, outbox', "worker-done")
  BY <1>1, DequeueFacts DEF Inv
<1>3. TypesKept'
  BY <1>1 DEF Inv, TypesKept, workerStateVars, mainVars, batchVars
<1>4. InPlaces' /\ BooksBalance' /\ AnsweredIsWritten'
  BY <1>1, <1>2, QueueTypes, StillUnmoved, QuietStep
     DEF Inv, workerStateVars, mainVars, batchVars
<1>5. ObjectsOpen'
  BY <1>1, ObjectsSame DEF Inv, mainVars, batchVars
<1>6. ReportsCounted'
  BY <1>1, <1>2, ReportsSame DEF Inv, workerStateVars, mainVars
<1> QED
  BY <1>3, <1>4, <1>5, <1>6 DEF Inv

(* An answer is taken: a lane is free again, and parts are handed out.       *)
LEMMA PartArrivesKeepsInv ==
  ASSUME Inv, NEW w \in Workers, PartArrives(w)
  PROVE  Inv'
<1> DEFINE p == Head(outbox[w])[2]
           k == p[1]
           q == outbox[w]
<1>1. /\ Receives(w, "part") /\ Dequeue(w)
      /\ deliveredCount' = deliveredCount + 1
      /\ IF k \in objects
         THEN /\ arrived' = [arrived EXCEPT ![k] = @ + 1]
              /\ call' = [call EXCEPT ![k] = IF Complete(k, arrived'[k]) THEN "resolved" ELSE @]
              /\ objects' = IF deliveryMode = "file" /\ Complete(k, arrived'[k])
                            THEN objects \ {k} ELSE objects
         ELSE UNCHANGED <<arrived, call, objects>>
      /\ DispatchMore(active, FreeLane(w), totalInFlight - 1)
      /\ UNCHANGED <<active, failed, crashed, closing, workerDone, workerStateVars, dead, wrote>>
  BY DEF PartArrives
<1>2. /\ call \in [Keys -> CallStates] /\ active \in Seq(Keys) /\ objects \subseteq Keys
      /\ rr \in Nat
  BY ModulusAssumption DEF Inv, TypesKept
<1>3. Balanced(Out, cursor, arrived, freeLanes, totalInFlight, deliveredCount)
  BY DEF Inv, BooksBalance
<1>4. /\ cursor \in [Keys -> Nat] /\ \A j \in Keys : cursor[j] <= Parts[j]
      /\ arrived \in [Keys -> Nat] /\ freeLanes \in [Workers -> 0 .. Concurrency]
      /\ Concurrency \in Nat
  BY <1>3, LanesAssumption DEF Balanced
<1>5. /\ outbox \in [Workers -> Seq(OutMessages)] /\ q \in Seq(OutMessages) /\ q # <<>>
      /\ Head(q)[1] = "part" /\ Once(q, "part")
      /\ outbox' = [outbox EXCEPT ![w] = Tail(@)]
      /\ outbox'[w] = Tail(q)
  BY <1>1 DEF Inv, InPlaces, Receives, Dequeue
<1>6. /\ Tail(q) \in Seq(OutMessages) /\ p \in Sent(q, "part")
      /\ Sent(Tail(q), "part") = Sent(q, "part") \ {p} /\ Once(Tail(q), "part")
  <2> HIDE DEF q
  <2> QED BY <1>5, TailQueue DEF p, q
<1> HIDE DEF p
<1>7. p \in Outstanding(w) /\ Outstanding(w) \subseteq AllParts /\ Out[w] = Outstanding(w)
  BY <1>3, <1>6 DEF Outstanding, Out, Balanced
<1>8. p \in AllParts /\ k \in Keys /\ Parts[k] \in Nat
  BY <1>7, PartShape
<1>9. arrived[k] < cursor[k]
  <2>1. p \in Flying(Out)
    BY <1>7, <1>8 DEF Flying
  <2> QED BY <1>3, <2>1, BooksFacts
<1>10. k \in objects /\ k \in Listed /\ call[k] # "resolved"
  <2>1. /\ k \notin Listed => k \notin objects /\ cursor[k] = 0
        /\ k \in Listed \ objects => arrived[k] = Parts[k]
        /\ call[k] = "resolved" => arrived[k] = Parts[k]
    BY <1>8 DEF Inv, ObjectsOpen
  <2> QED BY <1>4, <1>8, <1>9, <2>1
<1> DEFINE out2 == [Out EXCEPT ![w] = @ \ {p}]
           free2 == FreeLane(w)
<1>11. /\ arrived' = [arrived EXCEPT ![k] = @ + 1]
       /\ call' = [call EXCEPT ![k] = IF Complete(k, arrived'[k]) THEN "resolved" ELSE @]
       /\ \/ objects' = objects
          \/ Complete(k, arrived'[k]) /\ objects' = objects \ {k}
  BY <1>1, <1>10
<1>12. Balanced(out2, cursor, arrived', free2, totalInFlight - 1, deliveredCount + 1)
  <2> DEFINE arr2 == arrived'
  <2>1. free2 = [freeLanes EXCEPT ![w] = @ + 1] /\ arr2 = [arrived EXCEPT ![k] = @ + 1]
        /\ out2 = [Out EXCEPT ![w] = @ \ {p}]
    BY <1>11 DEF FreeLane
  <2> HIDE DEF arr2, out2, free2
  <2>2. Answered(w, p, Out, arrived, freeLanes, out2, arr2, free2)
    BY <2>1 DEF Answered
  <2>3. p \in Out[w]
    BY <1>7
  <2>4. Balanced(out2, cursor, arr2, free2, totalInFlight - 1, deliveredCount + 1)
    BY <1>3, <2>2, <2>3, BooksAnswer
  <2> QED BY <2>4 DEF arr2
<1>13. free2 \in [Workers -> Nat]
  <2>1. free2 \in [Workers -> 0 .. Concurrency]
    BY <1>12 DEF Balanced
  <2> HIDE DEF free2
  <2> QED BY <1>4, <2>1
<1>14. PICK more \in [Workers -> SUBSET AllParts],
            sent \in [Workers -> Seq({"assign"} \X AllParts)] :
         Dispatched(active, free2, totalInFlight - 1, more, sent)
  <2>1. DispatchMore(active, free2, totalInFlight - 1)
    BY <1>1
  <2> HIDE DEF free2
  <2> QED BY <1>2, <1>4, <1>13, <2>1, DispatchEffect
<1>15. /\ rr' \in 0 .. RRModulus - 1
       /\ \A j \in Keys : (\A i \in 1 .. Len(active) : active[i] # j) => cursor'[j] = cursor[j]
  <2> HIDE DEF free2
  <2> QED BY <1>14, DispatchRest
<1>16. /\ outbox' \in [Workers -> Seq(OutMessages)]
       /\ Unmoved(Workers, outbox, outbox', "worker-done")
  BY <1>1, DequeueFacts DEF Inv
<1>17. \A v \in Workers :
         /\ out2[v] = Sent(inbox[v], "assign") \cup running[v] \cup broken[v]
                        \cup Sent(outbox'[v], "part")
         /\ Once(outbox'[v], "part")
         /\ Sent(outbox'[v], "part") \subseteq Sent(outbox[v], "part")
  <2> SUFFICES ASSUME NEW v \in Workers
               PROVE  /\ out2[v] = Sent(inbox[v], "assign") \cup running[v] \cup broken[v]
                                     \cup Sent(outbox'[v], "part")
                      /\ Once(outbox'[v], "part")
                      /\ Sent(outbox'[v], "part") \subseteq Sent(outbox[v], "part")
    OBVIOUS
  <2>1. /\ Once(outbox[v], "part")
        /\ Sent(inbox[v], "assign") \cap Sent(outbox[v], "part") = {}
        /\ Sent(outbox[v], "part") \cap (running[v] \cup broken[v]) = {}
    BY DEF Inv, InPlaces
  <2>2. Out[v] = Sent(inbox[v], "assign") \cup running[v] \cup broken[v] \cup Sent(outbox[v], "part")
    BY DEF Out, Outstanding
  <2>3. DOMAIN Out = Workers
    BY DEF Out
  <2>4. CASE v = w
    <3>1. out2[v] = Out[v] \ {p}
      BY <2>3, <2>4
    <3>2. Sent(outbox'[v], "part") = Sent(outbox[v], "part") \ {p} /\ Once(outbox'[v], "part")
          /\ p \in Sent(outbox[v], "part")
      BY <1>5, <1>6, <2>4
    <3> HIDE DEF out2
    <3> QED BY <2>1, <2>2, <3>1, <3>2
  <2>5. CASE v # w
    <3>1. out2[v] = Out[v]
      BY <2>3, <2>5
    <3>2. outbox'[v] = outbox[v]
      BY <1>5, <2>5
    <3> HIDE DEF out2
    <3> QED BY <2>1, <2>2, <3>1, <3>2
  <2> QED BY <2>4, <2>5
<1>18. InPlaces' /\ BooksBalance' /\ AnsweredIsWritten'
  <2>1. InPlaces /\ AnsweredIsWritten
    BY DEF Inv
  <2>2. /\ deliveredCount' = deliveredCount + 1
        /\ UNCHANGED <<running, broken, dispatchInFlight, deliveryMode, wrote>>
    BY <1>1 DEF workerStateVars
  <2> HIDE DEF out2, free2
  <2> QED BY <1>12, <1>14, <1>16, <1>17, <2>1, <2>2, DispatchKeeps
<1>19. call' \in [Keys -> CallStates] /\ objects' \subseteq Keys
  BY <1>2, <1>11 DEF CallStates
<1>20. TypesKept'
  BY <1>1, <1>2, <1>15, <1>19 DEF Inv, TypesKept, workerStateVars
<1>21. ObjectsOpen'
  <2> SUFFICES ASSUME NEW j \in Keys
               PROVE  /\ j \notin Listed' => j \notin objects' /\ cursor'[j] = 0
                      /\ j \in Listed' \ objects' => arrived'[j] = Parts[j]
                      /\ call'[j] = "resolved" => arrived'[j] = Parts[j]
    BY DEF ObjectsOpen
  <2>1. /\ j \notin Listed => j \notin objects /\ cursor[j] = 0
        /\ j \in Listed \ objects => arrived[j] = Parts[j]
        /\ call[j] = "resolved" => arrived[j] = Parts[j]
    BY DEF Inv, ObjectsOpen
  <2>2. Listed' = Listed
    BY <1>1 DEF Listed
  <2>3. j \notin Listed => cursor'[j] = cursor[j]
    BY <1>15 DEF Listed
  <2>4. CASE j = k
    <3>1. arrived'[k] = arrived[k] + 1
      BY <1>4, <1>8, <1>11
    <3>2. Complete(k, arrived'[k]) => arrived'[k] = Parts[k]
      <4>1. Complete(k, arrived'[k]) => arrived'[k] >= Parts[k]
        BY DEF Complete
      <4> DEFINE a == arrived'[k]
      <4>2. /\ a = arrived[k] + 1 /\ (Complete(k, arrived'[k]) => a >= Parts[k])
            /\ arrived[k] \in Nat /\ cursor[k] \in Nat /\ arrived[k] < cursor[k]
            /\ cursor[k] <= Parts[k] /\ Parts[k] \in Nat
        BY <1>4, <1>8, <1>9, <3>1, <4>1
      <4> HIDE DEF a
      <4>3. Complete(k, arrived'[k]) => a = Parts[k]
        BY ONLY <4>2
      <4> QED BY <4>3 DEF a
    <3>3. call'[k] = "resolved" => Complete(k, arrived'[k])
      BY <1>2, <1>8, <1>10, <1>11
    <3>4. k \notin objects' => Complete(k, arrived'[k])
      BY <1>10, <1>11
    <3> QED BY <1>10, <2>2, <2>4, <3>2, <3>3, <3>4
  <2>5. CASE j # k
    <3>1. arrived'[j] = arrived[j] /\ call'[j] = call[j]
      BY <1>2, <1>4, <1>11, <2>5
    <3>2. j \in objects' <=> j \in objects
      BY <1>11, <2>5
    <3> QED BY <2>1, <2>2, <2>3, <3>1, <3>2
  <2> QED BY <2>4, <2>5
<1>22. ReportsCounted'
  BY <1>1, <1>16, ReportsSame DEF Inv, workerStateVars
<1> QED
  BY <1>18, <1>20, <1>21, <1>22 DEF Inv

(* A report is counted.                                                      *)
LEMMA WorkerDoneKeepsInv ==
  ASSUME Inv, NEW w \in Workers, WorkerDone(w)
  PROVE  Inv'
<1> DEFINE q == outbox[w]
<1>1. /\ Receives(w, "worker-done") /\ Dequeue(w)
      /\ workerDone' = workerDone + 1
      /\ closing' = IF AllReported(workerDone') /\ closing \in {"stopping", "late"}
                    THEN "stopped" ELSE closing
      /\ UNCHANGED <<inbox, batchVars, laneVars, failed, crashed, workerStateVars, dead, wrote>>
  BY DEF WorkerDone
<1>2. /\ outbox' \in [Workers -> Seq(OutMessages)]
      /\ Unmoved(Workers, outbox, outbox', "part")
  BY <1>1, DequeueFacts DEF Inv
<1>3. TypesKept'
  <2>1. closing' \in ClosingStates
    BY <1>1 DEF Inv, TypesKept, ClosingStates
  <2> QED BY <1>1, <2>1 DEF Inv, TypesKept, workerStateVars, batchVars
<1>4. InPlaces' /\ BooksBalance' /\ AnsweredIsWritten'
  BY <1>1, <1>2, QueueTypes, StillUnmoved, QuietStep DEF Inv, workerStateVars, batchVars
<1>5. ObjectsOpen'
  BY <1>1, ObjectsSame DEF Inv, batchVars
<1>6. /\ q \in Seq(OutMessages) /\ q # <<>> /\ Head(q)[1] = "worker-done"
      /\ outbox' = [outbox EXCEPT ![w] = Tail(@)] /\ outbox'[w] = Tail(q)
      /\ Single(q, "worker-done")
  BY <1>1 DEF Inv, InPlaces, Receives, Dequeue, ReportsCounted
<1>7. Holds(q, "worker-done") /\ ~Holds(Tail(q), "worker-done") /\ Single(Tail(q), "worker-done")
  <2> HIDE DEF q
  <2> QED BY <1>6, TailQueue
<1>8. \A v \in Workers : v # w => outbox'[v] = outbox[v]
  BY <1>6, QueueTypes DEF Inv
<1>9. /\ \A v \in Workers : /\ Single(outbox'[v], "worker-done")
                            /\ Holds(outbox'[v], "worker-done") => doneEmitted'[v] = "posted"
      /\ doneEmitted' = doneEmitted
  BY <1>1, <1>6, <1>7, <1>8 DEF Inv, ReportsCounted, workerStateVars
<1>10. Reported' = Reported \cup {w} /\ w \notin Reported /\ Reported \subseteq Workers
  <2>1. doneEmitted[w] = "posted"
    BY <1>7 DEF Inv, ReportsCounted
  <2> QED BY <1>6, <1>7, <1>8, <1>9, <2>1 DEF Reported
<1>11. /\ IsFiniteSet(Reported) /\ Cardinality(Reported) \in Nat
       /\ Cardinality(Reported') = Cardinality(Reported) + 1
       /\ Cardinality(Reported) < NWorkers
  <2>1. IsFiniteSet(Reported) /\ Cardinality(Reported) \in Nat
    BY <1>10, FiniteWorkers, FS_Subset, FS_CardinalityType
  <2>2. Cardinality(Reported') = Cardinality(Reported) + 1
    BY <1>10, <2>1, FS_AddElement
  <2>3. Cardinality(Reported \cup {w}) <= Cardinality(Workers)
    BY <1>10, FiniteWorkers, FS_Subset
  <2> DEFINE c == Cardinality(Reported \cup {w})
  <2>4. c = Cardinality(Reported) + 1 /\ c <= NWorkers
    BY <1>10, <2>2, <2>3, FiniteWorkers
  <2> HIDE DEF c
  <2> QED BY <2>1, <2>2, <2>4, FiniteWorkers
<1>12. workerDone = Cardinality(Reported) /\ (closing = "stopped" /\ ~failed => workerDone = NWorkers)
  BY DEF Inv, ReportsCounted
<1>13. closing' = "stopped" /\ ~failed' => workerDone' = NWorkers
  <2>1. ~(closing = "stopped" /\ ~failed)
    BY <1>11, <1>12, FiniteWorkers
  <2> QED BY <1>1, <2>1 DEF AllReported
<1>14. workerDone' = Cardinality(Reported')
  BY <1>1, <1>11, <1>12
<1>15. ReportsCounted'
  BY <1>9, <1>13, <1>14 DEF ReportsCounted
<1> QED
  BY <1>3, <1>4, <1>5, <1>15 DEF Inv

(* A failure reaches main.                                                   *)
LEMMA WorkerFailedKeepsInv ==
  ASSUME Inv, NEW w \in Workers, WorkerFailed(w)
  PROVE  Inv'
<1>1. /\ Receives(w, "error") \/ Receives(w, "exit")
      /\ Fail /\ Dequeue(w)
      /\ UNCHANGED <<inbox, objects, active, rr, cursor, arrived, laneVars, workerDone,
                     workerStateVars, wrote>>
  BY DEF WorkerFailed
<1>2. /\ outbox' \in [Workers -> Seq(OutMessages)]
      /\ Unmoved(Workers, outbox, outbox', "part") /\ Unmoved(Workers, outbox, outbox', "worker-done")
  BY <1>1, DequeueFacts DEF Inv
<1>3. /\ call \in [Keys -> CallStates] /\ failed \in BOOLEAN /\ crashed \in BOOLEAN
      /\ closing \in ClosingStates /\ dead \subseteq Workers
  BY DEF Inv, TypesKept
<1>4. /\ call' \in [Keys -> CallStates] /\ failed' \in BOOLEAN /\ crashed' \in BOOLEAN
      /\ closing' \in ClosingStates /\ dead' \subseteq Workers
      /\ \A k \in Keys : call'[k] = "resolved" => call[k] = "resolved"
      /\ closing' = "stopped" /\ ~failed' => closing = "stopped" /\ ~failed
  <2>1. CASE failed
    BY <1>1, <1>3, <2>1 DEF Fail
  <2>2. CASE ~failed /\ deliveryMode = "file" /\ objects # {}
    BY <1>1, <1>3, <2>2 DEF Fail
  <2>3. CASE ~failed /\ ~(deliveryMode = "file" /\ objects # {})
    <3>1. /\ failed' = TRUE
          /\ call' = [k \in Keys |-> IF k \in objects /\ call[k] = "running"
                                     THEN "rejected" ELSE call[k]]
          /\ closing' = FailCloses(closing)
          /\ UNCHANGED <<crashed, dead>>
      BY <1>1, <2>3 DEF Fail
    <3> QED BY <1>3, <3>1 DEF FailCloses, CallStates, ClosingStates
  <2> QED BY <2>1, <2>2, <2>3
<1>5. TypesKept'
  BY <1>1, <1>4 DEF Inv, TypesKept, workerStateVars
<1>6. InPlaces' /\ BooksBalance' /\ AnsweredIsWritten'
  BY <1>1, <1>2, QueueTypes, StillUnmoved, QuietStep DEF Inv, workerStateVars
<1>7. ObjectsOpen'
  BY <1>1, <1>4, ObjectsSame DEF Inv
<1>8. ReportsCounted'
  BY <1>1, <1>2, <1>4, ReportsSame DEF Inv, workerStateVars
<1> QED
  BY <1>5, <1>6, <1>7, <1>8 DEF Inv

(* close() posts 'stop' to every worker.                                     *)
LEMMA CloseKeepsInv ==
  ASSUME Inv, Close
  PROVE  Inv'
<1>1. /\ closing = "no" /\ closing' = IF failed THEN "late" ELSE "stopping"
      /\ inbox' = [w \in Workers |-> Append(inbox[w], <<"stop">>)]
      /\ UNCHANGED <<outbox, batchVars, laneVars, failed, crashed, workerDone, workerStateVars,
                     dead, wrote>>
  BY DEF Close
<1>2. closing' \in ClosingStates /\ closing' # "stopped"
  BY <1>1 DEF ClosingStates
<1>3. TypesKept'
  BY <1>1, <1>2 DEF Inv, TypesKept, workerStateVars, batchVars
<1>4. ASSUME NEW w \in Workers
      PROVE  /\ inbox'[w] \in Seq(InMessages)
             /\ Sent(inbox'[w], "assign") = Sent(inbox[w], "assign")
             /\ Holds(inbox'[w], "assign") <=> Holds(inbox[w], "assign")
             /\ Once(inbox[w], "assign") => Once(inbox'[w], "assign")
             /\ Single(inbox[w], "assign") => Single(inbox'[w], "assign")
  <2> DEFINE q == inbox[w]
             m == <<"stop">>
  <2>1. q \in Seq(InMessages) /\ m \in InMessages /\ m[1] # "assign"
    BY DEF Inv, InPlaces, InMessages
  <2>2. inbox'[w] = Append(q, m)
    BY <1>1
  <2> HIDE DEF q, m
  <2>3. /\ Append(q, m) \in Seq(InMessages)
        /\ Sent(Append(q, m), "assign") = Sent(q, "assign")
        /\ Holds(Append(q, m), "assign") <=> Holds(q, "assign")
        /\ Once(q, "assign") => Once(Append(q, m), "assign")
        /\ Single(q, "assign") => Single(Append(q, m), "assign")
    BY <2>1, AppendQueue
  <2> QED BY <2>2, <2>3 DEF q
<1>5. inbox' \in [Workers -> Seq(InMessages)] /\ Unmoved(Workers, inbox, inbox', "assign")
  <2>1. inbox' = [w \in Workers |-> inbox'[w]]
    BY <1>1
  <2> QED BY <1>4, <2>1 DEF Unmoved
<1>6. InPlaces' /\ BooksBalance' /\ AnsweredIsWritten'
  BY <1>1, <1>5, QueueTypes, StillUnmoved, QuietStep DEF Inv, workerStateVars, batchVars
<1>7. ObjectsOpen'
  BY <1>1, ObjectsSame DEF Inv, batchVars
<1>8. ReportsCounted'
  BY <1>1, <1>2, StillUnmoved, ReportsSame DEF Inv, workerStateVars
<1> QED
  BY <1>3, <1>6, <1>7, <1>8 DEF Inv

(* The threads are terminated.                                               *)
LEMMA TerminateKeepsInv ==
  ASSUME Inv, Terminate
  PROVE  Inv'
<1>1. /\ closing' = "closed" /\ dead' = Workers
      /\ outbox' = [w \in Workers |->
                      IF w \in dead THEN outbox[w] ELSE Append(outbox[w], <<"exit">>)]
      /\ UNCHANGED <<inbox, workerStateVars, batchVars, laneVars, failed, crashed, workerDone,
                     wrote>>
  BY DEF Terminate
<1>2. TypesKept'
  BY <1>1 DEF Inv, TypesKept, workerStateVars, batchVars, ClosingStates
<1>3. ASSUME NEW w \in Workers
      PROVE  /\ outbox'[w] \in Seq(OutMessages)
             /\ \A type \in {"part", "worker-done"} :
                  /\ Sent(outbox'[w], type) = Sent(outbox[w], type)
                  /\ Holds(outbox'[w], type) <=> Holds(outbox[w], type)
                  /\ Once(outbox[w], type) => Once(outbox'[w], type)
                  /\ Single(outbox[w], type) => Single(outbox'[w], type)
  <2> DEFINE q == outbox[w]
             m == <<"exit">>
  <2>1. q \in Seq(OutMessages) /\ m \in OutMessages /\ m[1] \notin {"part", "worker-done"}
    BY DEF Inv, InPlaces, OutMessages
  <2>2. outbox'[w] = q \/ outbox'[w] = Append(q, m)
    BY <1>1
  <2> HIDE DEF q, m
  <2>3. Append(q, m) \in Seq(OutMessages)
    BY <2>1, AppendQueue
  <2>4. ASSUME NEW type \in {"part", "worker-done"}
        PROVE  /\ Sent(Append(q, m), type) = Sent(q, type)
               /\ Holds(Append(q, m), type) <=> Holds(q, type)
               /\ Once(q, type) => Once(Append(q, m), type)
               /\ Single(q, type) => Single(Append(q, m), type)
    <3>1. m[1] # type
      BY <2>1
    <3> QED BY <2>1, <3>1, AppendQueue
  <2> QED BY <2>1, <2>2, <2>3, <2>4 DEF q
<1>4. /\ outbox' \in [Workers -> Seq(OutMessages)]
      /\ Unmoved(Workers, outbox, outbox', "part") /\ Unmoved(Workers, outbox, outbox', "worker-done")
  <2>1. outbox' = [w \in Workers |-> outbox'[w]]
    BY <1>1
  <2> QED BY <1>3, <2>1 DEF Unmoved
<1>5. InPlaces' /\ BooksBalance' /\ AnsweredIsWritten'
  BY <1>1, <1>4, QueueTypes, StillUnmoved, QuietStep DEF Inv, workerStateVars, batchVars
<1>6. ObjectsOpen'
  BY <1>1, ObjectsSame DEF Inv, batchVars
<1>7. ReportsCounted'
  BY <1>1, <1>4, ReportsSame DEF Inv, workerStateVars
<1> QED
  BY <1>2, <1>5, <1>6, <1>7 DEF Inv

(* Nothing is outstanding once every object has all its answers.             *)
LEMMA NothingLeft ==
  ASSUME Inv, \A k \in Keys : call[k] = "resolved"
  PROVE  /\ \A w \in Workers : Outstanding(w) = {}
         /\ deliveredCount = Cardinality(AllParts)
<1>1. \A k \in Keys : arrived[k] = Parts[k]
  BY DEF Inv, ObjectsOpen
<1>2. Balanced(Out, cursor, arrived, freeLanes, totalInFlight, deliveredCount)
  BY DEF Inv, BooksBalance
<1>3. (\A w \in Workers : Out[w] = {}) /\ deliveredCount = Cardinality(AllParts)
  BY <1>1, <1>2, BooksFacts
<1> QED
  BY <1>3 DEF Out

(* resetScheduler() starts the books anew.                                   *)
LEMMA ResetKeepsInv ==
  ASSUME Inv, Reset
  PROVE  Inv'
<1>1. /\ \A k \in Keys : call[k] = "resolved"
      /\ call' = [k \in Keys |-> "none"] /\ objects' = {} /\ active' = <<>> /\ rr' = 0
      /\ cursor' = [k \in Keys |-> 0] /\ arrived' = [k \in Keys |-> 0]
      /\ freeLanes' = [w \in Workers |-> Concurrency]
      /\ totalInFlight' = 0 /\ deliveredCount' = 0
      /\ UNCHANGED <<workerVars, failed, crashed, closing, workerDone, wrote>>
  BY DEF Reset
<1>2. \A w \in Workers : Outstanding(w) = {}
  BY <1>1, NothingLeft
<1>3. UNCHANGED <<inbox, outbox, deliveryMode, up, running, broken, heldChunks, dispatchInFlight,
                  dispatchStopped, doneEmitted, dead>>
  BY <1>1 DEF workerVars, workerStateVars
<1>4. TypesKept'
  <2>1. 0 \in 0 .. RRModulus - 1
    BY ModulusAssumption
  <2> QED BY <1>1, <1>3, <2>1 DEF Inv, TypesKept, CallStates
<1>5. InPlaces'
  BY <1>3, QueueTypes, StillUnmoved, PlacesSame DEF Inv
<1>6. Given(cursor') = {}
  <2> SUFFICES ASSUME NEW p \in AllParts, p[2] <= cursor'[p[1]]
               PROVE  FALSE
    BY DEF Given
  <2>1. p[1] \in Keys /\ p[2] \in Nat /\ p[2] >= 1 /\ cursor'[p[1]] = 0
    BY <1>1, PartShape
  <2> QED BY <2>1
<1>7. BooksBalance'
  <2>1. Out' = [w \in Workers |-> {}]
    BY <1>2, <1>3 DEF Out, Outstanding
  <2> DEFINE none == [w \in Workers |-> {}]
             zeros == [k \in Keys |-> 0]
             full == [w \in Workers |-> Concurrency]
  <2>2. Flying(none) = {} /\ \A k : FlyingOf(none, k) = {}
    BY DEF Flying, FlyingOf
  <2>3. Given(zeros) = {}
    BY <1>1, <1>6
  <2>4. Cardinality({}) = 0
    BY FS_EmptySet
  <2>5. full \in [Workers -> 0 .. Concurrency] /\ \A w \in Workers : full[w] = Concurrency - 0
    BY LanesAssumption
  <2>6. ASSUME NEW k \in Keys
        PROVE  zeros[k] <= Parts[k] /\ zeros[k] = zeros[k] + Cardinality(FlyingOf(none, k))
    <3>1. Cardinality(FlyingOf(none, k)) = 0
      BY <2>2, <2>4
    <3>2. zeros[k] = 0 /\ Parts[k] \in Nat
      BY PartShape
    <3> QED BY <3>1, <3>2
  <2>7. none \in [Workers -> SUBSET AllParts] /\ \A w \in Workers : none[w] = {}
    OBVIOUS
  <2>8. zeros \in [Keys -> Nat]
    OBVIOUS
  <2> HIDE DEF none, zeros, full
  <2>9. Balanced(none, zeros, zeros, full, 0, 0)
    BY <2>2, <2>3, <2>4, <2>5, <2>6, <2>7, <2>8 DEF Balanced
  <2> QED BY <1>1, <2>1, <2>9 DEF BooksBalance, none, zeros, full
<1>8. ObjectsOpen'
  BY <1>1 DEF ObjectsOpen, Listed
<1>9. AnsweredIsWritten'
  BY <1>6 DEF AnsweredIsWritten
<1>10. ReportsCounted'
  BY <1>1, <1>3, StillUnmoved, ReportsSame DEF Inv
<1> QED
  BY <1>4, <1>5, <1>7, <1>8, <1>9, <1>10 DEF Inv


(* An 'assign' is handled: the part moves from the inbox to the running.     *)
LEMMA RangeAssignedKeepsInv ==
  ASSUME Inv, NEW w \in Workers, RangeAssigned(w)
  PROVE  Inv'
<1> DEFINE q == inbox[w]
           p == Head(inbox[w])[2]
<1>1. /\ Handles(w, "assign") /\ Consume(w)
      /\ running' = [running EXCEPT ![w] = @ \cup {p}]
      /\ dispatchInFlight' = [dispatchInFlight EXCEPT ![w] = @ + 1]
      /\ wrote' = [wrote EXCEPT ![p] = 0]
      /\ UNCHANGED <<deliveryMode, outbox, up, broken, heldChunks, dispatchStopped,
                     doneEmitted, dead, mainVars>>
  BY DEF RangeAssigned, Assigned
<1>2. UNCHANGED <<call, objects, active, rr, cursor, arrived, laneVars, failed, crashed,
                  closing, workerDone>>
  BY <1>1 DEF mainVars, batchVars
<1>3. InPlaces
  BY DEF Inv
<1>4. /\ inbox' \in [Workers -> Seq(InMessages)]
      /\ inbox' = [inbox EXCEPT ![w] = Tail(@)] /\ inbox \in [Workers -> Seq(InMessages)]
      /\ q \in Seq(InMessages) /\ q # <<>> /\ Head(q)[1] = "assign" /\ Once(q, "assign")
  BY <1>1, <1>3, ConsumeFacts DEF Consume, Handles, InPlaces
<1>5. /\ p \in Sent(q, "assign") /\ Sent(Tail(q), "assign") = Sent(q, "assign") \ {p}
      /\ Once(Tail(q), "assign")
  <2> HIDE DEF q
  <2> QED BY <1>4, TailQueue DEF q
<1>6. inbox'[w] = Tail(q) /\ \A v \in Workers : v # w => inbox'[v] = inbox[v]
  BY <1>4
<1> HIDE DEF p, q
<1>7. p \in AllParts
  <2>1. p \in Outstanding(w) /\ Outstanding(w) = Out[w]
    BY <1>5 DEF Outstanding, Out, q
  <2>2. Out \in [Workers -> SUBSET AllParts]
    BY DEF Inv, BooksBalance, Balanced
  <2> QED BY <2>1, <2>2
<1>8. /\ running \in [Workers -> SUBSET AllParts] /\ broken \in [Workers -> SUBSET AllParts]
      /\ \A v \in Workers :
           /\ Once(inbox[v], "assign") /\ Once(outbox[v], "part")
           /\ Sent(inbox[v], "assign") \cap (running[v] \cup broken[v]) = {}
           /\ Sent(outbox[v], "part") \cap (running[v] \cup broken[v]) = {}
           /\ Sent(inbox[v], "assign") \cap Sent(outbox[v], "part") = {}
           /\ running[v] \cap broken[v] = {}
           /\ dispatchInFlight[v] = Cardinality(running[v] \cup broken[v])
  BY <1>3 DEF InPlaces
<1>9. /\ running' \in [Workers -> SUBSET AllParts]
      /\ running'[w] = running[w] \cup {p}
      /\ \A v \in Workers : v # w => running'[v] = running[v]
  BY <1>1, <1>7, <1>8
<1>10. /\ dispatchInFlight \in [Workers -> Nat] /\ wrote \in [AllParts -> 0 .. Chunks]
       /\ dispatchInFlight' \in [Workers -> Nat]
       /\ dispatchInFlight'[w] = dispatchInFlight[w] + 1
       /\ \A v \in Workers : v # w => dispatchInFlight'[v] = dispatchInFlight[v]
  <2>1. dispatchInFlight \in [Workers -> Nat] /\ wrote \in [AllParts -> 0 .. Chunks]
    BY DEF Inv, TypesKept
  <2> QED BY <1>1, <2>1
<1>11. wrote' \in [AllParts -> 0 .. Chunks] /\ \A r \in AllParts : r # p => wrote'[r] = wrote[r]
  <2>1. 0 \in 0 .. Chunks
    BY ChunksAssumption
  <2> QED BY <1>1, <1>10, <2>1
<1>12. TypesKept'
  BY <1>1, <1>2, <1>10, <1>11 DEF Inv, TypesKept
<1>13. Cardinality(running'[w] \cup broken[w]) = dispatchInFlight[w] + 1
  <2> DEFINE S == running[w] \cup broken[w]
  <2>1. p \notin S
    BY <1>5, <1>8 DEF q
  <2>2. IsFiniteSet(S) /\ Cardinality(S) = dispatchInFlight[w]
    BY <1>8, FiniteParts
  <2>3. running'[w] \cup broken[w] = S \cup {p}
    BY <1>9
  <2> HIDE DEF S
  <2> QED BY <2>1, <2>2, <2>3, FS_AddElement
<1>14. ASSUME NEW v \in Workers
       PROVE  /\ Once(inbox'[v], "assign")
              /\ Sent(inbox'[v], "assign") \cap (running'[v] \cup broken[v]) = {}
              /\ Sent(outbox[v], "part") \cap (running'[v] \cup broken[v]) = {}
              /\ Sent(inbox'[v], "assign") \cap Sent(outbox[v], "part") = {}
              /\ running'[v] \cap broken[v] = {}
              /\ dispatchInFlight'[v] = Cardinality(running'[v] \cup broken[v])
              /\ Sent(inbox'[v], "assign") \cup running'[v] = Sent(inbox[v], "assign") \cup running[v]
  <2>1. CASE v = w
    <3>1. /\ Sent(inbox'[v], "assign") = Sent(inbox[v], "assign") \ {p}
          /\ p \in Sent(inbox[v], "assign") /\ Once(inbox'[v], "assign")
      BY <1>5, <1>6, <2>1 DEF q
    <3>2. running'[v] = running[v] \cup {p}
      BY <1>9, <2>1
    <3>3. dispatchInFlight'[v] = Cardinality(running'[v] \cup broken[v])
      BY <1>10, <1>13, <2>1
    <3> QED BY <1>8, <3>1, <3>2, <3>3
  <2>2. CASE v # w
    <3>1. /\ inbox'[v] = inbox[v] /\ running'[v] = running[v]
          /\ dispatchInFlight'[v] = dispatchInFlight[v]
      BY <1>6, <1>9, <1>10, <2>2
    <3> QED BY <1>8, <3>1
  <2> QED BY <2>1, <2>2
<1>15. InPlaces'
  BY <1>1, <1>3, <1>4, <1>8, <1>9, <1>14 DEF InPlaces
<1>16. BooksBalance'
  <2>1. \A v \in Workers : Outstanding(v)' = Outstanding(v)
    <3> SUFFICES ASSUME NEW v \in Workers
                 PROVE  Outstanding(v)' = Outstanding(v)
      OBVIOUS
    <3>1. outbox' = outbox /\ broken' = broken
      BY <1>1
    <3> QED BY <1>14, <3>1 DEF Outstanding
  <2> QED BY <1>2, <2>1, BooksSame DEF Inv
<1>17. AnsweredIsWritten'
  <2>1. Given(cursor)' = Given(cursor) /\ deliveryMode' = deliveryMode /\ broken' = broken
    BY <1>1, <1>2 DEF Given
  <2> SUFFICES ASSUME deliveryMode = "file", NEW r \in Given(cursor),
                      \A v \in Workers : r \notin Sent(inbox'[v], "assign") \cup running'[v] \cup broken[v]
               PROVE  wrote'[r] = Chunks
    BY <2>1 DEF AnsweredIsWritten
  <2>2. \A v \in Workers : r \notin Sent(inbox[v], "assign") \cup running[v] \cup broken[v]
    BY <1>14
  <2>3. r # p /\ r \in AllParts
    BY <1>9 DEF Given
  <2>4. wrote[r] = Chunks
    BY <2>2 DEF Inv, AnsweredIsWritten
  <2> QED BY <1>11, <2>3, <2>4
<1>18. ObjectsOpen'
  BY <1>2, ObjectsSame DEF Inv
<1>19. ReportsCounted'
  BY <1>1, <1>2, StillUnmoved, ReportsSame DEF Inv
<1> QED
  BY <1>12, <1>15, <1>16, <1>17, <1>18, <1>19 DEF Inv

(* A write of a range that is under way returns.                             *)
LEMMA WriteChunkKeepsInv ==
  ASSUME Inv, NEW w \in Workers, NEW p \in running[w], WriteChunk(w, p)
  PROVE  Inv'
<1>1. /\ wrote[p] < Chunks /\ wrote' = [wrote EXCEPT ![p] = @ + 1]
      /\ UNCHANGED <<inbox, outbox, deliveryMode, up, running, broken, heldChunks,
                     dispatchInFlight, dispatchStopped, doneEmitted, dead>>
      /\ UNCHANGED <<call, objects, active, rr, cursor, arrived, laneVars, failed, crashed,
                     closing, workerDone>>
  BY DEF WriteChunk, workerVars, workerStateVars, mainVars, batchVars
<1>2. p \in AllParts
  BY DEF Inv, InPlaces
<1>3. wrote' \in [AllParts -> 0 .. Chunks] /\ \A r \in AllParts : r # p => wrote'[r] = wrote[r]
  <2>1. wrote \in [AllParts -> 0 .. Chunks] /\ Chunks \in Nat
    BY ChunksAssumption DEF Inv, TypesKept
  <2>2. wrote[p] + 1 \in 0 .. Chunks
    BY <1>1, <1>2, <2>1
  <2> QED BY <1>1, <2>1, <2>2
<1>4. TypesKept'
  BY <1>1, <1>3 DEF Inv, TypesKept
<1>5. InPlaces' /\ \A v \in Workers : Outstanding(v)' = Outstanding(v)
  BY <1>1, QueueTypes, StillUnmoved, PlacesSame DEF Inv
<1>6. BooksBalance'
  BY <1>1, <1>5, BooksSame DEF Inv
<1>7. AnsweredIsWritten'
  <2>1. Given(cursor)' = Given(cursor)
    BY <1>1 DEF Given
  <2> SUFFICES ASSUME deliveryMode = "file", NEW r \in Given(cursor),
                      \A v \in Workers : r \notin Sent(inbox[v], "assign") \cup running[v] \cup broken[v]
               PROVE  wrote'[r] = Chunks
    BY <1>1, <2>1 DEF AnsweredIsWritten
  <2>2. r # p /\ r \in AllParts
    BY DEF Given
  <2>3. wrote[r] = Chunks
    BY DEF Inv, AnsweredIsWritten
  <2> QED BY <1>3, <2>2, <2>3
<1>8. ObjectsOpen'
  BY <1>1, ObjectsSame DEF Inv
<1>9. ReportsCounted'
  BY <1>1, StillUnmoved, ReportsSame DEF Inv
<1> QED
  BY <1>4, <1>5, <1>6, <1>7, <1>8, <1>9 DEF Inv

(* No worker keeps bytes for later in these modes.                           *)
LEMMA HeldChunksEmpty ==
  ASSUME Inv
  PROVE  /\ deliveryMode # "ordered-drop"
         /\ heldChunks \in [Workers -> SUBSET AllParts]
         /\ \A w \in Workers : /\ heldChunks[w] = {}
                               /\ [heldChunks EXCEPT ![w] = {}] = heldChunks
<1>1. deliveryMode \in {"file", "ordered-stream"} /\ heldChunks = [w \in Workers |-> {}]
  BY ModesAssumption DEF Inv, TypesKept
<1> QED
  BY <1>1

(* A range is complete: the part moves from the running to the outbox.       *)
LEMMA RangeDoneKeepsInv ==
  ASSUME Inv, NEW w \in Workers, NEW p \in running[w], RangeDone(w, p)
  PROVE  Inv'
<1> DEFINE q == outbox[w]
           m == <<"part", p>>
<1>1. /\ Answers(p) /\ Post(w, m)
      /\ running' = [running EXCEPT ![w] = @ \ {p}]
      /\ heldChunks' = [heldChunks EXCEPT ![w] = Keeps(w, p)]
      /\ dispatchInFlight' = [dispatchInFlight EXCEPT ![w] = CountAnswered(w)]
      /\ MaybeDone(w, dispatchStopped[w], CountAnswered(w))
      /\ UNCHANGED <<deliveryMode, inbox, up, broken, dispatchStopped, dead>>
      /\ UNCHANGED <<call, objects, active, rr, cursor, arrived, laneVars, failed, crashed,
                     closing, workerDone, wrote>>
  BY DEF RangeDone, PartDone, mainVars, batchVars
<1>2. InPlaces
  BY DEF Inv
<1>3. p \in AllParts /\ m \in OutMessages /\ m[1] = "part" /\ m[2] = p
  BY <1>2 DEF InPlaces, OutMessages
<1>4. /\ running \in [Workers -> SUBSET AllParts] /\ broken \in [Workers -> SUBSET AllParts]
      /\ \A v \in Workers :
           /\ Once(inbox[v], "assign") /\ Once(outbox[v], "part")
           /\ Sent(inbox[v], "assign") \cap (running[v] \cup broken[v]) = {}
           /\ Sent(outbox[v], "part") \cap (running[v] \cup broken[v]) = {}
           /\ Sent(inbox[v], "assign") \cap Sent(outbox[v], "part") = {}
           /\ running[v] \cap broken[v] = {}
           /\ dispatchInFlight[v] = Cardinality(running[v] \cup broken[v])
  BY <1>2 DEF InPlaces
<1>5. /\ outbox' \in [Workers -> Seq(OutMessages)]
      /\ Unmoved(Workers, outbox, outbox', "worker-done")
  <2> HIDE DEF m
  <2> QED BY <1>1, <1>2, <1>3, PostFacts
<1>6. /\ outbox'[w] = Append(q, m) /\ \A v \in Workers : v # w => outbox'[v] = outbox[v]
      /\ q \in Seq(OutMessages)
  <2> HIDE DEF m
  <2> QED BY <1>1, <1>2, QueueTypes DEF Post
<1>7. /\ Sent(outbox'[w], "part") = Sent(q, "part") \cup {p}
      /\ Once(outbox'[w], "part")
  <2>1. Once(q, "part") /\ p \notin Sent(q, "part")
    BY <1>4
  <2> HIDE DEF q, m
  <2> QED BY <1>3, <1>6, <2>1, AppendQueue
<1> HIDE DEF m
<1>8. /\ running' \in [Workers -> SUBSET AllParts]
      /\ running'[w] = running[w] \ {p}
      /\ \A v \in Workers : v # w => running'[v] = running[v]
  BY <1>1, <1>4
<1>9. dispatchInFlight \in [Workers -> Nat] /\ doneEmitted \in [Workers -> DoneStates]
  BY DEF Inv, TypesKept
<1>10. /\ Cardinality(running'[w] \cup broken[w]) = dispatchInFlight[w] - 1
       /\ dispatchInFlight[w] - 1 \in Nat
  <2> DEFINE S == running[w] \cup broken[w]
  <2>1. p \in S /\ p \notin broken[w]
    BY <1>4
  <2>2. IsFiniteSet(S) /\ Cardinality(S) = dispatchInFlight[w]
    BY <1>4, FiniteParts
  <2>3. running'[w] \cup broken[w] = S \ {p}
    BY <1>8, <2>1
  <2> HIDE DEF S
  <2> QED BY <2>1, <2>2, <2>3, RemovedSize
<1>11. /\ dispatchInFlight' \in [Workers -> Nat]
       /\ dispatchInFlight'[w] = dispatchInFlight[w] - 1
       /\ \A v \in Workers : v # w => dispatchInFlight'[v] = dispatchInFlight[v]
  BY <1>1, <1>9, <1>10 DEF CountAnswered
<1>12. /\ doneEmitted' \in [Workers -> DoneStates]
       /\ \A v \in Workers : doneEmitted'[v] = "posted" <=> doneEmitted[v] = "posted"
  BY <1>1, <1>9 DEF MaybeDone, IsDone, DoneStates
<1>13. heldChunks' = heldChunks
  BY <1>1, HeldChunksEmpty DEF Keeps
<1>14. TypesKept'
  BY <1>1, <1>11, <1>12, <1>13 DEF Inv, TypesKept
<1>15. ASSUME NEW v \in Workers
       PROVE  /\ Once(outbox'[v], "part")
              /\ Sent(inbox[v], "assign") \cap (running'[v] \cup broken[v]) = {}
              /\ Sent(outbox'[v], "part") \cap (running'[v] \cup broken[v]) = {}
              /\ Sent(inbox[v], "assign") \cap Sent(outbox'[v], "part") = {}
              /\ running'[v] \cap broken[v] = {}
              /\ dispatchInFlight'[v] = Cardinality(running'[v] \cup broken[v])
              /\ running'[v] \cup Sent(outbox'[v], "part") = running[v] \cup Sent(outbox[v], "part")
  <2>1. CASE v = w
    <3>1. /\ Sent(outbox'[v], "part") = Sent(outbox[v], "part") \cup {p}
          /\ Once(outbox'[v], "part") /\ p \in running[v]
      BY <1>7, <2>1 DEF q
    <3>2. running'[v] = running[v] \ {p}
      BY <1>8, <2>1
    <3>3. dispatchInFlight'[v] = Cardinality(running'[v] \cup broken[v])
      BY <1>10, <1>11, <2>1
    <3> DEFINE new == Sent(outbox'[v], "part")
               old == Sent(outbox[v], "part")
               coming == Sent(inbox[v], "assign")
               busy == running'[v]
               was == running[v]
    <3>4. /\ new = old \cup {p} /\ busy = was \ {p} /\ p \in was
          /\ coming \cap (was \cup broken[v]) = {} /\ old \cap (was \cup broken[v]) = {}
          /\ coming \cap old = {} /\ was \cap broken[v] = {}
      BY <1>4, <3>1, <3>2
    <3> HIDE DEF new, old, coming, busy, was
    <3>5. /\ coming \cap (busy \cup broken[v]) = {} /\ new \cap (busy \cup broken[v]) = {}
          /\ coming \cap new = {} /\ busy \cap broken[v] = {}
          /\ busy \cup new = was \cup old
      BY ONLY <3>4
    <3> QED BY <3>1, <3>3, <3>5 DEF new, old, coming, busy, was
  <2>2. CASE v # w
    <3>1. /\ outbox'[v] = outbox[v] /\ running'[v] = running[v]
          /\ dispatchInFlight'[v] = dispatchInFlight[v]
      BY <1>6, <1>8, <1>11, <2>2
    <3> QED BY <1>4, <3>1
  <2> QED BY <2>1, <2>2
<1>16. InPlaces'
  <2>1. inbox' \in [Workers -> Seq(InMessages)] /\ inbox' = inbox /\ broken' = broken
    BY <1>1, <1>2, QueueTypes
  <2> QED BY <1>4, <1>5, <1>8, <1>15, <2>1 DEF InPlaces
<1>17. BooksBalance'
  <2>1. \A v \in Workers : Outstanding(v)' = Outstanding(v)
    <3> SUFFICES ASSUME NEW v \in Workers
                 PROVE  Outstanding(v)' = Outstanding(v)
      OBVIOUS
    <3>1. inbox' = inbox /\ broken' = broken
      BY <1>1
    <3>2. running'[v] \cup Sent(outbox'[v], "part") = running[v] \cup Sent(outbox[v], "part")
      BY <1>15
    <3> QED BY <3>1, <3>2 DEF Outstanding
  <2> QED BY <1>1, <2>1, BooksSame DEF Inv
<1>18. AnsweredIsWritten'
  <2>1. /\ Given(cursor)' = Given(cursor) /\ deliveryMode' = deliveryMode /\ broken' = broken
        /\ inbox' = inbox /\ wrote' = wrote
    BY <1>1 DEF Given
  <2> SUFFICES ASSUME deliveryMode = "file", NEW r \in Given(cursor),
                      \A v \in Workers : r \notin Sent(inbox[v], "assign") \cup running'[v] \cup broken[v]
               PROVE  wrote[r] = Chunks
    BY <2>1 DEF AnsweredIsWritten
  <2>2. CASE r = p
    BY <1>1, <2>2 DEF Answers
  <2>3. CASE r # p
    <3>1. \A v \in Workers : r \notin Sent(inbox[v], "assign") \cup running[v] \cup broken[v]
      BY <1>8, <2>3
    <3> QED BY <3>1 DEF Inv, AnsweredIsWritten
  <2> QED BY <2>2, <2>3
<1>19. ObjectsOpen'
  BY <1>1, ObjectsSame DEF Inv
<1>20. ReportsCounted'
  BY <1>1, <1>5, <1>12, ReportsSame DEF Inv
<1> QED
  BY <1>14, <1>16, <1>17, <1>18, <1>19, <1>20 DEF Inv

(* A range fails: the part stays with the worker, which goes on counting it. *)
LEMMA PartFailsKeepsInv ==
  ASSUME Inv, NEW w \in Workers, NEW p \in running[w], Plain(PartFails(w, p))
  PROVE  Inv'
<1> DEFINE m == <<"error">>
<1>1. /\ Post(w, m)
      /\ running' = [running EXCEPT ![w] = @ \ {p}]
      /\ broken' = [broken EXCEPT ![w] = @ \cup {p}]
      /\ UNCHANGED <<deliveryMode, inbox, up, heldChunks, dispatchInFlight, dispatchStopped,
                     doneEmitted, dead>>
      /\ UNCHANGED <<call, objects, active, rr, cursor, arrived, laneVars, failed, crashed,
                     closing, workerDone, wrote>>
  BY DEF Plain, PartFails, mainVars, batchVars
<1>2. InPlaces /\ m \in OutMessages /\ m[1] # "part" /\ m[1] # "worker-done"
  BY DEF Inv, OutMessages
<1> HIDE DEF m
<1>3. /\ outbox' \in [Workers -> Seq(OutMessages)]
      /\ Unmoved(Workers, outbox, outbox', "part") /\ Unmoved(Workers, outbox, outbox', "worker-done")
  BY <1>1, <1>2, PostFacts
<1>4. /\ running \in [Workers -> SUBSET AllParts] /\ broken \in [Workers -> SUBSET AllParts]
      /\ p \in AllParts
  BY <1>2 DEF InPlaces
<1>5. /\ running' \in [Workers -> SUBSET AllParts] /\ broken' \in [Workers -> SUBSET AllParts]
      /\ \A v \in Workers : /\ running'[v] \cup broken'[v] = running[v] \cup broken[v]
                            /\ running[v] \cap broken[v] = {} => running'[v] \cap broken'[v] = {}
  BY <1>1, <1>4
<1>6. \A v \in Workers : /\ Sent(outbox'[v], "part") = Sent(outbox[v], "part")
                         /\ Once(outbox[v], "part") => Once(outbox'[v], "part")
  BY <1>3 DEF Unmoved
<1>7. InPlaces'
  BY <1>1, <1>2, <1>3, <1>5, <1>6 DEF InPlaces
<1>8. BooksBalance'
  <2>1. \A v \in Workers : Outstanding(v)' = Outstanding(v)
    <3> SUFFICES ASSUME NEW v \in Workers
                 PROVE  Outstanding(v)' = Outstanding(v)
      OBVIOUS
    <3>1. inbox' = inbox
      BY <1>1
    <3>2. /\ running'[v] \cup broken'[v] = running[v] \cup broken[v]
          /\ Sent(outbox'[v], "part") = Sent(outbox[v], "part")
      BY <1>5, <1>6
    <3> QED BY <3>1, <3>2 DEF Outstanding
  <2> QED BY <1>1, <2>1, BooksSame DEF Inv
<1>9. AnsweredIsWritten'
  <2>1. /\ Given(cursor)' = Given(cursor) /\ deliveryMode' = deliveryMode /\ inbox' = inbox
        /\ wrote' = wrote
    BY <1>1 DEF Given
  <2> SUFFICES ASSUME deliveryMode = "file", NEW r \in Given(cursor),
                      \A v \in Workers : r \notin Sent(inbox[v], "assign") \cup running'[v] \cup broken'[v]
               PROVE  wrote[r] = Chunks
    BY <2>1 DEF AnsweredIsWritten
  <2>2. \A v \in Workers : r \notin Sent(inbox[v], "assign") \cup running[v] \cup broken[v]
    BY <1>5
  <2> QED BY <2>2 DEF Inv, AnsweredIsWritten
<1>10. TypesKept'
  BY <1>1 DEF Inv, TypesKept
<1>11. ObjectsOpen'
  BY <1>1, ObjectsSame DEF Inv
<1>12. ReportsCounted'
  BY <1>1, <1>3, ReportsSame DEF Inv
<1> QED
  BY <1>7, <1>8, <1>9, <1>10, <1>11, <1>12 DEF Inv

(* A thread is up, or gone.                                                  *)
LEMMA ReadyOrDiesKeepsInv ==
  ASSUME Inv, NEW w \in Workers, Plain(Ready(w)) \/ Plain(Dies(w))
  PROVE  Inv'
<1>1. /\ UNCHANGED <<deliveryMode, inbox, running, broken, heldChunks, dispatchInFlight,
                     dispatchStopped, doneEmitted>>
      /\ UNCHANGED <<call, objects, active, rr, cursor, arrived, laneVars, failed, crashed,
                     closing, workerDone, wrote>>
      /\ up' \in {up, up \cup {w}} /\ dead' \in {dead, dead \cup {w}}
      /\ Post(w, <<"ready">>) \/ Post(w, <<"exit">>)
  BY DEF Plain, Ready, Dies, mainVars, batchVars
<1>2. PICK m \in {<<"ready">>, <<"exit">>} : Post(w, m)
  BY <1>1
<1>3. InPlaces /\ m \in OutMessages /\ m[1] # "part" /\ m[1] # "worker-done"
  BY DEF Inv, OutMessages
<1>4. /\ outbox' \in [Workers -> Seq(OutMessages)]
      /\ Unmoved(Workers, outbox, outbox', "part") /\ Unmoved(Workers, outbox, outbox', "worker-done")
  BY <1>2, <1>3, PostFacts
<1>5. TypesKept'
  BY <1>1 DEF Inv, TypesKept
<1>6. InPlaces' /\ BooksBalance' /\ AnsweredIsWritten'
  BY <1>1, <1>4, QueueTypes, StillUnmoved, QuietStep DEF Inv
<1>7. ObjectsOpen'
  BY <1>1, ObjectsSame DEF Inv
<1>8. ReportsCounted'
  BY <1>1, <1>4, ReportsSame DEF Inv
<1> QED
  BY <1>5, <1>6, <1>7, <1>8 DEF Inv

(* 'stop' is handled.                                                        *)
LEMMA StoppedKeepsInv ==
  ASSUME Inv, NEW w \in Workers, Plain(Stopped(w))
  PROVE  Inv'
<1>1. /\ Handles(w, "stop") /\ Consume(w)
      /\ dispatchStopped' = [dispatchStopped EXCEPT ![w] = TRUE]
      /\ MaybeDone(w, TRUE, dispatchInFlight[w])
      /\ UNCHANGED <<deliveryMode, outbox, up, running, broken, heldChunks, dispatchInFlight,
                     dead>>
      /\ UNCHANGED <<call, objects, active, rr, cursor, arrived, laneVars, failed, crashed,
                     closing, workerDone, wrote>>
  BY DEF Plain, Stopped, mainVars, batchVars
<1>2. inbox' \in [Workers -> Seq(InMessages)] /\ Unmoved(Workers, inbox, inbox', "assign")
  BY <1>1, ConsumeFacts DEF Inv
<1>3. doneEmitted \in [Workers -> DoneStates] /\ dispatchStopped \in [Workers -> BOOLEAN]
  BY DEF Inv, TypesKept
<1>4. /\ doneEmitted' \in [Workers -> DoneStates] /\ dispatchStopped' \in [Workers -> BOOLEAN]
      /\ \A v \in Workers : doneEmitted'[v] = "posted" <=> doneEmitted[v] = "posted"
  BY <1>1, <1>3 DEF MaybeDone, IsDone, DoneStates
<1>5. TypesKept'
  BY <1>1, <1>4 DEF Inv, TypesKept
<1>6. InPlaces' /\ BooksBalance' /\ AnsweredIsWritten'
  BY <1>1, <1>2, QueueTypes, StillUnmoved, QuietStep DEF Inv
<1>7. ObjectsOpen'
  BY <1>1, ObjectsSame DEF Inv
<1>8. ReportsCounted'
  BY <1>1, <1>4, StillUnmoved, ReportsSame DEF Inv
<1> QED
  BY <1>5, <1>6, <1>7, <1>8 DEF Inv

(* The report is posted, once: it was not in the outbox before.              *)
LEMMA PostDoneKeepsInv ==
  ASSUME Inv, NEW w \in Workers, Plain(PostDone(w))
  PROVE  Inv'
<1> DEFINE q == outbox[w]
           m == <<"worker-done">>
<1>1. /\ doneEmitted[w] = "profiling" /\ Post(w, m)
      /\ doneEmitted' = [doneEmitted EXCEPT ![w] = "posted"]
      /\ heldChunks' = [heldChunks EXCEPT ![w] = {}]
      /\ UNCHANGED <<deliveryMode, inbox, up, running, broken, dispatchInFlight,
                     dispatchStopped, dead>>
      /\ UNCHANGED <<call, objects, active, rr, cursor, arrived, laneVars, failed, crashed,
                     closing, workerDone, wrote>>
  BY DEF Plain, PostDone, mainVars, batchVars
<1>2. InPlaces /\ m \in OutMessages /\ m[1] = "worker-done"
  BY DEF Inv, OutMessages
<1> HIDE DEF m
<1>3. outbox' \in [Workers -> Seq(OutMessages)] /\ Unmoved(Workers, outbox, outbox', "part")
  BY <1>1, <1>2, PostFacts
<1>4. /\ outbox'[w] = Append(q, m) /\ \A v \in Workers : v # w => outbox'[v] = outbox[v]
      /\ q \in Seq(OutMessages)
  BY <1>1, <1>2, QueueTypes DEF Post
<1>5. doneEmitted \in [Workers -> DoneStates]
  BY DEF Inv, TypesKept
<1>6. /\ doneEmitted' \in [Workers -> DoneStates] /\ doneEmitted'[w] = "posted"
      /\ \A v \in Workers : v # w => doneEmitted'[v] = doneEmitted[v]
  BY <1>1, <1>5 DEF DoneStates
<1>7. \A v \in Workers : /\ Single(outbox[v], "worker-done")
                         /\ Holds(outbox[v], "worker-done") => doneEmitted[v] = "posted"
  BY DEF Inv, ReportsCounted
<1>8. Holds(outbox'[w], "worker-done") /\ Single(outbox'[w], "worker-done")
  <2>1. ~Holds(q, "worker-done")
    BY <1>1, <1>7
  <2> HIDE DEF q
  <2> QED BY <1>2, <1>4, <2>1, AppendQueue
<1>9. heldChunks' = heldChunks
  BY <1>1, HeldChunksEmpty
<1>10. TypesKept'
  BY <1>1, <1>6, <1>9 DEF Inv, TypesKept
<1>11. InPlaces' /\ BooksBalance' /\ AnsweredIsWritten'
  BY <1>1, <1>3, QueueTypes, StillUnmoved, QuietStep DEF Inv
<1>12. ObjectsOpen'
  BY <1>1, ObjectsSame DEF Inv
<1>13. Reported' = Reported
  BY <1>1, <1>4, <1>6, <1>8 DEF Reported
<1>14. ReportsCounted'
  <2>1. \A v \in Workers : /\ Single(outbox'[v], "worker-done")
                           /\ Holds(outbox'[v], "worker-done") => doneEmitted'[v] = "posted"
    BY <1>4, <1>6, <1>7, <1>8
  <2> QED BY <1>1, <1>13, <2>1 DEF Inv, ReportsCounted
<1> QED
  BY <1>10, <1>11, <1>12, <1>14 DEF Inv

LEMMA InitEstablishesInv ==
  Init => Inv
<1> SUFFICES ASSUME Init
             PROVE  Inv
  OBVIOUS
<1>1. /\ inbox = [w \in Workers |-> <<>>] /\ outbox = [w \in Workers |-> <<>>]
      /\ up = {} /\ dead = {}
      /\ running = [w \in Workers |-> {}] /\ broken = [w \in Workers |-> {}]
      /\ heldChunks = [w \in Workers |-> {}]
      /\ dispatchInFlight = [w \in Workers |-> 0]
      /\ dispatchStopped = [w \in Workers |-> FALSE]
      /\ doneEmitted = [w \in Workers |-> "no"]
      /\ deliveryMode \in Modes
      /\ call = [k \in Keys |-> "none"]
      /\ objects = {} /\ active = <<>> /\ rr = 0
      /\ cursor = [k \in Keys |-> 0] /\ arrived = [k \in Keys |-> 0]
      /\ freeLanes = [w \in Workers |-> Concurrency]
      /\ totalInFlight = 0 /\ deliveredCount = 0
      /\ failed = FALSE /\ crashed = FALSE /\ closing = "no" /\ workerDone = 0
      /\ wrote = [p \in AllParts |-> 0]
  BY DEF Init, WorkerInit
<1>2. Cardinality({}) = 0
  BY FS_EmptySet
<1>3. TypesKept
  <2>1. 0 \in 0 .. RRModulus - 1 /\ 0 \in 0 .. Chunks
    BY ModulusAssumption, ChunksAssumption
  <2>2. /\ dispatchInFlight \in [Workers -> Nat] /\ dispatchStopped \in [Workers -> BOOLEAN]
        /\ doneEmitted \in [Workers -> DoneStates] /\ call \in [Keys -> CallStates]
        /\ closing \in ClosingStates
    BY <1>1 DEF CallStates, ClosingStates, DoneStates
  <2>3. rr \in 0 .. RRModulus - 1
    BY <1>1, <2>1
  <2>4. wrote \in [AllParts -> 0 .. Chunks]
    BY <1>1, <2>1
  <2>5. /\ objects \subseteq Keys /\ up \subseteq Workers /\ dead \subseteq Workers
        /\ failed \in BOOLEAN /\ crashed \in BOOLEAN
    BY <1>1
  <2>6. active \in Seq(Keys)
    BY <1>1
  <2> QED BY <1>1, <2>2, <2>3, <2>4, <2>5, <2>6 DEF TypesKept
<1>4. \A w \in Workers : /\ inbox[w] = <<>> /\ outbox[w] = <<>>
                         /\ running[w] = {} /\ broken[w] = {}
  BY <1>1
<1>5. \A w \in Workers :
        /\ Sent(inbox[w], "assign") = {} /\ Sent(outbox[w], "part") = {}
        /\ Once(inbox[w], "assign") /\ Once(outbox[w], "part")
        /\ ~Holds(outbox[w], "worker-done") /\ Single(outbox[w], "worker-done")
  BY <1>4, EmptyQueue
<1>6. InPlaces
  <2>1. /\ inbox \in [Workers -> Seq(InMessages)] /\ outbox \in [Workers -> Seq(OutMessages)]
        /\ running \in [Workers -> SUBSET AllParts] /\ broken \in [Workers -> SUBSET AllParts]
    BY <1>1
  <2>2. \A w \in Workers : dispatchInFlight[w] = Cardinality(running[w] \cup broken[w])
    BY <1>1, <1>2, <1>4
  <2> QED BY <1>4, <1>5, <2>1, <2>2 DEF InPlaces
<1>7. Given(cursor) = {}
  <2> SUFFICES ASSUME NEW p \in AllParts, p[2] <= cursor[p[1]]
               PROVE  FALSE
    BY DEF Given
  <2>1. p[1] \in Keys /\ p[2] \in Nat /\ p[2] >= 1 /\ cursor[p[1]] = 0
    BY <1>1, PartShape
  <2> QED BY <2>1
<1>8. BooksBalance
  <2>1. \A w \in Workers : Out[w] = {}
    BY <1>4, <1>5 DEF Out, Outstanding
  <2>2. Flying(Out) = {} /\ \A k : FlyingOf(Out, k) = {}
    BY <2>1 DEF Flying, FlyingOf
  <2>3. Out \in [Workers -> SUBSET AllParts]
    BY <2>1 DEF Out
  <2>4. freeLanes \in [Workers -> 0 .. Concurrency] /\ \A w \in Workers : freeLanes[w] = Concurrency - 0
    BY <1>1, LanesAssumption
  <2>5. ASSUME NEW k \in Keys
        PROVE  /\ cursor[k] <= Parts[k]
               /\ cursor[k] = arrived[k] + Cardinality(FlyingOf(Out, k))
    <3>1. Cardinality(FlyingOf(Out, k)) = 0
      BY <1>2, <2>2
    <3>2. cursor[k] = 0 /\ arrived[k] = 0 /\ Parts[k] \in Nat
      BY <1>1, PartShape
    <3> QED BY <3>1, <3>2
  <2>6. cursor \in [Keys -> Nat] /\ arrived \in [Keys -> Nat]
    BY <1>1
  <2> QED BY <1>1, <1>2, <1>7, <2>1, <2>2, <2>3, <2>4, <2>5, <2>6 DEF BooksBalance, Balanced
<1>9. ObjectsOpen
  BY <1>1 DEF ObjectsOpen, Listed
<1>10. AnsweredIsWritten
  BY <1>7 DEF AnsweredIsWritten
<1>11. ReportsCounted
  <2>1. Reported = {}
    BY <1>1 DEF Reported
  <2> QED BY <1>1, <1>2, <1>5, <2>1 DEF ReportsCounted
<1> QED
  BY <1>3, <1>6, <1>8, <1>9, <1>10, <1>11 DEF Inv

LEMMA NextKeepsInv ==
  Inv /\ [Next]_vars => Inv'
<1> SUFFICES ASSUME Inv, [Next]_vars
             PROVE  Inv'
  OBVIOUS
<1>1. ASSUME NEW k \in Keys, Call(k) \/ HeadReply(k) \/ HeadFails(k)
      PROVE  Inv'
  BY <1>1, CallKeepsInv, HeadReplyKeepsInv
<1>2. ASSUME NEW w \in Workers, Handled(w)
      PROVE  Inv'
  BY <1>2, WorkerReadyKeepsInv, PartArrivesKeepsInv, WorkerDoneKeepsInv, WorkerFailedKeepsInv
     DEF Handled
<1>3. ASSUME NEW w \in Workers, RangeStep(w)
      PROVE  Inv'
  <2>1. CASE RangeAssigned(w)
    BY <2>1, RangeAssignedKeepsInv
  <2>2. ASSUME NEW p \in running[w], WriteChunk(w, p) \/ RangeDone(w, p) \/ Plain(PartFails(w, p))
        PROVE  Inv'
    BY <2>2, WriteChunkKeepsInv, RangeDoneKeepsInv, PartFailsKeepsInv
  <2>3. CASE Plain(Ready(w)) \/ Plain(Stopped(w)) \/ Plain(PostDone(w))
    BY <2>3, ReadyOrDiesKeepsInv, StoppedKeepsInv, PostDoneKeepsInv
  <2> QED BY <1>3, <2>1, <2>2, <2>3 DEF RangeStep
<1>4. ASSUME NEW w \in Workers, Plain(Dies(w))
      PROVE  Inv'
  BY <1>4, ReadyOrDiesKeepsInv
<1>5. CASE Close \/ Terminate \/ Reset
  BY <1>5, CloseKeepsInv, TerminateKeepsInv, ResetKeepsInv
<1>6. CASE UNCHANGED vars
  <2>1. /\ UNCHANGED <<inbox, outbox, deliveryMode, up, running, broken, heldChunks,
                       dispatchInFlight, dispatchStopped, doneEmitted, dead>>
        /\ UNCHANGED <<call, objects, active, rr, cursor, arrived, laneVars, failed, crashed,
                       closing, workerDone, wrote>>
    BY <1>6 DEF vars, workerVars, workerStateVars, mainVars, batchVars
  <2>2. TypesKept'
    BY <2>1 DEF Inv, TypesKept
  <2>3. InPlaces' /\ BooksBalance' /\ AnsweredIsWritten'
    BY <2>1, QueueTypes, StillUnmoved, QuietStep DEF Inv
  <2>4. ObjectsOpen'
    BY <2>1, ObjectsSame DEF Inv
  <2>5. ReportsCounted'
    BY <2>1, StillUnmoved, ReportsSame DEF Inv
  <2> QED BY <2>2, <2>3, <2>4, <2>5 DEF Inv
<1> QED
  BY <1>1, <1>2, <1>3, <1>4, <1>5, <1>6 DEF Next

THEOREM InvAlways ==
  Spec => []Inv
<1>1. Init => Inv
  BY InitEstablishesInv
<1>2. Inv /\ [Next]_vars => Inv'
  BY NextKeepsInv
<1> QED
  BY <1>1, <1>2, PTL DEF Spec

-----------------------------------------------------------------------------
(* What the invariant says.                                                  *)

(* A part is outstanding at one worker at most.                              *)
LEMMA OwnersFacts ==
  ASSUME Inv, NEW p \in AllParts
  PROVE  /\ Cardinality(Owners(p)) <= 1
         /\ Owners(p) # {} <=> p \in Flying(Out)
<1>1. /\ \A v, w \in Workers : v # w => Out[v] \cap Out[w] = {}
      /\ \A w \in Workers : Out[w] = Outstanding(w)
  BY DEF Inv, BooksBalance, Balanced, Out
<1>2. Owners(p) # {} <=> p \in Flying(Out)
  BY <1>1 DEF Owners, Flying
<1>3. CASE Owners(p) = {}
  <2>1. Cardinality(Owners(p)) = 0
    BY <1>3, FS_EmptySet
  <2> QED BY <1>2, <2>1
<1>4. CASE Owners(p) # {}
  <2>1. PICK w \in Owners(p) : TRUE
    BY <1>4
  <2>2. Owners(p) = {w}
    BY <1>1, <2>1 DEF Owners
  <2>3. Cardinality({w}) = 1
    BY FS_Singleton
  <2> QED BY <1>2, <2>2, <2>3
<1> QED
  BY <1>3, <1>4

LEMMA InvImpliesAccounting ==
  Inv => Accounting
<1> SUFFICES ASSUME Inv
             PROVE  Accounting
  OBVIOUS
<1>1. Balanced(Out, cursor, arrived, freeLanes, totalInFlight, deliveredCount)
  BY DEF Inv, BooksBalance
<1>2. /\ Out \in [Workers -> SUBSET AllParts]
      /\ \A v, w \in Workers : v # w => Out[v] \cap Out[w] = {}
      /\ Flying(Out) \subseteq Given(cursor)
      /\ cursor \in [Keys -> Nat] /\ arrived \in [Keys -> Nat]
      /\ \A k \in Keys : cursor[k] = arrived[k] + Cardinality(FlyingOf(Out, k))
      /\ freeLanes \in [Workers -> 0 .. Concurrency]
      /\ \A w \in Workers : freeLanes[w] = Concurrency - Cardinality(Out[w])
      /\ totalInFlight = Cardinality(Flying(Out))
  BY <1>1 DEF Balanced
<1>3. \A w \in Workers : Out[w] = Outstanding(w)
  BY DEF Out
<1>4. \A p \in AllParts : /\ Cardinality(Owners(p)) <= 1
                          /\ Owners(p) # {} <=> p \in Flying(Out)
  BY OwnersFacts
<1>5. \A w \in Workers : dispatchInFlight[w] = Cardinality(running[w] \cup broken[w])
  BY DEF Inv, InPlaces
<1>6. dispatchInFlight \in [Workers -> 0 .. Concurrency]
  <2>1. ASSUME NEW w \in Workers
        PROVE  dispatchInFlight[w] \in 0 .. Concurrency
    <3>1. running[w] \cup broken[w] \subseteq Out[w]
      BY <1>3 DEF Outstanding
    <3>2. IsFiniteSet(Out[w]) /\ Cardinality(Out[w]) \in Nat
      BY <1>2, FiniteParts
    <3> DEFINE S == running[w] \cup broken[w]
    <3>3. S \subseteq Out[w] /\ dispatchInFlight[w] = Cardinality(S)
      BY <1>5, <3>1
    <3> HIDE DEF S
    <3>4. Cardinality(S) \in Nat /\ Cardinality(S) <= Cardinality(Out[w])
      BY <3>2, <3>3, FS_Subset, FS_CardinalityType
    <3>5. freeLanes[w] \in 0 .. Concurrency /\ freeLanes[w] = Concurrency - Cardinality(Out[w])
      BY <1>2
    <3> QED BY <3>2, <3>3, <3>4, <3>5, LanesAssumption
  <2> QED BY <2>1 DEF Inv, TypesKept
<1>7. workerDone \in 0 .. NWorkers
  <2>1. Reported \subseteq Workers /\ workerDone = Cardinality(Reported)
    BY DEF Inv, ReportsCounted, Reported
  <2>2. Cardinality(Reported) \in Nat /\ Cardinality(Reported) <= NWorkers
    BY <2>1, FiniteWorkers, FS_Subset, FS_CardinalityType
  <2> QED BY <2>1, <2>2, FiniteWorkers
<1>8. TypeOK
  <2>1. totalInFlight \in 0 .. NWorkers * Concurrency /\ deliveredCount \in 0 .. Cardinality(AllParts)
    BY <1>1, BooksFacts
  <2>2. \A w \in Workers : Outstanding(w) \subseteq AllParts
    BY <1>2, <1>3
  <2> QED BY <1>2, <1>6, <1>7, <2>1, <2>2 DEF Inv, TypesKept, TypeOK
<1>9. PartsAccounted
  <2>1. ASSUME NEW p \in AllParts
        PROVE  Owners(p) # {} => p[2] <= cursor[p[1]]
    BY <1>2, <1>4 DEF Given
  <2>2. ASSUME NEW k \in Keys
        PROVE  {p \in AllParts : p[1] = k /\ Owners(p) # {}} = FlyingOf(Out, k)
    BY <1>4 DEF FlyingOf, Flying
  <2> QED BY <1>2, <1>4, <2>1, <2>2 DEF PartsAccounted
<1>10. CountersMatch
  <2>1. {p \in AllParts : Owners(p) # {}} = Flying(Out)
    BY <1>4 DEF Flying
  <2> QED BY <1>2, <1>3, <1>5, <2>1 DEF CountersMatch
<1> QED
  BY <1>8, <1>9, <1>10 DEF Accounting

LEMMA InvImpliesWritten ==
  Inv => ResolvedIsWritten
<1> SUFFICES ASSUME Inv, deliveryMode = "file", NEW k \in Keys, call[k] = "resolved",
                    NEW n \in 1 .. Parts[k]
             PROVE  wrote[<<k, n>>] = Chunks
  BY DEF ResolvedIsWritten
<1> DEFINE p == <<k, n>>
<1>1. p \in AllParts /\ p[1] = k /\ p[2] = n
  BY PartShape
<1>2. arrived[k] = Parts[k]
  BY DEF Inv, ObjectsOpen
<1>3. cursor[k] = Parts[k] /\ FlyingOf(Out, k) = {}
  <2>1. Balanced(Out, cursor, arrived, freeLanes, totalInFlight, deliveredCount)
    BY DEF Inv, BooksBalance
  <2> QED BY <1>2, <2>1, BooksFacts
<1> HIDE DEF p
<1>4. p \in Given(cursor)
  BY <1>1, <1>3, PartShape DEF Given
<1>5. p \notin Flying(Out)
  BY <1>1, <1>3 DEF FlyingOf
<1>6. \A w \in Workers : p \notin Outstanding(w)
  BY <1>1, <1>5 DEF Flying, Out
<1>7. \A w \in Workers : p \notin Sent(inbox[w], "assign") \cup running[w] \cup broken[w]
  BY <1>6 DEF Outstanding
<1> QED
  BY <1>4, <1>7 DEF Inv, AnsweredIsWritten, p

LEMMA InvImpliesReports ==
  Inv => ReportsComplete
<1> SUFFICES ASSUME Inv, closing = "stopped", ~failed
             PROVE  /\ \A w \in Workers : doneEmitted[w] = "posted" /\ ~Holds(outbox[w], "worker-done")
                    /\ (\A k \in Keys : call[k] = "resolved") =>
                         /\ \A w \in Workers : Outstanding(w) = {}
                         /\ deliveredCount = Cardinality(AllParts)
  BY DEF ReportsComplete
<1>1. Reported \subseteq Workers /\ Cardinality(Reported) = NWorkers
  BY DEF Inv, ReportsCounted, Reported
<1>2. Reported = Workers
  BY <1>1, FiniteWorkers, FS_Subset
<1>3. \A w \in Workers : doneEmitted[w] = "posted" /\ ~Holds(outbox[w], "worker-done")
  BY <1>2 DEF Reported
<1> QED
  BY <1>3, NothingLeft

-----------------------------------------------------------------------------
(* The theorems.                                                             *)

(* Main and the workers agree about every range and every lane, through      *)
(* stop, failures and resets: each range is outstanding at one worker at     *)
(* most, a cursor counts what was answered and what is outstanding, and the  *)
(* lanes and dispatchInFlight count what they stand for.                     *)
THEOREM PoolBooksAgree ==
  Spec => []Accounting
<1>1. Spec => []Inv
  BY InvAlways
<1>2. Inv => Accounting
  BY InvImpliesAccounting
<1> QED
  BY <1>1, <1>2, PTL

(* download() in file mode resolves only when all its ranges are on disk.    *)
THEOREM ResolvedIsOnDisk ==
  Spec => []ResolvedIsWritten
<1>1. Spec => []Inv
  BY InvAlways
<1>2. Inv => ResolvedIsWritten
  BY InvImpliesWritten
<1> QED
  BY <1>1, <1>2, PTL

(* Unless the pool failed, the wait of close() ends with the report of every *)
(* worker, and after successful downloads with nothing outstanding.          *)
THEOREM CloseHasEveryReport ==
  Spec => []ReportsComplete
<1>1. Spec => []Inv
  BY InvAlways
<1>2. Inv => ReportsComplete
  BY InvImpliesReports
<1> QED
  BY <1>1, <1>2, PTL
=============================================================================
