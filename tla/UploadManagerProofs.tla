------------------------- MODULE UploadManagerProofs -------------------------
(***************************************************************************)
(* Proofs about UploadManager, for every batch, pool and carve pool.       *)
(***************************************************************************)
EXTENDS UploadManager, OperatorLemmas

-----------------------------------------------------------------------------
(* The finite sets that everything else is a subset of.                      *)

LEMMA PartShape ==
  /\ \A k, n : <<k, n>> \in AllParts <=> k \in Keys /\ n \in 1 .. Parts[k]
  /\ \A p \in AllParts : p = <<p[1], p[2]>> /\ p[1] \in Keys /\ p[2] \in 1 .. Parts[p[1]]
  /\ \A k \in Keys : Parts[k] \in Nat
<1>1. \A k \in Keys : Parts[k] \in Nat
  BY PartsAssumption
<1>2. \A p : p \in AllParts <=> \E k \in Keys : p \in {k} \X (1 .. Parts[k])
  BY DEF AllParts
<1> QED
  BY <1>1, <1>2

LEMMA AssignmentShape ==
  /\ \A k, n, w : <<k, n, w>> \in Assignments
                    <=> k \in Keys /\ n \in 1 .. Parts[k] /\ w \in Workers
  /\ \A t \in Assignments : /\ t = <<t[1], t[2], t[3]>>
                            /\ t[1] \in Keys
                            /\ t[2] \in 1 .. Parts[t[1]]
                            /\ t[3] \in Workers
<1>1. \A k, n, w : <<k, n, w>> \in Assignments <=> <<k, n>> \in AllParts /\ w \in Workers
  <2>1. ASSUME NEW k, NEW n, NEW w, <<k, n, w>> \in Assignments
        PROVE  <<k, n>> \in AllParts /\ w \in Workers
    <3>1. PICK p \in AllParts, v \in Workers : <<k, n, w>> = <<p[1], p[2], v>>
      BY <2>1 DEF Assignments
    <3>2. k = p[1] /\ n = p[2] /\ w = v
      BY <3>1
    <3> QED BY <3>2, PartShape
  <2>2. ASSUME NEW k, NEW n, NEW w, <<k, n>> \in AllParts, w \in Workers
        PROVE  <<k, n, w>> \in Assignments
    <3>1. <<k, n, w>> = << <<k, n>>[1], <<k, n>>[2], w>>
      OBVIOUS
    <3> QED BY <2>2, <3>1 DEF Assignments
  <2> QED BY <2>1, <2>2
<1>2. \A k, n, w : <<k, n, w>> \in Assignments
                     <=> k \in Keys /\ n \in 1 .. Parts[k] /\ w \in Workers
  BY <1>1, PartShape
<1>3. ASSUME NEW t \in Assignments
      PROVE  /\ t = <<t[1], t[2], t[3]>>
             /\ t[1] \in Keys
             /\ t[2] \in 1 .. Parts[t[1]]
             /\ t[3] \in Workers
  <2>1. t = <<t[1], t[2], t[3]>>
    BY DEF Assignments
  <2>2. <<t[1], t[2], t[3]>> \in Assignments
    BY <2>1
  <2> HIDE DEF Assignments
  <2> QED BY <1>2, <2>1, <2>2
<1> QED
  BY <1>2, <1>3

LEMMA FiniteParts == IsFiniteSet(AllParts) /\ Cardinality(AllParts) \in Nat
<1> DEFINE rows == {{k} \X (1 .. Parts[k]) : k \in Keys}
           f == [k \in Keys |-> {k} \X (1 .. Parts[k])]
<1>1. f \in Surjection(Keys, rows)
  <2>1. f \in [Keys -> rows] /\ \A r \in rows : \E k \in Keys : f[k] = r
    OBVIOUS
  <2> HIDE DEF f, rows
  <2> QED BY <2>1 DEF Surjection
<1>2. IsFiniteSet(rows)
  BY <1>1, KeysAssumption, FS_Surjection
<1>3. \A r \in rows : IsFiniteSet(r)
  <2> SUFFICES ASSUME NEW k \in Keys PROVE IsFiniteSet({k} \X (1 .. Parts[k]))
    OBVIOUS
  <2>1. IsFiniteSet({k})
    BY FS_Singleton
  <2>2. Parts[k] \in Int
    BY PartShape
  <2>3. IsFiniteSet(1 .. Parts[k])
    BY <2>2, FS_Interval
  <2> QED BY <2>1, <2>3, FS_Product
<1>4. IsFiniteSet(UNION rows)
  <2> HIDE DEF rows
  <2> QED BY <1>2, <1>3, FS_UNION
<1> QED
  BY <1>4, FS_CardinalityType DEF AllParts

LEMMA FiniteWorkers == IsFiniteSet(Workers) /\ Workers # {}
<1>1. NWorkers \in Int /\ 1 \in 1 .. NWorkers
  BY PoolAssumption
<1>2. IsFiniteSet(1 .. NWorkers)
  BY <1>1, FS_Interval
<1> QED
  BY <1>1, <1>2 DEF Workers

LEMMA FiniteAssignments ==
  /\ IsFiniteSet(Assignments)
  /\ \A S \in SUBSET Assignments : IsFiniteSet(S) /\ Cardinality(S) \in Nat
<1> DEFINE pairs == AllParts \X Workers
           f == [q \in pairs |-> <<q[1][1], q[1][2], q[2]>>]
<1>1. IsFiniteSet(pairs)
  BY FiniteParts, FiniteWorkers, FS_Product
<1>2. f \in Surjection(pairs, Assignments)
  <2>1. f \in [pairs -> Assignments]
    BY DEF Assignments
  <2>2. ASSUME NEW t \in Assignments
        PROVE  \E q \in pairs : f[q] = t
    <3>1. PICK p \in AllParts, w \in Workers : t = <<p[1], p[2], w>>
      BY DEF Assignments
    <3>2. <<p, w>> \in pairs /\ f[<<p, w>>] = <<p[1], p[2], w>>
      OBVIOUS
    <3> QED BY <3>1, <3>2
  <2> HIDE DEF f, pairs
  <2> QED BY <2>1, <2>2 DEF Surjection
<1>3. IsFiniteSet(Assignments)
  BY <1>1, <1>2, FS_Surjection
<1> QED
  BY <1>3, FS_Subset, FS_CardinalityType

-----------------------------------------------------------------------------
(* The assignments in S that are with worker w.                              *)
Of(S, w) == {t \in S : t[3] = w}

(* The parts in S, each with the worker that lane gives it.                  *)
Tagged(S, lane) == {<<p[1], p[2], lane[p]>> : p \in S}

LEMMA AssignmentsOfParts ==
  ASSUME NEW S, IsFiniteSet(S), NEW lane, \A p \in S : p = <<p[1], p[2]>>
  PROVE  IsFiniteSet(Tagged(S, lane)) /\ Cardinality(Tagged(S, lane)) = Cardinality(S)
BY TagSize DEF Tagged

(* What a call of _dispatchUpload leaves, when queue and flying are what its *)
(* caller left in the queues and with the workers.                           *)
Dispatched(queue, flying) ==
  /\ dispatched' \in [Keys -> Nat]
  /\ \A k \in Keys : dispatched[k] <= dispatched'[k] /\ dispatched'[k] <= queue[k]
  /\ flying \subseteq uploading' /\ uploading' \subseteq Assignments
  /\ \A t \in uploading' \ flying : dispatched[t[1]] < t[2] /\ t[2] <= dispatched'[t[1]]
  /\ \A k \in Keys : \A n \in 1 .. Parts[k] : dispatched[k] < n /\ n <= dispatched'[k]
       => \E w \in Workers : \A v \in Workers : <<k, n, v>> \in uploading' <=> v = w
  /\ freeLanes' \in [Workers -> 0 .. Concurrency]
  /\ \A w \in Workers :
       freeLanes'[w] = Concurrency - Cardinality(Of(uploading' \cup broken, w))
  /\ urr' \in Nat

LEMMA DispatchEffect ==
  ASSUME NEW ACTION order, NEW ACTION queue, NEW STATE flying, NEW STATE free,
         order \in Seq(Keys),
         queue \in [Keys -> Nat], \A k \in Keys : queue[k] <= Parts[k],
         dispatched \in [Keys -> Nat], \A k \in Keys : dispatched[k] <= queue[k],
         urr \in Nat,
         flying \subseteq Assignments, broken \subseteq Assignments,
         \A t \in flying \cup broken : t[2] <= dispatched[t[1]],
         \A w \in Workers :
           free[w] = Concurrency - Cardinality(Of(flying \cup broken, w)),
         DispatchUpload(order, queue, flying, free)
  PROVE  Dispatched(queue, flying)
<1> DEFINE listed == {order[i] : i \in 1 .. Len(order)}
           out == flying \cup broken
<1>0. \A k \in Keys : Parts[k] \in Nat /\ dispatched[k] \in Nat /\ queue[k] \in Nat
  BY PartShape
<1>1. PICK cur \in [Keys -> 0 .. Cardinality(AllParts)] :
        /\ \A k \in Keys :
             /\ dispatched[k] <= cur[k]
             /\ cur[k] <= IF k \in listed THEN queue[k] ELSE dispatched[k]
        /\ \E lane \in [Batch(cur) -> Workers],
              looks \in Looks(order, urr, dispatched, Batch(cur)) :
             LET given == [w \in Workers |-> {p \in Batch(cur) : lane[p] = w}]
                 full  == \A w \in Workers : Cardinality(given[w]) = free[w]
             IN /\ Dealt(order, urr, dispatched, given, free)
                /\ dispatched' = cur
                /\ urr' = (urr + looks + (IF full THEN 0 ELSE Len(order))) % RRModulus
                /\ uploading' = flying \cup {<<p[1], p[2], lane[p]>> : p \in Batch(cur)}
                /\ freeLanes' = TakeLanes(free, given)
  BY Zenon DEF DispatchUpload
<1>a. /\ cur \in [Keys -> Nat]
      /\ \A k \in Keys : dispatched[k] <= cur[k] /\ cur[k] <= queue[k]
  <2>1. Cardinality(AllParts) \in Nat
    BY FiniteParts
  <2>2. cur \in [Keys -> Nat]
    BY <2>1
  <2>3. \A k \in Keys : /\ dispatched[k] <= cur[k]
                        /\ cur[k] <= IF k \in listed THEN queue[k] ELSE dispatched[k]
    BY <1>1
  <2> HIDE DEF listed
  <2>4. ASSUME NEW k \in Keys
        PROVE  dispatched[k] <= cur[k] /\ cur[k] <= queue[k]
    BY <1>0, <2>2, <2>3
  <2> QED BY <2>2, <2>4
<1> DEFINE batch == Batch(cur)
<1>c. PICK lane \in [batch -> Workers], looks \in Looks(order, urr, dispatched, batch) :
        LET given == [w \in Workers |-> {p \in batch : lane[p] = w}]
            full  == \A w \in Workers : Cardinality(given[w]) = free[w]
        IN /\ Dealt(order, urr, dispatched, given, free)
           /\ dispatched' = cur
           /\ urr' = (urr + looks + (IF full THEN 0 ELSE Len(order))) % RRModulus
           /\ uploading' = flying \cup {<<p[1], p[2], lane[p]>> : p \in batch}
           /\ freeLanes' = TakeLanes(free, given)
  BY <1>1
<1> DEFINE given == [w \in Workers |-> {p \in batch : lane[p] = w}]
<1>d. \A w \in Workers : given[w] = {p \in batch : lane[p] = w}
  OBVIOUS
<1>2. /\ \A w \in Workers : Cardinality({p \in batch : lane[p] = w}) <= free[w]
      /\ dispatched' = cur
      /\ \E dry \in {0, Len(order)} : urr' = (urr + looks + dry) % RRModulus
      /\ uploading' = flying \cup {<<p[1], p[2], lane[p]>> : p \in batch}
      /\ freeLanes' = [w \in Workers |->
                         free[w] - Cardinality({p \in batch : lane[p] = w})]
  <2>1. \A w \in Workers : Cardinality(given[w]) <= free[w]
    BY <1>c DEF Dealt
  <2>2. freeLanes' = [w \in Workers |-> free[w] - Cardinality(given[w])]
    BY <1>c DEF TakeLanes
  <2>4. \E dry \in {0, Len(order)} : urr' = (urr + looks + dry) % RRModulus
    BY <1>c
  <2> QED BY <1>c, <1>d, <2>1, <2>2, <2>4
<1> DEFINE new == {<<p[1], p[2], lane[p]>> : p \in batch}
<1>3. /\ \A p : p \in batch <=> p \in AllParts /\ dispatched[p[1]] < p[2] /\ p[2] <= cur[p[1]]
      /\ batch \subseteq AllParts
  BY DEF Batch
<1>4. /\ \A t \in new : /\ <<t[1], t[2]>> \in batch
                        /\ t[3] = lane[<<t[1], t[2]>>]
                        /\ t = <<t[1], t[2], t[3]>>
      /\ \A p \in batch : <<p[1], p[2], lane[p]>> \in new
      /\ new \subseteq Assignments
  <2>1. ASSUME NEW t \in new
        PROVE  /\ <<t[1], t[2]>> \in batch
               /\ t[3] = lane[<<t[1], t[2]>>]
               /\ t = <<t[1], t[2], t[3]>>
               /\ t \in Assignments
    <3>1. PICK p \in batch : t = <<p[1], p[2], lane[p]>>
      OBVIOUS
    <3>2. p = <<p[1], p[2]>> /\ lane[p] \in Workers /\ p \in AllParts
      BY <1>2, <1>3, PartShape
    <3>3. t[1] = p[1] /\ t[2] = p[2] /\ t[3] = lane[p]
      BY <3>1
    <3>4. t \in Assignments
      BY <3>1, <3>2 DEF Assignments
    <3> HIDE DEF batch
    <3> QED BY <3>1, <3>2, <3>3, <3>4
  <2> QED BY <2>1
<1>5. new \cap out = {}
  <2>1. \A t \in new : dispatched[t[1]] < t[2] /\ t[1] \in Keys /\ t[2] \in Nat
    BY <1>3, <1>4, AssignmentShape
  <2> QED BY <2>1, <1>0
<1>6. /\ IsFiniteSet(batch) /\ Cardinality(batch) \in Nat
      /\ IsFiniteSet(out) /\ Cardinality(out) \in Nat
      /\ IsFiniteSet(new)
  BY <1>3, <1>4, FiniteParts, FiniteAssignments, FS_Subset, FS_CardinalityType
<1>7. Cardinality(new) = Cardinality(batch)
  <2>1. \A p \in batch : p = <<p[1], p[2]>>
    BY <1>3, PartShape
  <2>2. IsFiniteSet(batch)
    BY <1>6
  <2>3. new = Tagged(batch, lane)
    BY DEF Tagged
  <2> HIDE DEF batch, new
  <2> QED BY <2>1, <2>2, <2>3, AssignmentsOfParts
<1>9. \A w \in Workers :
        /\ Cardinality(Of(out, w)) \in Nat
        /\ Cardinality({p \in batch : lane[p] = w}) \in Nat
        /\ freeLanes'[w] = Concurrency - Cardinality(Of(uploading' \cup broken, w))
  <2> SUFFICES ASSUME NEW w \in Workers
               PROVE  /\ Cardinality(Of(out, w)) \in Nat
                      /\ Cardinality({p \in batch : lane[p] = w}) \in Nat
                      /\ freeLanes'[w] = Concurrency
                           - Cardinality(Of(uploading' \cup broken, w))
    OBVIOUS
  <2> DEFINE old == Of(out, w)
             mine == {p \in batch : lane[p] = w}
             added == {<<p[1], p[2], lane[p]>> : p \in mine}
  <2>1. mine \subseteq batch /\ old \subseteq out
    BY DEF Of
  <2>2. /\ IsFiniteSet(mine) /\ Cardinality(mine) \in Nat
        /\ IsFiniteSet(old) /\ Cardinality(old) \in Nat
    BY <1>6, <2>1, FS_Subset, FS_CardinalityType
  <2>3. IsFiniteSet(added) /\ Cardinality(added) = Cardinality(mine)
    <3>1. \A p \in mine : p = <<p[1], p[2]>>
      BY <1>3, PartShape
    <3> HIDE DEF mine
    <3> QED BY <2>2, <3>1, TagSize
  <2>4. added = {t \in new : t[3] = w}
    BY <1>4
  <2>5. Of(uploading' \cup broken, w) = old \cup added
    BY <1>2, <2>4 DEF Of
  <2>6. old \cap added = {}
    BY <1>5, <2>4 DEF Of
  <2>7. Cardinality(old \cup added) = Cardinality(old) + Cardinality(added)
    <3> HIDE DEF old, added
    <3> QED BY <2>2, <2>3, <2>6, DisjointUnionSize
  <2>8. /\ freeLanes'[w] = free[w] - Cardinality(mine)
        /\ free[w] = Concurrency - Cardinality(old)
    BY <1>2
  <2>9. Concurrency \in Nat
    BY PoolAssumption
  <2> HIDE DEF old, mine, added
  <2>10. freeLanes'[w] = Concurrency - Cardinality(old \cup added)
    BY <2>2, <2>3, <2>7, <2>8, <2>9
  <2> QED BY <2>2, <2>5, <2>10 DEF old, mine
<1>10. freeLanes' \in [Workers -> 0 .. Concurrency]
  <2>1. ASSUME NEW w \in Workers
        PROVE  free[w] - Cardinality({p \in batch : lane[p] = w}) \in 0 .. Concurrency
    <3>1. /\ Cardinality(Of(out, w)) \in Nat
          /\ Cardinality({p \in batch : lane[p] = w}) \in Nat
          /\ Cardinality({p \in batch : lane[p] = w}) <= free[w]
          /\ free[w] = Concurrency - Cardinality(Of(out, w))
      BY <1>2, <1>9
    <3>2. Concurrency \in Nat
      BY PoolAssumption
    <3> HIDE DEF out, batch
    <3> QED BY <3>1, <3>2
  <2> QED BY <1>2, <2>1
<1>11. \A k \in Keys : \A n \in 1 .. Parts[k] : dispatched[k] < n /\ n <= cur[k]
         => \E w \in Workers : \A v \in Workers : <<k, n, v>> \in uploading' <=> v = w
  <2> SUFFICES ASSUME NEW k \in Keys, NEW n \in 1 .. Parts[k],
                      dispatched[k] < n, n <= cur[k]
               PROVE  \E w \in Workers : \A v \in Workers :
                        <<k, n, v>> \in uploading' <=> v = w
    OBVIOUS
  <2>1. <<k, n>> \in batch
    BY <1>3, PartShape
  <2>2. lane[<<k, n>>] \in Workers /\ <<k, n, lane[<<k, n>>]>> \in new
    BY <1>4, <2>1
  <2>3. \A v : <<k, n, v>> \in new => v = lane[<<k, n>>]
    BY <1>4
  <2>4. \A v : <<k, n, v>> \notin flying
    BY <1>0
  <2>5. \A v : <<k, n, v>> \in uploading' <=> <<k, n, v>> \in new
    BY <1>2, <2>4
  <2> HIDE DEF new, batch
  <2> QED BY <2>2, <2>3, <2>5
<1>13. urr' \in Nat
  <2>1. \A p \in batch : Look(order, urr, dispatched, p) \in Int
    <3> SUFFICES ASSUME NEW p \in batch
                 PROVE  Look(order, urr, dispatched, p) \in Int
      OBVIOUS
    <3>1. p[1] \in Keys /\ p[2] \in Nat /\ dispatched[p[1]] < p[2] /\ p[2] <= cur[p[1]]
      BY <1>3, PartShape
    <3>2. p[1] \in listed
      <4>1. cur[p[1]] <= IF p[1] \in listed THEN queue[p[1]] ELSE dispatched[p[1]]
        BY <1>1, <3>1
      <4>2. cur[p[1]] \in Nat
        BY <1>a, <3>1
      <4> HIDE DEF listed, batch
      <4> QED BY <1>0, <3>1, <4>1, <4>2
    <3> DEFINE index == CHOOSE i \in 1 .. Len(order) : order[i] = p[1]
    <3>3. index \in 1 .. Len(order)
      BY <3>2
    <3>4. Len(order) \in Nat
      OBVIOUS
    <3> HIDE DEF index
    <3>5. (index - 1 - urr) % Len(order) \in Int
      BY <3>3, <3>4
    <3>6. FirstLook(order, urr, p[1]) \in Int
      BY <3>5 DEF FirstLook, index
    <3>7. (p[2] - dispatched[p[1]] - 1) * Len(order) \in Int
      BY <1>0, <3>1, <3>4
    <3> QED BY <3>6, <3>7 DEF Look
  <2>2. PICK dry \in {0, Len(order)} : urr' = (urr + looks + dry) % RRModulus
    BY <1>2
  <2>4. looks \in Int
    BY <1>c, <2>1 DEF Looks
  <2> DEFINE x == urr + looks + dry
  <2>5. x \in Int
    <3>1. Len(order) \in Nat
      OBVIOUS
    <3> QED BY <2>4, <3>1
  <2> HIDE DEF x
  <2>6. x % RRModulus \in Nat
    BY <2>5, ModulusAssumption
  <2> QED BY <2>2, <2>6 DEF x
<1> HIDE DEF batch
<1>15. \A t \in uploading' \ flying : dispatched[t[1]] < t[2] /\ t[2] <= cur[t[1]]
  BY <1>2, <1>3, <1>4
<1>16. flying \subseteq uploading' /\ uploading' \subseteq Assignments
  BY <1>2, <1>4
<1> HIDE DEF listed, out, new
<1> QED
  BY <1>2, <1>9, <1>10, <1>11, <1>13, <1>a, <1>15, <1>16 DEF Dispatched

-----------------------------------------------------------------------------
(* The inductive invariant.                                                  *)

Carving == {"reading", "filling", "waiting", "woken"}

(* k before its CreateMPU is answered.                                       *)
Fresh(k) ==
  /\ k \notin uploadObjects
  /\ enqueued[k] = 0 /\ partsTotal[k] = 0
  /\ completed[k] = {}
  /\ ~aborted[k] /\ carver[k] = "idle"

(* How the call, the record, the CompleteMPU and the carver of k go          *)
(* together.                                                                 *)
CallMatches(k) ==
  /\ call[k] \in {"none", "creating"} => Fresh(k)
  /\ call[k] = "resolved" => completing[k] = "answered" /\ k \notin uploadObjects
  /\ k \notin uploadObjects => dispatched[k] = enqueued[k]

TotalMatches(k) ==
  /\ completed[k] \subseteq 1 .. Parts[k]
  /\ completing[k] = "no" <=> requests[k] = <<>>
  /\ completing[k] # "no" => partsTotal[k] # 0
  /\ partsTotal[k] # 0 => partsTotal[k] = PlannedTotal(k)
  /\ aborted[k] => partsTotal[k] = 0 /\ carver[k] \notin Carving

CarverMatches(k) ==
  /\ carver[k] # "idle" => k \in Streams
  /\ carver[k] \in Carving => partsTotal[k] = 0 /\ k \in uploadObjects
  /\ carver[k] \in {"filling", "waiting", "woken"} => enqueued[k] < Parts[k]
  /\ carver[k] \in {"stopped", "spilled"} => aborted[k]

RecordsMatch == \A k \in Keys : CallMatches(k) /\ TotalMatches(k) /\ CarverMatches(k)

(* The carvers in bufWaiters wait, each in one place.                        *)
WaitersMatch ==
  /\ \A i \in 1 .. Len(bufWaiters) : carver[bufWaiters[i]] = "waiting"
  /\ \A i, j \in 1 .. Len(bufWaiters) : bufWaiters[i] = bufWaiters[j] => i = j

Inv ==
  /\ TypeOK /\ PartsAccounted /\ CountersMatch /\ BuffersAccounted
  /\ RecordOutlivesParts /\ NoLostWakeup /\ CompleteOnce
  /\ RecordsMatch /\ WaitersMatch

-----------------------------------------------------------------------------
(* Where the parts are, seen part by part: what PartsAccounted says when     *)
(* comp and fly are the parts uploaded and those under way.                  *)

PartsAt(comp, fly) ==
  \A k \in Keys : \A n \in 1 .. Parts[k] :
    /\ n > dispatched[k] => n \notin comp[k]
    /\ ~ n > dispatched[k] => n \in comp[k] \/ \E w \in Workers : <<k, n, w>> \in fly \cup broken
    /\ \A w \in Workers : <<k, n, w>> \in fly \cup broken
         => /\ ~ n > dispatched[k]
            /\ n \notin comp[k]
            /\ \A v \in Workers : <<k, n, v>> \in fly \cup broken => v = w
            /\ ~(<<k, n, w>> \in fly /\ <<k, n, w>> \in broken)

QueuesBounded ==
  \A k \in Keys : dispatched[k] <= enqueued[k] /\ enqueued[k] <= Parts[k]

LEMMA PartsRead ==
  PartsAccounted <=> QueuesBounded /\ PartsAt(completed, uploading)
<1>1. \A k, n : \A w : w \in HoldersOf(k, n)
                  <=> w \in Workers /\ <<k, n, w>> \in uploading \cup broken
  BY DEF HoldersOf, Outstanding
<1>2. \A k, n : HoldersOf(k, n) = {}
                  <=> ~ \E w \in Workers : <<k, n, w>> \in uploading \cup broken
  BY <1>1
<1>3. ASSUME PartsAccounted
      PROVE  QueuesBounded /\ PartsAt(completed, uploading)
  <2>1. QueuesBounded
    BY <1>3 DEF PartsAccounted, QueuesBounded
  <2>2. ASSUME NEW k \in Keys, NEW n \in 1 .. Parts[k]
        PROVE  /\ n > dispatched[k]
                    <=> n \notin completed[k] /\ HoldersOf(k, n) = {}
               /\ n \in completed[k] => HoldersOf(k, n) = {}
               /\ \A v, w \in HoldersOf(k, n) : v = w
               /\ \A w \in Workers : ~(<<k, n, w>> \in uploading /\ <<k, n, w>> \in broken)
    BY <1>3 DEF PartsAccounted
  <2>3. PartsAt(completed, uploading)
    BY <1>1, <1>2, <2>2 DEF PartsAt
  <2> QED BY <2>1, <2>3
<1>4. ASSUME QueuesBounded, PartsAt(completed, uploading)
      PROVE  PartsAccounted
  <2>1. ASSUME NEW k \in Keys, NEW n \in 1 .. Parts[k]
        PROVE  /\ n > dispatched[k]
                    <=> n \notin completed[k] /\ HoldersOf(k, n) = {}
               /\ n \in completed[k] => HoldersOf(k, n) = {}
               /\ \A v, w \in HoldersOf(k, n) : v = w
               /\ \A w \in Workers : ~(<<k, n, w>> \in uploading /\ <<k, n, w>> \in broken)
    <3>1. /\ n > dispatched[k] => n \notin completed[k]
          /\ ~ n > dispatched[k]
               => n \in completed[k] \/ \E w \in Workers : <<k, n, w>> \in uploading \cup broken
          /\ \A w \in Workers : <<k, n, w>> \in uploading \cup broken
               => /\ ~ n > dispatched[k]
                  /\ n \notin completed[k]
                  /\ \A v \in Workers : <<k, n, v>> \in uploading \cup broken => v = w
                  /\ ~(<<k, n, w>> \in uploading /\ <<k, n, w>> \in broken)
      BY <1>4 DEF PartsAt
    <3>2. n > dispatched[k] <=> n \notin completed[k] /\ HoldersOf(k, n) = {}
      BY <1>2, <3>1
    <3>3. n \in completed[k] => HoldersOf(k, n) = {}
      BY <1>2, <3>1
    <3>4. \A v, w \in HoldersOf(k, n) : v = w
      BY <1>1, <3>1
    <3> QED BY <3>1, <3>2, <3>3, <3>4
  <2> QED BY <1>4, <2>1 DEF PartsAccounted, QueuesBounded
<1> QED
  BY <1>3, <1>4

(* Dispatching puts each part it takes from a queue with one worker.         *)
LEMMA DispatchKeepsParts ==
  ASSUME NEW ACTION queue, NEW STATE fly, NEW ACTION comp,
         dispatched \in [Keys -> Nat],
         \A k \in Keys : queue[k] <= Parts[k],
         fly \subseteq Assignments, broken \subseteq Assignments,
         PartsAt(comp, fly), Dispatched(queue, fly),
         broken' = broken, enqueued' = queue, completed' = comp
  PROVE  PartsAccounted'
<1>1. QueuesBounded'
  BY DEF QueuesBounded, Dispatched
<1>2. ASSUME NEW k \in Keys, NEW n \in 1 .. Parts[k]
      PROVE  /\ n > dispatched'[k] => n \notin comp[k]
             /\ ~ n > dispatched'[k]
                  => n \in comp[k] \/ \E w \in Workers : <<k, n, w>> \in uploading' \cup broken
             /\ \A w \in Workers : <<k, n, w>> \in uploading' \cup broken
                  => /\ ~ n > dispatched'[k]
                     /\ n \notin comp[k]
                     /\ \A v \in Workers : <<k, n, v>> \in uploading' \cup broken => v = w
                     /\ ~(<<k, n, w>> \in uploading' /\ <<k, n, w>> \in broken)
  <2>1. /\ dispatched[k] \in Nat /\ dispatched'[k] \in Nat
        /\ dispatched[k] <= dispatched'[k]
        /\ n \in Nat
    BY PartShape DEF Dispatched
  <2>2. /\ n > dispatched[k] => n \notin comp[k]
        /\ ~ n > dispatched[k] => n \in comp[k] \/ \E w \in Workers : <<k, n, w>> \in fly \cup broken
        /\ \A w \in Workers : <<k, n, w>> \in fly \cup broken
             => /\ ~ n > dispatched[k]
                /\ n \notin comp[k]
                /\ \A v \in Workers : <<k, n, v>> \in fly \cup broken => v = w
                /\ ~(<<k, n, w>> \in fly /\ <<k, n, w>> \in broken)
    BY DEF PartsAt
  <2>3. \A w \in Workers : <<k, n, w>> \in uploading' /\ <<k, n, w>> \notin fly
          => dispatched[k] < n /\ n <= dispatched'[k]
    BY DEF Dispatched
  <2>4. dispatched[k] < n /\ n <= dispatched'[k]
          => \E w \in Workers : \A v \in Workers : <<k, n, v>> \in uploading' <=> v = w
    BY DEF Dispatched
  <2>5. \A w : <<k, n, w>> \in fly => <<k, n, w>> \in uploading'
    BY DEF Dispatched
  <2>6. CASE dispatched[k] < n /\ n <= dispatched'[k]
    BY <2>1, <2>2, <2>4, <2>6
  <2>7. CASE ~(dispatched[k] < n /\ n <= dispatched'[k])
    <3>1. \A w \in Workers : <<k, n, w>> \in uploading' <=> <<k, n, w>> \in fly
      BY <2>3, <2>5, <2>7
    <3>2. n > dispatched[k] <=> n > dispatched'[k]
      BY <2>1, <2>7
    <3> QED BY <2>2, <3>1, <3>2
  <2> QED BY <2>6, <2>7
<1>3. PartsAt(completed, uploading)'
  BY <1>2 DEF PartsAt
<1>4. (QueuesBounded /\ PartsAt(completed, uploading) => PartsAccounted)'
  BY PartsRead, PTL
<1> QED
  BY <1>1, <1>3, <1>4

(* What the scheduler is called with in a state that satisfies Inv.          *)
LEMMA DispatchReady ==
  ASSUME TypeOK, PartsAccounted, CountersMatch
  PROVE  /\ QueuesBounded /\ PartsAt(completed, uploading)
         /\ uploading \subseteq Assignments /\ broken \subseteq Assignments
         /\ \A t \in Outstanding : /\ t = <<t[1], t[2], t[3]>>
                                   /\ t[1] \in Keys /\ t[2] \in 1 .. Parts[t[1]]
                                   /\ t[3] \in Workers
                                   /\ t[2] <= dispatched[t[1]]
                                   /\ t[2] \notin completed[t[1]]
         /\ \A w \in Workers :
              freeLanes[w] = Concurrency - Cardinality(Of(uploading \cup broken, w))
<1>1. QueuesBounded /\ PartsAt(completed, uploading)
  BY PartsRead
<1>2. uploading \subseteq Assignments /\ broken \subseteq Assignments
  BY DEF TypeOK
<1>3. ASSUME NEW t \in Outstanding
      PROVE  /\ t = <<t[1], t[2], t[3]>>
             /\ t[1] \in Keys /\ t[2] \in 1 .. Parts[t[1]]
             /\ t[3] \in Workers
             /\ t[2] <= dispatched[t[1]]
             /\ t[2] \notin completed[t[1]]
  <2>1. /\ t = <<t[1], t[2], t[3]>> /\ t[1] \in Keys
        /\ t[2] \in 1 .. Parts[t[1]] /\ t[3] \in Workers
    BY <1>2, AssignmentShape DEF Outstanding
  <2>2. ~ t[2] > dispatched[t[1]] /\ t[2] \notin completed[t[1]]
    BY <1>1, <2>1 DEF PartsAt, Outstanding
  <2>3. dispatched[t[1]] \in Nat /\ t[2] \in Nat
    BY <2>1, PartShape DEF TypeOK
  <2> QED BY <2>1, <2>2, <2>3
<1>4. \A w \in Workers : OnWorker(w) = Of(uploading \cup broken, w)
  BY DEF OnWorker, Outstanding, Of
<1>5. \A w \in Workers :
        freeLanes[w] = Concurrency - Cardinality(Of(uploading \cup broken, w))
  BY <1>4 DEF CountersMatch
<1> QED
  BY <1>1, <1>2, <1>3, <1>5

-----------------------------------------------------------------------------
(* What the steps that do not dispatch, or do not carve, leave alone.        *)

LEMMA PoolUntouched ==
  ASSUME Inv, UNCHANGED <<enqueued, dispatched, partsUploaded, completed,
                          uploading, broken, freeLanes>>
  PROVE  PartsAccounted' /\ CountersMatch'
BY DEF Inv, PartsAccounted, CountersMatch, HoldersOf, OnWorker, Outstanding

(* The carve buffers that are in hand, and those that carry a part.          *)
InHand == {k \in Keys : carver[k] \in {"filling", "spilled"}}
Carved ==
  {p \in AllParts : p[1] \in Streams /\ p[2] <= enqueued[p[1]] /\ p[2] \notin completed[p[1]]}
Woken == {k \in Keys : carver[k] = "woken"}

LEMMA BuffersFinite ==
  /\ IsFiniteSet(InHand) /\ Cardinality(InHand) \in Nat
  /\ IsFiniteSet(Carved) /\ Cardinality(Carved) \in Nat
  /\ IsFiniteSet(Woken) /\ Cardinality(Woken) \in Nat
<1>1. InHand \subseteq Keys /\ Carved \subseteq AllParts /\ Woken \subseteq Keys
  BY DEF InHand, Carved, Woken
<1> QED
  BY <1>1, KeysAssumption, FiniteParts, FS_Subset, FS_CardinalityType

LEMMA KeysFinite ==
  ASSUME NEW S, S \subseteq Keys
  PROVE  IsFiniteSet(S) /\ Cardinality(S) \in Nat
BY KeysAssumption, FS_Subset, FS_CardinalityType

LEMMA CarveTypes ==
  ASSUME TypeOK
  PROVE  /\ carver \in [Keys -> CarverStates]
         /\ carvePool \in Nat /\ bufWaiters \in Seq(Keys)
         /\ \A i \in 1 .. Len(bufWaiters) : bufWaiters[i] \in Keys
<1>1. carvePool \in 0 .. Buffers /\ bufWaiters \in Seq(Keys) /\ carver \in [Keys -> CarverStates]
  BY DEF TypeOK
<1> QED
  BY <1>1, BuffersAssumption

LEMMA BuffersRead ==
  BuffersAccounted <=> carvePool + Cardinality(InHand) + Cardinality(Carved) = Buffers
BY DEF BuffersAccounted, InHand, Carved

LEMMA CarveUntouched ==
  ASSUME Inv, UNCHANGED <<source, enqueued, completed, carveVars>>
  PROVE  BuffersAccounted' /\ NoLostWakeup' /\ WaitersMatch'
<1>1. UNCHANGED <<source, enqueued, completed, carver, carvePool, bufWaiters>>
  BY DEF carveVars
<1> QED
  BY <1>1 DEF Inv, BuffersAccounted, NoLostWakeup, WaitersMatch, Streams

(* A carver that neither waits nor was woken does not matter to those who    *)
(* do.                                                                       *)
LEMMA OthersWait ==
  ASSUME Inv, NEW k \in Keys, NEW c,
         carver[k] \notin {"waiting", "woken"}, c \notin {"waiting", "woken"},
         carver' = [carver EXCEPT ![k] = c], UNCHANGED <<carvePool, bufWaiters>>
  PROVE  NoLostWakeup' /\ WaitersMatch'
<1>1. \A j \in Keys : carver'[j] = IF j = k THEN c ELSE carver[j]
  BY DEF Inv, TypeOK
<1>2. Woken' = Woken
  BY <1>1 DEF Woken
<1>3. NoLostWakeup'
  BY <1>2 DEF Inv, NoLostWakeup, Woken
<1>4. \A i \in 1 .. Len(bufWaiters) :
        bufWaiters[i] \in Keys /\ carver[bufWaiters[i]] = "waiting"
  BY DEF Inv, TypeOK, WaitersMatch
<1>5. WaitersMatch'
  BY <1>1, <1>4 DEF Inv, WaitersMatch
<1> QED
  BY <1>3, <1>5

-----------------------------------------------------------------------------
(* The steps of upload() that leave the pool alone.                          *)

LEMMA CallKeeps ==
  ASSUME Inv, NEW k \in Keys, UNCHANGED source,
         Call(k) \/ CreateFails(k) \/ SourceRefused(k)
  PROVE  Inv'
<1>1. /\ UNCHANGED <<source, uploadObjects, uploadActive, urr, recordVars, completing,
                     requests, carveVars, freeLanes, failed, workerVars>>
      /\ call[k] \in {"none", "creating"}
      /\ \E c \in {"creating", "rejected"} : call' = [call EXCEPT ![k] = c]
      /\ \/ UNCHANGED aborted
         \/ call'[k] = "rejected" /\ aborted' = [aborted EXCEPT ![k] = TRUE]
  <2>1. CASE Call(k)
    BY <2>1 DEF Call, mpuVars
  <2>2. CASE CreateFails(k)
    BY <2>2 DEF CreateFails, mpuVars
  <2>3. CASE SourceRefused(k)
    BY <2>3 DEF SourceRefused, Abort, Inv, TypeOK
  <2> QED BY <2>1, <2>2, <2>3
<1>2. TypeOK'
  <2>1. call' \in [Keys -> CallStates]
    <3>1. PICK c \in {"creating", "rejected"} : call' = [call EXCEPT ![k] = c]
      BY <1>1
    <3> QED BY <3>1 DEF Inv, TypeOK, CallStates
  <2>2. aborted' \in [Keys -> BOOLEAN]
    <3>1. aborted \in [Keys -> BOOLEAN]
      BY DEF Inv, TypeOK
    <3>2. CASE UNCHANGED aborted
      BY <3>1, <3>2
    <3>3. CASE aborted' = [aborted EXCEPT ![k] = TRUE]
      BY <3>1, <3>3
    <3> QED BY <1>1, <3>2, <3>3
  <2>3. UNCHANGED <<source, uploadObjects, uploadActive, urr, enqueued, dispatched,
                    partsTotal, partsUploaded, completed, completing, requests, carver,
                    carvePool, bufWaiters, freeLanes, failed, uploading, broken, dead>>
    BY <1>1 DEF recordVars, carveVars, workerVars
  <2> QED BY <2>1, <2>2, <2>3 DEF Inv, TypeOK
<1>3. PartsAccounted' /\ CountersMatch'
  BY <1>1, PoolUntouched DEF recordVars, workerVars
<1>4. BuffersAccounted' /\ NoLostWakeup' /\ WaitersMatch'
  BY <1>1, CarveUntouched DEF recordVars
<1>5. RecordOutlivesParts'
  BY <1>1 DEF Inv, RecordOutlivesParts, Outstanding, workerVars
<1>6. Fresh(k)
  BY <1>1 DEF Inv, RecordsMatch, CallMatches
<1>7. RecordsMatch'
  <2> SUFFICES ASSUME NEW j \in Keys
               PROVE  (CallMatches(j) /\ TotalMatches(j) /\ CarverMatches(j))'
    BY DEF RecordsMatch
  <2>1. CallMatches(j) /\ TotalMatches(j) /\ CarverMatches(j)
    BY DEF Inv, RecordsMatch
  <2>2. CASE j = k
    BY <1>1, <1>6, <2>1, <2>2
    DEF CallMatches, TotalMatches, CarverMatches, Fresh, Streams, Carving, PlannedTotal,
        Inv, TypeOK, recordVars, carveVars
  <2>3. CASE j # k
    BY <1>1, <2>1, <2>3
    DEF CallMatches, TotalMatches, CarverMatches, Fresh, Streams, Carving, PlannedTotal,
        Inv, TypeOK, recordVars, carveVars
  <2> QED BY <2>2, <2>3
<1>8. CompleteOnce'
  <2> SUFFICES ASSUME NEW j \in Keys
               PROVE  /\ requests'[j] # <<>> => requests'[j] = <<1 .. Parts[j]>> /\ ~aborted'[j]
                      /\ requests'[j] # <<>> => completed'[j] = 1 .. Parts[j]
                      /\ call'[j] = "resolved" => requests'[j] # <<>>
    BY DEF CompleteOnce
  <2>1. /\ requests[j] # <<>> => requests[j] = <<1 .. Parts[j]>> /\ ~aborted[j]
        /\ requests[j] # <<>> => completed[j] = 1 .. Parts[j]
        /\ call[j] = "resolved" => requests[j] # <<>>
    BY DEF Inv, CompleteOnce
  <2>2. requests[k] = <<>>
    BY <1>6 DEF Inv, RecordsMatch, TotalMatches, Fresh
  <2> QED BY <1>1, <2>1, <2>2 DEF Inv, TypeOK, recordVars
<1> QED
  BY <1>2, <1>3, <1>4, <1>5, <1>7, <1>8 DEF Inv

LEMMA CreateReplyStreamKeeps ==
  ASSUME Inv, NEW k \in Keys, UNCHANGED source, CreateReplyStream(k)
  PROVE  Inv'
<1>1. /\ call[k] = "creating" /\ k \in Streams
      /\ call' = [call EXCEPT ![k] = "running"]
      /\ uploadObjects' = uploadObjects \cup {k}
      /\ carver' = [carver EXCEPT ![k] = "reading"]
      /\ UNCHANGED <<source, uploadActive, urr, recordVars, mpuVars, carvePool, bufWaiters,
                     freeLanes, failed, workerVars>>
  BY DEF CreateReplyStream
<1>2. TypeOK'
  BY <1>1 DEF Inv, TypeOK, CallStates, CarverStates, recordVars, mpuVars, workerVars
<1>3. PartsAccounted' /\ CountersMatch'
  BY <1>1, PoolUntouched DEF recordVars, workerVars
<1>4. Fresh(k)
  BY <1>1 DEF Inv, RecordsMatch, CallMatches
<1>5. \A j \in Keys : carver'[j] = IF j = k THEN "reading" ELSE carver[j]
  BY <1>1 DEF Inv, TypeOK
<1>6. carver[k] = "idle"
  BY <1>4 DEF Fresh
<1>7. BuffersAccounted'
  <2>1. InHand' = InHand /\ Carved' = Carved
    BY <1>1, <1>5, <1>6 DEF InHand, Carved, Streams, recordVars
  <2>2. BuffersRead'
    BY BuffersRead, PTL
  <2> QED BY <1>1, <2>1, <2>2, BuffersRead DEF Inv
<1>8. NoLostWakeup' /\ WaitersMatch'
  BY <1>1, <1>6, OthersWait
<1>9. RecordOutlivesParts'
  BY <1>1 DEF Inv, RecordOutlivesParts, Outstanding, workerVars
<1>10. RecordsMatch'
  <2> SUFFICES ASSUME NEW j \in Keys
               PROVE  (CallMatches(j) /\ TotalMatches(j) /\ CarverMatches(j))'
    BY DEF RecordsMatch
  <2>1. CallMatches(j) /\ TotalMatches(j) /\ CarverMatches(j)
    BY DEF Inv, RecordsMatch
  <2> QED BY <1>1, <1>4, <1>5, <2>1
          DEF CallMatches, TotalMatches, CarverMatches, Fresh, Streams, Carving,
              PlannedTotal, Inv, TypeOK, recordVars, mpuVars
<1>11. CompleteOnce'
  BY <1>1 DEF Inv, TypeOK, CompleteOnce, recordVars, mpuVars
<1> QED
  BY <1>2, <1>3, <1>7, <1>8, <1>9, <1>10, <1>11 DEF Inv

-----------------------------------------------------------------------------
(* The answers that settle a call, and the failures.                         *)

LEMMA SettleKeeps ==
  ASSUME Inv, NEW k \in Keys, UNCHANGED source, CompleteReply(k) \/ CompleteFails(k)
  PROVE  Inv'
<1>1. /\ completing[k] = "sent"
      /\ completing' = [completing EXCEPT ![k] = "answered"]
      /\ \/ /\ call' = [call EXCEPT ![k] = IF @ = "running" THEN "resolved" ELSE @]
            /\ uploadObjects' = uploadObjects \ {k}
         \/ /\ call' = [call EXCEPT ![k] = IF @ = "running" THEN "rejected" ELSE @]
            /\ uploadObjects' = uploadObjects
      /\ UNCHANGED <<source, uploadActive, urr, recordVars, requests, aborted, carveVars,
                     freeLanes, failed, workerVars>>
  BY DEF CompleteReply, CompleteFails, Settle
<1>2. TypeOK'
  <2>1. call' \in [Keys -> CallStates] /\ completing' \in [Keys -> CompletingStates]
    <3>1. PICK o \in {"resolved", "rejected"} :
            call' = [call EXCEPT ![k] = IF @ = "running" THEN o ELSE @]
      BY <1>1
    <3>2. call' \in [Keys -> CallStates]
      BY <3>1 DEF Inv, TypeOK, CallStates
    <3>3. completing' \in [Keys -> CompletingStates]
      BY <1>1 DEF Inv, TypeOK, CompletingStates
    <3> QED BY <3>2, <3>3
  <2>2. uploadObjects' \subseteq Keys
    BY <1>1 DEF Inv, TypeOK
  <2> QED BY <1>1, <2>1, <2>2 DEF Inv, TypeOK, recordVars, carveVars, workerVars
<1>3. PartsAccounted' /\ CountersMatch'
  BY <1>1, PoolUntouched DEF recordVars, workerVars
<1>4. BuffersAccounted' /\ NoLostWakeup' /\ WaitersMatch'
  BY <1>1, CarveUntouched DEF recordVars
<1>5. requests[k] # <<>> /\ completed[k] = 1 .. Parts[k] /\ partsTotal[k] # 0
  BY <1>1 DEF Inv, RecordsMatch, TotalMatches, CompleteOnce
<1>6. \A t \in Outstanding : t[1] # k
  BY <1>5, DispatchReady DEF Inv
<1>7. RecordOutlivesParts'
  BY <1>1, <1>6 DEF Inv, RecordOutlivesParts, Outstanding, workerVars
<1>8. dispatched[k] = enqueued[k]
  <2>1. Parts[k] \in Nat /\ dispatched[k] \in Nat /\ enqueued[k] \in Nat
    BY PartShape DEF Inv, TypeOK
  <2>2. dispatched[k] <= enqueued[k] /\ enqueued[k] <= Parts[k]
    BY DispatchReady DEF Inv, QueuesBounded
  <2>3. \A n \in 1 .. Parts[k] : ~ n > dispatched[k]
    BY <1>5, DispatchReady DEF Inv, PartsAt
  <2>4. CASE Parts[k] = 0
    BY <2>1, <2>2, <2>4
  <2>5. CASE Parts[k] > 0
    <3>1. Parts[k] \in 1 .. Parts[k]
      BY <2>1, <2>5
    <3>2. ~ Parts[k] > dispatched[k]
      BY <2>3, <3>1
    <3> QED BY <2>1, <2>2, <3>2
  <2> QED BY <2>1, <2>4, <2>5
<1>9. Carving = {"reading", "filling", "waiting", "woken"} /\ carver[k] \notin Carving
  BY <1>5 DEF Inv, RecordsMatch, CarverMatches, Carving
<1>10. RecordsMatch'
  <2> SUFFICES ASSUME NEW j \in Keys
               PROVE  (CallMatches(j) /\ TotalMatches(j) /\ CarverMatches(j))'
    BY DEF RecordsMatch
  <2>1. CallMatches(j) /\ TotalMatches(j) /\ CarverMatches(j)
    BY DEF Inv, RecordsMatch
  <2>2. UNCHANGED <<Streams, enqueued, dispatched, completed, partsTotal, requests,
                    aborted, carver, Carving>>
    BY <1>1 DEF recordVars, carveVars, Streams, Carving
  <2>3. CallMatches(j)'
    <3>1. CASE j = k
      <4>1. ~ Fresh(k)
        BY <1>5 DEF Fresh
      <4>2. call[k] \notin {"none", "creating"} /\ (call[k] = "resolved" => k \notin uploadObjects)
        BY <2>1, <3>1, <4>1 DEF CallMatches
      <4>3. call'[k] \notin {"none", "creating"} /\ completing'[k] = "answered"
        BY <1>1, <4>2 DEF Inv, TypeOK
      <4>4. call'[k] = "resolved" => k \notin uploadObjects'
        BY <1>1, <4>2 DEF Inv, TypeOK
      <4> QED BY <1>8, <2>2, <3>1, <4>3, <4>4 DEF CallMatches
    <3>2. CASE j # k
      BY <1>1, <2>1, <2>2, <3>2 DEF CallMatches, Fresh, Inv, TypeOK
    <3> QED BY <3>1, <3>2
  <2>4. TotalMatches(j)'
    BY <1>1, <2>1, <2>2 DEF TotalMatches, PlannedTotal, Inv, TypeOK
  <2>5. CarverMatches(j)'
    <3>1. carver[j] \in Carving => j # k
      BY <1>9
    <3>2. carver[j] \in Carving => j \in uploadObjects'
      BY <1>1, <2>1, <3>1 DEF CarverMatches
    <3> QED BY <2>1, <2>2, <3>2 DEF CarverMatches
  <2> QED BY <2>3, <2>4, <2>5
<1>11. CompleteOnce'
  <2>1. requests' = requests /\ completed' = completed /\ aborted' = aborted
    BY <1>1 DEF recordVars
  <2>2. \A j \in Keys : call'[j] = "resolved" => call[j] = "resolved" \/ j = k
    BY <1>1 DEF Inv, TypeOK
  <2> QED BY <1>5, <2>1, <2>2 DEF Inv, CompleteOnce
<1> QED
  BY <1>2, <1>3, <1>4, <1>7, <1>10, <1>11 DEF Inv

(* A failed part goes on holding its lane and, as a part that is not         *)
(* uploaded, its buffer.                                                     *)
LEMMA FailKeeps ==
  ASSUME Inv, UNCHANGED source,
         \/ \E p \in uploading : PartFails(p[1], p[2], p[3])
         \/ \E w \in Workers : WorkerDies(w)
  PROVE  Inv'
<1>1. /\ failed' = TRUE
      /\ call' = [k \in Keys |-> IF FailRejects(k) THEN "rejected" ELSE call[k]]
      /\ UNCHANGED <<source, uploadObjects, uploadActive, urr, recordVars, mpuVars, carveVars,
                     freeLanes>>
  BY DEF PartFails, WorkerDies, Fail
<1>2. \/ \E t \in uploading : /\ uploading' = uploading \ {t}
                              /\ broken' = broken \cup {t}
                              /\ dead' = dead
      \/ uploading' = uploading /\ broken' = broken /\ dead' \subseteq Workers
  <2>1. ASSUME NEW p \in uploading, PartFails(p[1], p[2], p[3])
        PROVE  \E t \in uploading : /\ uploading' = uploading \ {t}
                                    /\ broken' = broken \cup {t}
                                    /\ dead' = dead
    BY <2>1 DEF PartFails
  <2>2. ASSUME NEW w \in Workers, WorkerDies(w)
        PROVE  uploading' = uploading /\ broken' = broken /\ dead' \subseteq Workers
    BY <2>2 DEF WorkerDies, Inv, TypeOK
  <2> QED BY <2>1, <2>2
<1>3. /\ UNCHANGED Outstanding
      /\ \A t : t \in uploading' /\ t \in broken' => t \in uploading /\ t \in broken
  BY <1>2 DEF Outstanding
<1>4. TypeOK'
  <2>1. call' \in [Keys -> CallStates]
    BY <1>1 DEF Inv, TypeOK, CallStates
  <2>2. /\ uploading' \subseteq Assignments /\ broken' \subseteq Assignments
        /\ dead' \subseteq Workers
    BY <1>2 DEF Inv, TypeOK
  <2> QED BY <1>1, <2>1, <2>2 DEF Inv, TypeOK, recordVars, mpuVars, carveVars
<1>5. PartsAccounted' /\ CountersMatch'
  <2>1. UNCHANGED <<enqueued, dispatched, partsUploaded, completed, freeLanes>>
    BY <1>1 DEF recordVars
  <2>2. \A k, n : UNCHANGED HoldersOf(k, n)
    BY <1>3 DEF HoldersOf
  <2>3. \A w : UNCHANGED OnWorker(w)
    BY <1>3 DEF OnWorker
  <2>4. CountersMatch'
    BY <2>1, <2>3 DEF Inv, CountersMatch
  <2>5. PartsAccounted'
    BY <1>3, <2>1, <2>2 DEF Inv, PartsAccounted
  <2> QED BY <2>4, <2>5
<1>6. BuffersAccounted' /\ NoLostWakeup' /\ WaitersMatch'
  BY <1>1, CarveUntouched DEF recordVars
<1>7. RecordOutlivesParts'
  BY <1>1, <1>3 DEF Inv, RecordOutlivesParts
<1>8. \A k \in Keys : call'[k] = call[k] \/ call'[k] = "rejected"
  BY <1>1 DEF Inv, TypeOK
<1>9. RecordsMatch'
  BY <1>1, <1>8 DEF Inv, RecordsMatch, CallMatches, TotalMatches, CarverMatches, Fresh,
                    Streams, Carving, PlannedTotal, recordVars, mpuVars, carveVars
<1>10. CompleteOnce'
  BY <1>1, <1>8 DEF Inv, CompleteOnce, recordVars, mpuVars
<1> QED
  BY <1>4, <1>5, <1>6, <1>7, <1>9, <1>10 DEF Inv

-----------------------------------------------------------------------------
(* The start of a stream's part: a buffer, or a place in the line for one.   *)

LEMMA TakeBufferKeeps ==
  ASSUME Inv, NEW k \in Keys, UNCHANGED source, TakeBuffer(k)
  PROVE  Inv'
<1>1. /\ carver[k] = "woken" \/ (carver[k] = "reading" /\ enqueued[k] < Parts[k])
      /\ Acquire(k)
      /\ UNCHANGED <<source, call, uploadObjects, uploadActive, urr, recordVars, mpuVars,
                     freeLanes, failed, workerVars>>
  BY DEF TakeBuffer
<1>2. /\ carvePool \in Nat
      /\ \/ /\ carvePool > 0 /\ carvePool' = carvePool - 1
            /\ carver' = [carver EXCEPT ![k] = "filling"]
            /\ bufWaiters' = bufWaiters
         \/ /\ carvePool = 0 /\ carvePool' = carvePool
            /\ carver' = [carver EXCEPT ![k] = "waiting"]
            /\ bufWaiters' = Append(bufWaiters, k)
  <2>1. carvePool \in Nat
    BY CarveTypes DEF Inv
  <2> QED BY <1>1, <2>1 DEF Acquire
<1>3. \E c \in {"filling", "waiting"} :
        \A j \in Keys : carver'[j] = IF j = k THEN c ELSE carver[j]
  BY <1>2, CarveTypes DEF Inv
<1>4. TypeOK'
  <2>1. carver' \in [Keys -> CarverStates] /\ bufWaiters' \in Seq(Keys)
    BY <1>2, CarveTypes DEF Inv, CarverStates
  <2>2. carvePool' \in 0 .. Buffers
    BY <1>2, BuffersAssumption DEF Inv, TypeOK
  <2>3. UNCHANGED <<source, call, uploadObjects, uploadActive, urr, enqueued, dispatched,
                    partsTotal, partsUploaded, completed, completing, requests, aborted,
                    freeLanes, failed, uploading, broken, dead>>
    BY <1>1 DEF recordVars, mpuVars, workerVars
  <2> QED BY <2>1, <2>2, <2>3 DEF Inv, TypeOK
<1>5. PartsAccounted' /\ CountersMatch'
  BY <1>1, PoolUntouched DEF recordVars, workerVars
<1>6. Carved' = Carved /\ BuffersRead'
  <2>1. UNCHANGED <<source, enqueued, completed>>
    BY <1>1 DEF recordVars
  <2>2. BuffersRead'
    BY BuffersRead, PTL
  <2> QED BY <2>1, <2>2 DEF Carved, Streams
<1>7. BuffersAccounted'
  <2>1. carvePool + Cardinality(InHand) + Cardinality(Carved) = Buffers
    BY BuffersRead DEF Inv
  <2>2. CASE carver'[k] = "filling"
    <3>1. k \notin InHand /\ InHand' = InHand \cup {k} /\ carvePool' = carvePool - 1
      BY <1>1, <1>2, <1>3, <2>2, CarveTypes DEF InHand, Inv
    <3>2. Cardinality(InHand') = Cardinality(InHand) + 1
      BY <3>1, BuffersFinite, FS_AddElement
    <3>3. carvePool' + Cardinality(InHand') + Cardinality(Carved') = Buffers
      BY <1>2, <1>6, <2>1, <3>1, <3>2, BuffersFinite
    <3> QED BY <1>6, <3>3
  <2>3. CASE carver'[k] = "waiting"
    <3>1. InHand' = InHand /\ carvePool' = carvePool
      BY <1>1, <1>2, <1>3, <2>3, CarveTypes DEF InHand, Inv
    <3> QED BY <1>6, <2>1, <3>1
  <2> QED BY <1>3, <2>2, <2>3
<1>8. NoLostWakeup'
  <2> SUFFICES ASSUME bufWaiters' # <<>>, carvePool > 0
               PROVE  carvePool' <= Cardinality(Woken')
    <3>1. Cardinality(Woken') \in Nat
      BY KeysFinite DEF Woken
    <3> QED BY <1>2, <3>1 DEF NoLostWakeup, Woken
  <2>1. carvePool <= Cardinality(Woken) /\ carvePool' = carvePool - 1
    BY <1>2 DEF Inv, NoLostWakeup, Woken
  <2>2. Woken' = Woken \ {k}
    BY <1>3 DEF Woken
  <2>3. Cardinality(Woken') >= Cardinality(Woken) - 1
    <3>1. IsFiniteSet(Woken) /\ Cardinality(Woken) \in Nat
      BY BuffersFinite
    <3>2. CASE k \in Woken
      BY <2>2, <3>1, <3>2, RemovedSize
    <3>3. CASE k \notin Woken
      <4>1. Woken' = Woken
        BY <2>2, <3>3
      <4> QED BY <3>1, <4>1
    <3> QED BY <3>2, <3>3
  <2>4. Cardinality(Woken') \in Nat
    BY KeysFinite DEF Woken
  <2> QED BY <1>2, <2>1, <2>3, <2>4, BuffersFinite
<1>9. WaitersMatch'
  <2>1. \A i \in 1 .. Len(bufWaiters) :
          bufWaiters[i] \in Keys /\ carver[bufWaiters[i]] = "waiting" /\ bufWaiters[i] # k
    BY <1>1, CarveTypes DEF Inv, WaitersMatch
  <2>2. CASE bufWaiters' = bufWaiters
    BY <1>3, <2>1, <2>2 DEF Inv, WaitersMatch
  <2>3. CASE bufWaiters' = Append(bufWaiters, k) /\ carver' = [carver EXCEPT ![k] = "waiting"]
    <3>1. /\ Len(bufWaiters') = Len(bufWaiters) + 1 /\ Len(bufWaiters) \in Nat
          /\ \A i \in 1 .. Len(bufWaiters) : bufWaiters'[i] = bufWaiters[i]
          /\ bufWaiters'[Len(bufWaiters) + 1] = k
      BY <2>3, CarveTypes DEF Inv
    <3>2. \A j \in Keys : carver'[j] = IF j = k THEN "waiting" ELSE carver[j]
      BY <2>3, CarveTypes DEF Inv
    <3> QED BY <2>1, <3>1, <3>2 DEF Inv, WaitersMatch
  <2> QED BY <1>2, <2>2, <2>3
<1>10. RecordOutlivesParts'
  BY <1>1 DEF Inv, RecordOutlivesParts, Outstanding, workerVars
<1>11. RecordsMatch'
  <2> SUFFICES ASSUME NEW j \in Keys
               PROVE  (CallMatches(j) /\ TotalMatches(j) /\ CarverMatches(j))'
    BY DEF RecordsMatch
  <2>1. CallMatches(j) /\ TotalMatches(j) /\ CarverMatches(j)
    BY DEF Inv, RecordsMatch
  <2> QED BY <1>1, <1>3, <2>1
          DEF CallMatches, TotalMatches, CarverMatches, Fresh, Streams, Carving,
              PlannedTotal, recordVars, mpuVars
<1>12. CompleteOnce'
  BY <1>1 DEF Inv, CompleteOnce, recordVars, mpuVars
<1> QED
  BY <1>4, <1>5, <1>7, <1>8, <1>9, <1>10, <1>11, <1>12 DEF Inv

-----------------------------------------------------------------------------
(* What a call of _enqueueUpload leaves that puts the parts of k up to       *)
(* number n in its queue.                                                    *)
Enqueued(k, n) ==
  /\ enqueued' \in [Keys -> Nat]
  /\ \A j \in Keys : enqueued'[j] = IF j = k THEN n ELSE enqueued[j]
  /\ uploadActive' \in Seq(Keys) /\ urr' \in Nat
  /\ dispatched' \in [Keys -> Nat]
  /\ \A j \in Keys : dispatched[j] <= dispatched'[j] /\ dispatched'[j] <= enqueued'[j]
  /\ freeLanes' \in [Workers -> 0 .. Concurrency]
  /\ uploading' \subseteq Assignments
  /\ \A t \in Outstanding' : t \in Outstanding \/ (t[1] \in Keys /\ dispatched[t[1]] < enqueued'[t[1]])

LEMMA EnqueuedTypes ==
  ASSUME NEW k \in Keys, NEW STATE n, Enqueued(k, n)
  PROVE  /\ enqueued' \in [Keys -> Nat] /\ dispatched' \in [Keys -> Nat]
         /\ uploadActive' \in Seq(Keys) /\ urr' \in Nat
         /\ freeLanes' \in [Workers -> 0 .. Concurrency]
         /\ uploading' \subseteq Assignments
BY DEF Enqueued

LEMMA SourceListed ==
  ASSUME NEW k \in Keys, uploadActive \in Seq(Keys)
  PROVE  WithSource(k) \in Seq(Keys)
BY DEF WithSource

LEMMA EnqueueKeeps ==
  ASSUME Inv, NEW k \in Keys, NEW STATE n, n \in Nat, enqueued[k] <= n, n <= Parts[k],
         EnqueueUpTo(k, n), UNCHANGED <<source, completed, partsUploaded, broken>>
  PROVE  Enqueued(k, n) /\ PartsAccounted' /\ CountersMatch'
<1>1. /\ enqueued' = [enqueued EXCEPT ![k] = n]
      /\ uploadActive' = IF n > enqueued[k] THEN WithSource(k) ELSE uploadActive
      /\ DispatchUpload(uploadActive', enqueued', uploading, freeLanes)
  BY DEF EnqueueUpTo
<1>2. /\ enqueued \in [Keys -> Nat] /\ dispatched \in [Keys -> Nat]
      /\ uploadActive \in Seq(Keys) /\ urr \in Nat
  BY DEF Inv, TypeOK
<1>3. uploadActive' \in Seq(Keys)
  BY <1>1, <1>2, SourceListed
<1>4. enqueued' \in [Keys -> Nat] /\ \A j \in Keys : enqueued'[j] = IF j = k THEN n ELSE enqueued[j]
  BY <1>1, <1>2
<1>5. /\ QueuesBounded /\ PartsAt(completed, uploading)
      /\ uploading \subseteq Assignments /\ broken \subseteq Assignments
      /\ \A t \in uploading \cup broken : t[2] <= dispatched[t[1]] /\ t[1] \in Keys
      /\ \A w \in Workers :
           freeLanes[w] = Concurrency - Cardinality(Of(uploading \cup broken, w))
  <2>1. /\ QueuesBounded /\ PartsAt(completed, uploading)
        /\ uploading \subseteq Assignments /\ broken \subseteq Assignments
        /\ \A w \in Workers :
             freeLanes[w] = Concurrency - Cardinality(Of(uploading \cup broken, w))
    BY DispatchReady DEF Inv
  <2>2. \A t \in Outstanding : t[2] <= dispatched[t[1]] /\ t[1] \in Keys
    BY DispatchReady DEF Inv
  <2>3. \A t \in uploading \cup broken : t[2] <= dispatched[t[1]] /\ t[1] \in Keys
    <3>1. Outstanding = uploading \cup broken
      BY DEF Outstanding
    <3> QED BY <2>2, <3>1
  <2> QED BY <2>1, <2>3, Zenon
<1>6. ASSUME NEW j \in Keys
      PROVE  dispatched[j] <= enqueued'[j] /\ enqueued'[j] <= Parts[j]
  <2>1. /\ dispatched[j] \in Nat /\ enqueued[j] \in Nat /\ Parts[j] \in Nat
        /\ dispatched[j] <= enqueued[j] /\ enqueued[j] <= Parts[j]
    BY <1>2, <1>5, PartShape DEF QueuesBounded
  <2>2. enqueued'[j] = IF j = k THEN n ELSE enqueued[j]
    BY <1>4
  <2> QED BY <2>1, <2>2
<1>7. Dispatched(enqueued', uploading)
  <2>1. \A j \in Keys : enqueued'[j] <= Parts[j]
    BY <1>6
  <2>2. \A j \in Keys : dispatched[j] <= enqueued'[j]
    BY <1>6
  <2>3. \A t \in uploading \cup broken : t[2] <= dispatched[t[1]]
    BY <1>5
  <2>4. uploading \subseteq Assignments /\ broken \subseteq Assignments
    BY <1>5
  <2>5. \A w \in Workers :
          freeLanes[w] = Concurrency - Cardinality(Of(uploading \cup broken, w))
    BY <1>5
  <2>6. DispatchUpload(uploadActive', enqueued', uploading, freeLanes)
    BY <1>1
  <2>7. enqueued' \in [Keys -> Nat] /\ dispatched \in [Keys -> Nat] /\ urr \in Nat
    BY <1>2, <1>4
  <2> QED BY <1>3, <2>1, <2>2, <2>3, <2>4, <2>5, <2>6, <2>7, DispatchEffect, ZenonT(40)
<1>8. PartsAccounted'
  BY <1>2, <1>5, <1>6, <1>7, DispatchKeepsParts
<1>9. CountersMatch'
  <2>1. \A w \in Workers : OnWorker(w)' = Of(uploading' \cup broken, w)
    BY DEF OnWorker, Outstanding, Of
  <2> QED BY <1>7, <2>1 DEF Dispatched, Inv, CountersMatch
<1>10. Enqueued(k, n)
  <2>1. \A t \in uploading' \ uploading :
          t[1] \in Keys /\ dispatched[t[1]] < enqueued'[t[1]]
    <3> SUFFICES ASSUME NEW t \in uploading' \ uploading
                 PROVE  t[1] \in Keys /\ dispatched[t[1]] < enqueued'[t[1]]
      OBVIOUS
    <3>1. dispatched[t[1]] < t[2] /\ t[2] <= dispatched'[t[1]]
      BY <1>7 DEF Dispatched
    <3>2. t[1] \in Keys /\ t[2] \in 1 .. Parts[t[1]]
      BY <1>7, AssignmentShape DEF Dispatched
    <3>3. /\ dispatched'[t[1]] <= enqueued'[t[1]]
          /\ dispatched'[t[1]] \in Nat /\ dispatched[t[1]] \in Nat /\ enqueued'[t[1]] \in Nat
          /\ t[2] \in Nat
      BY <1>2, <1>4, <1>7, <3>2, PartShape DEF Dispatched
    <3> QED BY <3>1, <3>2, <3>3
  <2>2. \A t \in Outstanding' : t \in Outstanding \/ t \in uploading' \ uploading
    BY DEF Outstanding
  <2> QED BY <1>3, <1>4, <1>7, <2>1, <2>2 DEF Dispatched, Enqueued
<1> QED
  BY <1>8, <1>9, <1>10

(* The parts handed out are those of objects that have a record.             *)
LEMMA EnqueueRecords ==
  ASSUME Inv, NEW k \in Keys, NEW STATE n, Enqueued(k, n),
         uploadObjects \subseteq uploadObjects', k \in uploadObjects'
  PROVE  RecordOutlivesParts'
<1> SUFFICES ASSUME NEW t \in Outstanding'
             PROVE  t[1] \in uploadObjects'
  BY DEF RecordOutlivesParts
<1>1. CASE t \in Outstanding
  BY <1>1 DEF Inv, RecordOutlivesParts
<1>2. CASE t[1] \in Keys /\ dispatched[t[1]] < enqueued'[t[1]] /\ t[1] # k
  <2>1. dispatched[t[1]] \in Nat /\ dispatched[t[1]] < enqueued[t[1]]
    BY <1>2 DEF Enqueued, Inv, TypeOK
  <2> QED BY <1>2, <2>1 DEF Inv, RecordsMatch, CallMatches
<1> QED
  BY <1>1, <1>2 DEF Enqueued

(* A filled buffer goes from its carver to its part.                         *)
LEMMA PartQueued ==
  ASSUME Inv, NEW k \in Keys, carver[k] = "filling", NEW c \in {"reading", "done"},
         carver' = [carver EXCEPT ![k] = c], EnqueueUpTo(k, enqueued[k] + 1),
         UNCHANGED <<source, completed, partsUploaded, broken, carvePool, bufWaiters>>
  PROVE  /\ Enqueued(k, enqueued[k] + 1) /\ PartsAccounted' /\ CountersMatch'
         /\ BuffersAccounted' /\ NoLostWakeup' /\ WaitersMatch'
<1>1. /\ k \in Streams /\ enqueued[k] < Parts[k] /\ enqueued[k] \in Nat
      /\ dispatched[k] \in Nat /\ Parts[k] \in Nat
  BY PartShape DEF Inv, TypeOK, RecordsMatch, CarverMatches
<1>2. Enqueued(k, enqueued[k] + 1) /\ PartsAccounted' /\ CountersMatch'
  <2> DEFINE n == enqueued[k] + 1
  <2>1. n \in Nat /\ enqueued[k] <= n /\ n <= Parts[k]
    BY <1>1
  <2> QED BY <2>1, EnqueueKeeps
<1>3. NoLostWakeup' /\ WaitersMatch'
  BY OthersWait
<1> DEFINE p == <<k, enqueued[k] + 1>>
<1>4. p \in AllParts /\ p \notin Carved
  <2>1. enqueued[k] + 1 \in 1 .. Parts[k] /\ ~ enqueued[k] + 1 <= enqueued[k]
    BY <1>1
  <2> QED BY <2>1, PartShape DEF Carved
<1>5. enqueued[k] + 1 \notin completed[k]
  <2>1. dispatched[k] <= enqueued[k]
    BY DispatchReady DEF Inv, QueuesBounded
  <2>2. enqueued[k] + 1 \in 1 .. Parts[k] /\ enqueued[k] + 1 > dispatched[k]
    BY <1>1, <2>1
  <2> QED BY <2>2, DispatchReady DEF Inv, PartsAt
<1>6. Carved' = Carved \cup {p}
  <2>1. \A q \in AllParts : q[2] <= enqueued'[q[1]] <=> q[2] <= enqueued[q[1]] \/ q = p
    <3> SUFFICES ASSUME NEW q \in AllParts
                 PROVE  q[2] <= enqueued'[q[1]] <=> q[2] <= enqueued[q[1]] \/ q = p
      OBVIOUS
    <3>1. q = <<q[1], q[2]>> /\ q[1] \in Keys /\ q[2] \in Nat /\ enqueued[q[1]] \in Nat
      BY PartShape DEF Inv, TypeOK
    <3>2. enqueued'[q[1]] = IF q[1] = k THEN enqueued[k] + 1 ELSE enqueued[q[1]]
      BY <1>2, <3>1 DEF Enqueued
    <3> QED BY <3>1, <3>2
  <2> QED BY <1>1, <1>4, <1>5, <2>1 DEF Carved, Streams
<1>7. Cardinality(Carved') = Cardinality(Carved) + 1
  BY <1>4, <1>6, BuffersFinite, FS_AddElement
<1>8. Cardinality(InHand') = Cardinality(InHand) - 1
  <2>1. k \in InHand /\ InHand' = InHand \ {k}
    BY CarveTypes DEF Inv, InHand
  <2> QED BY <2>1, BuffersFinite, RemovedSize
<1>9. BuffersAccounted'
  <2>1. carvePool + Cardinality(InHand) + Cardinality(Carved) = Buffers
    BY BuffersRead DEF Inv
  <2>2. carvePool' + Cardinality(InHand') + Cardinality(Carved') = Buffers
    BY <1>7, <1>8, <2>1, BuffersFinite, CarveTypes DEF Inv
  <2>3. BuffersRead'
    BY BuffersRead, PTL
  <2> QED BY <2>2, <2>3
<1> QED
  BY <1>2, <1>3, <1>9

-----------------------------------------------------------------------------
(* What _maybeCompleteUpload leaves for k when `numbers' are the parts       *)
(* uploaded and total is partsTotal.                                         *)
Completing(k, total, numbers) ==
  /\ completing' \in [Keys -> CompletingStates]
  /\ requests' \in [Keys -> Seq(SUBSET Nat)]
  /\ \A j \in Keys \ {k} : completing'[j] = completing[j] /\ requests'[j] = requests[j]
  /\ completing'[k] = "no" <=> requests'[k] = <<>>
  /\ completing[k] # "no" => completing'[k] = completing[k]
  /\ requests[k] # <<>> => requests'[k] # <<>>
  /\ requests'[k] # <<>> => /\ total # 0 /\ ~aborted[k]
                            /\ requests'[k] = <<1 .. Parts[k]>> /\ numbers = 1 .. Parts[k]

LEMMA CompletionEffect ==
  ASSUME Inv, NEW k \in Keys, NEW total, NEW count, NEW numbers,
         numbers \subseteq 1 .. Parts[k], count = Cardinality(numbers),
         total # 0 => total = PlannedTotal(k) /\ ~aborted[k],
         completing[k] # "no" => total # 0 /\ numbers = completed[k],
         MaybeComplete(k, total, count, numbers)
  PROVE  Completing(k, total, numbers)
<1>1. /\ completing \in [Keys -> CompletingStates]
      /\ requests \in [Keys -> Seq(SUBSET Nat)]
      /\ Parts[k] \in Nat
  BY PartShape DEF Inv, TypeOK
<1>2. /\ completing[k] = "no" <=> requests[k] = <<>>
      /\ requests[k] # <<>> => requests[k] = <<1 .. Parts[k]>> /\ ~aborted[k]
      /\ requests[k] # <<>> => completed[k] = 1 .. Parts[k]
  BY DEF Inv, RecordsMatch, TotalMatches, CompleteOnce
<1>3. CASE Completes(k, total, count)
  <2>1. completing[k] = "no" /\ total # 0 /\ count = total
    BY <1>3 DEF Completes
  <2>2. IsFiniteSet(1 .. Parts[k]) /\ Cardinality(1 .. Parts[k]) = Parts[k]
    <3>1. 1 \in Int /\ Parts[k] \in Int
      BY <1>1
    <3>2. /\ IsFiniteSet(1 .. Parts[k])
          /\ Cardinality(1 .. Parts[k]) = IF 1 > Parts[k] THEN 0 ELSE Parts[k] - 1 + 1
      BY <3>1, FS_Interval
    <3> QED BY <1>1, <3>2
  <2>3. numbers = 1 .. Parts[k]
    <3>1. /\ Cardinality(numbers) <= Parts[k]
          /\ Cardinality(numbers) = Parts[k] => numbers = 1 .. Parts[k]
      BY <2>2, FS_Subset
    <3>2. Parts[k] # 0
      <4> SUFFICES ASSUME Parts[k] = 0 PROVE FALSE
        OBVIOUS
      <4>1. numbers = {} /\ PlannedTotal(k) = 1
        BY DEF PlannedTotal
      <4>2. Cardinality(numbers) = 0
        BY <4>1, FS_EmptySet
      <4> QED BY <2>1, <4>1, <4>2
    <3> QED BY <2>1, <3>1, <3>2 DEF PlannedTotal
  <2>4. /\ completing' = [completing EXCEPT ![k] = "sent"]
        /\ requests' = [requests EXCEPT ![k] = Append(@, numbers)]
    BY <1>3 DEF MaybeComplete
  <2>5. numbers \in SUBSET Nat
    BY <1>1
  <2>6. requests[k] = <<>> /\ Append(requests[k], numbers) = <<numbers>>
    BY <1>1, <1>2, <2>1, <2>5
  <2>7. completing' \in [Keys -> CompletingStates]
    BY <1>1, <2>4 DEF CompletingStates
  <2>8. requests' \in [Keys -> Seq(SUBSET Nat)] /\ requests'[k] = <<numbers>>
    <3>1. <<numbers>> \in Seq(SUBSET Nat)
      BY <2>5
    <3> QED BY <1>1, <2>4, <2>6, <3>1
  <2>9. /\ \A j \in Keys \ {k} : completing'[j] = completing[j] /\ requests'[j] = requests[j]
        /\ completing'[k] = "sent"
    BY <1>1, <2>4
  <2>10. <<numbers>> # <<>>
    OBVIOUS
  <2> QED BY <2>1, <2>3, <2>6, <2>7, <2>8, <2>9, <2>10 DEF Completing
<1>4. CASE ~Completes(k, total, count)
  <2>1. completing' = completing /\ requests' = requests
    BY <1>4 DEF MaybeComplete
  <2> QED BY <1>1, <1>2, <2>1 DEF Completing
<1> QED
  BY <1>3, <1>4

-----------------------------------------------------------------------------
(* The steps that put parts in the queues.                                   *)

LEMMA CreateReplyKeeps ==
  ASSUME Inv, NEW k \in Keys, UNCHANGED source, CreateReply(k)
  PROVE  Inv'
<1>1. /\ call[k] = "creating" /\ k \notin Streams
      /\ call' = [call EXCEPT ![k] = "running"]
      /\ uploadObjects' = uploadObjects \cup {k}
      /\ partsTotal' = [partsTotal EXCEPT ![k] = PlannedTotal(k)]
      /\ EnqueueUpTo(k, Parts[k])
      /\ UNCHANGED <<source, partsUploaded, completed, completing, requests, aborted, carver,
                     carvePool, bufWaiters, failed, broken, dead>>
  BY DEF CreateReply, Streams, mpuVars, carveVars
<1>2. /\ Fresh(k) /\ Parts[k] \in Nat /\ PlannedTotal(k) \in Nat \ {0}
  BY <1>1, PartShape DEF Inv, RecordsMatch, CallMatches, PlannedTotal
<1>3. Enqueued(k, Parts[k]) /\ PartsAccounted' /\ CountersMatch'
  <2>1. enqueued[k] <= Parts[k]
    BY <1>2 DEF Fresh
  <2> QED BY <1>1, <1>2, <2>1, EnqueueKeeps
<1>4. TypeOK'
  <2>1. call' \in [Keys -> CallStates] /\ partsTotal' \in [Keys -> Nat] /\ uploadObjects' \subseteq Keys
    BY <1>1, <1>2 DEF Inv, TypeOK, CallStates
  <2>2. /\ enqueued' \in [Keys -> Nat] /\ dispatched' \in [Keys -> Nat]
        /\ uploadActive' \in Seq(Keys) /\ urr' \in Nat
        /\ freeLanes' \in [Workers -> 0 .. Concurrency]
        /\ uploading' \subseteq Assignments
    BY <1>3, EnqueuedTypes
  <2>3. UNCHANGED <<source, partsUploaded, completed, completing, requests, aborted, carver,
                    carvePool, bufWaiters, failed, broken, dead>>
    BY <1>1
  <2>4. /\ source' \in Sources
        /\ partsUploaded' \in [Keys -> Nat] /\ completed' \in [Keys -> SUBSET Nat]
        /\ completing' \in [Keys -> CompletingStates]
        /\ requests' \in [Keys -> Seq(SUBSET Nat)]
        /\ aborted' \in [Keys -> BOOLEAN]
        /\ carver' \in [Keys -> CarverStates] /\ carvePool' \in 0 .. Buffers
        /\ bufWaiters' \in Seq(Keys)
        /\ failed' \in BOOLEAN
        /\ broken' \subseteq Assignments
        /\ dead' \subseteq Workers
    BY <2>3 DEF Inv, TypeOK
  <2> QED BY <2>1, <2>2, <2>4 DEF TypeOK
<1>5. BuffersAccounted'
  <2>1. \A q \in AllParts : q[1] \in Streams => enqueued'[q[1]] = enqueued[q[1]]
    BY <1>1, <1>3, PartShape DEF Enqueued
  <2>2. Carved' = Carved /\ InHand' = InHand
    BY <1>1, <2>1 DEF Carved, InHand, Streams
  <2>3. BuffersRead'
    BY BuffersRead, PTL
  <2> QED BY <1>1, <2>2, <2>3, BuffersRead DEF Inv
<1>6. NoLostWakeup' /\ WaitersMatch'
  BY <1>1 DEF Inv, NoLostWakeup, WaitersMatch
<1>7. RecordOutlivesParts'
  BY <1>1, <1>3, EnqueueRecords
<1>8. RecordsMatch'
  <2> SUFFICES ASSUME NEW j \in Keys
               PROVE  (CallMatches(j) /\ TotalMatches(j) /\ CarverMatches(j))'
    BY DEF RecordsMatch
  <2>1. CallMatches(j) /\ TotalMatches(j) /\ CarverMatches(j)
    BY DEF Inv, RecordsMatch
  <2>2. /\ j # k => enqueued'[j] = enqueued[j]
        /\ dispatched[j] <= dispatched'[j] /\ dispatched'[j] <= enqueued'[j]
        /\ dispatched[j] \in Nat /\ dispatched'[j] \in Nat /\ enqueued[j] \in Nat
    BY <1>3 DEF Enqueued, Inv, TypeOK
  <2>3. /\ call'[j] = IF j = k THEN "running" ELSE call[j]
        /\ partsTotal'[j] = IF j = k THEN PlannedTotal(k) ELSE partsTotal[j]
        /\ k \in uploadObjects' /\ (j # k => (j \in uploadObjects' <=> j \in uploadObjects))
        /\ Streams' = Streams
    BY <1>1 DEF Inv, TypeOK, Streams
  <2>4. CallMatches(j)'
    BY <1>1, <2>1, <2>2, <2>3 DEF CallMatches, Fresh
  <2>5. TotalMatches(j)'
    <3>1. ~aborted[k]
      BY <1>2 DEF Fresh
    <3> QED BY <1>1, <2>1, <2>3, <3>1 DEF TotalMatches, PlannedTotal, Carving
  <2>6. CarverMatches(j)'
    <3>1. carver[k] = "idle"
      BY <1>2 DEF Fresh
    <3>2. CASE j = k
      BY <1>1, <3>1, <3>2 DEF CarverMatches, Carving
    <3>3. CASE j # k
      BY <1>1, <2>1, <2>2, <2>3, <3>3 DEF CarverMatches, Carving
    <3> QED BY <3>2, <3>3
  <2> QED BY <2>4, <2>5, <2>6
<1>9. CompleteOnce'
  <2>1. \A j \in Keys : call'[j] = "resolved" => call[j] = "resolved"
    BY <1>1 DEF Inv, TypeOK
  <2> QED BY <1>1, <2>1 DEF Inv, CompleteOnce
<1> QED
  BY <1>3, <1>4, <1>5, <1>6, <1>7, <1>8, <1>9 DEF Inv

LEMMA PartFullKeeps ==
  ASSUME Inv, NEW k \in Keys, UNCHANGED source, PartFull(k)
  PROVE  Inv'
<1>1. /\ carver[k] = "filling"
      /\ carver' = [carver EXCEPT ![k] = "reading"]
      /\ EnqueueUpTo(k, enqueued[k] + 1)
      /\ UNCHANGED <<source, call, uploadObjects, partsTotal, partsUploaded, completed,
                     completing, requests, aborted, carvePool, bufWaiters, failed, broken, dead>>
  BY DEF PartFull, mpuVars
<1>2. /\ Enqueued(k, enqueued[k] + 1) /\ PartsAccounted' /\ CountersMatch'
      /\ BuffersAccounted' /\ NoLostWakeup' /\ WaitersMatch'
  BY <1>1, PartQueued
<1>3. k \in uploadObjects
  BY <1>1 DEF Inv, RecordsMatch, CarverMatches, Carving
<1>4. TypeOK'
  <2>1. carver' \in [Keys -> CarverStates]
    BY <1>1, CarveTypes DEF Inv, CarverStates
  <2>2. /\ enqueued' \in [Keys -> Nat] /\ dispatched' \in [Keys -> Nat]
        /\ uploadActive' \in Seq(Keys) /\ urr' \in Nat
        /\ freeLanes' \in [Workers -> 0 .. Concurrency]
        /\ uploading' \subseteq Assignments
    BY <1>2, EnqueuedTypes
  <2> QED BY <1>1, <2>1, <2>2 DEF Inv, TypeOK
<1>5. RecordOutlivesParts'
  BY <1>1, <1>2, <1>3, EnqueueRecords
<1>6. RecordsMatch'
  <2> SUFFICES ASSUME NEW j \in Keys
               PROVE  (CallMatches(j) /\ TotalMatches(j) /\ CarverMatches(j))'
    BY DEF RecordsMatch
  <2>1. CallMatches(j) /\ TotalMatches(j) /\ CarverMatches(j)
    BY DEF Inv, RecordsMatch
  <2>2. /\ j # k => enqueued'[j] = enqueued[j]
        /\ dispatched[j] <= dispatched'[j] /\ dispatched'[j] <= enqueued'[j]
        /\ dispatched[j] \in Nat /\ dispatched'[j] \in Nat /\ enqueued[j] \in Nat
    BY <1>2 DEF Enqueued, Inv, TypeOK
  <2>3. carver'[j] = (IF j = k THEN "reading" ELSE carver[j]) /\ Streams' = Streams
    BY <1>1, CarveTypes DEF Inv, Streams
  <2>4. CallMatches(j)'
    BY <1>1, <1>3, <2>1, <2>2, <2>3 DEF CallMatches, Fresh
  <2>5. TotalMatches(j)' /\ CarverMatches(j)'
    BY <1>1, <1>3, <2>1, <2>2, <2>3 DEF TotalMatches, CarverMatches, PlannedTotal, Carving
  <2> QED BY <2>4, <2>5
<1>7. CompleteOnce'
  BY <1>1 DEF Inv, CompleteOnce
<1> QED
  BY <1>2, <1>4, <1>5, <1>6, <1>7 DEF Inv

(* What the end of a source leaves in the records: RecordsMatch and          *)
(* CompleteOnce.                                                             *)
LEMMA EndKeepsRecords ==
  ASSUME Inv, NEW k \in Keys, carver[k] \in Carving, Parts[k] > 0,
         carver' = [carver EXCEPT ![k] = "done"],
         partsTotal' = [partsTotal EXCEPT ![k] = Parts[k]],
         Completing(k, Parts[k], completed[k]),
         \A j \in Keys : /\ j # k => enqueued'[j] = enqueued[j]
                         /\ dispatched[j] <= dispatched'[j] /\ dispatched'[j] <= enqueued'[j]
                         /\ dispatched'[j] \in Nat /\ enqueued'[j] \in Nat,
         UNCHANGED <<source, call, uploadObjects, completed, aborted>>
  PROVE  RecordsMatch' /\ CompleteOnce'
<1>1. k \in uploadObjects /\ k \in Streams /\ ~aborted[k]
  BY DEF Inv, RecordsMatch, TotalMatches, CarverMatches, Carving
<1>2. RecordsMatch'
  <2> SUFFICES ASSUME NEW j \in Keys
               PROVE  (CallMatches(j) /\ TotalMatches(j) /\ CarverMatches(j))'
    BY DEF RecordsMatch
  <2>1. CallMatches(j) /\ TotalMatches(j) /\ CarverMatches(j)
    BY DEF Inv, RecordsMatch
  <2>2. /\ carver'[j] = IF j = k THEN "done" ELSE carver[j]
        /\ partsTotal'[j] = IF j = k THEN Parts[k] ELSE partsTotal[j]
        /\ Streams' = Streams
        /\ dispatched[j] \in Nat /\ enqueued[j] \in Nat /\ Parts[k] \in Nat
    BY CarveTypes, PartShape DEF Inv, TypeOK, Streams
  <2>3. CallMatches(j)'
    <3>1. completing[j] = "answered" => completing'[j] = "answered"
      BY DEF Completing
    <3> QED BY <1>1, <2>1, <2>2, <3>1 DEF CallMatches, Fresh
  <2>4. TotalMatches(j)'
    <3>1. CASE j = k
      BY <1>1, <2>1, <2>2, <3>1 DEF TotalMatches, PlannedTotal, Completing
    <3>2. CASE j # k
      BY <2>1, <2>2, <3>2 DEF TotalMatches, PlannedTotal, Completing
    <3> QED BY <3>1, <3>2
  <2>5. CarverMatches(j)'
    BY <1>1, <2>1, <2>2 DEF CarverMatches, Carving
  <2> QED BY <2>3, <2>4, <2>5
<1>3. CompleteOnce'
  BY DEF Inv, CompleteOnce, Completing
<1> QED
  BY <1>2, <1>3

LEMMA SourceEndsShortKeeps ==
  ASSUME Inv, NEW k \in Keys, UNCHANGED source, SourceEndsShort(k)
  PROVE  Inv'
<1>1. /\ carver[k] = "filling" /\ enqueued[k] + 1 = Parts[k]
      /\ carver' = [carver EXCEPT ![k] = "done"]
      /\ EnqueueUpTo(k, enqueued[k] + 1)
      /\ partsTotal' = [partsTotal EXCEPT ![k] = Parts[k]]
      /\ MaybeComplete(k, Parts[k], partsUploaded[k], completed[k])
      /\ UNCHANGED <<source, call, uploadObjects, partsUploaded, completed, aborted,
                     carvePool, bufWaiters, failed, broken, dead>>
  BY DEF SourceEndsShort
<1>2. /\ Enqueued(k, enqueued[k] + 1) /\ PartsAccounted' /\ CountersMatch'
      /\ BuffersAccounted' /\ NoLostWakeup' /\ WaitersMatch'
  BY <1>1, PartQueued
<1>3. /\ k \in uploadObjects /\ partsTotal[k] = 0 /\ ~aborted[k]
      /\ carver[k] \in Carving /\ Parts[k] \in Nat /\ Parts[k] > 0
  BY <1>1, PartShape DEF Inv, TypeOK, RecordsMatch, TotalMatches, CarverMatches, Carving
<1>4. Completing(k, Parts[k], completed[k])
  <2>1. /\ completed[k] \subseteq 1 .. Parts[k]
        /\ partsUploaded[k] = Cardinality(completed[k])
        /\ completing[k] = "no"
    BY <1>3 DEF Inv, RecordsMatch, TotalMatches, CountersMatch
  <2>2. Parts[k] # 0 => Parts[k] = PlannedTotal(k) /\ ~aborted[k]
    BY <1>3 DEF PlannedTotal
  <2> QED BY <1>1, <2>1, <2>2, CompletionEffect
<1>5. TypeOK'
  <2>1. carver' \in [Keys -> CarverStates] /\ partsTotal' \in [Keys -> Nat]
    BY <1>1, <1>3, CarveTypes DEF Inv, TypeOK, CarverStates
  <2>2. /\ enqueued' \in [Keys -> Nat] /\ dispatched' \in [Keys -> Nat]
        /\ uploadActive' \in Seq(Keys) /\ urr' \in Nat
        /\ freeLanes' \in [Workers -> 0 .. Concurrency]
        /\ uploading' \subseteq Assignments
    BY <1>2, EnqueuedTypes
  <2>3. completing' \in [Keys -> CompletingStates] /\ requests' \in [Keys -> Seq(SUBSET Nat)]
    BY <1>4 DEF Completing
  <2>4. UNCHANGED <<source, call, uploadObjects, partsUploaded, completed, aborted,
                    carvePool, bufWaiters, failed, broken, dead>>
    BY <1>1
  <2>5. /\ source' \in Sources /\ call' \in [Keys -> CallStates] /\ uploadObjects' \subseteq Keys
        /\ partsUploaded' \in [Keys -> Nat] /\ completed' \in [Keys -> SUBSET Nat]
        /\ aborted' \in [Keys -> BOOLEAN]
        /\ carvePool' \in 0 .. Buffers /\ bufWaiters' \in Seq(Keys)
        /\ failed' \in BOOLEAN
        /\ broken' \subseteq Assignments
        /\ dead' \subseteq Workers
    BY <2>4 DEF Inv, TypeOK
  <2> QED BY <2>1, <2>2, <2>3, <2>5 DEF TypeOK
<1>6. RecordOutlivesParts'
  BY <1>1, <1>2, <1>3, EnqueueRecords
<1>7. RecordsMatch' /\ CompleteOnce'
  BY <1>1, <1>2, <1>3, <1>4, EndKeepsRecords DEF Enqueued
<1> QED
  BY <1>2, <1>5, <1>6, <1>7 DEF Inv

LEMMA SourceEndsKeeps ==
  ASSUME Inv, NEW k \in Keys, UNCHANGED source, SourceEnds(k)
  PROVE  Inv'
<1>1. /\ carver[k] = "reading" /\ Parts[k] > 0
      /\ carver' = [carver EXCEPT ![k] = "done"]
      /\ partsTotal' = [partsTotal EXCEPT ![k] = Parts[k]]
      /\ MaybeComplete(k, Parts[k], partsUploaded[k], completed[k])
      /\ UNCHANGED <<source, call, uploadObjects, uploadActive, urr, enqueued, dispatched,
                     partsUploaded, completed, aborted, carvePool, bufWaiters,
                     freeLanes, failed, uploading, broken, dead>>
  BY DEF SourceEnds, workerVars
<1>2. /\ partsTotal[k] = 0 /\ ~aborted[k]
      /\ carver[k] \in Carving /\ Parts[k] \in Nat
  BY <1>1, PartShape DEF Inv, RecordsMatch, TotalMatches, CarverMatches, Carving
<1>3. Completing(k, Parts[k], completed[k])
  <2>1. /\ completed[k] \subseteq 1 .. Parts[k]
        /\ partsUploaded[k] = Cardinality(completed[k])
        /\ completing[k] = "no"
    BY <1>2 DEF Inv, RecordsMatch, TotalMatches, CountersMatch
  <2>2. Parts[k] # 0 => Parts[k] = PlannedTotal(k) /\ ~aborted[k]
    BY <1>2 DEF PlannedTotal
  <2> QED BY <1>1, <2>1, <2>2, CompletionEffect
<1>4. TypeOK'
  <2>1. carver' \in [Keys -> CarverStates] /\ partsTotal' \in [Keys -> Nat]
    BY <1>1, <1>2, CarveTypes DEF Inv, TypeOK, CarverStates
  <2>2. completing' \in [Keys -> CompletingStates] /\ requests' \in [Keys -> Seq(SUBSET Nat)]
    BY <1>3 DEF Completing
  <2>3. UNCHANGED <<source, call, uploadObjects, uploadActive, urr, enqueued, dispatched,
                    partsUploaded, completed, aborted, carvePool, bufWaiters,
                    freeLanes, failed, uploading, broken, dead>>
    BY <1>1
  <2> QED BY <2>1, <2>2, <2>3 DEF Inv, TypeOK
<1>5. PartsAccounted' /\ CountersMatch'
  BY <1>1, PoolUntouched
<1>6. BuffersAccounted'
  <2>1. Carved' = Carved /\ InHand' = InHand
    BY <1>1, CarveTypes DEF Inv, Carved, InHand, Streams
  <2>2. BuffersRead'
    BY BuffersRead, PTL
  <2> QED BY <1>1, <2>1, <2>2, BuffersRead DEF Inv
<1>7. NoLostWakeup' /\ WaitersMatch'
  BY <1>1, OthersWait
<1>8. RecordOutlivesParts'
  BY <1>1 DEF Inv, RecordOutlivesParts, Outstanding
<1>9. RecordsMatch' /\ CompleteOnce'
  <2>1. QueuesBounded
    BY DispatchReady DEF Inv
  <2>2. enqueued \in [Keys -> Nat] /\ dispatched \in [Keys -> Nat]
    BY DEF Inv, TypeOK
  <2>3. \A j \in Keys : /\ j # k => enqueued'[j] = enqueued[j]
                        /\ dispatched[j] <= dispatched'[j] /\ dispatched'[j] <= enqueued'[j]
                        /\ dispatched'[j] \in Nat /\ enqueued'[j] \in Nat
    BY <1>1, <2>1, <2>2 DEF QueuesBounded
  <2> QED BY <1>1, <1>2, <1>3, <2>3, EndKeepsRecords
<1> QED
  BY <1>4, <1>5, <1>6, <1>7, <1>8, <1>9 DEF Inv

LEMMA SourceFailsKeeps ==
  ASSUME Inv, NEW k \in Keys, UNCHANGED source, SourceFails(k)
  PROVE  Inv'
<1>1. /\ carver[k] \in {"reading", "filling"}
      /\ carver' = [carver EXCEPT ![k] = IF @ = "filling" THEN "spilled" ELSE "stopped"]
      /\ aborted' = [aborted EXCEPT ![k] = TRUE]
      /\ call' = [call EXCEPT ![k] = IF @ \in {"creating", "running"} THEN "rejected" ELSE @]
      /\ UNCHANGED <<source, uploadObjects, uploadActive, urr, enqueued, dispatched, partsTotal,
                     partsUploaded, completed, completing, requests, carvePool, bufWaiters,
                     freeLanes, failed, uploading, broken, dead>>
  BY DEF SourceFails, Abort, recordVars, workerVars
<1>2. PICK c \in {"spilled", "stopped"} :
        /\ c = IF carver[k] = "filling" THEN "spilled" ELSE "stopped"
        /\ carver' = [carver EXCEPT ![k] = c]
  BY <1>1
<1>3. \A j \in Keys : carver'[j] = IF j = k THEN c ELSE carver[j]
  BY <1>2, CarveTypes DEF Inv
<1>4. TypeOK'
  <2>1. carver' \in [Keys -> CarverStates]
    BY <1>2, CarveTypes DEF Inv, CarverStates
  <2>2. call' \in [Keys -> CallStates]
    BY <1>1 DEF Inv, TypeOK, CallStates
  <2>3. aborted' \in [Keys -> BOOLEAN]
    <3>1. aborted \in [Keys -> BOOLEAN]
      BY DEF Inv, TypeOK
    <3> QED BY <1>1, <3>1
  <2>4. UNCHANGED <<source, uploadObjects, uploadActive, urr, enqueued, dispatched, partsTotal,
                    partsUploaded, completed, completing, requests, carvePool, bufWaiters,
                    freeLanes, failed, uploading, broken, dead>>
    BY <1>1
  <2> QED BY <2>1, <2>2, <2>3, <2>4 DEF Inv, TypeOK
<1>5. PartsAccounted' /\ CountersMatch'
  BY <1>1, PoolUntouched
<1>6. BuffersAccounted'
  <2>1. Carved' = Carved
    BY <1>1 DEF Carved, Streams
  <2>2. InHand' = InHand
    BY <1>1, <1>2, <1>3 DEF InHand
  <2>3. BuffersRead'
    BY BuffersRead, PTL
  <2> QED BY <1>1, <2>1, <2>2, <2>3, BuffersRead DEF Inv
<1>7. NoLostWakeup' /\ WaitersMatch'
  BY <1>1, <1>2, OthersWait
<1>8. RecordOutlivesParts'
  BY <1>1 DEF Inv, RecordOutlivesParts, Outstanding
<1>9. /\ \A j \in Keys : /\ aborted'[j] <=> aborted[j] \/ j = k
                         /\ call'[j] = call[j] \/ call'[j] = "rejected"
      /\ Streams' = Streams
      /\ k \in uploadObjects /\ k \in Streams /\ partsTotal[k] = 0 /\ requests[k] = <<>>
  <2>1. \A j \in Keys : aborted'[j] <=> aborted[j] \/ j = k
    <3>1. aborted \in [Keys -> BOOLEAN]
      BY DEF Inv, TypeOK
    <3> QED BY <1>1, <3>1
  <2>2. \A j \in Keys : call'[j] = call[j] \/ call'[j] = "rejected"
    BY <1>1 DEF Inv, TypeOK
  <2>3. k \in uploadObjects /\ k \in Streams /\ partsTotal[k] = 0 /\ requests[k] = <<>>
    BY <1>1 DEF Inv, RecordsMatch, TotalMatches, CarverMatches, Carving
  <2> QED BY <1>1, <2>1, <2>2, <2>3 DEF Streams
<1>10. RecordsMatch'
  <2> SUFFICES ASSUME NEW j \in Keys
               PROVE  (CallMatches(j) /\ TotalMatches(j) /\ CarverMatches(j))'
    BY DEF RecordsMatch
  <2>1. CallMatches(j) /\ TotalMatches(j) /\ CarverMatches(j)
    BY DEF Inv, RecordsMatch
  <2>2. CallMatches(j)'
    BY <1>1, <1>3, <1>9, <2>1 DEF CallMatches, Fresh
  <2>3. TotalMatches(j)'
    BY <1>1, <1>3, <1>9, <2>1 DEF TotalMatches, PlannedTotal, Carving
  <2>4. CarverMatches(j)'
    BY <1>1, <1>3, <1>9, <2>1 DEF CarverMatches, Carving
  <2> QED BY <2>2, <2>3, <2>4
<1>11. CompleteOnce'
  BY <1>1, <1>9 DEF Inv, CompleteOnce
<1> QED
  BY <1>4, <1>5, <1>6, <1>7, <1>8, <1>10, <1>11 DEF Inv

-----------------------------------------------------------------------------
(* An uploaded part.                                                         *)

(* Its buffer goes back, and wakes the carver that has waited longest.       *)
LEMMA ReleaseKeeps ==
  ASSUME Inv, NEW k \in Streams, NEW n \in 1 .. Parts[k],
         n <= enqueued[k], n \notin completed[k],
         completed' = [completed EXCEPT ![k] = @ \cup {n}],
         UNCHANGED <<source, enqueued>>, Release
  PROVE  /\ carver' \in [Keys -> CarverStates] /\ carvePool' \in 0 .. Buffers
         /\ bufWaiters' \in Seq(Keys)
         /\ BuffersAccounted' /\ NoLostWakeup' /\ WaitersMatch'
         /\ \A j \in Keys : carver'[j] = carver[j]
                            \/ (carver[j] = "waiting" /\ carver'[j] = "woken")
<1>1. /\ carver \in [Keys -> CarverStates] /\ carvePool \in Nat /\ bufWaiters \in Seq(Keys)
      /\ \A i \in 1 .. Len(bufWaiters) :
           bufWaiters[i] \in Keys /\ carver[bufWaiters[i]] = "waiting"
      /\ \A i, j \in 1 .. Len(bufWaiters) : bufWaiters[i] = bufWaiters[j] => i = j
      /\ Len(bufWaiters) \in Nat
  BY CarveTypes DEF Inv, WaitersMatch
<1>2. carvePool' = carvePool + 1
  BY DEF Release
<1>3. \/ bufWaiters = <<>> /\ carver' = carver /\ bufWaiters' = bufWaiters
      \/ /\ bufWaiters # <<>>
         /\ carver' = [carver EXCEPT ![Head(bufWaiters)] = "woken"]
         /\ bufWaiters' = Tail(bufWaiters)
  BY DEF Release
<1>4. bufWaiters # <<>> =>
        /\ Len(bufWaiters) > 0 /\ Head(bufWaiters) = bufWaiters[1]
        /\ Head(bufWaiters) \in Keys /\ carver[Head(bufWaiters)] = "waiting"
        /\ Tail(bufWaiters) \in Seq(Keys) /\ Len(Tail(bufWaiters)) = Len(bufWaiters) - 1
        /\ \A i \in 1 .. Len(bufWaiters) - 1 : Tail(bufWaiters)[i] = bufWaiters[i + 1]
  BY <1>1
<1>5. /\ carver' \in [Keys -> CarverStates]
      /\ bufWaiters' \in Seq(Keys)
      /\ \A j \in Keys : carver'[j] = carver[j]
                         \/ (carver[j] = "waiting" /\ carver'[j] = "woken")
  <2>1. CASE bufWaiters = <<>>
    BY <1>1, <1>3, <2>1
  <2>2. CASE bufWaiters # <<>>
    <3> DEFINE first == Head(bufWaiters)
    <3>1. /\ carver' = [carver EXCEPT ![first] = "woken"]
          /\ first \in Keys /\ carver[first] = "waiting"
          /\ bufWaiters' \in Seq(Keys)
      BY <1>3, <1>4, <2>2
    <3> HIDE DEF first
    <3>2. carver' \in [Keys -> CarverStates]
      BY <1>1, <3>1 DEF CarverStates
    <3>3. \A j \in Keys : carver'[j] = IF j = first THEN "woken" ELSE carver[j]
      BY <1>1, <3>1
    <3> QED BY <3>1, <3>2, <3>3
  <2> QED BY <2>1, <2>2
<1>6. InHand' = InHand
  BY <1>5 DEF InHand
<1>7. Cardinality(Carved') = Cardinality(Carved) - 1
  <2> DEFINE p == <<k, n>>
  <2>1. k \in Keys /\ p \in AllParts /\ p \in Carved
    BY PartShape DEF Carved, Streams
  <2>2. \A q \in AllParts : q[2] \in completed'[q[1]] <=> q[2] \in completed[q[1]] \/ q = p
    <3> SUFFICES ASSUME NEW q \in AllParts
                 PROVE  q[2] \in completed'[q[1]] <=> q[2] \in completed[q[1]] \/ q = p
      OBVIOUS
    <3>1. q = <<q[1], q[2]>> /\ q[1] \in Keys
      BY PartShape
    <3>2. completed'[q[1]] = IF q[1] = k THEN completed[k] \cup {n} ELSE completed[q[1]]
      BY <3>1 DEF Inv, TypeOK
    <3> QED BY <3>1, <3>2
  <2>3. Carved' = Carved \ {p}
    BY <2>2 DEF Carved, Streams
  <2> QED BY <2>1, <2>3, BuffersFinite, RemovedSize
<1>8. carvePool' + Cardinality(InHand') + Cardinality(Carved') = Buffers
  <2>1. carvePool + Cardinality(InHand) + Cardinality(Carved) = Buffers
    BY BuffersRead DEF Inv
  <2> QED BY <1>1, <1>2, <1>6, <1>7, <2>1, BuffersFinite
<1>9. BuffersAccounted'
  <2>1. BuffersRead'
    BY BuffersRead, PTL
  <2> QED BY <1>8, <2>1
<1>10. carvePool' \in 0 .. Buffers
  <2>1. Cardinality(Carved') \in Nat /\ Cardinality(InHand') \in Nat
    BY <1>6, <1>7, BuffersFinite, FiniteParts, FS_Subset, FS_CardinalityType DEF Carved
  <2> QED BY <1>1, <1>2, <1>8, <2>1, BuffersAssumption
<1>11. NoLostWakeup'
  <2> SUFFICES ASSUME bufWaiters' # <<>>
               PROVE  carvePool' <= Cardinality(Woken')
    BY DEF NoLostWakeup, Woken
  <2>1. bufWaiters # <<>>
    BY <1>3
  <2>2. carvePool <= Cardinality(Woken)
    BY <2>1 DEF Inv, NoLostWakeup, Woken
  <2>3. Head(bufWaiters) \notin Woken /\ Woken' = Woken \cup {Head(bufWaiters)}
    BY <1>1, <1>3, <1>4, <2>1 DEF Woken
  <2>4. Cardinality(Woken') = Cardinality(Woken) + 1
    BY <2>3, BuffersFinite, FS_AddElement
  <2> QED BY <1>1, <1>2, <2>2, <2>4, BuffersFinite
<1>12. WaitersMatch'
  <2>1. CASE bufWaiters = <<>>
    BY <1>1, <1>3, <2>1 DEF WaitersMatch
  <2>2. CASE bufWaiters # <<>>
    <3>1. Len(bufWaiters') = Len(bufWaiters) - 1 /\ Len(bufWaiters) > 0
      BY <1>3, <1>4, <2>2
    <3>2. \A i \in 1 .. Len(bufWaiters') :
            /\ i + 1 \in 1 .. Len(bufWaiters)
            /\ bufWaiters'[i] = bufWaiters[i + 1]
            /\ bufWaiters[i + 1] # Head(bufWaiters)
      <4> SUFFICES ASSUME NEW i \in 1 .. Len(bufWaiters')
                   PROVE  /\ i + 1 \in 1 .. Len(bufWaiters)
                          /\ bufWaiters'[i] = bufWaiters[i + 1]
                          /\ bufWaiters[i + 1] # Head(bufWaiters)
        OBVIOUS
      <4>1. /\ i \in 1 .. Len(bufWaiters) - 1
            /\ i + 1 \in 1 .. Len(bufWaiters) /\ 1 \in 1 .. Len(bufWaiters) /\ i + 1 # 1
        BY <1>1, <3>1
      <4>2. bufWaiters[i + 1] # bufWaiters[1]
        BY <1>1, <4>1
      <4> QED BY <1>3, <1>4, <2>2, <4>1, <4>2
    <3>3. \A i \in 1 .. Len(bufWaiters') : carver'[bufWaiters'[i]] = "waiting"
      BY <1>1, <1>3, <2>2, <3>2
    <3>4. \A i, j \in 1 .. Len(bufWaiters') : bufWaiters'[i] = bufWaiters'[j] => i = j
      <4> SUFFICES ASSUME NEW i \in 1 .. Len(bufWaiters'), NEW j \in 1 .. Len(bufWaiters'),
                          bufWaiters'[i] = bufWaiters'[j]
                   PROVE  i = j
        OBVIOUS
      <4>1. i + 1 = j + 1
        BY <1>1, <3>2
      <4> QED BY <1>1, <3>1, <4>1
    <3> QED BY <3>3, <3>4 DEF WaitersMatch
  <2> QED BY <2>1, <2>2
<1> QED
  BY <1>5, <1>9, <1>10, <1>11, <1>12

LEMMA UploadedKeeps ==
  ASSUME Inv, NEW k, NEW n, NEW w, UNCHANGED source, Uploaded(k, n, w)
  PROVE  Inv'
<1> DEFINE t == <<k, n, w>>
           fly == uploading \ {t}
           free == [freeLanes EXCEPT ![w] = @ + 1]
<1>1. t \in uploading
  BY DEF Uploaded
<1>2. /\ k \in Keys /\ n \in 1 .. Parts[k] /\ w \in Workers
      /\ n <= dispatched[k] /\ n \notin completed[k] /\ k \in uploadObjects
      /\ t \notin broken
  <2>1. t \in Outstanding /\ t[1] = k /\ t[2] = n /\ t[3] = w
    BY <1>1 DEF Outstanding
  <2>2. /\ k \in Keys /\ n \in 1 .. Parts[k] /\ w \in Workers
        /\ n <= dispatched[k] /\ n \notin completed[k]
    <3>1. /\ t[1] \in Keys /\ t[2] \in 1 .. Parts[t[1]] /\ t[3] \in Workers
          /\ t[2] <= dispatched[t[1]] /\ t[2] \notin completed[t[1]]
      BY <2>1, DispatchReady DEF Inv
    <3> QED BY <2>1, <3>1
  <2>3. k \in uploadObjects
    BY <2>1 DEF Inv, RecordOutlivesParts
  <2>4. t \notin broken
    BY <1>1, <2>2 DEF Inv, PartsAccounted
  <2> QED BY <2>2, <2>3, <2>4
<1>3. /\ completed' = [completed EXCEPT ![k] = @ \cup {n}]
      /\ partsUploaded' = [partsUploaded EXCEPT ![k] = @ + 1]
      /\ IF k \in Streams THEN Release ELSE UNCHANGED <<carver, carvePool, bufWaiters>>
      /\ MaybeComplete(k, partsTotal[k], partsUploaded'[k], completed'[k])
      /\ DispatchUpload(uploadActive, enqueued, fly, free)
      /\ UNCHANGED <<source, call, uploadObjects, uploadActive, enqueued, partsTotal, aborted,
                     failed, broken, dead>>
  BY <1>2 DEF Uploaded, carveVars
<1>4. /\ \A j \in Keys : completed'[j] = IF j = k THEN completed[k] \cup {n} ELSE completed[j]
      /\ \A j \in Keys :
           partsUploaded'[j] = IF j = k THEN partsUploaded[k] + 1 ELSE partsUploaded[j]
      /\ completed' \in [Keys -> SUBSET Nat] /\ partsUploaded' \in [Keys -> Nat]
  <2>1. completed \in [Keys -> SUBSET Nat] /\ partsUploaded \in [Keys -> Nat] /\ n \in Nat
    BY <1>2, PartShape DEF Inv, TypeOK
  <2>2. /\ completed' = [completed EXCEPT ![k] = @ \cup {n}]
        /\ partsUploaded' = [partsUploaded EXCEPT ![k] = @ + 1]
    BY <1>3
  <2> QED BY <1>2, <2>1, <2>2
<1>5. /\ QueuesBounded /\ PartsAt(completed, uploading)
      /\ uploading \subseteq Assignments /\ broken \subseteq Assignments
      /\ dispatched \in [Keys -> Nat] /\ enqueued \in [Keys -> Nat]
  BY DispatchReady DEF Inv, TypeOK
<1>6. PartsAt(completed', fly)
  <2> SUFFICES ASSUME NEW j \in Keys, NEW m \in 1 .. Parts[j]
               PROVE  /\ m > dispatched[j] => m \notin completed'[j]
                      /\ ~ m > dispatched[j]
                           => m \in completed'[j] \/ \E v \in Workers : <<j, m, v>> \in fly \cup broken
                      /\ \A v \in Workers : <<j, m, v>> \in fly \cup broken
                           => /\ ~ m > dispatched[j]
                              /\ m \notin completed'[j]
                              /\ \A u \in Workers : <<j, m, u>> \in fly \cup broken => u = v
                              /\ ~(<<j, m, v>> \in fly /\ <<j, m, v>> \in broken)
    BY DEF PartsAt
  <2>1. /\ m > dispatched[j] => m \notin completed[j]
        /\ ~ m > dispatched[j]
             => m \in completed[j] \/ \E v \in Workers : <<j, m, v>> \in uploading \cup broken
        /\ \A v \in Workers : <<j, m, v>> \in uploading \cup broken
             => /\ ~ m > dispatched[j]
                /\ m \notin completed[j]
                /\ \A u \in Workers : <<j, m, u>> \in uploading \cup broken => u = v
                /\ ~(<<j, m, v>> \in uploading /\ <<j, m, v>> \in broken)
    BY <1>5 DEF PartsAt
  <2>2. CASE j = k /\ m = n
    <3>1. ~ m > dispatched[j] /\ m \in completed'[j]
      BY <1>1, <1>2, <1>4, <2>1, <2>2
    <3>2. \A v \in Workers : <<j, m, v>> \notin fly \cup broken
      BY <1>1, <1>2, <2>1, <2>2
    <3> QED BY <3>1, <3>2
  <2>3. CASE ~(j = k /\ m = n)
    <3>1. \A v : <<j, m, v>> \in fly <=> <<j, m, v>> \in uploading
      BY <2>3
    <3>2. m \in completed'[j] <=> m \in completed[j]
      BY <1>2, <1>4, <2>3
    <3> HIDE DEF fly
    <3> QED BY <2>1, <3>1, <3>2
  <2> QED BY <2>2, <2>3
<1>7. Dispatched(enqueued, fly)
  <2>1. \A j \in Keys : enqueued[j] <= Parts[j]
    BY <1>5 DEF QueuesBounded
  <2>2. \A j \in Keys : dispatched[j] <= enqueued[j]
    BY <1>5 DEF QueuesBounded
  <2>3. \A p \in fly \cup broken : p[2] <= dispatched[p[1]]
    BY DispatchReady DEF Inv, Outstanding
  <2>4. fly \subseteq Assignments /\ broken \subseteq Assignments
    BY <1>5
  <2>5. \A v \in Workers : free[v] = Concurrency - Cardinality(Of(fly \cup broken, v))
    <3> SUFFICES ASSUME NEW v \in Workers
                 PROVE  free[v] = Concurrency - Cardinality(Of(fly \cup broken, v))
      OBVIOUS
    <3>1. /\ freeLanes[v] = Concurrency - Cardinality(Of(uploading \cup broken, v))
          /\ freeLanes \in [Workers -> 0 .. Concurrency] /\ Concurrency \in Nat
      <4>1. \A u \in Workers :
              freeLanes[u] = Concurrency - Cardinality(Of(uploading \cup broken, u))
        BY DispatchReady DEF Inv
      <4>2. freeLanes \in [Workers -> 0 .. Concurrency]
        BY DEF Inv, TypeOK
      <4> QED BY <4>1, <4>2, PoolAssumption
    <3>2. CASE v = w
      <4> DEFINE mine == Of(uploading \cup broken, v)
      <4>1. Of(fly \cup broken, v) = mine \ {t} /\ t \in mine
        BY <1>1, <1>2, <3>2 DEF Of
      <4>2. mine \subseteq Assignments
        BY <1>5 DEF Of
      <4>3. IsFiniteSet(mine) /\ Cardinality(mine) \in Nat
        <5> HIDE DEF mine
        <5> QED BY <4>2, FiniteAssignments
      <4>4. Cardinality(mine \ {t}) = Cardinality(mine) - 1
        <5> HIDE DEF mine, t
        <5> QED BY <4>1, <4>3, RemovedSize
      <4>5. free[v] = freeLanes[v] + 1 /\ freeLanes[v] = Concurrency - Cardinality(mine)
        BY <3>1, <3>2
      <4>6. Cardinality(Of(fly \cup broken, v)) = Cardinality(mine) - 1
        BY <4>1, <4>4
      <4> HIDE DEF mine, fly, t, free
      <4> QED BY <3>1, <4>3, <4>5, <4>6
    <3>3. CASE v # w
      <4>1. Of(fly \cup broken, v) = Of(uploading \cup broken, v)
        BY <3>3 DEF Of
      <4>2. free[v] = freeLanes[v]
        BY <3>1, <3>3
      <4> QED BY <3>1, <4>1, <4>2
    <3> QED BY <3>2, <3>3
  <2>6. DispatchUpload(uploadActive, enqueued, fly, free)
    BY <1>3
  <2>7. uploadActive \in Seq(Keys) /\ urr \in Nat
    BY DEF Inv, TypeOK
  <2> HIDE DEF fly, free
  <2> QED BY <1>5, <2>1, <2>2, <2>3, <2>4, <2>5, <2>6, <2>7, DispatchEffect, ZenonT(40)
<1>8. PartsAccounted'
  <2>1. \A j \in Keys : enqueued[j] <= Parts[j]
    BY <1>5 DEF QueuesBounded
  <2>2. fly \subseteq Assignments /\ broken' = broken /\ enqueued' = enqueued
    BY <1>3, <1>5
  <2> HIDE DEF fly
  <2> QED BY <1>5, <1>6, <1>7, <2>1, <2>2, DispatchKeepsParts
<1>9. \A j \in Keys : completed'[j] \subseteq 1 .. Parts[j]
  BY <1>2, <1>4 DEF Inv, RecordsMatch, TotalMatches
<1>10. CountersMatch'
  <2>1. \A v \in Workers : OnWorker(v)' = Of(uploading' \cup broken, v)
    BY <1>3 DEF OnWorker, Outstanding, Of
  <2>2. partsUploaded'[k] = Cardinality(completed'[k])
    <3>1. Parts[k] \in Int /\ completed[k] \subseteq 1 .. Parts[k]
      BY <1>2, PartShape DEF Inv, RecordsMatch, TotalMatches
    <3>2. IsFiniteSet(1 .. Parts[k])
      BY <3>1, FS_Interval
    <3>3. IsFiniteSet(completed[k])
      BY <3>1, <3>2, FS_Subset
    <3>4. Cardinality(completed[k] \cup {n}) = Cardinality(completed[k]) + 1
      BY <1>2, <3>3, FS_AddElement
    <3> QED BY <1>2, <1>4, <3>4 DEF Inv, CountersMatch
  <2>3. \A j \in Keys : j # k => partsUploaded'[j] = Cardinality(completed'[j])
    BY <1>4 DEF Inv, CountersMatch
  <2> QED BY <1>7, <2>1, <2>2, <2>3 DEF Dispatched, CountersMatch
<1>11. /\ carver' \in [Keys -> CarverStates] /\ carvePool' \in 0 .. Buffers
       /\ bufWaiters' \in Seq(Keys)
       /\ BuffersAccounted' /\ NoLostWakeup' /\ WaitersMatch'
       /\ \A j \in Keys : carver'[j] = carver[j]
                          \/ (carver[j] = "waiting" /\ carver'[j] = "woken")
  <2>1. CASE k \in Streams
    <3>1. n <= enqueued[k]
      <4>1. /\ dispatched[k] <= enqueued[k]
            /\ n \in Nat /\ dispatched[k] \in Nat /\ enqueued[k] \in Nat
        BY <1>2, <1>5, PartShape DEF QueuesBounded
      <4> QED BY <1>2, <4>1
    <3> QED BY <1>2, <1>3, <2>1, <3>1, ReleaseKeeps
  <2>2. CASE k \notin Streams
    <3>1. UNCHANGED <<source, enqueued, carver, carvePool, bufWaiters>>
      BY <1>3, <2>2
    <3>2. \A q \in AllParts : q[1] \in Streams => completed'[q[1]] = completed[q[1]]
      BY <1>4, <2>2, PartShape
    <3>3. Carved' = Carved /\ InHand' = InHand
      BY <3>1, <3>2 DEF Carved, InHand, Streams
    <3>4. BuffersRead'
      BY BuffersRead, PTL
    <3>5. BuffersAccounted'
      BY <3>1, <3>3, <3>4, BuffersRead DEF Inv
    <3>6. NoLostWakeup' /\ WaitersMatch'
      BY <3>1 DEF Inv, NoLostWakeup, WaitersMatch
    <3>7. carvePool' \in 0 .. Buffers
      BY <3>1 DEF Inv, TypeOK
    <3> QED BY <3>1, <3>5, <3>6, <3>7, CarveTypes DEF Inv
  <2> QED BY <2>1, <2>2
<1>12. Completing(k, partsTotal[k], completed'[k])
  <2>1. partsUploaded'[k] = Cardinality(completed'[k]) /\ completed'[k] \subseteq 1 .. Parts[k]
    BY <1>2, <1>9, <1>10 DEF CountersMatch
  <2>2. partsTotal[k] # 0 => partsTotal[k] = PlannedTotal(k) /\ ~aborted[k]
    BY <1>2 DEF Inv, RecordsMatch, TotalMatches
  <2>3. completing[k] = "no"
    <3>1. completed[k] # 1 .. Parts[k]
      BY <1>2
    <3> QED BY <1>2, <3>1 DEF Inv, RecordsMatch, TotalMatches, CompleteOnce
  <2> QED BY <1>2, <1>3, <2>1, <2>2, <2>3, CompletionEffect
<1>13. TypeOK'
  <2>1. completing' \in [Keys -> CompletingStates] /\ requests' \in [Keys -> Seq(SUBSET Nat)]
    BY <1>12 DEF Completing
  <2>2. /\ dispatched' \in [Keys -> Nat] /\ urr' \in Nat
        /\ freeLanes' \in [Workers -> 0 .. Concurrency]
        /\ uploading' \subseteq Assignments
    BY <1>7 DEF Dispatched
  <2>3. /\ source' \in Sources /\ call' \in [Keys -> CallStates] /\ uploadObjects' \subseteq Keys
        /\ uploadActive' \in Seq(Keys)
        /\ enqueued' \in [Keys -> Nat] /\ partsTotal' \in [Keys -> Nat]
        /\ aborted' \in [Keys -> BOOLEAN] /\ failed' \in BOOLEAN
        /\ broken' \subseteq Assignments
        /\ dead' \subseteq Workers
    BY <1>3 DEF Inv, TypeOK
  <2> QED BY <1>4, <1>11, <2>1, <2>2, <2>3 DEF TypeOK
<1>14. RecordOutlivesParts'
  <2> SUFFICES ASSUME NEW p \in Outstanding'
               PROVE  p[1] \in uploadObjects
    BY <1>3 DEF RecordOutlivesParts
  <2>1. CASE p \in Outstanding
    BY <2>1 DEF Inv, RecordOutlivesParts
  <2>2. CASE p \notin Outstanding
    <3>1. p \in uploading' \ fly
      BY <1>3, <2>2 DEF Outstanding
    <3>2. p \in Assignments /\ dispatched[p[1]] < p[2] /\ p[2] <= dispatched'[p[1]]
      BY <1>7, <3>1 DEF Dispatched
    <3>3. p[1] \in Keys /\ p[2] \in Nat
      BY <3>2, AssignmentShape, PartShape
    <3>4. /\ dispatched'[p[1]] <= enqueued[p[1]]
          /\ dispatched'[p[1]] \in Nat /\ dispatched[p[1]] \in Nat /\ enqueued[p[1]] \in Nat
      BY <1>5, <1>7, <3>3 DEF Dispatched
    <3>5. dispatched[p[1]] # enqueued[p[1]]
      BY <3>2, <3>3, <3>4
    <3> QED BY <3>3, <3>5 DEF Inv, RecordsMatch, CallMatches
  <2> QED BY <2>1, <2>2
<1>15. RecordsMatch'
  <2> SUFFICES ASSUME NEW j \in Keys
               PROVE  (CallMatches(j) /\ TotalMatches(j) /\ CarverMatches(j))'
    BY DEF RecordsMatch
  <2>1. CallMatches(j) /\ TotalMatches(j) /\ CarverMatches(j)
    BY DEF Inv, RecordsMatch
  <2>2. /\ dispatched[j] <= dispatched'[j] /\ dispatched'[j] <= enqueued[j]
        /\ dispatched[j] \in Nat /\ dispatched'[j] \in Nat /\ enqueued[j] \in Nat
    BY <1>5, <1>7 DEF Dispatched
  <2>3. /\ UNCHANGED <<source, call, uploadObjects, enqueued, partsTotal, aborted>>
        /\ Streams' = Streams
    BY <1>3 DEF Streams
  <2>4. /\ completing[j] = "answered" => completing'[j] = "answered"
        /\ completing'[j] = "no" <=> requests'[j] = <<>>
        /\ completing'[j] # "no" => partsTotal[j] # 0
    BY <1>12, <2>1 DEF Completing, TotalMatches
  <2>5. /\ carver'[j] = "idle" <=> carver[j] = "idle"
        /\ carver'[j] \in Carving <=> carver[j] \in Carving
        /\ carver'[j] \in {"filling", "waiting", "woken"}
             <=> carver[j] \in {"filling", "waiting", "woken"}
        /\ carver'[j] \in {"stopped", "spilled"} <=> carver[j] \in {"stopped", "spilled"}
    BY <1>11 DEF Carving
  <2>6. CallMatches(j)'
    <3>1. j = k => call[j] \notin {"none", "creating"}
      BY <1>2, <2>1 DEF CallMatches, Fresh
    <3>2. j # k => completed'[j] = completed[j]
      BY <1>4
    <3> QED BY <2>1, <2>2, <2>3, <2>4, <2>5, <3>1, <3>2 DEF CallMatches, Fresh
  <2>7. TotalMatches(j)'
    BY <1>9, <2>1, <2>3, <2>4, <2>5 DEF TotalMatches, PlannedTotal
  <2>8. CarverMatches(j)'
    BY <2>1, <2>3, <2>5 DEF CarverMatches
  <2> QED BY <2>6, <2>7, <2>8
<1>16. CompleteOnce'
  <2> SUFFICES ASSUME NEW j \in Keys
               PROVE  /\ requests'[j] # <<>> => requests'[j] = <<1 .. Parts[j]>> /\ ~aborted'[j]
                      /\ requests'[j] # <<>> => completed'[j] = 1 .. Parts[j]
                      /\ call'[j] = "resolved" => requests'[j] # <<>>
    BY DEF CompleteOnce
  <2>1. /\ requests[j] # <<>> => requests[j] = <<1 .. Parts[j]>> /\ ~aborted[j]
        /\ requests[j] # <<>> => completed[j] = 1 .. Parts[j]
        /\ call[j] = "resolved" => requests[j] # <<>>
    BY DEF Inv, CompleteOnce
  <2> QED BY <1>3, <1>4, <1>12, <2>1 DEF Completing
<1> QED
  BY <1>8, <1>10, <1>11, <1>13, <1>14, <1>15, <1>16 DEF Inv

-----------------------------------------------------------------------------
(* A new iteration.                                                          *)

LEMMA ResetKeeps ==
  ASSUME Inv, UNCHANGED source, Reset
  PROVE  Inv'
<1>1. ASSUME NEW k \in Keys
      PROVE  /\ k \notin uploadObjects /\ completed[k] = 1 .. Parts[k]
             /\ carver[k] \in {"idle", "done"}
  <2>1. call[k] = "resolved"
    BY DEF Reset
  <2>2. /\ k \notin uploadObjects /\ completing[k] = "answered"
        /\ requests[k] # <<>> /\ completed[k] = 1 .. Parts[k] /\ partsTotal[k] # 0
    BY <2>1 DEF Inv, RecordsMatch, CallMatches, TotalMatches, CompleteOnce
  <2>3. carver[k] \notin Carving /\ carver[k] \notin {"stopped", "spilled"}
    BY <2>2 DEF Inv, RecordsMatch, TotalMatches, CarverMatches
  <2>4. carver[k] \in CarverStates
    BY CarveTypes DEF Inv
  <2> QED BY <2>2, <2>3, <2>4 DEF CarverStates, Carving
<1>2. /\ call' = [k \in Keys |-> "none"] /\ uploadObjects' = {} /\ uploadActive' = <<>>
      /\ urr' = 0
      /\ enqueued' = [k \in Keys |-> 0] /\ dispatched' = [k \in Keys |-> 0]
      /\ partsTotal' = [k \in Keys |-> 0] /\ partsUploaded' = [k \in Keys |-> 0]
      /\ completed' = [k \in Keys |-> {}]
      /\ completing' = [k \in Keys |-> "no"] /\ requests' = [k \in Keys |-> <<>>]
      /\ aborted' = [k \in Keys |-> FALSE] /\ carver' = [k \in Keys |-> "idle"]
      /\ freeLanes' = [w \in Workers |-> Concurrency]
      /\ UNCHANGED <<source, carvePool, bufWaiters, failed, uploading, broken, dead>>
  BY DEF Reset, workerVars
<1>3. bufWaiters = <<>>
  <2>1. \A i \in 1 .. Len(bufWaiters) :
          bufWaiters[i] \in Keys /\ carver[bufWaiters[i]] = "waiting"
    BY CarveTypes DEF Inv, WaitersMatch
  <2>2. bufWaiters \in Seq(Keys)
    BY CarveTypes DEF Inv
  <2>3. bufWaiters # <<>> => 1 \in 1 .. Len(bufWaiters)
    BY <2>2
  <2> QED BY <1>1, <2>1, <2>3
<1>4. uploading = {} /\ broken = {}
  BY <1>1, DispatchReady DEF Inv, RecordOutlivesParts, Outstanding
<1>5. TypeOK'
  <2>1. /\ call' \in [Keys -> CallStates] /\ completing' \in [Keys -> CompletingStates]
        /\ carver' \in [Keys -> CarverStates]
    BY <1>2 DEF CallStates, CompletingStates, CarverStates
  <2>2. freeLanes' \in [Workers -> 0 .. Concurrency]
    <3>1. Concurrency \in 0 .. Concurrency
      BY PoolAssumption
    <3> QED BY <1>2, <3>1
  <2>3. requests' \in [Keys -> Seq(SUBSET Nat)] /\ aborted' \in [Keys -> BOOLEAN]
    BY <1>2
  <2>4. /\ enqueued' \in [Keys -> Nat] /\ dispatched' \in [Keys -> Nat]
        /\ partsTotal' \in [Keys -> Nat] /\ partsUploaded' \in [Keys -> Nat]
        /\ completed' \in [Keys -> SUBSET Nat]
        /\ uploadObjects' \subseteq Keys /\ uploadActive' \in Seq(Keys) /\ urr' \in Nat
    BY <1>2
  <2>5. /\ source' \in Sources /\ carvePool' \in 0 .. Buffers /\ bufWaiters' \in Seq(Keys)
        /\ failed' \in BOOLEAN
        /\ uploading' \subseteq Assignments
        /\ broken' \subseteq Assignments
        /\ dead' \subseteq Workers
    BY <1>2 DEF Inv, TypeOK
  <2> QED BY <2>1, <2>2, <2>3, <2>4, <2>5 DEF TypeOK
<1>6. PartsAccounted'
  <2>1. \A k, n : HoldersOf(k, n)' = {}
    BY <1>2, <1>4 DEF HoldersOf, Outstanding
  <2>2. \A k \in Keys : Parts[k] \in Nat
    BY PartShape
  <2> QED BY <1>2, <1>4, <2>1, <2>2 DEF PartsAccounted
<1>7. CountersMatch'
  <2>1. \A w : OnWorker(w)' = {}
    BY <1>2, <1>4 DEF OnWorker, Outstanding
  <2>2. Cardinality({}) = 0 /\ Concurrency \in Nat
    BY FS_EmptySet, PoolAssumption
  <2>3. \A w \in Workers : freeLanes'[w] = Concurrency /\ Cardinality(OnWorker(w)') = 0
    BY <1>2, <2>1, <2>2
  <2>4. \A k \in Keys : partsUploaded'[k] = 0 /\ Cardinality(completed'[k]) = 0
    BY <1>2, <2>2
  <2> QED BY <2>2, <2>3, <2>4 DEF CountersMatch
<1>8. BuffersAccounted'
  <2>1. InHand = {} /\ InHand' = {}
    BY <1>1, <1>2 DEF InHand
  <2>2. Carved = {}
    BY <1>1, PartShape DEF Carved
  <2>3. Carved' = {}
    BY <1>2, PartShape DEF Carved
  <2>4. BuffersRead'
    BY BuffersRead, PTL
  <2> QED BY <1>2, <2>1, <2>2, <2>3, <2>4, BuffersRead DEF Inv
<1>9. NoLostWakeup' /\ WaitersMatch'
  BY <1>2, <1>3 DEF NoLostWakeup, WaitersMatch
<1>10. RecordOutlivesParts'
  BY <1>2, <1>4 DEF RecordOutlivesParts, Outstanding
<1>11. RecordsMatch'
  BY <1>2 DEF RecordsMatch, CallMatches, TotalMatches, CarverMatches, Fresh, Carving
<1>12. CompleteOnce'
  BY <1>2 DEF CompleteOnce
<1> QED
  BY <1>5, <1>6, <1>7, <1>8, <1>9, <1>10, <1>11, <1>12 DEF Inv

-----------------------------------------------------------------------------
(* The invariant, and what follows from it.                                  *)

LEMMA InitInv == Init => Inv
<1> SUFFICES ASSUME Init PROVE Inv
  OBVIOUS
<1>1. TypeOK
  <2>1. call \in [Keys -> CallStates] /\ completing \in [Keys -> CompletingStates]
        /\ carver \in [Keys -> CarverStates]
    BY DEF Init, CallStates, CompletingStates, CarverStates
  <2>2. freeLanes \in [Workers -> 0 .. Concurrency] /\ carvePool \in 0 .. Buffers
    <3>1. Concurrency \in 0 .. Concurrency /\ Buffers \in 0 .. Buffers
      BY PoolAssumption, BuffersAssumption
    <3> QED BY <3>1 DEF Init
  <2>3. requests \in [Keys -> Seq(SUBSET Nat)] /\ aborted \in [Keys -> BOOLEAN]
    BY DEF Init
  <2>4. /\ source \in Sources
        /\ enqueued \in [Keys -> Nat] /\ dispatched \in [Keys -> Nat]
        /\ partsTotal \in [Keys -> Nat] /\ partsUploaded \in [Keys -> Nat]
        /\ completed \in [Keys -> SUBSET Nat]
        /\ uploadObjects \subseteq Keys /\ uploadActive \in Seq(Keys) /\ urr \in Nat
        /\ bufWaiters \in Seq(Keys) /\ failed \in BOOLEAN
    <3>1. /\ enqueued \in [Keys -> Nat] /\ dispatched \in [Keys -> Nat]
          /\ partsTotal \in [Keys -> Nat] /\ partsUploaded \in [Keys -> Nat]
      BY DEF Init
    <3>2. completed \in [Keys -> SUBSET Nat]
      BY DEF Init
    <3>3. /\ source \in Sources
          /\ uploadObjects \subseteq Keys /\ uploadActive \in Seq(Keys) /\ urr \in Nat
          /\ bufWaiters \in Seq(Keys) /\ failed \in BOOLEAN
      <4>1. /\ source \in Sources /\ uploadObjects = {} /\ uploadActive = <<>> /\ urr = 0
            /\ bufWaiters = <<>> /\ failed = FALSE
        BY DEF Init
      <4>2. failed \in BOOLEAN
        BY <4>1
      <4>3. <<>> \in Seq(Keys)
        OBVIOUS
      <4>4. uploadActive \in Seq(Keys) /\ bufWaiters \in Seq(Keys)
        BY <4>1, <4>3
      <4>5. uploadObjects \subseteq Keys /\ urr \in Nat
        BY <4>1
      <4> QED BY <4>1, <4>2, <4>4, <4>5
    <3> QED BY <3>1, <3>2, <3>3
  <2>5. uploading = {} /\ broken = {} /\ dead = {}
    BY DEF Init
  <2> QED BY <2>1, <2>2, <2>3, <2>4, <2>5 DEF TypeOK
<1>2. PartsAccounted
  <2>1. \A k, n : HoldersOf(k, n) = {}
    BY DEF Init, HoldersOf, Outstanding
  <2>2. \A k \in Keys : Parts[k] \in Nat
    BY PartShape
  <2> QED BY <2>1, <2>2 DEF Init, PartsAccounted
<1>3. CountersMatch
  <2>1. \A w : OnWorker(w) = {}
    BY DEF Init, OnWorker, Outstanding
  <2>2. Cardinality({}) = 0 /\ Concurrency \in Nat
    BY FS_EmptySet, PoolAssumption
  <2>3. \A w \in Workers : freeLanes[w] = Concurrency /\ Cardinality(OnWorker(w)) = 0
    BY <2>1, <2>2 DEF Init
  <2>4. \A k \in Keys : partsUploaded[k] = 0 /\ Cardinality(completed[k]) = 0
    BY <2>2 DEF Init
  <2> QED BY <2>2, <2>3, <2>4 DEF CountersMatch
<1>4. BuffersAccounted
  <2>1. InHand = {}
    BY DEF Init, InHand
  <2>2. Carved = {}
    BY PartShape DEF Init, Carved
  <2>3. Cardinality({}) = 0 /\ carvePool = Buffers /\ Buffers \in Nat
    BY FS_EmptySet, BuffersAssumption DEF Init
  <2> QED BY <2>1, <2>2, <2>3, BuffersRead
<1>5. NoLostWakeup /\ WaitersMatch /\ RecordOutlivesParts /\ CompleteOnce
  BY DEF Init, NoLostWakeup, WaitersMatch, RecordOutlivesParts, CompleteOnce, Outstanding
<1>6. RecordsMatch
  BY DEF Init, RecordsMatch, CallMatches, TotalMatches, CarverMatches, Fresh, Carving
<1> QED
  BY <1>1, <1>2, <1>3, <1>4, <1>5, <1>6 DEF Inv

LEMMA StutterKeeps ==
  ASSUME Inv, UNCHANGED <<source, vars>>
  PROVE  Inv'
<1>1. UNCHANGED <<source, call, uploadObjects, uploadActive, urr, enqueued, dispatched,
                  partsTotal, partsUploaded, completed, completing, requests, aborted, carver,
                  carvePool, bufWaiters, freeLanes, failed, uploading, broken, dead>>
  BY DEF vars, recordVars, mpuVars, carveVars, workerVars
<1>2. TypeOK' /\ RecordOutlivesParts' /\ CompleteOnce'
  BY <1>1 DEF Inv, TypeOK, RecordOutlivesParts, CompleteOnce, Outstanding
<1>3. PartsAccounted' /\ CountersMatch'
  BY <1>1, PoolUntouched
<1>4. BuffersAccounted' /\ NoLostWakeup' /\ WaitersMatch'
  BY <1>1, CarveUntouched DEF carveVars
<1>5. RecordsMatch'
  BY <1>1 DEF Inv, RecordsMatch, CallMatches, TotalMatches, CarverMatches, Fresh, Streams,
              Carving, PlannedTotal
<1> QED
  BY <1>2, <1>3, <1>4, <1>5 DEF Inv

LEMMA NextInv == Inv /\ [Next /\ UNCHANGED source]_<<source, vars>> => Inv'
<1> SUFFICES ASSUME Inv, [Next /\ UNCHANGED source]_<<source, vars>>
             PROVE  Inv'
  OBVIOUS
<1>1. ASSUME NEW k \in Keys, UNCHANGED source,
             Call(k) \/ CreateFails(k) \/ SourceRefused(k)
      PROVE  Inv'
  BY <1>1, CallKeeps
<1>2. ASSUME NEW k \in Keys, UNCHANGED source, CreateReply(k)
      PROVE  Inv'
  BY <1>2, CreateReplyKeeps
<1>3. ASSUME NEW k \in Keys, UNCHANGED source, CreateReplyStream(k)
      PROVE  Inv'
  BY <1>3, CreateReplyStreamKeeps
<1>4. ASSUME NEW k \in Keys, UNCHANGED source, TakeBuffer(k)
      PROVE  Inv'
  BY <1>4, TakeBufferKeeps
<1>5. ASSUME NEW k \in Keys, UNCHANGED source, PartFull(k)
      PROVE  Inv'
  BY <1>5, PartFullKeeps
<1>6. ASSUME NEW k \in Keys, UNCHANGED source, SourceEndsShort(k)
      PROVE  Inv'
  BY <1>6, SourceEndsShortKeeps
<1>7. ASSUME NEW k \in Keys, UNCHANGED source, SourceEnds(k)
      PROVE  Inv'
  BY <1>7, SourceEndsKeeps
<1>8. ASSUME NEW k \in Keys, UNCHANGED source, SourceFails(k)
      PROVE  Inv'
  BY <1>8, SourceFailsKeeps
<1>9. ASSUME NEW k \in Keys, UNCHANGED source, CompleteReply(k) \/ CompleteFails(k)
      PROVE  Inv'
  BY <1>9, SettleKeeps
<1>10. ASSUME NEW p \in uploading, UNCHANGED source, Uploaded(p[1], p[2], p[3])
       PROVE  Inv'
  BY <1>10, UploadedKeeps
<1>11. ASSUME UNCHANGED source,
              \/ \E p \in uploading : PartFails(p[1], p[2], p[3])
              \/ \E w \in Workers : WorkerDies(w)
       PROVE  Inv'
  BY <1>11, FailKeeps
<1>12. ASSUME UNCHANGED source, Reset
       PROVE  Inv'
  BY <1>12, ResetKeeps
<1>13. CASE UNCHANGED <<source, vars>>
  BY <1>13, StutterKeeps
<1> QED
  BY <1>1, <1>2, <1>3, <1>4, <1>5, <1>6, <1>7, <1>8, <1>9, <1>10, <1>11, <1>12, <1>13 DEF Next

(* Inv holds in every state of the upload manager.                           *)
THEOREM InvHolds == Spec => []Inv
<1>1. Init => Inv
  BY InitInv
<1>2. Inv /\ [Next /\ UNCHANGED source]_<<source, vars>> => Inv'
  BY NextInv
<1> QED
  BY <1>1, <1>2, PTL DEF Spec

(* For every batch, mix of sources, pool and carve pool: each part is in one *)
(* place, each carve buffer too, the lanes and the uploaded parts are        *)
(* counted right, and no answer finds its object's record gone.              *)
THEOREM AccountsAreRight == Spec => []Accounting
<1>1. Inv => Accounting
  BY DEF Inv, Accounting
<1> QED
  BY <1>1, InvHolds, PTL

(* However carvers, answers and failures interleave, no buffer lies in the   *)
(* pool beside a waiting carver unless a woken one is on its way to it.      *)
THEOREM WakeupsAreKept == Spec => []NoLostWakeup
<1>1. Inv => NoLostWakeup
  BY DEF Inv
<1> QED
  BY <1>1, InvHolds, PTL

(* CompleteMPU is sent once, with every part, after the last was uploaded    *)
(* and never for an aborted upload; a call resolves only after it.           *)
THEOREM CompletedOnce == Spec => []CompleteOnce
<1>1. Inv => CompleteOnce
  BY DEF Inv
<1> QED
  BY <1>1, InvHolds, PTL
=============================================================================
