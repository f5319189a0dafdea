------------------------ MODULE StreamDownloadProofs ------------------------
(***************************************************************************)
(* Proofs about StreamDownload, for every batch, pool and budget.          *)
(***************************************************************************)
EXTENDS StreamDownload, OperatorLemmas

Assignments == {<<p[1], p[2], w>> : p \in AllParts, w \in Workers}

-----------------------------------------------------------------------------
(* The finite sets that everything else is a subset of.                      *)

LEMMA PartShape ==
  /\ \A k, n : <<k, n>> \in AllParts <=> k \in Keys /\ n \in 1 .. Parts[k]
  /\ \A p \in AllParts : p = <<p[1], p[2]>> /\ p[1] \in Keys /\ p[2] \in 1 .. Parts[p[1]]
  /\ \A k \in Keys : Parts[k] \in Nat /\ Parts[k] > 0
<1>1. \A k \in Keys : Parts[k] \in Nat /\ Parts[k] > 0
  BY PartsAssumption
<1>2. \A p : p \in AllParts <=> \E k \in Keys : p \in {k} \X (1 .. Parts[k])
  BY DEF AllParts
<1> QED
  BY <1>1, <1>2

LEMMA AssignmentShape ==
  /\ \A k, n, w : <<k, n, w>> \in Assignments
                    <=> k \in Keys /\ n \in 1 .. Parts[k] /\ w \in Workers
  /\ \A t \in Assignments : /\ t = <<t[1], t[2], t[3]>>
                            /\ t[1] \in Keys
                            /\ t[2] \in 1 .. Parts[t[1]]
                            /\ t[3] \in Workers
<1>1. \A k, n, w : <<k, n, w>> \in Assignments <=> <<k, n>> \in AllParts /\ w \in Workers
  <2>1. ASSUME NEW k, NEW n, NEW w, <<k, n, w>> \in Assignments
        PROVE  <<k, n>> \in AllParts /\ w \in Workers
    <3>1. PICK p \in AllParts, v \in Workers : <<k, n, w>> = <<p[1], p[2], v>>
      BY <2>1 DEF Assignments
    <3>2. k = p[1] /\ n = p[2] /\ w = v
      BY <3>1
    <3> QED BY <3>2, PartShape
  <2>2. ASSUME NEW k, NEW n, NEW w, <<k, n>> \in AllParts, w \in Workers
        PROVE  <<k, n, w>> \in Assignments
    <3>1. <<k, n, w>> = << <<k, n>>[1], <<k, n>>[2], w>>
      OBVIOUS
    <3> QED BY <2>2, <3>1 DEF Assignments
  <2> QED BY <2>1, <2>2
<1>2. \A k, n, w : <<k, n, w>> \in Assignments
                     <=> k \in Keys /\ n \in 1 .. Parts[k] /\ w \in Workers
  BY <1>1, PartShape
<1>3. ASSUME NEW t \in Assignments
      PROVE  /\ t = <<t[1], t[2], t[3]>>
             /\ t[1] \in Keys
             /\ t[2] \in 1 .. Parts[t[1]]
             /\ t[3] \in Workers
  <2>1. t = <<t[1], t[2], t[3]>>
    BY DEF Assignments
  <2>2. <<t[1], t[2], t[3]>> \in Assignments
    BY <2>1
  <2> HIDE DEF Assignments
  <2> QED BY <1>2, <2>1, <2>2
<1> QED
  BY <1>2, <1>3

LEMMA FiniteParts == IsFiniteSet(AllParts) /\ Cardinality(AllParts) \in Nat
<1>1. Parts \in [Keys -> Nat]
  BY PartsAssumption
<1> QED BY <1>1, KeysAssumption, FiniteRows DEF AllParts

LEMMA FiniteWorkers == IsFiniteSet(Workers) /\ Workers # {}
<1>1. NWorkers \in Int /\ 1 \in 1 .. NWorkers
  BY PoolAssumption
<1>2. IsFiniteSet(1 .. NWorkers)
  BY <1>1, FS_Interval
<1> QED
  BY <1>1, <1>2 DEF Workers

LEMMA FiniteAssignments ==
  /\ IsFiniteSet(Assignments)
  /\ \A S \in SUBSET Assignments : IsFiniteSet(S) /\ Cardinality(S) \in Nat
<1> DEFINE pairs == AllParts \X Workers
           f == [q \in pairs |-> <<q[1][1], q[1][2], q[2]>>]
<1>1. IsFiniteSet(pairs)
  BY FiniteParts, FiniteWorkers, FS_Product
<1>2. f \in Surjection(pairs, Assignments)
  <2>1. f \in [pairs -> Assignments]
    BY DEF Assignments
  <2>2. ASSUME NEW t \in Assignments
        PROVE  \E q \in pairs : f[q] = t
    <3>1. PICK p \in AllParts, w \in Workers : t = <<p[1], p[2], w>>
      BY DEF Assignments
    <3>2. <<p, w>> \in pairs /\ f[<<p, w>>] = <<p[1], p[2], w>>
      OBVIOUS
    <3> QED BY <3>1, <3>2
  <2> HIDE DEF f, pairs
  <2> QED BY <2>1, <2>2 DEF Surjection
<1>3. IsFiniteSet(Assignments)
  BY <1>1, <1>2, FS_Surjection
<1> QED
  BY <1>3, FS_Subset, FS_CardinalityType

-----------------------------------------------------------------------------
(* The assignments in S that are with worker w.                              *)
Of(S, w) == {t \in S : t[3] = w}

(* What a call of _dispatchMore leaves, when `fetch' was under way before.   *)
Dispatched(order, fetch) ==
  /\ cursor' \in [Keys -> Nat]
  /\ \A k \in Keys : cursor[k] <= cursor'[k] /\ cursor'[k] <= Parts[k]
  /\ \A k \in Keys : (\A i \in 1 .. Len(order) : order[i] # k) => cursor'[k] = cursor[k]
  /\ fetch \subseteq fetching' /\ fetching' \subseteq Assignments
  /\ \A t \in fetching' \ fetch : cursor[t[1]] < t[2] /\ t[2] <= cursor'[t[1]]
  /\ \A k \in Keys : \A n \in 1 .. Parts[k] : cursor[k] < n /\ n <= cursor'[k]
       => \E w \in Workers : \A v \in Workers : <<k, n, v>> \in fetching' <=> v = w
  /\ totalInFlight' = Cardinality(fetching' \cup broken)
  /\ freeLanes' \in [Workers -> 0 .. Concurrency]
  /\ \A w \in Workers :
       freeLanes'[w] = Concurrency - Cardinality(Of(fetching' \cup broken, w))
  /\ totalInFlight' = 0 => \A i \in 1 .. Len(order) : cursor'[order[i]] = Parts[order[i]]
  /\ rr' \in Nat

LEMMA DispatchEffect ==
  ASSUME NEW ACTION order, NEW STATE fetch, NEW STATE free, NEW STATE flying,
         NEW ACTION backlog,
         order \in Seq(Keys),
         cursor \in [Keys -> Nat], \A k \in Keys : cursor[k] <= Parts[k], rr \in Nat,
         fetch \subseteq Assignments, broken \subseteq Assignments,
         \A t \in fetch \cup broken : t[2] <= cursor[t[1]],
         flying = Cardinality(fetch \cup broken),
         \A w \in Workers :
           free[w] = Concurrency - Cardinality(Of(fetch \cup broken, w)),
         DispatchMore(order, fetch, free, flying, backlog)
  PROVE  Dispatched(order, fetch)
<1> DEFINE listed == {order[i] : i \in 1 .. Len(order)}
           out == fetch \cup broken
<1>0. \A k \in Keys : Parts[k] \in Nat /\ cursor[k] \in Nat
  BY PartShape
<1>1. PICK cur \in [Keys -> 0 .. Cardinality(AllParts)] :
        /\ \A k \in Keys : /\ cursor[k] <= cur[k]
                           /\ cur[k] <= IF k \in listed THEN Parts[k] ELSE cursor[k]
        /\ \E lane \in [Batch(cur) -> Workers],
              looks \in Looks(order, rr, cursor, Batch(cur)) :
             LET given == [w \in Workers |-> {p \in Batch(cur) : lane[p] = w}]
                 full  == \A w \in Workers : Cardinality(given[w]) = free[w]
                 stop  == Throttled(flying + Cardinality(Batch(cur)), backlog)
             IN /\ Dealt(order, rr, cursor, given, free)
                /\ \/ full
                   \/ {<<k, cur[k] + 1>> : k \in {j \in listed : cur[j] < Parts[j]}} = {}
                   \/ stop
                /\ cursor' = cur
                /\ rr' = AdvanceRR(order, looks, ~full /\ ~stop)
                /\ fetching' = fetch \cup {<<p[1], p[2], lane[p]>> : p \in Batch(cur)}
                /\ freeLanes' = TakeLanes(free, given)
                /\ totalInFlight' = flying + Cardinality(Batch(cur))
  BY Zenon DEF DispatchMore
<1>a. /\ cur \in [Keys -> Nat]
      /\ \A k \in Keys : cursor[k] <= cur[k] /\ cur[k] <= Parts[k]
      /\ \A k \in Keys : k \notin listed => cur[k] = cursor[k]
  <2>1. Cardinality(AllParts) \in Nat
    BY FiniteParts
  <2>2. cur \in [Keys -> Nat]
    BY <2>1
  <2>3. \A k \in Keys : /\ cursor[k] <= cur[k]
                        /\ cur[k] <= IF k \in listed THEN Parts[k] ELSE cursor[k]
    BY <1>1
  <2> HIDE DEF listed
  <2>4. ASSUME NEW k \in Keys
        PROVE  /\ cursor[k] <= cur[k] /\ cur[k] <= Parts[k]
               /\ k \notin listed => cur[k] = cursor[k]
    BY <1>0, <2>2, <2>3
  <2> QED BY <2>2, <2>4
<1> DEFINE batch == Batch(cur)
<1>b. {<<k, cur[k] + 1>> : k \in {j \in listed : cur[j] < Parts[j]}} = {}
        => \A k \in listed : ~ cur[k] < Parts[k]
  OBVIOUS
<1>c. PICK lane \in [batch -> Workers], looks \in Looks(order, rr, cursor, batch) :
        LET given == [w \in Workers |-> {p \in batch : lane[p] = w}]
            full  == \A w \in Workers : Cardinality(given[w]) = free[w]
            stop  == Throttled(flying + Cardinality(batch), backlog)
        IN /\ Dealt(order, rr, cursor, given, free)
           /\ \/ full
              \/ {<<k, cur[k] + 1>> : k \in {j \in listed : cur[j] < Parts[j]}} = {}
              \/ stop
           /\ cursor' = cur
           /\ rr' = AdvanceRR(order, looks, ~full /\ ~stop)
           /\ fetching' = fetch \cup {<<p[1], p[2], lane[p]>> : p \in batch}
           /\ freeLanes' = TakeLanes(free, given)
           /\ totalInFlight' = flying + Cardinality(batch)
  BY <1>1
<1> DEFINE given == [w \in Workers |-> {p \in batch : lane[p] = w}]
<1>d. \A w \in Workers : given[w] = {p \in batch : lane[p] = w}
  OBVIOUS
<1>2. /\ \A w \in Workers : Cardinality({p \in batch : lane[p] = w}) <= free[w]
      /\ \/ \A w \in Workers : Cardinality({p \in batch : lane[p] = w}) = free[w]
         \/ \A k \in listed : ~ cur[k] < Parts[k]
         \/ Throttled(flying + Cardinality(batch), backlog)
      /\ cursor' = cur
      /\ \E dry \in BOOLEAN : rr' = AdvanceRR(order, looks, dry)
      /\ fetching' = fetch \cup {<<p[1], p[2], lane[p]>> : p \in batch}
      /\ freeLanes' = [w \in Workers |->
                         free[w] - Cardinality({p \in batch : lane[p] = w})]
      /\ totalInFlight' = flying + Cardinality(batch)
  <2>1. \A w \in Workers : Cardinality(given[w]) <= free[w]
    BY <1>c DEF Dealt
  <2>2. freeLanes' = [w \in Workers |-> free[w] - Cardinality(given[w])]
    BY <1>c DEF TakeLanes
  <2>3. \/ \A w \in Workers : Cardinality(given[w]) = free[w]
        \/ \A k \in listed : ~ cur[k] < Parts[k]
        \/ Throttled(flying + Cardinality(batch), backlog)
    BY <1>b, <1>c
  <2>4. \E dry \in BOOLEAN : rr' = AdvanceRR(order, looks, dry)
    BY <1>c
  <2> QED BY <1>c, <1>d, <2>1, <2>2, <2>3, <2>4
<1> DEFINE new == {<<p[1], p[2], lane[p]>> : p \in batch}
<1>3. /\ \A p : p \in batch <=> p \in AllParts /\ cursor[p[1]] < p[2] /\ p[2] <= cur[p[1]]
      /\ batch \subseteq AllParts
  BY DEF Batch
<1>4. /\ \A t \in new : /\ <<t[1], t[2]>> \in batch
                        /\ t[3] = lane[<<t[1], t[2]>>]
                        /\ t = <<t[1], t[2], t[3]>>
      /\ \A p \in batch : <<p[1], p[2], lane[p]>> \in new
      /\ new \subseteq Assignments
  <2>1. ASSUME NEW t \in new
        PROVE  /\ <<t[1], t[2]>> \in batch
               /\ t[3] = lane[<<t[1], t[2]>>]
               /\ t = <<t[1], t[2], t[3]>>
               /\ t \in Assignments
    <3>1. PICK p \in batch : t = <<p[1], p[2], lane[p]>>
      OBVIOUS
    <3>2. p = <<p[1], p[2]>> /\ lane[p] \in Workers /\ p \in AllParts
      BY <1>2, <1>3, PartShape
    <3>3. t[1] = p[1] /\ t[2] = p[2] /\ t[3] = lane[p]
      BY <3>1
    <3>4. t \in Assignments
      BY <3>1, <3>2 DEF Assignments
    <3> HIDE DEF batch
    <3> QED BY <3>1, <3>2, <3>3, <3>4
  <2> QED BY <2>1
<1>5. new \cap out = {}
  <2>1. \A t \in new : cursor[t[1]] < t[2] /\ t[1] \in Keys /\ t[2] \in Nat
    BY <1>3, <1>4, AssignmentShape
  <2> QED BY <2>1, <1>0
<1>6. /\ IsFiniteSet(batch) /\ Cardinality(batch) \in Nat
      /\ IsFiniteSet(out) /\ Cardinality(out) \in Nat
      /\ IsFiniteSet(new)
  BY <1>3, <1>4, FiniteParts, FiniteAssignments, FS_Subset, FS_CardinalityType
<1>7. Cardinality(new) = Cardinality(batch)
  <2>1. \A p \in batch : p = <<p[1], p[2]>>
    BY <1>3, PartShape
  <2> HIDE DEF batch
  <2> QED BY <2>1, <1>6, TagSize
<1>8. totalInFlight' = Cardinality(fetching' \cup broken)
  <2>1. fetching' \cup broken = out \cup new
    BY <1>2
  <2>2. Cardinality(out \cup new) = Cardinality(out) + Cardinality(new)
    <3> HIDE DEF out, new
    <3> QED BY <1>5, <1>6, DisjointUnionSize
  <2> QED BY <1>2, <1>7, <2>1, <2>2
<1>9. \A w \in Workers :
        /\ Cardinality(Of(out, w)) \in Nat
        /\ Cardinality({p \in batch : lane[p] = w}) \in Nat
        /\ freeLanes'[w] = Concurrency - Cardinality(Of(fetching' \cup broken, w))
  <2> SUFFICES ASSUME NEW w \in Workers
               PROVE  /\ Cardinality(Of(out, w)) \in Nat
                      /\ Cardinality({p \in batch : lane[p] = w}) \in Nat
                      /\ freeLanes'[w] = Concurrency
                           - Cardinality(Of(fetching' \cup broken, w))
    OBVIOUS
  <2> DEFINE old == Of(out, w)
             mine == {p \in batch : lane[p] = w}
             added == {<<p[1], p[2], lane[p]>> : p \in mine}
  <2>1. mine \subseteq batch /\ old \subseteq out
    BY DEF Of
  <2>2. /\ IsFiniteSet(mine) /\ Cardinality(mine) \in Nat
        /\ IsFiniteSet(old) /\ Cardinality(old) \in Nat
    BY <1>6, <2>1, FS_Subset, FS_CardinalityType
  <2>3. IsFiniteSet(added) /\ Cardinality(added) = Cardinality(mine)
    <3>1. \A p \in mine : p = <<p[1], p[2]>>
      BY <1>3, PartShape
    <3> HIDE DEF mine
    <3> QED BY <2>2, <3>1, TagSize
  <2>4. added = {t \in new : t[3] = w}
    BY <1>4
  <2>5. Of(fetching' \cup broken, w) = old \cup added
    BY <1>2, <2>4 DEF Of
  <2>6. old \cap added = {}
    BY <1>5, <2>4 DEF Of
  <2>7. Cardinality(old \cup added) = Cardinality(old) + Cardinality(added)
    <3> HIDE DEF old, added
    <3> QED BY <2>2, <2>3, <2>6, DisjointUnionSize
  <2>8. /\ freeLanes'[w] = free[w] - Cardinality(mine)
        /\ free[w] = Concurrency - Cardinality(old)
    BY <1>2
  <2>9. Concurrency \in Nat
    BY PoolAssumption
  <2> HIDE DEF old, mine, added
  <2>10. freeLanes'[w] = Concurrency - Cardinality(old \cup added)
    BY <2>2, <2>3, <2>7, <2>8, <2>9
  <2> QED BY <2>2, <2>5, <2>10 DEF old, mine
<1>10. freeLanes' \in [Workers -> 0 .. Concurrency]
  <2>1. ASSUME NEW w \in Workers
        PROVE  free[w] - Cardinality({p \in batch : lane[p] = w}) \in 0 .. Concurrency
    <3>1. /\ Cardinality(Of(out, w)) \in Nat
          /\ Cardinality({p \in batch : lane[p] = w}) \in Nat
          /\ Cardinality({p \in batch : lane[p] = w}) <= free[w]
          /\ free[w] = Concurrency - Cardinality(Of(out, w))
      BY <1>2, <1>9
    <3>2. Concurrency \in Nat
      BY PoolAssumption
    <3> HIDE DEF out, batch
    <3> QED BY <3>1, <3>2
  <2> QED BY <1>2, <2>1
<1>11. \A k \in Keys : \A n \in 1 .. Parts[k] : cursor[k] < n /\ n <= cur[k]
         => \E w \in Workers : \A v \in Workers : <<k, n, v>> \in fetching' <=> v = w
  <2> SUFFICES ASSUME NEW k \in Keys, NEW n \in 1 .. Parts[k],
                      cursor[k] < n, n <= cur[k]
               PROVE  \E w \in Workers : \A v \in Workers :
                        <<k, n, v>> \in fetching' <=> v = w
    OBVIOUS
  <2>1. <<k, n>> \in batch
    BY <1>3, PartShape
  <2>2. lane[<<k, n>>] \in Workers /\ <<k, n, lane[<<k, n>>]>> \in new
    BY <1>4, <2>1
  <2>3. \A v : <<k, n, v>> \in new => v = lane[<<k, n>>]
    BY <1>4
  <2>4. \A v : <<k, n, v>> \notin fetch
    BY <1>0
  <2>5. \A v : <<k, n, v>> \in fetching' <=> <<k, n, v>> \in new
    BY <1>2, <2>4
  <2> HIDE DEF new, batch
  <2> QED BY <2>2, <2>3, <2>5
<1>12. ASSUME totalInFlight' = 0
       PROVE  \A k \in listed : cur[k] = Parts[k]
  <2>1. Cardinality(batch) = 0 /\ Cardinality(out) = 0
    BY <1>2, <1>6, <1>12
  <2>2. batch = {} /\ out = {}
    BY <1>6, <2>1, FS_EmptySet
  <2>3. ~Throttled(flying + Cardinality(batch), backlog)
    BY <1>2, <1>12 DEF Throttled
  <2>4. ~ \A w \in Workers : Cardinality({p \in batch : lane[p] = w}) = free[w]
    <3>1. PICK w \in Workers : TRUE
      BY FiniteWorkers
    <3>2. {p \in batch : lane[p] = w} = {} /\ Of(out, w) = {}
      BY <2>2 DEF Of
    <3>3. Cardinality({p \in batch : lane[p] = w}) = 0 /\ free[w] = Concurrency - 0
      BY <3>2, FS_EmptySet
    <3>4. Cardinality({p \in batch : lane[p] = w}) # free[w]
      BY <3>3, PoolAssumption
    <3> QED BY <3>4, Zenon
  <2>5. \A k \in listed : ~ cur[k] < Parts[k]
    BY <1>2, <2>3, <2>4
  <2>6. listed \subseteq Keys
    OBVIOUS
  <2> HIDE DEF listed
  <2> QED BY <1>0, <1>a, <2>5, <2>6
<1>13. rr' \in Nat
  <2>1. \A p \in batch : Look(order, rr, cursor, p) \in Int
    <3> SUFFICES ASSUME NEW p \in batch
                 PROVE  Look(order, rr, cursor, p) \in Int
      OBVIOUS
    <3>1. p[1] \in Keys /\ p[2] \in Nat /\ cursor[p[1]] < p[2] /\ p[2] <= cur[p[1]]
      BY <1>3, PartShape
    <3>2. p[1] \in listed
      <4> HIDE DEF listed, batch
      <4> QED BY <1>0, <1>a, <3>1
    <3> DEFINE index == CHOOSE i \in 1 .. Len(order) : order[i] = p[1]
    <3>3. index \in 1 .. Len(order)
      BY <3>2
    <3>4. Len(order) \in Nat
      OBVIOUS
    <3> HIDE DEF index
    <3>5. (index - 1 - rr) % Len(order) \in Int
      BY <3>3, <3>4
    <3>6. FirstLook(order, rr, p[1]) \in Int
      BY <3>5 DEF FirstLook, index
    <3>7. (p[2] - cursor[p[1]] - 1) * Len(order) \in Int
      BY <1>0, <3>1, <3>4
    <3> QED BY <3>6, <3>7 DEF Look
  <2>2. PICK dry \in BOOLEAN : rr' = AdvanceRR(order, looks, dry)
    BY <1>2
  <2>3. rr' = (rr + looks + (IF dry THEN Len(order) ELSE 0)) % RRModulus
    BY <2>2 DEF AdvanceRR
  <2>4. looks \in Int
    BY <1>c, <2>1 DEF Looks
  <2> DEFINE x == rr + looks + (IF dry THEN Len(order) ELSE 0)
  <2>5. x \in Int
    <3>1. Len(order) \in Nat
      OBVIOUS
    <3> QED BY <2>4, <3>1
  <2> HIDE DEF x
  <2>6. x % RRModulus \in Nat
    BY <2>5, ModulusAssumption
  <2> QED BY <2>3, <2>6 DEF x
<1> HIDE DEF batch
<1>15. \A t \in fetching' \ fetch : cursor[t[1]] < t[2] /\ t[2] <= cur[t[1]]
  BY <1>2, <1>3, <1>4
<1>16. fetch \subseteq fetching' /\ fetching' \subseteq Assignments
  BY <1>2, <1>4
<1>17. \A i \in 1 .. Len(order) : order[i] \in listed
  OBVIOUS
<1>18. \A k \in Keys : (\A i \in 1 .. Len(order) : order[i] # k) => k \notin listed
  OBVIOUS
<1> HIDE DEF listed, out, new
<1> QED
  BY <1>2, <1>8, <1>9, <1>10, <1>11, <1>12, <1>13, <1>a, <1>15, <1>16, <1>17, <1>18
  DEF Dispatched

(* It goes past the cap only with the one part that keeps the pool moving.   *)
LEMMA DispatchLimit ==
  ASSUME NEW ACTION order, NEW STATE fetch, NEW STATE free, NEW STATE flying,
         NEW ACTION backlog, flying \in Nat, backlog >= Cap,
         DispatchMore(order, fetch, free, flying, backlog)
  PROVE  totalInFlight' = flying \/ (flying = 0 /\ totalInFlight' = 1)
<1>1. PICK cur \in [Keys -> 0 .. Cardinality(AllParts)] :
        /\ \A i \in 0 .. Cardinality(Batch(cur)) - 1 : ~Throttled(flying + i, backlog)
        /\ totalInFlight' = flying + Cardinality(Batch(cur))
  BY Zenon DEF DispatchMore
<1> DEFINE size == Cardinality(Batch(cur))
<1>2. size \in Nat
  BY FiniteParts, FS_Subset, FS_CardinalityType DEF Batch
<1>3. \A i \in 0 .. size - 1 : ~(flying + i > 0)
  BY <1>1 DEF Throttled
<1>4. totalInFlight' = flying + size
  BY <1>1
<1> HIDE DEF size
<1>5. CASE size = 0
  BY <1>4, <1>5
<1>6. CASE size = 1
  <2>1. ~(flying + 0 > 0)
    BY <1>3, <1>6
  <2> QED BY <1>4, <1>6, <2>1
<1>7. CASE size > 1
  <2>1. 1 \in 0 .. size - 1
    BY <1>2, <1>7
  <2>2. ~(flying + 1 > 0)
    BY <1>3, <2>1
  <2> QED BY <2>2
<1> QED BY <1>2, <1>5, <1>6, <1>7

-----------------------------------------------------------------------------
(* The inductive invariant: the properties the runs check, with what ties a  *)
(* registered object to the list the scheduler walks and what _dispatchMore  *)
(* and _drainKey leave behind them whenever they return.                     *)

Listed ==
  \A k \in Keys : k \in Registered <=> \E i \in 1 .. Len(active) : active[i] = k

FreshUntilListed ==
  \A k \in Keys \ Registered :
    /\ cursor[k] = 0 /\ nextN[k] = 1 /\ ~paused[k]
    /\ stream[k] = <<>> /\ taken[k] = 0

Bounded ==
  \A k \in Keys : /\ cursor[k] <= Parts[k]
                  /\ nextN[k] <= Parts[k] + 1
                  /\ eofPushed[k] <=> nextN[k] > Parts[k]

EndedIsDrained ==
  \A k \in Keys : body[k] = "ended" => eofPushed[k] /\ Queued(k) = 0

FailureMarked ==
  ~failed => /\ broken = {} /\ dead = {}
             /\ \A k \in Keys : body[k] # "errored"

(* _drainKey pushes until the next part is missing or the body is paused.    *)
HeldWaits == \A k \in Keys : ~paused[k] => <<k, nextN[k]>> \notin held

(* _dispatchMore leaves the pool idle only when there is nothing to fetch.   *)
PoolBusy == totalInFlight = 0 => \A k \in Registered : cursor[k] = Parts[k]

(* No part is missing in front of one of h.                                  *)
GapFree(h) ==
  \A k \in Keys : \A n, i \in 1 .. Parts[k] :
    <<k, n>> \in h /\ nextN[k] <= i /\ i <= n => <<k, i>> \in h

(* Backlog and parts in flight reach the limit only when at most one part is *)
(* in flight, fetched although the backlog was full and nothing missing in   *)
(* it.                                                                       *)
OverrunSettled ==
  bufferedBytes + totalInFlight >= Cap + NWorkers * Concurrency
    => totalInFlight <= 1 /\ GapFree(held)

Inv ==
  /\ TypeOK /\ PartsAccounted /\ CountersMatch /\ BodyInOrder /\ PausedWillRead
  /\ Listed /\ FreshUntilListed /\ Bounded /\ EndedIsDrained /\ FailureMarked
  /\ HeldWaits /\ PoolBusy /\ OverrunSettled

-----------------------------------------------------------------------------
(* What a call of _drainKey(k) leaves, when h was held before.               *)
Delivered(k, h) ==
  /\ held' \subseteq h
  /\ nextN' \in [Keys -> Nat \ {0}]
  /\ \A j \in Keys : nextN[j] <= nextN'[j] /\ nextN'[j] <= Parts[j] + 1
  /\ \A j \in Keys : \A n \in 1 .. Parts[j] :
       /\ nextN[j] <= n /\ n < nextN'[j] => <<j, n>> \in h
       /\ <<j, n>> \in held' <=> <<j, n>> \in h /\ n >= nextN'[j]
  /\ bufferedBytes' = Cardinality(held')
  /\ deliveredCount' = Cardinality({p \in AllParts : p[2] < nextN'[p[1]]})
  /\ eofPushed' \in [Keys -> BOOLEAN]
  /\ eofPushed'[k] <=> nextN'[k] > Parts[k]
  /\ paused' \in [Keys -> BOOLEAN]
  /\ ~paused'[k] => <<k, nextN'[k]>> \notin held'
  /\ stream' \in [Keys -> Seq(Nat)]
  /\ taken' \in [Keys -> Nat]
  /\ \A i \in 1 .. Len(stream'[k]) : stream'[k][i] = i
  /\ taken'[k] <= Len(stream'[k])
  /\ body[k] # "errored" => Len(stream'[k]) = nextN'[k] - 1
  /\ body[k] = "open" /\ paused'[k] /\ ~eofPushed'[k]
       => Len(stream'[k]) - taken'[k] >= Hwm
  /\ eofPushed[k] => stream'[k] = stream[k] /\ taken'[k] = taken[k]
  /\ \A j \in Keys \ {k} : /\ nextN'[j] = nextN[j] /\ eofPushed'[j] = eofPushed[j]
                           /\ paused'[j] = paused[j] /\ stream'[j] = stream[j]
                           /\ taken'[j] = taken[j]

LEMMA DrainEffect ==
  ASSUME NEW k \in Keys, NEW stopped \in BOOLEAN, NEW STATE h,
         NEW STATE backlog, NEW read \in {0, 1},
         Inv,
         h \subseteq AllParts, backlog = Cardinality(h),
         \A p \in h : p[2] >= nextN[p[1]],
         stopped => paused[k],
         read # 0 => /\ body[k] = "open" /\ paused[k] /\ ~eofPushed[k]
                     /\ Queued(k) > 0 /\ ~stopped,
         DrainKey(k, stopped, h, backlog, read)
  PROVE  Delivered(k, h)
<1>0. /\ \A j \in Keys : Parts[j] \in Nat /\ Parts[j] > 0
      /\ Hwm \in Nat
  BY PartShape, BudgetAssumption
<1>1. PICK m \in 0 .. Parts[k], direct \in 0 .. Parts[k] :
        /\ IF stopped THEN m = 0 /\ direct = 0 ELSE Pushes(k, h, direct, m)
        /\ held' = Release(k, h, m)
        /\ bufferedBytes' = backlog - m
        /\ deliveredCount' = deliveredCount + m
        /\ nextN' = [nextN EXCEPT ![k] = nextN[k] + m]
        /\ eofPushed' = [eofPushed EXCEPT ![k] = @ \/ nextN[k] + m > Parts[k]]
        /\ paused' = [paused EXCEPT ![k] = stopped \/ Pauses(k, direct, m)]
        /\ stream' = [stream EXCEPT ![k] =
                         IF body[k] = "errored" THEN @
                         ELSE @ \o [i \in 1 .. m |-> nextN[k] + i - 1]]
        /\ taken' = [taken EXCEPT ![k] = @ + direct + read]
  BY DEF DrainKey, CountParts, NextAfter, PushesEof
<1> DEFINE run == Run(k, nextN[k], m)
<1>2. /\ m \in Nat /\ direct \in Nat /\ direct <= m
      /\ run \subseteq h
      /\ direct > 0 => Queued(k) = 0 /\ body[k] = "open"
      /\ stopped => m = 0 /\ direct = 0
      /\ ~stopped => <<k, nextN[k] + m>> \notin h \/ Pauses(k, direct, m)
  BY <1>0, <1>1 DEF Pushes, Run
<1>3. /\ nextN \in [Keys -> Nat \ {0}] /\ nextN[k] \in Nat /\ nextN[k] > 0
      /\ stream \in [Keys -> Seq(Nat)] /\ taken \in [Keys -> Nat]
      /\ paused \in [Keys -> BOOLEAN] /\ eofPushed \in [Keys -> BOOLEAN]
      /\ deliveredCount \in Nat
      /\ \A j \in Keys : nextN[j] <= Parts[j] + 1
      /\ eofPushed[k] <=> nextN[k] > Parts[k]
  BY DEF Inv, TypeOK, Bounded
<1>4. /\ nextN' \in [Keys -> Nat \ {0}]
      /\ nextN'[k] = nextN[k] + m
      /\ \A j \in Keys \ {k} : nextN'[j] = nextN[j]
  BY <1>1, <1>2, <1>3
<1>5. held' = h \ run
  BY <1>1 DEF Release, Run
<1>6. nextN[k] + m <= Parts[k] + 1
  <2>1. CASE m = 0
    BY <1>3, <2>1
  <2>2. CASE m > 0
    <3>1. <<k, nextN[k] + (m - 1)>> \in AllParts
      <4>1. m - 1 \in 0 .. m - 1
        BY <1>2, <2>2
      <4>2. <<k, nextN[k] + (m - 1)>> \in run
        BY <4>1 DEF Run
      <4> QED BY <1>2, <4>2
    <3>2. nextN[k] + (m - 1) \in 1 .. Parts[k]
      BY <3>1, PartShape
    <3> QED BY <1>0, <1>2, <1>3, <3>2
  <2> QED BY <1>2, <2>1, <2>2
<1>7. \A j, n : <<j, n>> \in run <=> j = k /\ n \in Int /\ nextN[k] <= n /\ n < nextN[k] + m
  <2>1. ASSUME NEW j, NEW n, <<j, n>> \in run
        PROVE  j = k /\ n \in Int /\ nextN[k] <= n /\ n < nextN[k] + m
    BY <1>2, <1>3, <2>1 DEF Run
  <2>2. ASSUME NEW n \in Int, nextN[k] <= n, n < nextN[k] + m
        PROVE  <<k, n>> \in run
    <3>1. n - nextN[k] \in 0 .. m - 1 /\ n = nextN[k] + (n - nextN[k])
      BY <1>2, <1>3, <2>2
    <3> QED BY <3>1 DEF Run
  <2> QED BY <2>1, <2>2
<1>8. \A j \in Keys : \A n \in 1 .. Parts[j] :
        /\ nextN[j] <= n /\ n < nextN'[j] => <<j, n>> \in h
        /\ <<j, n>> \in held' <=> <<j, n>> \in h /\ n >= nextN'[j]
  <2> SUFFICES ASSUME NEW j \in Keys, NEW n \in 1 .. Parts[j]
               PROVE  /\ nextN[j] <= n /\ n < nextN'[j] => <<j, n>> \in h
                      /\ <<j, n>> \in held' <=> <<j, n>> \in h /\ n >= nextN'[j]
    OBVIOUS
  <2>1. <<j, n>> \in h => n >= nextN[j]
    OBVIOUS
  <2> HIDE DEF run
  <2>2. CASE j = k
    <3>1. /\ nextN[j] = nextN[k] /\ nextN'[j] = nextN[k] + m
          /\ <<j, n>> \in run <=> nextN[k] <= n /\ n < nextN[k] + m
      BY <1>4, <1>7, <2>2
    <3>2. nextN[k] \in Nat /\ n \in Int /\ m \in Nat
      BY <1>2, <1>3
    <3> QED BY <1>2, <1>5, <2>1, <3>1, <3>2
  <2>3. CASE j # k
    BY <1>3, <1>4, <1>5, <1>7, <2>1, <2>3
  <2> QED BY <2>2, <2>3
<1>9. /\ IsFiniteSet(run) /\ Cardinality(run) = m
  <2>1. nextN[k] \in Int /\ m \in Nat
    BY <1>2, <1>3
  <2> QED BY <2>1, RunSize
<1>10. bufferedBytes' = Cardinality(held')
  <2>1. IsFiniteSet(h) /\ Cardinality(h) \in Nat
    BY FiniteParts, FS_Subset, FS_CardinalityType
  <2> HIDE DEF run
  <2>2. Cardinality(h \ run) = Cardinality(h) - Cardinality(run)
    BY <1>2, <2>1, RemovalSize
  <2> QED BY <1>1, <1>5, <1>9, <2>2
<1>11. deliveredCount' = Cardinality({p \in AllParts : p[2] < nextN'[p[1]]})
  <2> DEFINE was == {p \in AllParts : p[2] < nextN[p[1]]}
             now == {p \in AllParts : p[2] < nextN'[p[1]]}
  <2>1. deliveredCount = Cardinality(was)
    BY DEF Inv, CountersMatch
  <2>2. now = was \cup run
    <3>1. \A p \in AllParts : p = <<p[1], p[2]>> /\ p[1] \in Keys /\ p[2] \in 1 .. Parts[p[1]]
      BY PartShape
    <3>2. run \subseteq AllParts
      BY <1>2
    <3>3. ASSUME NEW p \in AllParts
          PROVE  p \in now <=> p \in was \/ p \in run
      <4>1. p \in run <=> p[1] = k /\ nextN[k] <= p[2] /\ p[2] < nextN[k] + m
        BY <1>7, <3>1
      <4>2. nextN[p[1]] \in Nat /\ p[2] \in Nat
        BY <1>3, <3>1
      <4> HIDE DEF run
      <4>3. CASE p[1] = k
        BY <1>2, <1>4, <4>1, <4>2, <4>3
      <4>4. CASE p[1] # k
        BY <1>4, <3>1, <4>1, <4>4
      <4> QED BY <4>3, <4>4
    <3> HIDE DEF run
    <3> QED BY <3>2, <3>3
  <2>3. was \cap run = {}
    <3>1. \A p \in was : p = <<p[1], p[2]>> /\ p[2] \in Nat /\ p[2] < nextN[p[1]]
      BY PartShape
    <3> HIDE DEF run, was
    <3>2. ASSUME NEW p \in was, p \in run PROVE FALSE
      <4>1. p[1] = k /\ nextN[k] <= p[2]
        BY <1>7, <3>1, <3>2
      <4> QED BY <1>3, <3>1, <4>1
    <3> QED BY <3>2
  <2>4. IsFiniteSet(was)
    BY FiniteParts, FS_Subset
  <2>5. Cardinality(was \cup run) = Cardinality(was) + Cardinality(run)
    <3> HIDE DEF was, run
    <3> QED BY <1>9, <2>3, <2>4, DisjointUnionSize
  <2> HIDE DEF was, now, run
  <2>6. deliveredCount' = Cardinality(now)
    BY <1>1, <1>9, <2>1, <2>2, <2>5
  <2> QED BY <2>6 DEF now
<1>12. /\ eofPushed' \in [Keys -> BOOLEAN]
       /\ eofPushed'[k] <=> nextN'[k] > Parts[k]
       /\ paused' \in [Keys -> BOOLEAN]
       /\ paused'[k] <=> stopped \/ Pauses(k, direct, m)
       /\ \A j \in Keys \ {k} : /\ eofPushed'[j] = eofPushed[j] /\ paused'[j] = paused[j]
                                /\ stream'[j] = stream[j] /\ taken'[j] = taken[j]
  <2>1. (eofPushed[k] \/ nextN[k] + m > Parts[k]) <=> nextN[k] + m > Parts[k]
    BY <1>0, <1>2, <1>3
  <2>2. Pauses(k, direct, m) \in BOOLEAN
    BY DEF Pauses
  <2>3. /\ eofPushed' \in [Keys -> BOOLEAN]
        /\ eofPushed'[k] <=> nextN[k] + m > Parts[k]
    BY <1>1, <1>3, <2>1
  <2>4. /\ paused' \in [Keys -> BOOLEAN]
        /\ paused'[k] <=> stopped \/ Pauses(k, direct, m)
    BY <1>1, <1>3, <2>2
  <2>5. \A j \in Keys \ {k} : /\ eofPushed'[j] = eofPushed[j] /\ paused'[j] = paused[j]
                              /\ stream'[j] = stream[j] /\ taken'[j] = taken[j]
    BY <1>1, <1>3
  <2> QED BY <1>4, <2>3, <2>4, <2>5
<1>13. ~paused'[k] => <<k, nextN'[k]>> \notin held'
  BY <1>2, <1>4, <1>5, <1>12
<1> DEFINE chunk == [i \in 1 .. m |-> nextN[k] + i - 1]
<1>14. /\ chunk \in Seq(Nat) /\ Len(chunk) = m
       /\ \A i \in 1 .. m : chunk[i] = nextN[k] + i - 1
  BY <1>2, <1>3
<1>15. /\ \A i \in 1 .. Len(stream[k]) : stream[k][i] = i
       /\ taken[k] <= Len(stream[k])
       /\ body[k] # "errored" => Len(stream[k]) = nextN[k] - 1
       /\ body[k] = "open" /\ paused[k] /\ ~eofPushed[k] => Queued(k) >= Hwm
       /\ stream[k] \in Seq(Nat) /\ Len(stream[k]) \in Nat /\ taken[k] \in Nat
  BY <1>3 DEF Inv, BodyInOrder, PausedWillRead
<1>16. /\ stream'[k] = IF body[k] = "errored" THEN stream[k] ELSE stream[k] \o chunk
       /\ taken'[k] = taken[k] + direct + read
  BY <1>1, <1>3
<1>17. /\ stream'[k] \in Seq(Nat)
       /\ Len(stream'[k]) = IF body[k] = "errored" THEN Len(stream[k])
                            ELSE Len(stream[k]) + m
       /\ \A i \in 1 .. Len(stream'[k]) : stream'[k][i] = i
  <2> HIDE DEF chunk
  <2>1. CASE body[k] = "errored"
    BY <1>15, <1>16, <2>1
  <2>2. CASE body[k] # "errored"
    <3> DEFINE whole == stream[k] \o chunk
    <3>1. /\ whole \in Seq(Nat)
          /\ Len(whole) = Len(stream[k]) + m
          /\ \A i \in 1 .. Len(stream[k]) + m :
               whole[i] = IF i <= Len(stream[k]) THEN stream[k][i]
                          ELSE chunk[i - Len(stream[k])]
      <4>1. /\ whole \in Seq(Nat)
            /\ Len(whole) = Len(stream[k]) + Len(chunk)
            /\ \A i \in 1 .. Len(stream[k]) + Len(chunk) :
                 whole[i] = IF i <= Len(stream[k]) THEN stream[k][i]
                            ELSE chunk[i - Len(stream[k])]
        <5>1. stream[k] \in Seq(Nat) /\ chunk \in Seq(Nat)
          BY <1>14, <1>15
        <5> QED BY <5>1, ConcatProperties, Zenon
      <4> HIDE DEF whole
      <4> QED BY <1>14, <4>1
    <3> HIDE DEF whole
    <3>2. ASSUME NEW i \in 1 .. Len(stream[k]) + m
          PROVE  whole[i] = i
      <4>1. CASE i <= Len(stream[k])
        <5>1. i \in 1 .. Len(stream[k])
          BY <1>15, <4>1
        <5> QED BY <1>15, <3>1, <4>1, <5>1
      <4>2. CASE i > Len(stream[k])
        <5>1. i - Len(stream[k]) \in 1 .. m
          BY <1>2, <1>15, <4>2
        <5>2. ~(i <= Len(stream[k]))
          BY <1>2, <1>15, <4>2
        <5>3. whole[i] = nextN[k] + (i - Len(stream[k])) - 1
          BY <1>14, <3>1, <5>1, <5>2
        <5> QED BY <1>2, <1>3, <1>15, <2>2, <5>3
      <4> QED BY <1>2, <1>15, <4>1, <4>2
    <3>3. stream'[k] = whole
      BY <1>16, <2>2 DEF whole
    <3> QED BY <2>2, <3>1, <3>2, <3>3
  <2> QED BY <2>1, <2>2
<1>18. /\ taken'[k] \in Nat
       /\ taken'[k] <= Len(stream'[k])
       /\ body[k] # "errored" => Len(stream'[k]) = nextN'[k] - 1
  <2> HIDE DEF chunk
  <2>1. /\ m \in Nat /\ direct \in Nat /\ direct <= m /\ read \in Nat
        /\ nextN[k] \in Nat
        /\ Len(stream[k]) \in Nat /\ taken[k] \in Nat /\ taken[k] <= Len(stream[k])
    BY <1>2, <1>3, <1>15
  <2>2. taken'[k] \in Nat
    BY <1>16, <2>1
  <2>3. CASE body[k] = "errored"
    <3>1. direct = 0 /\ read = 0
      BY <1>2, <2>1, <2>3
    <3> QED BY <1>16, <1>17, <2>1, <2>2, <2>3, <3>1
  <2>4. CASE body[k] # "errored"
    <3>1. Len(stream'[k]) = Len(stream[k]) + m
      BY <1>17, <2>4
    <3>2. Len(stream[k]) = nextN[k] - 1 /\ nextN'[k] = nextN[k] + m
      BY <1>4, <1>15, <2>4
    <3>3. direct + read <= Len(stream[k]) - taken[k] + m
      <4>1. direct > 0 => Len(stream[k]) - taken[k] = 0
        BY <1>2 DEF Queued
      <4>2. read = 1 => Len(stream[k]) - taken[k] > 0
        BY DEF Queued
      <4>3. read = 0 \/ read = 1
        OBVIOUS
      <4> QED BY <2>1, <4>1, <4>2, <4>3
    <3>4. taken'[k] <= Len(stream'[k])
      BY <1>16, <2>1, <3>1, <3>3
    <3>5. Len(stream'[k]) = nextN'[k] - 1
      BY <2>1, <3>1, <3>2
    <3> QED BY <2>2, <3>4, <3>5
  <2> QED BY <2>3, <2>4
<1>19. /\ stream' \in [Keys -> Seq(Nat)]
       /\ taken' \in [Keys -> Nat]
  <2> HIDE DEF chunk
  <2>1. /\ stream' = [stream EXCEPT ![k] = stream'[k]]
        /\ taken' = [taken EXCEPT ![k] = taken'[k]]
    BY <1>1, <1>3
  <2> QED BY <1>3, <1>17, <1>18, <2>1
<1>20. body[k] = "open" /\ paused'[k] /\ ~eofPushed'[k]
         => Len(stream'[k]) - taken'[k] >= Hwm
  <2> HIDE DEF chunk
  <2> SUFFICES ASSUME body[k] = "open", paused'[k], ~eofPushed'[k]
               PROVE  Len(stream'[k]) - taken'[k] >= Hwm
    OBVIOUS
  <2>1. Len(stream'[k]) = Len(stream[k]) + m
    BY <1>17
  <2>2. ~eofPushed[k]
    BY <1>0, <1>2, <1>3, <1>4, <1>12
  <2>3. CASE stopped
    BY <1>0, <1>2, <1>15, <1>16, <2>1, <2>2, <2>3 DEF Queued
  <2>4. CASE ~stopped
    <3>1. m > direct /\ Queued(k) + (m - direct) >= Hwm
      BY <1>12, <2>4 DEF Pauses, PushRefused
    <3>2. read = 1 => Queued(k) >= Hwm
      BY <1>15
    <3>3. /\ Len(stream[k]) \in Nat /\ taken[k] \in Nat /\ m \in Nat /\ direct \in Nat
          /\ Hwm \in Nat
      BY <1>0, <1>2, <1>15
    <3>4. Queued(k) = Len(stream[k]) - taken[k] /\ taken'[k] = taken[k] + direct + read
      BY <1>16 DEF Queued
    <3>5. CASE read = 0
      BY <2>1, <3>1, <3>3, <3>4, <3>5
    <3>6. CASE read = 1
      <4>1. \A q, a, b \in Int : q = a - b /\ m > direct /\ q >= Hwm
                                => (a + m) - (b + direct + 1) >= Hwm
        BY <3>3
      <4>2. Len(stream[k]) \in Int /\ taken[k] \in Int /\ Queued(k) \in Int
        BY <3>3, <3>4
      <4> QED
        BY <2>1, <3>1, <3>2, <3>4, <3>6, <4>1, <4>2
    <3> QED BY <3>5, <3>6
  <2> QED BY <2>3, <2>4
<1>21. eofPushed[k] => stream'[k] = stream[k] /\ taken'[k] = taken[k]
  <2> SUFFICES ASSUME eofPushed[k] PROVE stream'[k] = stream[k] /\ taken'[k] = taken[k]
    OBVIOUS
  <2>1. m = 0 /\ direct = 0 /\ read = 0
    BY <1>0, <1>2, <1>3, <1>6
  <2>2. chunk = <<>>
    BY <1>14, <2>1
  <2> HIDE DEF chunk
  <2> QED BY <1>15, <1>16, <2>1, <2>2
<1>22. \A j \in Keys : nextN[j] <= nextN'[j] /\ nextN'[j] <= Parts[j] + 1
  <2> SUFFICES ASSUME NEW j \in Keys
               PROVE  nextN[j] <= nextN'[j] /\ nextN'[j] <= Parts[j] + 1
    OBVIOUS
  <2>1. nextN[j] \in Nat /\ nextN[j] <= Parts[j] + 1
    BY <1>3
  <2>2. CASE j = k
    <3>1. nextN[j] = nextN[k] /\ nextN'[j] = nextN[k] + m /\ Parts[j] = Parts[k]
      BY <1>4, <2>2
    <3> QED BY <1>2, <1>3, <1>6, <3>1
  <2>3. CASE j # k
    BY <1>4, <2>1, <2>3
  <2> QED BY <2>2, <2>3
<1> HIDE DEF run, chunk
<1> QED
  BY <1>4, <1>5, <1>8, <1>10, <1>11, <1>12, <1>13, <1>17, <1>18, <1>19, <1>20, <1>21,
     <1>22 DEF Delivered

-----------------------------------------------------------------------------
(* PartsAccounted in the middle of a handler, when h is held and `fetch' is  *)
(* under way.                                                                *)
Accounted(h, fetch) ==
  \A k \in Keys : \A n \in 1 .. Parts[k] :
    /\ n > cursor[k] <=> /\ n >= nextN[k]
                         /\ <<k, n>> \notin h
                         /\ \A w \in Workers : <<k, n, w>> \notin fetch \cup broken
    /\ n < nextN[k] => <<k, n>> \notin h
    /\ n < nextN[k] \/ <<k, n>> \in h
         => \A w \in Workers : <<k, n, w>> \notin fetch \cup broken
    /\ \A v, w \in Workers :
         <<k, n, v>> \in fetch \cup broken /\ <<k, n, w>> \in fetch \cup broken => v = w
    /\ \A w \in Workers : ~(<<k, n, w>> \in fetch /\ <<k, n, w>> \in broken)

LEMMA AccountedBetween == PartsAccounted <=> Accounted(held, fetching)
BY DEF PartsAccounted, Accounted, HoldersOf, Outstanding

(* Pushing what is in order and then handing out the next parts keeps every  *)
(* part in one place.                                                        *)
LEMMA AccountedKept ==
  ASSUME NEW ACTION order, NEW STATE h, NEW STATE fetch,
         cursor \in [Keys -> Nat], nextN \in [Keys -> Nat \ {0}],
         Accounted(h, fetch), fetch \subseteq Assignments,
         nextN' \in [Keys -> Nat \ {0}],
         \A j \in Keys : nextN[j] <= nextN'[j],
         \A j \in Keys : \A n \in 1 .. Parts[j] :
           /\ nextN[j] <= n /\ n < nextN'[j] => <<j, n>> \in h
           /\ <<j, n>> \in held' <=> <<j, n>> \in h /\ n >= nextN'[j],
         Dispatched(order, fetch), broken' = broken
  PROVE  PartsAccounted'
<1> SUFFICES ASSUME NEW k \in Keys, NEW n \in 1 .. Parts[k]
             PROVE  (/\ n > cursor[k] <=> /\ n >= nextN[k]
                                          /\ <<k, n>> \notin held
                                          /\ HoldersOf(k, n) = {}
                     /\ n < nextN[k] => <<k, n>> \notin held /\ HoldersOf(k, n) = {}
                     /\ <<k, n>> \in held => HoldersOf(k, n) = {}
                     /\ \A v, w \in HoldersOf(k, n) : v = w
                     /\ \A w \in Workers : ~(<<k, n, w>> \in fetching
                                             /\ <<k, n, w>> \in broken))'
  BY DEF PartsAccounted
<1>0. /\ n \in Nat /\ Parts[k] \in Nat
      /\ cursor[k] \in Nat /\ cursor'[k] \in Nat /\ cursor[k] <= cursor'[k]
      /\ nextN[k] \in Nat /\ nextN'[k] \in Nat /\ nextN[k] <= nextN'[k]
  BY PartShape DEF Dispatched
<1>1. /\ n > cursor[k] <=> /\ n >= nextN[k]
                           /\ <<k, n>> \notin h
                           /\ \A w \in Workers : <<k, n, w>> \notin fetch \cup broken
      /\ n < nextN[k] => <<k, n>> \notin h
      /\ n < nextN[k] \/ <<k, n>> \in h
           => \A w \in Workers : <<k, n, w>> \notin fetch \cup broken
      /\ \A v, w \in Workers :
           <<k, n, v>> \in fetch \cup broken /\ <<k, n, w>> \in fetch \cup broken => v = w
      /\ \A w \in Workers : ~(<<k, n, w>> \in fetch /\ <<k, n, w>> \in broken)
  BY DEF Accounted
<1>2. /\ nextN[k] <= n /\ n < nextN'[k] => <<k, n>> \in h
      /\ <<k, n>> \in held' <=> <<k, n>> \in h /\ n >= nextN'[k]
  OBVIOUS
<1>3. HoldersOf(k, n)' = {w \in Workers : <<k, n, w>> \in fetching' \cup broken}
  BY DEF HoldersOf, Outstanding
<1>4. CASE n <= cursor[k] \/ n > cursor'[k]
  <2>1. \A w \in Workers : <<k, n, w>> \in fetching' <=> <<k, n, w>> \in fetch
    BY <1>0, <1>4 DEF Dispatched
  <2> QED BY <1>0, <1>1, <1>2, <1>3, <1>4, <2>1
<1>5. CASE cursor[k] < n /\ n <= cursor'[k]
  <2>1. PICK w \in Workers : \A v \in Workers : <<k, n, v>> \in fetching' <=> v = w
    BY <1>5 DEF Dispatched
  <2>2. /\ n >= nextN[k] /\ <<k, n>> \notin h
        /\ \A v \in Workers : <<k, n, v>> \notin broken
    BY <1>0, <1>1, <1>5
  <2>3. n >= nextN'[k] /\ <<k, n>> \notin held'
    BY <1>0, <1>2, <2>2
  <2>4. HoldersOf(k, n)' = {w}
    BY <1>3, <2>1, <2>2
  <2> QED BY <1>0, <1>5, <2>1, <2>2, <2>3, <2>4
<1> QED
  BY <1>0, <1>4, <1>5

(* What is assigned has been handed out.                                     *)
LEMMA AssignedIsHandedOut ==
  ASSUME NEW STATE h, NEW STATE fetch,
         cursor \in [Keys -> Nat], nextN \in [Keys -> Nat \ {0}],
         Accounted(h, fetch), fetch \subseteq Assignments, broken \subseteq Assignments,
         h \subseteq AllParts
  PROVE  /\ \A t \in fetch \cup broken : t[2] <= cursor[t[1]]
         /\ \A p \in h : p[2] >= nextN[p[1]]
<1>1. ASSUME NEW t \in fetch \cup broken
      PROVE  t[2] <= cursor[t[1]]
  <2>1. /\ t = <<t[1], t[2], t[3]>>
        /\ t[1] \in Keys /\ t[2] \in 1 .. Parts[t[1]] /\ t[3] \in Workers
    BY AssignmentShape
  <2>2. <<t[1], t[2], t[3]>> \in fetch \cup broken
    BY <2>1
  <2>3. ~(t[2] > cursor[t[1]])
    BY <2>1, <2>2 DEF Accounted
  <2>4. t[2] \in Nat /\ cursor[t[1]] \in Nat
    BY <2>1, PartShape
  <2> QED BY <2>3, <2>4
<1>2. ASSUME NEW p \in h
      PROVE  p[2] >= nextN[p[1]]
  <2>1. p = <<p[1], p[2]>> /\ p[1] \in Keys /\ p[2] \in 1 .. Parts[p[1]]
    BY PartShape
  <2>2. <<p[1], p[2]>> \in h
    BY <2>1
  <2>3. ~(p[2] < nextN[p[1]])
    BY <2>1, <2>2 DEF Accounted
  <2>4. p[2] \in Nat /\ nextN[p[1]] \in Nat
    BY <2>1, PartShape
  <2> QED BY <2>3, <2>4
<1> QED
  BY <1>1, <1>2

-----------------------------------------------------------------------------
(* The budget.                                                               *)

LEMMA LanesBoundFlight ==
  TypeOK /\ CountersMatch => totalInFlight <= NWorkers * Concurrency
<1> SUFFICES ASSUME TypeOK, CountersMatch
             PROVE  totalInFlight <= NWorkers * Concurrency
  OBVIOUS
<1> DEFINE tag == [t \in Outstanding |-> t[3]]
<1>1. Outstanding \subseteq Assignments
  BY DEF TypeOK, Assignments, Outstanding
<1>2. tag \in [Outstanding -> Workers]
  BY <1>1, AssignmentShape
<1>3. Concurrency \in Nat /\ NWorkers \in Nat
  BY PoolAssumption
<1>4. ASSUME NEW w \in Workers
      PROVE  /\ IsFiniteSet({t \in Outstanding : tag[t] = w})
             /\ Cardinality({t \in Outstanding : tag[t] = w}) <= Concurrency
  <2>1. {t \in Outstanding : tag[t] = w} = OnWorker(w)
    BY DEF OnWorker
  <2>2. IsFiniteSet(OnWorker(w)) /\ Cardinality(OnWorker(w)) \in Nat
    BY <1>1, FiniteAssignments DEF OnWorker
  <2>3. /\ freeLanes[w] \in 0 .. Concurrency
        /\ freeLanes[w] = Concurrency - Cardinality(OnWorker(w))
    BY DEF TypeOK, CountersMatch
  <2>4. Cardinality(OnWorker(w)) <= Concurrency
    BY ONLY <1>3, <2>2, <2>3
  <2> QED BY <2>1, <2>2, <2>4
<1>5. IsFiniteSet(Workers) /\ Cardinality(Workers) = NWorkers
  BY <1>3, FS_Interval DEF Workers
<1> HIDE DEF tag
<1>6. Cardinality(Outstanding) <= Cardinality(Workers) * Concurrency
  BY <1>2, <1>3, <1>4, <1>5, TaggedSize
<1> QED BY <1>5, <1>6 DEF CountersMatch

(* With nothing in flight there is no gap.                                   *)
LEMMA IdleIsGapFree ==
  ASSUME NEW STATE h, NEW STATE fetch,
         cursor \in [Keys -> Nat], nextN \in [Keys -> Nat \ {0}],
         Accounted(h, fetch), fetch \cup broken = {}
  PROVE  GapFree(h)
<1> SUFFICES ASSUME NEW k \in Keys, NEW n \in 1 .. Parts[k], NEW i \in 1 .. Parts[k],
                    <<k, n>> \in h, nextN[k] <= i, i <= n
             PROVE  <<k, i>> \in h
  BY DEF GapFree
<1>1. n \in Nat /\ i \in Nat /\ cursor[k] \in Nat /\ nextN[k] \in Nat
  BY PartShape
<1>2. ~(n > cursor[k])
  BY DEF Accounted
<1>3. ~(i > cursor[k]) /\ i >= nextN[k]
  BY <1>1, <1>2
<1> QED BY <1>3 DEF Accounted

(* Handing out parts and pushing what is in order keep to the budget.        *)
LEMMA SettledKept ==
  ASSUME NEW STATE h, NEW STATE fetch, NEW STATE flying,
         OverrunSettled, bufferedBytes \in Nat, totalInFlight \in Nat,
         cursor \in [Keys -> Nat], nextN \in [Keys -> Nat \ {0}],
         TypeOK', CountersMatch',
         Accounted(h, fetch), IsFiniteSet(fetch \cup broken),
         flying = Cardinality(fetch \cup broken),
         IsFiniteSet(h), held' \subseteq h,
         \/ h = held /\ flying = totalInFlight
         \/ Cardinality(h) = bufferedBytes + 1 /\ flying = totalInFlight - 1,
         Cardinality(h) + flying = bufferedBytes + totalInFlight,
         \A j \in Keys : nextN[j] <= nextN'[j],
         \A j \in Keys : \A n \in 1 .. Parts[j] :
           <<j, n>> \in held' <=> <<j, n>> \in h /\ n >= nextN'[j],
         bufferedBytes' >= Cap
           => totalInFlight' = flying \/ (flying = 0 /\ totalInFlight' = 1)
  PROVE  OverrunSettled'
<1> DEFINE limit == NWorkers * Concurrency
<1> SUFFICES ASSUME bufferedBytes' + totalInFlight' >= Cap + limit
             PROVE  totalInFlight' <= 1 /\ GapFree(held)'
  BY DEF OverrunSettled
<1>0. bufferedBytes' + totalInFlight' >= Cap + limit
  OBVIOUS
<1>1. limit \in Nat /\ Cap \in Nat
  BY PoolAssumption, BudgetAssumption
<1>2. totalInFlight' <= limit
  <2>1. (TypeOK /\ CountersMatch => totalInFlight <= NWorkers * Concurrency)'
    BY LanesBoundFlight, PTL
  <2> QED BY <2>1
<1> HIDE DEF limit
<1>3. bufferedBytes' \in Nat /\ totalInFlight' \in Nat /\ nextN' \in [Keys -> Nat \ {0}]
  BY DEF TypeOK
<1>4. totalInFlight' = flying \/ (flying = 0 /\ totalInFlight' = 1)
  <2> DEFINE backlog == bufferedBytes'
             inFlight == totalInFlight'
  <2>1. /\ backlog \in Nat /\ inFlight \in Nat
        /\ backlog + inFlight >= Cap + limit /\ inFlight <= limit
    BY <1>0, <1>2, <1>3
  <2> HIDE DEF backlog, inFlight
  <2>2. backlog >= Cap
    BY ONLY <1>1, <2>1
  <2> QED BY <2>2 DEF backlog
<1>5. flying \in Nat /\ Cardinality(h) \in Nat
  BY FS_CardinalityType
<1>6. bufferedBytes' <= Cardinality(h)
  <2>1. Cardinality(held') <= Cardinality(h)
    BY FS_Subset
  <2> QED BY <2>1 DEF CountersMatch
<1>7. totalInFlight' <= 1 /\ GapFree(h)
  <2>1. CASE flying = 0
    <3>1. fetch \cup broken = {}
      BY <2>1, FS_EmptySet
    <3> QED BY <1>4, <2>1, <3>1, IdleIsGapFree
  <2>2. CASE flying # 0
    <3>0. totalInFlight' = flying /\ Cardinality(h) + flying = bufferedBytes + totalInFlight
      BY <1>4, <2>2
    <3> DEFINE backlog == bufferedBytes'
               inFlight == totalInFlight'
               size == Cardinality(h)
    <3>a. /\ backlog \in Nat /\ inFlight \in Nat /\ size \in Nat
          /\ backlog + inFlight >= Cap + limit /\ backlog <= size
          /\ inFlight = flying /\ size + flying = bufferedBytes + totalInFlight
      BY <1>0, <1>3, <1>5, <1>6, <3>0
    <3> HIDE DEF backlog, inFlight, size
    <3>1. bufferedBytes + totalInFlight >= Cap + limit
      BY ONLY <1>1, <3>a
    <3>2. totalInFlight <= 1 /\ GapFree(held)
      BY <3>1 DEF OverrunSettled, limit
    <3>3. h = held /\ flying = totalInFlight
      BY <1>5, <2>2, <3>2
    <3> QED BY <1>4, <2>2, <3>2, <3>3
  <2> QED BY <2>1, <2>2
<1>8. ASSUME NEW k \in Keys, NEW n \in 1 .. Parts[k], NEW i \in 1 .. Parts[k],
             <<k, n>> \in held', nextN'[k] <= i, i <= n
      PROVE  <<k, i>> \in held'
  <2>1. nextN[k] <= i
    <3>1. nextN[k] \in Nat /\ nextN'[k] \in Nat /\ i \in Nat /\ nextN[k] <= nextN'[k]
      BY <1>3, PartShape
    <3> QED BY <1>8, <3>1
  <2>2. <<k, i>> \in h
    BY <1>7, <1>8, <2>1 DEF GapFree
  <2> QED BY <1>3, <1>8, <2>2
<1> QED BY <1>7, <1>8 DEF GapFree

-----------------------------------------------------------------------------
(* The steps that keep Inv.                                                  *)

LEMMA TypeOKIsTyped ==
  ASSUME TypeOK
  PROVE  /\ fetching \subseteq Assignments /\ broken \subseteq Assignments
         /\ active \in Seq(Keys)
         /\ cursor \in [Keys -> Nat] /\ nextN \in [Keys -> Nat \ {0}]
BY DEF TypeOK, Assignments

(* A handler that pushes what is in order and hands out the next parts: the  *)
(* arrival of a part, and a read() that resumes a paused object.             *)
LEMMA Delivery ==
  ASSUME NEW k \in Keys, NEW stopped \in BOOLEAN, NEW STATE h, NEW STATE fetch,
         NEW STATE free, NEW STATE flying, NEW STATE backlog, NEW read \in {0, 1},
         Inv, k \in Registered,
         h \subseteq AllParts, fetch \subseteq Assignments, Accounted(h, fetch),
         backlog = Cardinality(h), flying = Cardinality(fetch \cup broken),
         \A w \in Workers :
           free[w] = Concurrency - Cardinality(Of(fetch \cup broken, w)),
         \/ h = held /\ flying = totalInFlight
         \/ backlog = bufferedBytes + 1 /\ flying = totalInFlight - 1,
         \A j \in Keys \ {k} : \A n : <<j, n>> \in h <=> <<j, n>> \in held,
         stopped => paused[k],
         read # 0 => /\ body[k] = "open" /\ paused[k] /\ ~eofPushed[k]
                     /\ Queued(k) > 0 /\ ~stopped,
         DrainKey(k, stopped, h, backlog, read),
         DispatchMore(active, fetch, free, flying, bufferedBytes'),
         UNCHANGED <<body, active, failed, broken, dead>>
  PROVE  Inv'
<1>1. /\ TypeOK /\ CountersMatch /\ BodyInOrder /\ PausedWillRead
      /\ Listed /\ FreshUntilListed /\ Bounded /\ EndedIsDrained /\ FailureMarked
      /\ HeldWaits /\ PoolBusy
  BY DEF Inv
<1>2. /\ fetching \subseteq Assignments /\ broken \subseteq Assignments
      /\ active \in Seq(Keys)
      /\ cursor \in [Keys -> Nat] /\ nextN \in [Keys -> Nat \ {0}]
  BY <1>1, TypeOKIsTyped
<1>3. /\ \A t \in fetch \cup broken : t[2] <= cursor[t[1]]
      /\ \A p \in h : p[2] >= nextN[p[1]]
  BY <1>2, AssignedIsHandedOut
<1>4. Delivered(k, h)
  BY <1>3, DrainEffect
<1>5. Dispatched(active, fetch)
  <2>1. (\A j \in Keys : cursor[j] <= Parts[j]) /\ rr \in Nat
    BY <1>1 DEF Bounded, TypeOK
  <2> QED BY <1>2, <1>3, <2>1, DispatchEffect
<1>6. /\ UNCHANGED <<body, active, failed, broken, dead>>
      /\ Registered' = Registered
  BY DEF Registered
<1>7. PartsAccounted'
  BY <1>2, <1>4, <1>5, AccountedKept DEF Delivered
<1>8. TypeOK'
  <2>1. /\ body' \in [Keys -> BodyStates] /\ active' \in Seq(Keys)
        /\ failed' \in BOOLEAN /\ dead' \subseteq Workers
    BY <1>1, <1>6 DEF TypeOK
  <2>2. held' \subseteq AllParts
    BY <1>4 DEF Delivered
  <2>3. bufferedBytes' \in Nat /\ deliveredCount' \in Nat
    <3>1. IsFiniteSet(held') /\ Cardinality(held') \in Nat
      BY <2>2, FiniteParts, FS_Subset, FS_CardinalityType
    <3>2. Cardinality({p \in AllParts : p[2] < nextN'[p[1]]}) \in Nat
      BY FiniteParts, FS_Subset, FS_CardinalityType
    <3> QED BY <1>4, <3>1, <3>2 DEF Delivered
  <2>4. fetching' \subseteq Assignments /\ broken' \subseteq Assignments
    BY <1>2, <1>5, <1>6 DEF Dispatched
  <2>5. totalInFlight' \in Nat
    <3>1. Cardinality(fetching' \cup broken) \in Nat
      BY <1>2, <2>4, FiniteAssignments
    <3> QED BY <1>5, <3>1 DEF Dispatched
  <2>6. /\ cursor' \in [Keys -> Nat] /\ rr' \in Nat
        /\ freeLanes' \in [Workers -> 0 .. Concurrency]
    BY <1>5 DEF Dispatched
  <2>7. /\ nextN' \in [Keys -> Nat \ {0}] /\ paused' \in [Keys -> BOOLEAN]
        /\ eofPushed' \in [Keys -> BOOLEAN] /\ stream' \in [Keys -> Seq(Nat)]
        /\ taken' \in [Keys -> Nat]
    BY <1>4 DEF Delivered
  <2> QED BY <2>1, <2>2, <2>3, <2>4, <2>5, <2>6, <2>7 DEF TypeOK, Assignments
<1>9. CountersMatch'
  <2>1. bufferedBytes' = Cardinality(held')
    BY <1>4 DEF Delivered
  <2>2. deliveredCount' = Cardinality({p \in AllParts : p[2] < nextN'[p[1]]})
    BY <1>4 DEF Delivered
  <2>3. /\ totalInFlight' = Cardinality(fetching' \cup broken')
        /\ \A w \in Workers : freeLanes'[w]
             = Concurrency - Cardinality(Of(fetching' \cup broken', w))
    BY <1>5, <1>6 DEF Dispatched
  <2> QED BY <2>1, <2>2, <2>3 DEF CountersMatch, Outstanding, OnWorker, Of
<1>10. BodyInOrder'
  <2> SUFFICES ASSUME NEW j \in Keys
               PROVE  /\ \A i \in 1 .. Len(stream'[j]) : stream'[j][i] = i
                      /\ taken'[j] <= Len(stream'[j])
                      /\ body[j] # "errored" => Len(stream'[j]) = nextN'[j] - 1
    BY <1>6 DEF BodyInOrder
  <2>1. CASE j = k
    BY <1>4, <2>1 DEF Delivered
  <2>2. CASE j # k
    <3>1. stream'[j] = stream[j] /\ taken'[j] = taken[j] /\ nextN'[j] = nextN[j]
      BY <1>4, <2>2 DEF Delivered
    <3> QED BY <1>1, <3>1 DEF BodyInOrder
  <2> QED BY <2>1, <2>2
<1>11. PausedWillRead'
  <2> SUFFICES ASSUME NEW j \in Keys, body[j] = "open", paused'[j], ~eofPushed'[j]
               PROVE  Len(stream'[j]) - taken'[j] >= Hwm
    BY <1>6 DEF PausedWillRead, Queued
  <2>1. CASE j = k
    BY <1>4, <2>1 DEF Delivered
  <2>2. CASE j # k
    <3>1. /\ stream'[j] = stream[j] /\ taken'[j] = taken[j]
          /\ paused'[j] = paused[j] /\ eofPushed'[j] = eofPushed[j]
      BY <1>4, <2>2 DEF Delivered
    <3> QED BY <1>1, <3>1 DEF PausedWillRead, Queued
  <2> QED BY <2>1, <2>2
<1>12. Listed'
  BY <1>1, <1>6 DEF Listed
<1>13. FreshUntilListed'
  <2> SUFFICES ASSUME NEW j \in Keys \ Registered
               PROVE  /\ cursor'[j] = 0 /\ nextN'[j] = 1 /\ ~paused'[j]
                      /\ stream'[j] = <<>> /\ taken'[j] = 0
    BY <1>6 DEF FreshUntilListed
  <2>1. cursor'[j] = cursor[j]
    BY <1>1, <1>5 DEF Listed, Dispatched
  <2>2. /\ nextN'[j] = nextN[j] /\ paused'[j] = paused[j]
        /\ stream'[j] = stream[j] /\ taken'[j] = taken[j]
    BY <1>4 DEF Delivered
  <2> QED BY <1>1, <2>1, <2>2 DEF FreshUntilListed
<1>14. Bounded'
  <2> SUFFICES ASSUME NEW j \in Keys
               PROVE  /\ cursor'[j] <= Parts[j] /\ nextN'[j] <= Parts[j] + 1
                      /\ eofPushed'[j] <=> nextN'[j] > Parts[j]
    BY DEF Bounded
  <2>1. cursor'[j] <= Parts[j] /\ nextN'[j] <= Parts[j] + 1
    BY <1>4, <1>5 DEF Delivered, Dispatched
  <2>2. CASE j = k
    BY <1>4, <2>1, <2>2 DEF Delivered
  <2>3. CASE j # k
    <3>1. nextN'[j] = nextN[j] /\ eofPushed'[j] = eofPushed[j]
      BY <1>4, <2>3 DEF Delivered
    <3> QED BY <1>1, <2>1, <3>1 DEF Bounded
  <2> QED BY <2>2, <2>3
<1>15. EndedIsDrained'
  <2> SUFFICES ASSUME NEW j \in Keys, body[j] = "ended"
               PROVE  eofPushed'[j] /\ Len(stream'[j]) - taken'[j] = 0
    BY <1>6 DEF EndedIsDrained, Queued
  <2>1. eofPushed[j] /\ Len(stream[j]) - taken[j] = 0
    BY <1>1 DEF EndedIsDrained, Queued
  <2>2. CASE j = k
    <3>1. stream'[j] = stream[j] /\ taken'[j] = taken[j]
      BY <1>4, <2>1, <2>2 DEF Delivered
    <3>2. nextN[k] > Parts[k] /\ nextN[k] <= nextN'[k] /\ nextN[k] \in Nat
          /\ nextN'[k] \in Nat /\ Parts[k] \in Nat
      BY <1>1, <1>2, <1>4, <2>1, <2>2, PartShape DEF Bounded, Delivered
    <3>3. eofPushed'[j]
      BY <1>4, <2>2, <3>2 DEF Delivered
    <3> QED BY <2>1, <3>1, <3>3
  <2>3. CASE j # k
    <3>1. /\ stream'[j] = stream[j] /\ taken'[j] = taken[j]
          /\ eofPushed'[j] = eofPushed[j]
      BY <1>4, <2>3 DEF Delivered
    <3> QED BY <2>1, <3>1
  <2> QED BY <2>2, <2>3
<1>16. FailureMarked'
  BY <1>1, <1>6 DEF FailureMarked
<1>17. HeldWaits'
  <2> SUFFICES ASSUME NEW j \in Keys, ~paused'[j], <<j, nextN'[j]>> \in held'
               PROVE  FALSE
    BY DEF HeldWaits
  <2>1. CASE j = k
    BY <1>4, <2>1 DEF Delivered
  <2>2. CASE j # k
    <3>1. nextN'[j] = nextN[j] /\ paused'[j] = paused[j] /\ held' \subseteq h
      BY <1>4, <2>2 DEF Delivered
    <3>2. <<j, nextN[j]>> \in held
      BY <2>2, <3>1
    <3> QED BY <1>1, <3>1, <3>2 DEF HeldWaits
  <2> QED BY <2>1, <2>2
<1>18. PoolBusy'
  <2> SUFFICES ASSUME totalInFlight' = 0, NEW j \in Registered
               PROVE  cursor'[j] = Parts[j]
    BY <1>6 DEF PoolBusy
  <2>1. j \in Keys
    BY DEF Registered
  <2>2. PICK i \in 1 .. Len(active) : active[i] = j
    BY <1>1, <2>1 DEF Listed
  <2> QED BY <1>5, <2>2 DEF Dispatched
<1>19. OverrunSettled'
  <2>1. /\ IsFiniteSet(h) /\ IsFiniteSet(fetch \cup broken)
        /\ Cardinality(h) \in Nat /\ flying \in Nat
    BY <1>2, FiniteParts, FiniteAssignments, FS_Subset, FS_CardinalityType
  <2>2. /\ bufferedBytes \in Nat /\ totalInFlight \in Nat /\ OverrunSettled
        /\ bufferedBytes = Cardinality(held)
    BY <1>1 DEF Inv, TypeOK, CountersMatch
  <2>3. /\ Cardinality(h) + flying = bufferedBytes + totalInFlight
        /\ \/ h = held /\ flying = totalInFlight
           \/ Cardinality(h) = bufferedBytes + 1 /\ flying = totalInFlight - 1
    BY <2>1, <2>2
  <2>4. bufferedBytes' >= Cap
          => totalInFlight' = flying \/ (flying = 0 /\ totalInFlight' = 1)
    BY <2>1, DispatchLimit
  <2>5. /\ held' \subseteq h
        /\ \A j \in Keys : nextN[j] <= nextN'[j]
        /\ \A j \in Keys : \A n \in 1 .. Parts[j] :
             <<j, n>> \in held' <=> <<j, n>> \in h /\ n >= nextN'[j]
    BY <1>4 DEF Delivered
  <2> QED BY <1>2, <1>8, <1>9, <2>1, <2>2, <2>3, <2>4, <2>5, SettledKept
<1> QED
  BY <1>7, <1>8, <1>9, <1>10, <1>11, <1>12, <1>13, <1>14, <1>15, <1>16, <1>17, <1>18, <1>19
  DEF Inv

LEMMA PartArrivesKeepsInv ==
  ASSUME Inv, NEW t \in fetching, PartArrives(t[1], t[2], t[3])
  PROVE  Inv'
<1> DEFINE k == t[1]
           n == t[2]
           w == t[3]
           h == held \cup {<<k, n>>}
           fetch == fetching \ {<<k, n, w>>}
           free == [freeLanes EXCEPT ![w] = @ + 1]
<1>1. /\ TypeOK /\ CountersMatch /\ PartsAccounted /\ FreshUntilListed
      /\ fetching \subseteq Assignments /\ broken \subseteq Assignments
  BY TypeOKIsTyped DEF Inv
<1>2. /\ t = <<k, n, w>> /\ k \in Keys /\ n \in 1 .. Parts[k] /\ w \in Workers
      /\ <<k, n, w>> \in fetching
  BY <1>1, AssignmentShape
<1>3. /\ Accounted(held, fetching)
      /\ cursor \in [Keys -> Nat] /\ nextN \in [Keys -> Nat \ {0}]
      /\ paused \in [Keys -> BOOLEAN] /\ held \subseteq AllParts
      /\ freeLanes \in [Workers -> 0 .. Concurrency]
  BY <1>1, AccountedBetween DEF TypeOK
<1> HIDE DEF k, n, w
<1>4. /\ n \in Nat /\ Parts[k] \in Nat /\ cursor[k] \in Nat
      /\ ~(n > cursor[k]) /\ ~(n < nextN[k]) /\ <<k, n>> \notin held
      /\ <<k, n, w>> \notin broken
  BY <1>2, <1>3, PartShape DEF Accounted
<1>5. k \in Registered
  <2>1. cursor[k] # 0
    BY <1>2, <1>4
  <2> QED BY <1>1, <1>2, <2>1 DEF FreshUntilListed
<1>6. h \subseteq AllParts /\ fetch \subseteq Assignments
  BY <1>1, <1>2, <1>3, PartShape
<1>7. Accounted(h, fetch)
  <2> SUFFICES ASSUME NEW j \in Keys, NEW i \in 1 .. Parts[j]
        PROVE /\ i > cursor[j] <=>
                   /\ i >= nextN[j]
                   /\ <<j, i>> \notin h
                   /\ \A v \in Workers : <<j, i, v>> \notin fetch \cup broken
              /\ i < nextN[j] => <<j, i>> \notin h
              /\ i < nextN[j] \/ <<j, i>> \in h
                   => \A v \in Workers : <<j, i, v>> \notin fetch \cup broken
              /\ \A u, v \in Workers :
                   <<j, i, u>> \in fetch \cup broken /\ <<j, i, v>> \in fetch \cup broken
                     => u = v
              /\ \A v \in Workers : ~(<<j, i, v>> \in fetch /\ <<j, i, v>> \in broken)
    BY DEF Accounted
  <2>1. /\ i > cursor[j] <=>
             /\ i >= nextN[j]
             /\ <<j, i>> \notin held
             /\ \A v \in Workers : <<j, i, v>> \notin fetching \cup broken
        /\ i < nextN[j] => <<j, i>> \notin held
        /\ i < nextN[j] \/ <<j, i>> \in held
             => \A v \in Workers : <<j, i, v>> \notin fetching \cup broken
        /\ \A u, v \in Workers :
             <<j, i, u>> \in fetching \cup broken /\ <<j, i, v>> \in fetching \cup broken
               => u = v
        /\ \A v \in Workers : ~(<<j, i, v>> \in fetching /\ <<j, i, v>> \in broken)
    BY <1>3 DEF Accounted
  <2>2. CASE j = k /\ i = n
    <3>1. \A v \in Workers : <<j, i, v>> \notin fetch \cup broken
      BY <1>2, <1>4, <2>1, <2>2
    <3> QED BY <1>4, <2>1, <2>2, <3>1
  <2>3. CASE ~(j = k /\ i = n)
    <3>1. /\ <<j, i>> \in h <=> <<j, i>> \in held
          /\ \A v \in Workers : <<j, i, v>> \in fetch <=> <<j, i, v>> \in fetching
      BY <2>3
    <3> HIDE DEF h, fetch
    <3> QED BY <2>1, <3>1
  <2> QED BY <2>2, <2>3
<1>8. bufferedBytes + 1 = Cardinality(h)
  <2>1. IsFiniteSet(held)
    BY <1>3, FiniteParts, FS_Subset
  <2>2. Cardinality(h) = Cardinality(held) + 1
    BY <1>4, <2>1, FS_AddElement
  <2> QED BY <1>1, <2>2 DEF CountersMatch
<1>9. fetch \cup broken = Outstanding \ {<<k, n, w>>}
  BY <1>4 DEF Outstanding
<1>10. /\ Outstanding \subseteq Assignments /\ <<k, n, w>> \in Outstanding
       /\ IsFiniteSet(Outstanding)
  BY <1>1, <1>2, FiniteAssignments DEF Outstanding
<1>11. totalInFlight - 1 = Cardinality(fetch \cup broken)
  <2>1. /\ Cardinality(Outstanding \ {<<k, n, w>>}) = Cardinality(Outstanding) - 1
    BY <1>10, FS_RemoveElement
  <2> QED BY <1>1, <1>9, <2>1 DEF CountersMatch
<1>12. \A v \in Workers : free[v] = Concurrency - Cardinality(Of(fetch \cup broken, v))
  <2> SUFFICES ASSUME NEW v \in Workers
               PROVE  free[v] = Concurrency - Cardinality(Of(fetch \cup broken, v))
    OBVIOUS
  <2>1. freeLanes[v] = Concurrency - Cardinality(OnWorker(v))
    BY <1>1 DEF CountersMatch
  <2>2. OnWorker(v) \subseteq Assignments
    BY <1>10 DEF OnWorker
  <2>3. IsFiniteSet(OnWorker(v)) /\ Cardinality(OnWorker(v)) \in Nat
    BY <2>2, FiniteAssignments
  <2>4. CASE v = w
    <3>1. <<k, n, w>> \in OnWorker(v)
      BY <1>10, <2>4 DEF OnWorker
    <3>2. Of(fetch \cup broken, v) = OnWorker(v) \ {<<k, n, w>>}
      BY <1>9 DEF Of, OnWorker
    <3>3. Cardinality(OnWorker(v) \ {<<k, n, w>>}) = Cardinality(OnWorker(v)) - 1
      BY <2>3, <3>1, FS_RemoveElement
    <3>4. free[v] = freeLanes[v] + 1
      BY <1>2, <1>3, <2>4
    <3>5. Cardinality(Of(fetch \cup broken, v)) = Cardinality(OnWorker(v)) - 1
      BY <3>2, <3>3
    <3>6. Concurrency \in Nat
      BY PoolAssumption
    <3> DEFINE before == Cardinality(OnWorker(v))
               after == Cardinality(Of(fetch \cup broken, v))
               lanes == free[v]
    <3>7. /\ before \in Nat /\ after = before - 1
          /\ lanes = (Concurrency - before) + 1
      BY <2>1, <2>3, <3>4, <3>5
    <3> HIDE DEF before, after, lanes
    <3>8. lanes = Concurrency - after
      BY <3>6, <3>7
    <3> QED BY <3>8 DEF after, lanes
  <2>5. CASE v # w
    <3>1. Of(fetch \cup broken, v) = OnWorker(v)
      BY <1>9, <2>5 DEF Of, OnWorker
    <3>2. free[v] = freeLanes[v]
      BY <1>3, <2>5
    <3> QED BY <2>1, <3>1, <3>2
  <2> QED BY <2>4, <2>5
<1>13. \A j \in Keys \ {k} : \A i : <<j, i>> \in h <=> <<j, i>> \in held
  OBVIOUS
<1>14. paused[k] \in BOOLEAN
  BY <1>2, <1>3
<1>15. /\ DrainKey(k, paused[k], h, bufferedBytes + 1, 0)
       /\ DispatchMore(active, fetch, free, totalInFlight - 1, bufferedBytes')
       /\ UNCHANGED <<body, active, failed, broken, dead>>
  BY DEF PartArrives, k, n, w
<1> DEFINE backlog == bufferedBytes + 1
           flying == totalInFlight - 1
<1>16. /\ DispatchMore(active, fetch, free, flying, bufferedBytes')
       /\ backlog = Cardinality(h) /\ flying = Cardinality(fetch \cup broken)
       /\ backlog = bufferedBytes + 1 /\ flying = totalInFlight - 1
       /\ paused[k] = TRUE => DrainKey(k, TRUE, h, backlog, 0)
       /\ paused[k] = FALSE => DrainKey(k, FALSE, h, backlog, 0)
  BY <1>8, <1>11, <1>15
<1> HIDE DEF h, fetch, free, backlog, flying
<1>17. CASE paused[k] = TRUE
  BY <1>2, <1>5, <1>6, <1>7, <1>12, <1>13, <1>15, <1>16, <1>17, Delivery
<1>18. CASE paused[k] = FALSE
  BY <1>2, <1>5, <1>6, <1>7, <1>12, <1>13, <1>15, <1>16, <1>18, Delivery
<1> QED
  BY <1>14, <1>17, <1>18

LEMMA ConsumerReadsKeepsInv ==
  ASSUME Inv, NEW k \in Keys, ConsumerReads(k)
  PROVE  Inv'
<1>1. /\ TypeOK /\ CountersMatch /\ PartsAccounted
      /\ fetching \subseteq Assignments /\ broken \subseteq Assignments
  BY TypeOKIsTyped DEF Inv
<1>2. /\ body[k] = "open" /\ Queued(k) > 0
      /\ UNCHANGED <<body, active, failed, broken, dead>>
  BY DEF ConsumerReads
<1>3. CASE paused[k] /\ ~eofPushed[k] /\ Queued(k) - 1 < Hwm
  <2>1. /\ DrainKey(k, FALSE, held, bufferedBytes, 1)
        /\ DispatchMore(active, fetching, freeLanes, totalInFlight, bufferedBytes')
    BY <1>3 DEF ConsumerReads
  <2>2. k \in Registered
    BY <1>2 DEF Registered
  <2>3. held \subseteq AllParts /\ Accounted(held, fetching)
    BY <1>1, AccountedBetween DEF TypeOK
  <2>4. /\ bufferedBytes = Cardinality(held)
        /\ totalInFlight = Cardinality(fetching \cup broken)
        /\ \A w \in Workers :
             freeLanes[w] = Concurrency - Cardinality(Of(fetching \cup broken, w))
    BY <1>1 DEF CountersMatch, Outstanding, OnWorker, Of
  <2> QED BY <1>1, <1>2, <1>3, <2>1, <2>2, <2>3, <2>4, Delivery
<1>4. CASE ~(paused[k] /\ ~eofPushed[k] /\ Queued(k) - 1 < Hwm)
  <2>1. /\ taken' = [taken EXCEPT ![k] = @ + 1]
        /\ UNCHANGED <<deliveryVars, laneVars>>
    BY <1>4 DEF ConsumerReads
  <2>2. /\ UNCHANGED <<body, active, failed, broken, dead, held, nextN, paused, eofPushed,
                       stream, bufferedBytes, deliveredCount, cursor, rr, fetching,
                       freeLanes, totalInFlight>>
    BY <1>2, <2>1 DEF deliveryVars, laneVars
  <2>3. /\ taken \in [Keys -> Nat] /\ stream \in [Keys -> Seq(Nat)]
        /\ taken' \in [Keys -> Nat] /\ taken'[k] = taken[k] + 1
        /\ \A j \in Keys \ {k} : taken'[j] = taken[j]
    BY <1>1, <2>1 DEF TypeOK
  <2>4. TypeOK'
    BY <1>1, <2>2, <2>3 DEF TypeOK
  <2>5. PartsAccounted' /\ CountersMatch'
    BY <1>1, <2>2 DEF PartsAccounted, CountersMatch, HoldersOf, Outstanding, OnWorker
  <2>6. BodyInOrder'
    <3> SUFFICES ASSUME NEW j \in Keys
                 PROVE  /\ \A i \in 1 .. Len(stream[j]) : stream[j][i] = i
                        /\ taken'[j] <= Len(stream[j])
                        /\ body[j] # "errored" => Len(stream[j]) = nextN[j] - 1
      BY <2>2 DEF BodyInOrder
    <3>1. /\ \A i \in 1 .. Len(stream[j]) : stream[j][i] = i
          /\ taken[j] <= Len(stream[j])
          /\ body[j] # "errored" => Len(stream[j]) = nextN[j] - 1
      BY DEF Inv, BodyInOrder
    <3>2. taken'[j] <= Len(stream[j])
      <4>1. taken[j] \in Nat /\ Len(stream[j]) \in Nat
        BY <2>3
      <4>2. CASE j = k
        BY <1>2, <2>3, <4>1, <4>2 DEF Queued
      <4>3. CASE j # k
        BY <2>3, <3>1, <4>3
      <4> QED BY <4>2, <4>3
    <3> QED BY <3>1, <3>2
  <2>7. PausedWillRead'
    <3> SUFFICES ASSUME NEW j \in Keys, body[j] = "open", paused[j], ~eofPushed[j]
                 PROVE  Len(stream[j]) - taken'[j] >= Hwm
      BY <2>2 DEF PausedWillRead, Queued
    <3>1. Queued(j) >= Hwm
      BY DEF Inv, PausedWillRead
    <3>2. CASE j = k
      BY <1>4, <2>3, <3>2, BudgetAssumption DEF Queued
    <3>3. CASE j # k
      BY <2>3, <3>1, <3>3 DEF Queued
    <3> QED BY <3>2, <3>3
  <2>8. /\ Listed' /\ Bounded' /\ FailureMarked' /\ HeldWaits' /\ PoolBusy'
        /\ OverrunSettled'
    BY <2>2 DEF Inv, Listed, Bounded, FailureMarked, HeldWaits, PoolBusy, Registered,
                OverrunSettled, GapFree
  <2>9. FreshUntilListed' /\ EndedIsDrained'
    <3>1. k \in Registered /\ body[k] # "ended" /\ Registered' = Registered
      BY <1>2, <2>2 DEF Registered
    <3>2. FreshUntilListed'
      BY <2>2, <2>3, <3>1 DEF Inv, FreshUntilListed, Registered
    <3>3. EndedIsDrained'
      BY <2>2, <2>3, <3>1 DEF Inv, EndedIsDrained, Queued
    <3> QED BY <3>2, <3>3
  <2> QED BY <2>4, <2>5, <2>6, <2>7, <2>8, <2>9 DEF Inv
<1> QED
  BY <1>3, <1>4

(* A step that only moves `body', and only in a way that keeps what Inv says *)
(* about the bodies.                                                         *)
LEMMA BodyMoveKeepsInv ==
  ASSUME Inv, body' \in [Keys -> BodyStates], Registered' = Registered,
         \A k \in Keys : /\ body'[k] = "ended" => eofPushed[k] /\ Queued(k) = 0
                         /\ body'[k] = "errored" <=> body[k] = "errored"
                         /\ body'[k] = "open" => body[k] = "open",
         UNCHANGED <<active, objVars, rr, held, bufferedBytes, totalInFlight,
                     freeLanes, deliveredCount, failed, readableVars, fetching,
                     broken, dead>>
  PROVE  Inv'
<1>1. UNCHANGED <<active, cursor, nextN, paused, eofPushed, rr, held, bufferedBytes,
                  totalInFlight, freeLanes, deliveredCount, failed, stream, taken,
                  fetching, broken, dead>>
  BY DEF objVars, readableVars
<1>2. TypeOK'
  BY <1>1 DEF Inv, TypeOK
<1>3. PartsAccounted' /\ CountersMatch'
  BY <1>1 DEF Inv, PartsAccounted, CountersMatch, HoldersOf, Outstanding, OnWorker
<1>4. BodyInOrder' /\ PausedWillRead' /\ EndedIsDrained'
  BY <1>1 DEF Inv, BodyInOrder, PausedWillRead, EndedIsDrained, Queued
<1>5. Listed' /\ FreshUntilListed' /\ PoolBusy'
  BY <1>1 DEF Inv, Listed, FreshUntilListed, PoolBusy
<1>6. Bounded' /\ FailureMarked' /\ HeldWaits' /\ OverrunSettled'
  BY <1>1 DEF Inv, Bounded, FailureMarked, HeldWaits, OverrunSettled, GapFree
<1> QED
  BY <1>2, <1>3, <1>4, <1>5, <1>6 DEF Inv

LEMMA CallKeepsInv ==
  ASSUME Inv, NEW k \in Keys, Call(k) \/ HeadFails(k) \/ ConsumerEnds(k)
  PROVE  Inv'
<1>1. body \in [Keys -> BodyStates] /\ EndedIsDrained
  BY DEF Inv, TypeOK
<1>2. /\ body' \in [Keys -> BodyStates] /\ Registered' = Registered
      /\ \A j \in Keys : /\ body'[j] = "ended" => eofPushed[j] /\ Queued(j) = 0
                         /\ body'[j] = "errored" <=> body[j] = "errored"
                         /\ body'[j] = "open" => body[j] = "open"
  <2>1. CASE Call(k)
    BY <1>1, <2>1 DEF Call, BodyStates, Registered, EndedIsDrained
  <2>2. CASE HeadFails(k)
    BY <1>1, <2>2 DEF HeadFails, BodyStates, Registered, EndedIsDrained
  <2>3. CASE ConsumerEnds(k)
    BY <1>1, <2>3 DEF ConsumerEnds, BodyStates, Registered, EndedIsDrained
  <2> QED BY <2>1, <2>2, <2>3
<1>3. UNCHANGED <<active, objVars, rr, held, bufferedBytes, totalInFlight,
                  freeLanes, deliveredCount, failed, readableVars, fetching,
                  broken, dead>>
  BY DEF Call, HeadFails, ConsumerEnds
<1> QED
  BY <1>2, <1>3, BodyMoveKeepsInv

LEMMA HeadReplyKeepsInv ==
  ASSUME Inv, NEW k \in Keys, HeadReply(k)
  PROVE  Inv'
<1>1. /\ TypeOK /\ CountersMatch /\ PartsAccounted /\ Bounded /\ Listed /\ FreshUntilListed
      /\ fetching \subseteq Assignments /\ broken \subseteq Assignments
      /\ active \in Seq(Keys)
      /\ cursor \in [Keys -> Nat] /\ nextN \in [Keys -> Nat \ {0}]
  BY TypeOKIsTyped DEF Inv
<1>2. /\ body[k] = "head" /\ body' = [body EXCEPT ![k] = "open"]
      /\ active' = Append(active, k)
      /\ DispatchMore(active', fetching, freeLanes, totalInFlight, bufferedBytes)
      /\ UNCHANGED <<held, nextN, paused, eofPushed, stream, bufferedBytes,
                     deliveredCount, taken, failed, broken, dead>>
  BY DEF HeadReply, deliveryVars
<1>3. /\ active' \in Seq(Keys) /\ Len(active') = Len(active) + 1
      /\ active'[Len(active) + 1] = k
      /\ \A i \in 1 .. Len(active) : active'[i] = active[i]
      /\ Len(active) \in Nat
  BY <1>1, <1>2, AppendProperties
<1>4. /\ held \subseteq AllParts /\ Accounted(held, fetching)
      /\ rr \in Nat /\ body \in [Keys -> BodyStates]
      /\ \A j \in Keys : cursor[j] <= Parts[j]
  BY <1>1, AccountedBetween DEF TypeOK, Bounded
<1>5. \A t \in fetching \cup broken : t[2] <= cursor[t[1]]
  BY <1>1, <1>4, AssignedIsHandedOut
<1>6. /\ totalInFlight = Cardinality(fetching \cup broken)
      /\ \A w \in Workers :
           freeLanes[w] = Concurrency - Cardinality(Of(fetching \cup broken, w))
  BY <1>1 DEF CountersMatch, Outstanding, OnWorker, Of
<1>7. Dispatched(active', fetching)
  BY <1>1, <1>2, <1>3, <1>4, <1>5, <1>6, DispatchEffect
<1>8. /\ body' \in [Keys -> BodyStates] /\ Registered' = Registered \cup {k}
      /\ k \notin Registered
      /\ body'[k] = "open" /\ \A j \in Keys \ {k} : body'[j] = body[j]
  BY <1>2, <1>4 DEF BodyStates, Registered
<1>9. /\ nextN[k] = 1 /\ ~paused[k] /\ stream[k] = <<>> /\ taken[k] = 0
  BY <1>1, <1>8 DEF FreshUntilListed
<1>10. TypeOK'
  <2>1. /\ fetching' \subseteq Assignments /\ broken' \subseteq Assignments
        /\ cursor' \in [Keys -> Nat] /\ rr' \in Nat
        /\ freeLanes' \in [Workers -> 0 .. Concurrency]
    BY <1>1, <1>2, <1>7 DEF Dispatched
  <2>2. totalInFlight' \in Nat
    <3>1. Cardinality(fetching' \cup broken) \in Nat
      BY <1>1, <2>1, FiniteAssignments
    <3> QED BY <1>7, <3>1 DEF Dispatched
  <2> QED BY <1>1, <1>2, <1>3, <1>8, <2>1, <2>2 DEF TypeOK, Assignments
<1>11. PartsAccounted'
  <2>1. \A j \in Keys : nextN[j] \in Nat /\ nextN'[j] = nextN[j]
    BY <1>1, <1>2
  <2>2. \A j \in Keys : \A n \in 1 .. Parts[j] : <<j, n>> \in held => ~(n < nextN[j])
    BY <1>4 DEF Accounted
  <2>3. \A j \in Keys : \A n \in 1 .. Parts[j] :
          /\ nextN[j] <= n /\ n < nextN'[j] => <<j, n>> \in held
          /\ <<j, n>> \in held' <=> <<j, n>> \in held /\ n >= nextN'[j]
    <3> SUFFICES ASSUME NEW j \in Keys, NEW n \in 1 .. Parts[j]
                 PROVE  /\ ~(nextN[j] <= n /\ n < nextN[j])
                        /\ <<j, n>> \in held => n >= nextN[j]
      BY <1>2, <2>1
    <3>1. n \in Nat
      BY PartShape
    <3> QED BY <2>1, <2>2, <3>1
  <2>4. nextN' \in [Keys -> Nat \ {0}] /\ \A j \in Keys : nextN[j] <= nextN'[j]
    BY <1>1, <1>2, <2>1
  <2> QED BY <1>1, <1>2, <1>4, <1>7, <2>3, <2>4, AccountedKept
<1>12. CountersMatch'
  <2>1. /\ totalInFlight' = Cardinality(fetching' \cup broken')
        /\ \A w \in Workers :
             freeLanes'[w] = Concurrency - Cardinality(Of(fetching' \cup broken', w))
    BY <1>2, <1>7 DEF Dispatched
  <2>2. /\ bufferedBytes' = Cardinality(held')
        /\ deliveredCount' = Cardinality({p \in AllParts : p[2] < nextN'[p[1]]})
    BY <1>1, <1>2 DEF CountersMatch
  <2> QED BY <2>1, <2>2 DEF CountersMatch, Outstanding, OnWorker, Of
<1>13. BodyInOrder'
  <2>1. Len(stream[k]) = 0
    BY <1>9
  <2> QED BY <1>2, <1>8, <1>9, <2>1 DEF Inv, BodyInOrder
<1>14. PausedWillRead' /\ EndedIsDrained' /\ FailureMarked' /\ HeldWaits'
  BY <1>2, <1>8, <1>9
  DEF Inv, PausedWillRead, EndedIsDrained, FailureMarked, HeldWaits, Queued
<1>15. Listed'
  <2> SUFFICES ASSUME NEW j \in Keys
               PROVE  j \in Registered \cup {k}
                        <=> \E i \in 1 .. Len(active') : active'[i] = j
    BY <1>8 DEF Listed
  <2>1. j \in Registered <=> \E i \in 1 .. Len(active) : active[i] = j
    BY <1>1 DEF Listed
  <2>2. ASSUME NEW i \in 1 .. Len(active')
        PROVE  i \in 1 .. Len(active) \/ i = Len(active) + 1
    BY <1>3
  <2>3. 1 .. Len(active) \subseteq 1 .. Len(active') /\ Len(active) + 1 \in 1 .. Len(active')
    BY <1>3
  <2> QED BY <1>3, <2>1, <2>2, <2>3
<1>16. FreshUntilListed'
  <2> SUFFICES ASSUME NEW j \in Keys, j \notin Registered, j # k
               PROVE  cursor'[j] = 0
    BY <1>1, <1>2, <1>8 DEF FreshUntilListed
  <2>1. \A i \in 1 .. Len(active') : active'[i] # j
    BY <1>8, <1>15 DEF Listed
  <2> QED BY <1>1, <1>7, <2>1 DEF FreshUntilListed, Dispatched
<1>17. Bounded'
  BY <1>1, <1>2, <1>7 DEF Bounded, Dispatched
<1>18. PoolBusy'
  <2> SUFFICES ASSUME totalInFlight' = 0, NEW j \in Registered'
               PROVE  cursor'[j] = Parts[j]
    BY DEF PoolBusy
  <2>1. j \in Keys
    BY DEF Registered
  <2>2. PICK i \in 1 .. Len(active') : active'[i] = j
    BY <1>15, <2>1 DEF Listed
  <2> QED BY <1>7, <2>2 DEF Dispatched
<1>19. OverrunSettled'
  <2>1. /\ IsFiniteSet(held) /\ IsFiniteSet(fetching \cup broken)
        /\ Cardinality(held) = bufferedBytes
    BY <1>1, <1>4, FiniteParts, FiniteAssignments, FS_Subset DEF CountersMatch
  <2>2. /\ bufferedBytes \in Nat /\ totalInFlight \in Nat /\ OverrunSettled
    BY DEF Inv, TypeOK
  <2>3. bufferedBytes' >= Cap
          => totalInFlight' = totalInFlight \/ (totalInFlight = 0 /\ totalInFlight' = 1)
    BY <1>2, <2>2, DispatchLimit
  <2>4. /\ \A j \in Keys : nextN[j] <= nextN'[j]
        /\ \A j \in Keys : \A n \in 1 .. Parts[j] :
             <<j, n>> \in held' <=> <<j, n>> \in held /\ n >= nextN'[j]
    <3> SUFFICES ASSUME NEW j \in Keys
                 PROVE  /\ nextN[j] <= nextN'[j]
                        /\ \A n \in 1 .. Parts[j] : <<j, n>> \in held => n >= nextN'[j]
      BY <1>2
    <3>1. nextN[j] \in Nat /\ nextN'[j] = nextN[j] /\ \A n \in 1 .. Parts[j] : n \in Nat
      BY <1>1, <1>2, PartShape
    <3>2. \A n \in 1 .. Parts[j] : <<j, n>> \in held => ~(n < nextN[j])
      BY <1>4 DEF Accounted
    <3> QED BY <3>1, <3>2
  <2>5. held' \subseteq held /\ Cardinality(held) + totalInFlight = bufferedBytes + totalInFlight
    BY <1>2, <2>1
  <2> QED BY <1>1, <1>4, <1>6, <1>10, <1>12, <2>1, <2>2, <2>3, <2>4, <2>5, SettledKept
<1> QED
  BY <1>10, <1>11, <1>12, <1>13, <1>14, <1>15, <1>16, <1>17, <1>18, <1>19 DEF Inv

LEMMA FailureKeepsInv ==
  ASSUME Inv,
         \/ \E t \in fetching : PartFails(t[1], t[2], t[3])
         \/ \E w \in Workers : WorkerDies(w)
  PROVE  Inv'
<1>1. /\ failed'
      /\ body' = [k \in Keys |-> IF Destroys(k) THEN "errored" ELSE body[k]]
      /\ UNCHANGED <<active, cursor, nextN, paused, eofPushed, rr, held, bufferedBytes,
                     totalInFlight, freeLanes, deliveredCount, stream, taken>>
  BY DEF PartFails, WorkerDies, Fail, objVars, readableVars
<1>2. /\ TypeOK /\ fetching \subseteq Assignments /\ broken \subseteq Assignments
  BY TypeOKIsTyped DEF Inv
<1>3. /\ fetching' \subseteq fetching /\ broken' \subseteq Assignments
      /\ fetching' \cup broken' = fetching \cup broken
      /\ fetching' \cap broken' = {}
      /\ dead' \subseteq Workers
      /\ failed' \in BOOLEAN
  <2>0. fetching \cap broken = {}
    <3> SUFFICES ASSUME NEW t \in fetching, t \in broken PROVE FALSE
      OBVIOUS
    <3>1. /\ t = <<t[1], t[2], t[3]>> /\ t[1] \in Keys
          /\ t[2] \in 1 .. Parts[t[1]] /\ t[3] \in Workers
      BY <1>2, AssignmentShape
    <3>2. <<t[1], t[2], t[3]>> \in fetching /\ <<t[1], t[2], t[3]>> \in broken
      BY <3>1
    <3>3. PartsAccounted
      BY DEF Inv
    <3>4. \A w \in Workers : ~(/\ <<t[1], t[2], w>> \in fetching
                              /\ <<t[1], t[2], w>> \in broken)
      BY <3>1, <3>3 DEF PartsAccounted
    <3> QED BY <3>1, <3>2, <3>4
  <2>1. ASSUME NEW t \in fetching, PartFails(t[1], t[2], t[3])
        PROVE  /\ fetching' \subseteq fetching /\ broken' \subseteq Assignments
               /\ fetching' \cup broken' = fetching \cup broken
               /\ fetching' \cap broken' = {}
               /\ dead' \subseteq Workers
    <3>1. t = <<t[1], t[2], t[3]>>
      BY <1>2, AssignmentShape
    <3>2. /\ fetching' = fetching \ {t} /\ broken' = broken \cup {t} /\ dead' = dead
      BY <2>1, <3>1 DEF PartFails
    <3> QED BY <1>2, <2>0, <3>2 DEF TypeOK
  <2>2. ASSUME NEW w \in Workers, WorkerDies(w)
        PROVE  /\ fetching' \subseteq fetching /\ broken' \subseteq Assignments
               /\ fetching' \cup broken' = fetching \cup broken
               /\ fetching' \cap broken' = {}
               /\ dead' \subseteq Workers
    BY <1>2, <2>0, <2>2 DEF WorkerDies, TypeOK
  <2>3. failed' \in BOOLEAN
    BY DEF PartFails, WorkerDies, Fail
  <2> QED BY <2>1, <2>2, <2>3
<1>4. /\ body' \in [Keys -> BodyStates]
      /\ \A k \in Keys : \/ body'[k] = body[k]
                         \/ body[k] = "open" /\ body'[k] = "errored" /\ ~eofPushed[k]
      /\ Registered' = Registered
  BY <1>1, <1>2 DEF TypeOK, BodyStates, Destroys, Registered
<1>5. TypeOK'
  BY <1>1, <1>2, <1>3, <1>4 DEF TypeOK, Assignments
<1>6. PartsAccounted' /\ CountersMatch'
  <2>1. Outstanding' = Outstanding
    BY <1>3 DEF Outstanding
  <2>2. CountersMatch'
    BY <1>1, <2>1 DEF Inv, CountersMatch, OnWorker
  <2>3. \A k, n : HoldersOf(k, n)' = HoldersOf(k, n)
    BY <2>1 DEF HoldersOf
  <2>4. PartsAccounted'
    BY <1>1, <1>3, <2>3 DEF Inv, PartsAccounted
  <2> QED BY <2>2, <2>4
<1>7. BodyInOrder' /\ PausedWillRead' /\ EndedIsDrained'
  BY <1>1, <1>4 DEF Inv, BodyInOrder, PausedWillRead, EndedIsDrained, Queued
<1>8. Listed' /\ FreshUntilListed' /\ PoolBusy'
  BY <1>1, <1>4 DEF Inv, Listed, FreshUntilListed, PoolBusy
<1>9. Bounded' /\ FailureMarked' /\ HeldWaits' /\ OverrunSettled'
  BY <1>1 DEF Inv, Bounded, FailureMarked, HeldWaits, OverrunSettled, GapFree
<1> QED
  BY <1>5, <1>6, <1>7, <1>8, <1>9 DEF Inv

-----------------------------------------------------------------------------
(* The state Init describes and Reset goes back to.                          *)
Fresh ==
  /\ body = [k \in Keys |-> "none"] /\ active = <<>> /\ rr = 0
  /\ cursor = [k \in Keys |-> 0] /\ nextN = [k \in Keys |-> 1]
  /\ paused = [k \in Keys |-> FALSE] /\ eofPushed = [k \in Keys |-> FALSE]
  /\ held = {} /\ bufferedBytes = 0 /\ totalInFlight = 0
  /\ freeLanes = [w \in Workers |-> Concurrency] /\ deliveredCount = 0
  /\ stream = [k \in Keys |-> <<>>] /\ taken = [k \in Keys |-> 0]
  /\ fetching = {} /\ broken = {}
  /\ failed \in BOOLEAN /\ dead \subseteq Workers /\ (~failed => dead = {})

LEMMA FreshIsInv == Fresh => Inv
<1> SUFFICES ASSUME Fresh PROVE Inv
  OBVIOUS
<1> USE DEF Fresh
<1>0. \A k \in Keys : Parts[k] \in Nat /\ Parts[k] > 0
  BY PartShape
<1>1. TypeOK
  BY PoolAssumption DEF TypeOK, BodyStates
<1>2. PartsAccounted
  <2> SUFFICES ASSUME NEW k \in Keys, NEW n \in 1 .. Parts[k]
               PROVE  n > cursor[k] /\ ~(n < nextN[k]) /\ n >= nextN[k]
                      /\ HoldersOf(k, n) = {}
    BY DEF PartsAccounted
  <2>1. HoldersOf(k, n) = {}
    BY DEF HoldersOf, Outstanding
  <2> QED BY <1>0, <2>1
<1>3. CountersMatch
  <2>1. Cardinality({}) = 0
    BY FS_EmptySet
  <2>2. Outstanding = {} /\ \A w \in Workers : OnWorker(w) = {}
    BY DEF Outstanding, OnWorker
  <2>3. {p \in AllParts : p[2] < nextN[p[1]]} = {}
    <3>1. \A p \in AllParts : p[1] \in Keys /\ p[2] \in 1 .. Parts[p[1]]
      BY PartShape
    <3> QED BY <1>0, <3>1
  <2>4. \A w \in Workers : freeLanes[w] = Concurrency - Cardinality(OnWorker(w))
    <3> SUFFICES ASSUME NEW w \in Workers
                 PROVE  Concurrency = Concurrency - Cardinality(OnWorker(w))
      OBVIOUS
    <3>1. Cardinality(OnWorker(w)) = 0
      BY <2>1, <2>2
    <3> QED BY <3>1, PoolAssumption
  <2> QED BY <2>1, <2>2, <2>3, <2>4 DEF CountersMatch
<1>4. BodyInOrder /\ PausedWillRead
  BY DEF BodyInOrder, PausedWillRead
<1>5. Registered = {}
  BY DEF Registered
<1>6. Listed /\ FreshUntilListed /\ PoolBusy
  BY <1>5 DEF Listed, FreshUntilListed, PoolBusy
<1>7. Bounded /\ EndedIsDrained /\ FailureMarked /\ HeldWaits
  BY <1>0 DEF Bounded, EndedIsDrained, FailureMarked, HeldWaits
<1>8. OverrunSettled
  BY DEF OverrunSettled, GapFree
<1> QED
  BY <1>1, <1>2, <1>3, <1>4, <1>6, <1>7, <1>8 DEF Inv

-----------------------------------------------------------------------------
(* What Inv says about the bodies.                                           *)

LEMMA InvEndIsComplete == Inv => EndIsComplete
<1> SUFFICES ASSUME Inv, NEW k \in Keys, body[k] = "ended"
             PROVE  taken[k] = Parts[k]
  BY DEF EndIsComplete
<1>1. /\ eofPushed[k] /\ Len(stream[k]) - taken[k] = 0
      /\ nextN[k] > Parts[k] /\ nextN[k] <= Parts[k] + 1
      /\ Len(stream[k]) = nextN[k] - 1
  BY DEF Inv, EndedIsDrained, Bounded, BodyInOrder, Queued
<1>2. /\ nextN[k] \in Nat /\ taken[k] \in Nat /\ Parts[k] \in Nat
  BY PartShape DEF Inv, TypeOK
<1> QED
  BY <1>1, <1>2

LEMMA InvNoStall == Inv => NoStall
<1> SUFFICES ASSUME Inv, ~failed, NEW k \in Keys, body[k] = "open", ~eofPushed[k],
                    ~paused[k], fetching = {}
             PROVE  FALSE
  BY DEF NoStall
<1>1. /\ broken = {} /\ k \in Registered
      /\ ~(nextN[k] > Parts[k]) /\ <<k, nextN[k]>> \notin held
  BY DEF Inv, FailureMarked, Registered, Bounded, HeldWaits
<1>2. totalInFlight = 0
  <2>1. Outstanding = {}
    BY <1>1 DEF Outstanding
  <2>2. totalInFlight = Cardinality(Outstanding)
    BY DEF Inv, CountersMatch
  <2> QED BY <2>1, <2>2, FS_EmptySet
<1>3. cursor[k] = Parts[k]
  BY <1>1, <1>2 DEF Inv, PoolBusy
<1>4. nextN[k] \in 1 .. Parts[k] /\ nextN[k] \in Nat
  BY <1>1, PartShape DEF Inv, TypeOK
<1>5. /\ ~(nextN[k] > cursor[k])
      /\ nextN[k] >= nextN[k] /\ HoldersOf(k, nextN[k]) = {}
  <2>1. HoldersOf(k, nextN[k]) = {}
    BY <1>1 DEF HoldersOf, Outstanding
  <2> QED BY <1>1, <1>3, <1>4, <2>1
<1> QED
  BY <1>1, <1>4, <1>5 DEF Inv, PartsAccounted

LEMMA InvResetIsSafe == Inv => ResetIsSafe
<1> SUFFICES ASSUME Inv, \A k \in Keys : body[k] = "ended"
             PROVE  /\ Outstanding = {} /\ held = {}
                    /\ \A w \in Workers : freeLanes[w] = Concurrency
  BY DEF ResetIsSafe
<1>1. TypeOK /\ PartsAccounted /\ CountersMatch
  BY DEF Inv
<1>2. \A k \in Keys : \A n \in 1 .. Parts[k] :
        <<k, n>> \notin held /\ HoldersOf(k, n) = {}
  <2> SUFFICES ASSUME NEW k \in Keys, NEW n \in 1 .. Parts[k]
               PROVE  n < nextN[k]
    BY <1>1 DEF PartsAccounted
  <2>1. nextN[k] > Parts[k]
    BY DEF Inv, EndedIsDrained, Bounded
  <2>2. nextN[k] \in Nat /\ Parts[k] \in Nat
    BY <1>1, PartShape DEF TypeOK
  <2> QED BY <2>1, <2>2
<1>3. held = {}
  <2> SUFFICES ASSUME NEW p \in held PROVE FALSE
    OBVIOUS
  <2>1. p = <<p[1], p[2]>> /\ p[1] \in Keys /\ p[2] \in 1 .. Parts[p[1]]
    BY <1>1, PartShape DEF TypeOK
  <2>2. <<p[1], p[2]>> \in held
    BY <2>1
  <2> QED BY <1>2, <2>1, <2>2
<1>4. Outstanding = {}
  <2> SUFFICES ASSUME NEW t \in Outstanding PROVE FALSE
    OBVIOUS
  <2>1. Outstanding \subseteq Assignments
    BY <1>1, TypeOKIsTyped DEF Outstanding
  <2>2. /\ t = <<t[1], t[2], t[3]>> /\ t[1] \in Keys
        /\ t[2] \in 1 .. Parts[t[1]] /\ t[3] \in Workers
    BY <2>1, AssignmentShape
  <2>3. t[3] \in HoldersOf(t[1], t[2])
    BY <2>2 DEF HoldersOf
  <2> QED BY <1>2, <2>2, <2>3
<1>5. ASSUME NEW w \in Workers
      PROVE  freeLanes[w] = Concurrency
  <2>1. OnWorker(w) = {}
    BY <1>4 DEF OnWorker
  <2>2. Cardinality(OnWorker(w)) = 0
    BY <2>1, FS_EmptySet
  <2> QED BY <1>1, <2>2, PoolAssumption DEF CountersMatch
<1> QED
  BY <1>3, <1>4, <1>5

(* Without a gap, what is held begins with the part its body is waiting for. *)
LEMMA InvOverrunIsPaused == Inv => OverrunIsPaused
<1> SUFFICES ASSUME Inv, bufferedBytes + totalInFlight >= Cap + NWorkers * Concurrency,
                    NEW p \in held
             PROVE  paused[p[1]]
  BY DEF OverrunIsPaused
<1>1. GapFree(held)
  BY DEF Inv, OverrunSettled
<1>2. p = <<p[1], p[2]>> /\ p[1] \in Keys /\ p[2] \in 1 .. Parts[p[1]] /\ <<p[1], p[2]>> \in held
  <2>1. p \in AllParts
    BY DEF Inv, TypeOK
  <2>2. p = <<p[1], p[2]>> /\ p[1] \in Keys /\ p[2] \in 1 .. Parts[p[1]]
    BY <2>1, PartShape
  <2> QED BY <2>2
<1> DEFINE k == p[1]
           n == p[2]
<1>3. /\ <<k, n>> \in held /\ k \in Keys /\ n \in 1 .. Parts[k] /\ n \in Nat
      /\ Parts[k] \in Nat /\ nextN[k] \in Nat \ {0}
  BY <1>2, PartShape DEF Inv, TypeOK
<1> HIDE DEF k, n
<1>4. ~(n < nextN[k])
  BY <1>3 DEF Inv, PartsAccounted
<1>5. nextN[k] \in 1 .. Parts[k] /\ nextN[k] <= n
  BY <1>3, <1>4
<1>6. <<k, nextN[k]>> \in held
  BY <1>1, <1>3, <1>5 DEF GapFree
<1> QED BY <1>3, <1>6 DEF Inv, HeldWaits, k

LEMMA ResetKeepsInv ==
  ASSUME Inv, Reset
  PROVE  Inv'
<1>1. /\ body' = [k \in Keys |-> "none"] /\ active' = <<>> /\ rr' = 0
      /\ cursor' = [k \in Keys |-> 0] /\ nextN' = [k \in Keys |-> 1]
      /\ paused' = [k \in Keys |-> FALSE] /\ eofPushed' = [k \in Keys |-> FALSE]
      /\ held' = {} /\ bufferedBytes' = 0 /\ totalInFlight' = 0
      /\ freeLanes' = [w \in Workers |-> Concurrency] /\ deliveredCount' = 0
      /\ stream' = [k \in Keys |-> <<>>] /\ taken' = [k \in Keys |-> 0]
      /\ UNCHANGED <<failed, fetching, broken, dead>>
  BY DEF Reset
<1>2. fetching' = {} /\ broken' = {}
  <2>1. Outstanding = {}
    BY InvResetIsSafe DEF Reset, ResetIsSafe
  <2> QED BY <1>1, <2>1 DEF Outstanding
<1>3. failed' \in BOOLEAN /\ dead' \subseteq Workers /\ (~failed' => dead' = {})
  BY <1>1 DEF Inv, TypeOK, FailureMarked
<1>4. Fresh'
  BY <1>1, <1>2, <1>3 DEF Fresh
<1>5. Fresh' => Inv'
  BY FreshIsInv, PTL
<1> QED
  BY <1>4, <1>5

-----------------------------------------------------------------------------
LEMMA InitEstablishesInv == Init => Inv
<1>1. Init => Fresh
  BY DEF Init, Fresh
<1> QED
  BY <1>1, FreshIsInv

LEMMA NextKeepsInv == Inv /\ [Next]_vars => Inv'
<1> SUFFICES ASSUME Inv, [Next]_vars
             PROVE  Inv'
  OBVIOUS
<1>1. CASE \E k \in Keys : Call(k) \/ HeadFails(k) \/ ConsumerEnds(k)
  BY <1>1, CallKeepsInv
<1>2. CASE \E k \in Keys : HeadReply(k)
  BY <1>2, HeadReplyKeepsInv
<1>3. CASE \E k \in Keys : ConsumerReads(k)
  BY <1>3, ConsumerReadsKeepsInv
<1>4. CASE \E t \in fetching : PartArrives(t[1], t[2], t[3])
  BY <1>4, PartArrivesKeepsInv
<1>5. CASE \/ \E t \in fetching : PartFails(t[1], t[2], t[3])
           \/ \E w \in Workers : WorkerDies(w)
  BY <1>5, FailureKeepsInv
<1>6. CASE Reset
  BY <1>6, ResetKeepsInv
<1>7. CASE UNCHANGED vars
  <2>1. /\ body' = body
        /\ UNCHANGED <<active, objVars, rr, held, bufferedBytes, totalInFlight,
                       freeLanes, deliveredCount, failed, readableVars, fetching,
                       broken, dead>>
    BY <1>7 DEF vars
  <2>2. /\ body' \in [Keys -> BodyStates] /\ Registered' = Registered
        /\ \A k \in Keys : body[k] = "ended" => eofPushed[k] /\ Queued(k) = 0
    BY <2>1 DEF Inv, TypeOK, EndedIsDrained, Registered
  <2> QED BY <2>1, <2>2, BodyMoveKeepsInv
<1> QED
  BY <1>1, <1>2, <1>3, <1>4, <1>5, <1>6, <1>7 DEF Next

(* Every reachable state satisfies the inductive invariant, whatever the     *)
(* batch, the pool and the budget.                                           *)
THEOREM InvAlways == Spec => []Inv
BY InitEstablishesInv, NextKeepsInv, PTL DEF Spec

(* The variables keep their types; among them the counters of the scheduler  *)
(* never go below zero, and no worker has more than its lanes.               *)
THEOREM TypeCorrect == Spec => []TypeOK
<1>1. Inv => TypeOK
  BY DEF Inv
<1> QED
  BY <1>1, InvAlways, PTL

(* Every part is in exactly one place: to hand out, with one worker, held,   *)
(* or pushed.                                                                *)
THEOREM EveryPartAccounted == Spec => []PartsAccounted
<1>1. Inv => PartsAccounted
  BY DEF Inv
<1> QED
  BY <1>1, InvAlways, PTL

(* bufferedBytes, totalInFlight, freeLanes and deliveredCount are what a     *)
(* recount of the backlog, the assignments and the pushed parts would give.  *)
THEOREM CountersAgree == Spec => []CountersMatch
<1>1. Inv => CountersMatch
  BY DEF Inv
<1> QED
  BY <1>1, InvAlways, PTL

(* The three together: the types, the place of every part and the counters.  *)
THEOREM AccountsAgree == Spec => []Accounting
<1>1. Inv => Accounting
  BY DEF Inv, Accounting
<1> QED
  BY <1>1, InvAlways, PTL

(* Each body is given its parts in order and without a gap.                  *)
THEOREM BodiesInOrder == Spec => []BodyInOrder
<1>1. Inv => BodyInOrder
  BY DEF Inv
<1> QED
  BY <1>1, InvAlways, PTL

(* A body whose consumer saw 'end' has all its parts.                        *)
THEOREM EndsAreComplete == Spec => []EndIsComplete
BY InvEndIsComplete, InvAlways, PTL

(* A paused body still holds what makes its consumer's next read call read().*)
THEOREM PausedBodiesWillRead == Spec => []PausedWillRead
<1>1. Inv => PausedWillRead
  BY DEF Inv
<1> QED
  BY <1>1, InvAlways, PTL

(* Until a failure, an incomplete body that is not paused finds something in *)
(* flight, whatever the backlog.                                             *)
THEOREM NeverStalled == Spec => []NoStall
BY InvNoStall, InvAlways, PTL

(* Reordering alone never takes backlog and parts in flight to the cap plus  *)
(* one part per lane: there, every part held waits for a paused consumer.    *)
THEOREM OverrunsArePaused == Spec => []OverrunIsPaused
BY InvOverrunIsPaused, InvAlways, PTL

(* When every body of an iteration has ended, nothing is left that           *)
(* resetScheduler() could lose.                                              *)
THEOREM ResetsAreSafe == Spec => []ResetIsSafe
BY InvResetIsSafe, InvAlways, PTL

-----------------------------------------------------------------------------
(* The bodies are those that OrderedBody promises.  A consumer has received  *)
(* parts 1 to taken[k]; the steps that receive are the reads, and the drains *)
(* that pass chunks straight on.                                             *)

GotIs(k) ==
  /\ Got[k] \in Seq(Nat) /\ Len(Got[k]) = taken[k] /\ taken[k] \in Nat
  /\ \A i \in 1 .. taken[k] : Got[k][i] = i

LEMMA GotShape == Inv => \A k \in Keys : GotIs(k)
<1> SUFFICES ASSUME Inv, NEW k \in Keys PROVE GotIs(k)
  OBVIOUS
<1>1. /\ stream[k] \in Seq(Nat) /\ taken[k] \in Nat /\ taken[k] <= Len(stream[k])
      /\ Len(stream[k]) \in Nat
      /\ \A i \in 1 .. Len(stream[k]) : stream[k][i] = i
  BY LenProperties DEF Inv, TypeOK, BodyInOrder
<1>2. Got[k] = SubSeq(stream[k], 1, taken[k])
  BY DEF Got
<1>3. \A i \in 1 .. taken[k] : stream[k][i] \in Nat
  BY <1>1
<1>4. /\ SubSeq(stream[k], 1, taken[k]) \in Seq(Nat)
      /\ Len(SubSeq(stream[k], 1, taken[k])) = IF 1 <= taken[k] THEN taken[k] - 1 + 1 ELSE 0
      /\ \A i \in 1 .. taken[k] - 1 + 1 : SubSeq(stream[k], 1, taken[k])[i] = stream[k][1 + i - 1]
  BY <1>1, <1>3, SubSeqProperties
<1> QED
  BY <1>1, <1>2, <1>4 DEF GotIs

LEMMA GotShapeNext == Inv' => (\A k \in Keys : GotIs(k))'
BY GotShape, PTL

(* What a consumer still lacks of a live body is at most what it lacks of    *)
(* the object; of one whose last part was not pushed it lacks something, of  *)
(* one that ended nothing.                                                   *)
TakenWithin(k) ==
  /\ body[k] # "errored" => /\ taken[k] <= Parts[k]
                            /\ ~eofPushed[k] => taken[k] < Parts[k]
  /\ body[k] = "ended" => taken[k] = Parts[k]

LEMMA TakenBounded == Inv => \A k \in Keys : TakenWithin(k)
<1> SUFFICES ASSUME Inv, NEW k \in Keys PROVE TakenWithin(k)
  OBVIOUS
<1>1. /\ taken[k] <= Len(stream[k])
      /\ body[k] # "errored" => Len(stream[k]) = nextN[k] - 1
      /\ nextN[k] <= Parts[k] + 1 /\ (eofPushed[k] <=> nextN[k] > Parts[k])
  BY DEF Inv, BodyInOrder, Bounded
<1>2. nextN[k] \in Nat /\ taken[k] \in Nat /\ Parts[k] \in Nat
  BY PartShape DEF Inv, TypeOK
<1>3. body[k] = "ended" => taken[k] = Parts[k]
  BY InvEndIsComplete DEF EndIsComplete
<1> QED
  BY <1>1, <1>2, <1>3 DEF TakenWithin

LEMMA TakenBoundedNext == Inv' => (\A k \in Keys : TakenWithin(k))'
BY TakenBounded, PTL

(* The same parts were received before and after.                            *)
LEMMA GotKept ==
  ASSUME Inv, Inv', NEW k \in Keys, taken'[k] = taken[k]
  PROVE  Got'[k] = Got[k]
<1>1. /\ Got[k] \in Seq(Nat) /\ Len(Got[k]) = taken[k] /\ taken[k] \in Nat
      /\ \A i \in 1 .. taken[k] : Got[k][i] = i
  BY GotShape DEF GotIs
<1>2. /\ Got'[k] \in Seq(Nat) /\ Len(Got'[k]) = taken[k]
      /\ \A i \in 1 .. taken[k] : Got'[k][i] = i
  <2>1. GotIs(k)'
    BY GotShapeNext
  <2> QED
    BY <2>1 DEF GotIs
<1> QED
  BY <1>1, <1>2, SeqEqual

(* n more parts were received.                                               *)
LEMMA GotMore ==
  ASSUME Inv, Inv', NEW k \in Keys, NEW n \in Nat, taken'[k] = taken[k] + n
  PROVE  Got'[k] = Got[k] \o [i \in 1 .. n |-> Len(Got[k]) + i]
<1> DEFINE more == [i \in 1 .. n |-> Len(Got[k]) + i]
<1>1. /\ Got[k] \in Seq(Nat) /\ Len(Got[k]) = taken[k] /\ taken[k] \in Nat
      /\ \A i \in 1 .. taken[k] : Got[k][i] = i
  BY GotShape DEF GotIs
<1>2. /\ Got'[k] \in Seq(Nat) /\ Len(Got'[k]) = taken[k] + n
      /\ \A i \in 1 .. taken[k] + n : Got'[k][i] = i
  <2>1. GotIs(k)'
    BY GotShapeNext
  <2> QED
    BY <2>1 DEF GotIs
<1>3. more \in Seq(Nat) /\ Len(more) = n /\ \A i \in 1 .. n : more[i] = taken[k] + i
  BY <1>1
<1> HIDE DEF more
<1>4. /\ Got[k] \o more \in Seq(Nat) /\ Len(Got[k] \o more) = Len(Got[k]) + Len(more)
      /\ \A i \in 1 .. Len(Got[k]) + Len(more) :
           (Got[k] \o more)[i] = IF i <= Len(Got[k]) THEN Got[k][i] ELSE more[i - Len(Got[k])]
  BY <1>1, <1>3, ConcatProperties
<1>5. \A i \in 1 .. taken[k] + n : (Got[k] \o more)[i] = i
  BY <1>1, <1>3, <1>4
<1>6. Got'[k] = Got[k] \o more
  <2> DEFINE before == Got[k] \o more
             after == Got'[k]
  <2>1. /\ before \in Seq(Nat) /\ Len(before) = taken[k] + n
        /\ \A i \in 1 .. taken[k] + n : before[i] = i
    BY <1>1, <1>3, <1>4, <1>5
  <2>2. /\ after \in Seq(Nat) /\ Len(after) = taken[k] + n
        /\ \A i \in 1 .. taken[k] + n : after[i] = i
    BY <1>2
  <2> HIDE DEF before, after
  <2>3. \A i \in 1 .. Len(before) : before[i] = after[i]
    BY <2>1, <2>2
  <2>4. before = after
    BY <2>1, <2>2, <2>3, SeqEqual
  <2> QED
    BY <2>4 DEF before, after
<1> QED
  BY <1>6 DEF more

(* A handler in which the consumer of k receives n parts.                    *)
LEMMA ReceivesIsPromised ==
  ASSUME Inv, Inv', UNCHANGED body, NEW k \in Keys, NEW n \in Nat,
         taken' = [taken EXCEPT ![k] = @ + n], n > 0 => body[k] = "open"
  PROVE  [Promise!Next]_<<body, Got>>
<1>1. taken \in [Keys -> Nat]
  BY DEF Inv, TypeOK
<1>2. taken'[k] = taken[k] + n /\ \A j \in Keys \ {k} : taken'[j] = taken[j]
  BY <1>1
<1>3. \A j \in Keys \ {k} : Got'[j] = Got[j]
  BY <1>2, GotKept
<1>4. CASE n = 0
  <2>1. \A j \in Keys : Got'[j] = Got[j]
    BY <1>1, <1>2, <1>3, <1>4, GotKept
  <2>2. Got' = Got
    BY <2>1 DEF Got
  <2> QED
    BY <2>2
<1>5. CASE n > 0
  <2>1. Got'[k] = Got[k] \o [i \in 1 .. n |-> Len(Got[k]) + i]
    BY <1>2, GotMore
  <2>2. Got' = [Got EXCEPT ![k] = Got[k] \o [i \in 1 .. n |-> Len(Got[k]) + i]]
    <3> DEFINE was(j) == SubSeq(stream[j], 1, taken[j])
               is(j) == SubSeq(stream[j], 1, taken[j])'
               grown == Got[k] \o [i \in 1 .. n |-> Len(Got[k]) + i]
    <3>1. Got = [j \in Keys |-> was(j)] /\ Got' = [j \in Keys |-> is(j)]
      BY DEF Got
    <3>2. Got'[k] = grown
      BY <2>1
    <3> HIDE DEF was, is, grown
    <3>3. Got' = [Got EXCEPT ![k] = grown]
      BY <1>3, <3>1, <3>2
    <3> QED
      BY <3>3 DEF grown
  <2>3. n \in 1 .. Parts[k] - Len(Got[k])
    <3>1. body'[k] = "open"
      BY <1>5
    <3>2. taken'[k] <= Parts[k] /\ Parts[k] \in Nat
      BY <3>1, TakenBoundedNext, PartShape DEF TakenWithin
    <3>3. Len(Got[k]) = taken[k] /\ taken[k] \in Nat
      BY GotShape DEF GotIs
    <3> QED
      BY <1>2, <1>5, <3>2, <3>3
  <2>4. Promise!Receive(k)
    BY <1>5, <2>2, <2>3 DEF Promise!Receive
  <2> QED
    BY <2>4 DEF Promise!Next
<1> QED
  BY <1>4, <1>5

(* A drain passes chunks straight on only to the consumer of an open body.   *)
LEMMA DrainTakes ==
  ASSUME Inv, NEW k \in Keys, NEW STATE stopped, NEW STATE h, NEW STATE backlog, NEW read \in {0, 1},
         DrainKey(k, stopped, h, backlog, read)
  PROVE  \E n \in Nat : /\ taken' = [taken EXCEPT ![k] = @ + n]
                        /\ n > read => body[k] = "open"
                        /\ n >= read
<1>1. PICK m \in 0 .. Parts[k], direct \in 0 .. Parts[k] :
        /\ direct > 0 => body[k] = "open"
        /\ taken' = [taken EXCEPT ![k] = @ + direct + read]
  <2>1. PICK m, direct \in 0 .. Parts[k] :
          /\ IF stopped THEN m = 0 /\ direct = 0 ELSE Pushes(k, h, direct, m)
          /\ taken' = [taken EXCEPT ![k] = @ + direct + read]
    BY DEF DrainKey
  <2>2. direct > 0 => body[k] = "open"
    <3>1. CASE stopped
      BY <2>1, <3>1
    <3>2. CASE ~stopped
      BY <2>1, <3>2 DEF Pushes
    <3> QED
      BY <3>1, <3>2
  <2> QED
    BY <2>1, <2>2
<1>2. direct \in Nat /\ direct + read \in Nat /\ taken[k] \in Nat
  BY PartShape DEF Inv, TypeOK
<1>3. taken' = [taken EXCEPT ![k] = @ + (direct + read)]
  <2>1. taken[k] + direct + read = taken[k] + (direct + read)
    BY <1>2
  <2> QED
    BY <1>1, <2>1
<1>4. direct + read > read => body[k] = "open"
  BY <1>1, <1>2
<1>5. direct + read >= read
  BY <1>2
<1> WITNESS direct + read \in Nat
<1> QED
  BY <1>3, <1>4, <1>5

(* A handler that leaves what was received alone.                            *)
LEMMA MoveIsPromised ==
  ASSUME Inv, Inv', UNCHANGED taken, NEW k \in Keys, NEW to, body' = [body EXCEPT ![k] = to],
         \/ body[k] = "none" /\ to \in {"head", "rejected"}
         \/ body[k] = "head" /\ to \in {"open", "rejected"}
         \/ body[k] = "open" /\ to = "ended" /\ taken[k] = Parts[k]
  PROVE  Promise!Next
<1>1. \A j \in Keys : Got'[j] = Got[j]
  BY GotKept
<1>2. Got' = Got
  BY <1>1 DEF Got
<1>3. Len(Got[k]) = taken[k]
  BY GotShape DEF GotIs
<1> QED
  BY <1>2, <1>3 DEF Promise!Next, Promise!Move, Promise!End

LEMMA FailureIsPromised ==
  ASSUME Inv, Inv', Fail
  PROVE  Promise!CutOff
<1> DEFINE lost == {k \in Keys : Destroys(k)}
<1>1. \A j \in Keys : Got'[j] = Got[j]
  BY GotKept DEF Fail, readableVars
<1>2. Got' = Got
  BY <1>1 DEF Got
<1>3. lost \in SUBSET {k \in Keys : body[k] = "open" /\ Len(Got[k]) < Parts[k]}
  <2> SUFFICES ASSUME NEW k \in Keys, Destroys(k)
               PROVE  body[k] = "open" /\ Len(Got[k]) < Parts[k]
    OBVIOUS
  <2>1. body[k] = "open" /\ ~eofPushed[k]
    BY DEF Destroys
  <2> QED
    BY <2>1, TakenBounded, GotShape DEF TakenWithin, GotIs
<1>4. body' = [k \in Keys |-> IF k \in lost THEN "errored" ELSE body[k]]
  BY DEF Fail
<1> HIDE DEF lost
<1> QED
  BY <1>2, <1>3, <1>4 DEF Promise!CutOff

LEMMA ResetIsPromised ==
  ASSUME Inv, Inv', Reset
  PROVE  Promise!Renew
<1>1. /\ \A k \in Keys : body[k] = "ended"
      /\ body' = [k \in Keys |-> "none"] /\ taken' = [k \in Keys |-> 0]
      /\ stream' = [k \in Keys |-> <<>>]
  BY DEF Reset
<1>2. \A k \in Keys : SubSeq(<<>>, 1, 0) = <<>>
  BY SubSeqEmpty
<1>3. Got' = [k \in Keys |-> <<>>]
  BY <1>1, <1>2 DEF Got
<1> QED
  BY <1>1, <1>3 DEF Promise!Renew

LEMMA StepIsPromised == Inv /\ Inv' /\ [Next]_vars => [Promise!Next]_<<body, Got>>
<1> SUFFICES ASSUME Inv, Inv', [Next]_vars PROVE [Promise!Next]_<<body, Got>>
  OBVIOUS
<1>1. ASSUME NEW k \in Keys, Call(k) PROVE Promise!Next
  BY <1>1, MoveIsPromised DEF Call, readableVars
<1>2. ASSUME NEW k \in Keys, HeadReply(k) PROVE Promise!Next
  BY <1>2, MoveIsPromised DEF HeadReply
<1>3. ASSUME NEW k \in Keys, HeadFails(k) PROVE Promise!Next
  BY <1>3, MoveIsPromised DEF HeadFails, readableVars
<1>4. ASSUME NEW k \in Keys, ConsumerEnds(k) PROVE Promise!Next
  <2>1. body' = [body EXCEPT ![k] = "ended"] /\ body[k] = "open" /\ UNCHANGED taken
    BY <1>4 DEF ConsumerEnds, readableVars
  <2>2. body'[k] = "ended"
    BY <2>1 DEF Inv, TypeOK
  <2>3. taken[k] = Parts[k]
    <3>1. TakenWithin(k)'
      BY TakenBoundedNext
    <3> QED
      BY <2>1, <2>2, <3>1 DEF TakenWithin
  <2> QED
    BY <2>1, <2>3, MoveIsPromised
<1>5. ASSUME NEW k \in Keys, ConsumerReads(k) PROVE [Promise!Next]_<<body, Got>>
  <2>1. body[k] = "open" /\ UNCHANGED body
    BY <1>5 DEF ConsumerReads
  <2>2. \E n \in Nat : taken' = [taken EXCEPT ![k] = @ + n]
    <3>1. CASE DrainKey(k, FALSE, held, bufferedBytes, 1)
      <4>1. 1 \in {0, 1}
        OBVIOUS
      <4>2. \E n \in Nat : /\ taken' = [taken EXCEPT ![k] = @ + n]
                           /\ n > 1 => body[k] = "open"
                           /\ n >= 1
        BY <3>1, <4>1, DrainTakes
      <4> QED
        BY <4>2
    <3>2. CASE taken' = [taken EXCEPT ![k] = @ + 1]
      BY <3>2
    <3> QED
      BY <1>5, <3>1, <3>2 DEF ConsumerReads
  <2> QED
    BY <2>1, <2>2, ReceivesIsPromised
<1>6. ASSUME NEW p \in fetching, PartArrives(p[1], p[2], p[3]) PROVE [Promise!Next]_<<body, Got>>
  <2>1. UNCHANGED body /\ p[1] \in Keys
    BY <1>6, AssignmentShape, TypeOKIsTyped DEF PartArrives, Inv
  <2>2. PICK n \in Nat : taken' = [taken EXCEPT ![p[1]] = @ + n] /\ (n > 0 => body[p[1]] = "open")
    <3> DEFINE k == p[1]
               with == held \cup {<<p[1], p[2]>>}
               more == bufferedBytes + 1
    <3>1. DrainKey(k, paused[k], with, more, 0)
      BY <1>6 DEF PartArrives
    <3>2. 0 \in {0, 1} /\ k \in Keys
      BY <2>1
    <3> HIDE DEF k, with, more
    <3>3. \E n \in Nat : /\ taken' = [taken EXCEPT ![k] = @ + n]
                         /\ n > 0 => body[k] = "open"
                         /\ n >= 0
      BY <3>1, <3>2, DrainTakes
    <3> QED
      BY <3>3 DEF k
  <2> QED
    BY <2>1, <2>2, ReceivesIsPromised
<1>7. ASSUME Fail PROVE Promise!Next
  BY <1>7, FailureIsPromised DEF Promise!Next
<1>8. ASSUME Reset PROVE Promise!Next
  BY <1>8, ResetIsPromised DEF Promise!Next
<1>9. CASE UNCHANGED vars
  BY <1>9 DEF vars, readableVars, Got
<1> QED
  BY <1>1, <1>2, <1>3, <1>4, <1>5, <1>6, <1>7, <1>8, <1>9 DEF Next, PartFails, WorkerDies

LEMMA InitIsPromised == Init => Promise!Init
<1> SUFFICES ASSUME Init PROVE Promise!Init
  OBVIOUS
<1>1. \A k \in Keys : SubSeq(<<>>, 1, 0) = <<>>
  BY SubSeqEmpty
<1> QED
  BY <1>1 DEF Init, Promise!Init, Got

(* The manager keeps what OrderedBody promises: every body is the object's   *)
(* parts in order, each once, ends after the last and fails only before it.  *)
THEOREM PromiseKept == Spec => PromiseSpec
<1>1. Init => Promise!Init
  BY InitIsPromised
<1>2. Inv /\ Inv' /\ [Next]_vars => [Promise!Next]_<<body, Got>>
  BY StepIsPromised
<1> QED
  BY <1>1, <1>2, InvAlways, PTL DEF Spec, PromiseSpec, Promise!Spec
=============================================================================
