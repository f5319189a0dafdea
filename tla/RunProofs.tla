------------------------------ MODULE RunProofs ------------------------------
(* The drivers and their runs: what a group hands on to the next iteration   *)
(* and to the next group, whatever fails (BenchmarkRun), what a run with     *)
(* slices reports (SliceRun), and what main makes of the connections of its  *)
(* threads (Connections).                                                    *)
EXTENDS BenchmarkRun, SliceRun, Connections, OperatorLemmas

-----------------------------------------------------------------------------
(* BenchmarkRun, for any number of groups, iterations and parts.             *)

Upload == driver = "upload"

(* Of the iterations of the group, only the last one begun has parts on      *)
(* their way, and the groups to come have none.                              *)
OthersAtRest ==
  phase # "over" =>
    \A i \in 1 .. Iterations, p \in Parts :
      /\ i < iteration => part[group][i][p] = "answered"
      /\ i > iteration => part[group][i][p] = "idle"
      /\ \A g \in Groups : g > group => part[g][i][p] = "idle"

(* What holds of the phases of a group.                                      *)
PhaseFits ==
  /\ phase \in {"planning", "spawning", "over"} => iteration = 0
  /\ phase = "running" => iteration >= 1
  /\ phase = "between" /\ iteration > 0 =>
       \A p \in Parts : part[group][iteration][p] = "answered"

(* The counter, and the buffers, of the last iteration begun, running or     *)
(* not.                                                                      *)
Count(g, i) ==
  IF i = 0 THEN 0
  ELSE Cardinality(Counted(g, i)) + IF Upload THEN Cardinality(AnsweredParts(g, i)) ELSE 0
CounterFits ==
  phase # "over" =>
    /\ counter[group] = Count(group, iteration)
    /\ \A g \in Groups : g > group => counter[g] = 0
SourceFits ==
  phase # "over" =>
    /\ iteration = 0 => \A p \in Parts : source[p] = "caller"
    /\ iteration > 0 =>
         \A p \in Parts : part[group][iteration][p] \in {"idle", "answered"} => source[p] = "caller"

(* Threads that were not told to end are those of the group, and with        *)
(* --no-api of the iteration that runs.  Those that were are of a run with   *)
(* --no-api that has ended.                                                  *)
ToldFit(t) ==
  /\ driver = "legacy" /\ t[2] >= 1
  /\ t[1] = group /\ phase # "over" =>
       t[2] <= iteration /\ (t[2] = iteration => phase # "running")
PoolsFit ==
  /\ told \subseteq pools
  /\ \A t \in pools : t[1] <= group
  /\ \A t \in pools \ told :
       /\ t = PoolOf(group, iteration) /\ phase \notin {"planning", "over"}
       /\ driver = "legacy" => phase = "running"
  /\ \A t \in told : ToldFit(t)
  /\ driver = "legacy" /\ phase = "running" => <<group, iteration>> \in pools
  /\ driver = "legacy" => \A r \in reporters : r = <<group, iteration>> /\ phase = "running"

Types ==
  /\ driver \in Drivers
  /\ group \in Groups
  /\ phase \in Phases
  /\ iteration \in 0 .. Iterations
  /\ pools \subseteq Groups \X (0 .. Iterations)
  /\ part \in [Groups -> [1 .. Iterations -> [Parts -> Places]]]
  /\ source \in [Parts -> {"caller", "worker"}]
  /\ counter \in [Groups -> Nat]
  /\ reporters \subseteq Groups \X (1 .. Iterations)

Inv == Types /\ OthersAtRest /\ PhaseFits /\ CounterFits /\ SourceFits /\ PoolsFit

-----------------------------------------------------------------------------
LEMMA CountsAreFinite ==
  ASSUME NEW g, NEW i
  PROVE  /\ IsFiniteSet(Counted(g, i)) /\ IsFiniteSet(AnsweredParts(g, i))
         /\ Cardinality(Counted(g, i)) \in Nat /\ Cardinality(AnsweredParts(g, i)) \in Nat
<1>1. Counted(g, i) \subseteq Parts /\ AnsweredParts(g, i) \subseteq Parts /\ IsFiniteSet(Parts)
  BY RunsAssumption DEF Counted, AnsweredParts
<1>2. IsFiniteSet(Counted(g, i)) /\ IsFiniteSet(AnsweredParts(g, i))
  BY <1>1, FS_Subset
<1> QED
  BY <1>2, FS_CardinalityType

LEMMA InvGivesSafety == Inv => CounterIsOfIteration /\ SourcesAreBack /\ MeasuredAlone
<1> SUFFICES ASSUME Inv PROVE CounterIsOfIteration /\ SourcesAreBack /\ MeasuredAlone
  OBVIOUS
<1>1. CounterIsOfIteration
  BY DEF Inv, Types, PhaseFits, CounterFits, Count, CounterIsOfIteration, Upload
<1>2. SourcesAreBack
  BY DEF Inv, Types, PhaseFits, SourceFits, SourcesAreBack
<1>3. TypeOK
  BY DEF Inv, Types, PoolsFit, TypeOK
<1>4. ASSUME phase = "running", NEW r \in UnderWay \ {<<group, iteration>>}
      PROVE  driver = "legacy" /\ r[1] < group /\ r \in told
  <2>1. /\ r \in Groups \X (1 .. Iterations)
        /\ PoolOf(r[1], r[2]) \in pools
        /\ \E p \in Parts : part[r[1]][r[2]][p] = "sent"
    BY <1>4 DEF UnderWay
  <2>2. PICK g \in Groups, i \in 1 .. Iterations : r = <<g, i>>
    BY <2>1
  <2>3. PICK p \in Parts : part[g][i][p] = "sent"
    BY <2>1, <2>2
  <2>4. PoolOf(g, i) \in pools /\ (g # group \/ i # iteration)
    BY <1>4, <2>1, <2>2
  <2>5. /\ g \in Nat /\ group \in Nat /\ i \in Nat /\ iteration \in Nat
        /\ g \in 1 .. NGroups /\ group \in 1 .. NGroups
    BY <2>2, RunsAssumption DEF Inv, Types, Groups
  <2>6. g = group => i = iteration
    BY <1>4, <2>3, <2>5 DEF Inv, OthersAtRest
  <2>7. PoolOf(g, i)[1] = g
    BY DEF PoolOf
  <2>8. g < group
    BY <2>4, <2>5, <2>6, <2>7 DEF Inv, PoolsFit
  <2>9. PoolOf(g, i) \in told
    BY <2>4, <2>5, <2>7, <2>8 DEF Inv, PoolsFit, PoolOf
  <2> QED
    BY <2>2, <2>8, <2>9 DEF Inv, PoolsFit, ToldFit, PoolOf
<1>5. MeasuredAlone
  BY <1>3, <1>4 DEF Inv, PoolsFit, MeasuredAlone
<1> QED
  BY <1>1, <1>2, <1>5

-----------------------------------------------------------------------------
LEMMA InitEstablishesInv == Init => Inv
<1> SUFFICES ASSUME Init PROVE Inv
  OBVIOUS
<1>0. NGroups \in Nat \ {0} /\ Iterations \in Nat \ {0}
  BY RunsAssumption
<1>1. Types
  BY <1>0 DEF Init, Types, Groups, Phases, NoParts, Places
<1>2. OthersAtRest
  BY <1>0 DEF Init, OthersAtRest, NoParts, Groups
<1>3. CounterFits
  BY <1>0 DEF Init, CounterFits, Count, Groups
<1> QED
  BY <1>1, <1>2, <1>3 DEF Init, Inv, PhaseFits, SourceFits, PoolsFit

(* The next group starts afresh.  The threads that live on were told to end. *)
LEMMA EndGroupKeepsInv ==
  ASSUME Inv, EndGroup, UNCHANGED <<driver, told, reporters>>,
         phase \in {"planning", "closing"},
         pools' \subseteq pools, told \subseteq pools', pools' \subseteq told
  PROVE  Inv'
<1>0. NGroups \in Nat \ {0} /\ Iterations \in Nat \ {0} /\ group \in 1 .. NGroups
  BY RunsAssumption DEF Inv, Types, Groups
<1>1. /\ group' \in Groups /\ phase' \in {"planning", "over"} /\ group <= group'
      /\ phase' # "over" => group' = group + 1
  BY <1>0 DEF EndGroup, Groups
<1>2. /\ iteration' = 0 /\ UNCHANGED <<part, counter>>
      /\ source' = [p \in Parts |-> "caller"]
  BY DEF EndGroup
<1>3. Types'
  BY <1>1, <1>2, RunsAssumption DEF Inv, Types, Phases
<1>4. OthersAtRest'
  BY <1>0, <1>1, <1>2 DEF Inv, OthersAtRest, Groups
<1>5. PhaseFits' /\ SourceFits'
  BY <1>1, <1>2 DEF PhaseFits, SourceFits
<1>6. CounterFits'
  BY <1>0, <1>1, <1>2 DEF Inv, CounterFits, Count, Groups
<1>7. PoolsFit'
  <2>1. \A t \in told' : ToldFit(t)'
    <3> SUFFICES ASSUME NEW t \in told PROVE ToldFit(t)'
      OBVIOUS
    <3>1. t[1] <= group /\ t[1] \in Nat /\ driver = "legacy" /\ t[2] >= 1
      BY <1>0 DEF Inv, PoolsFit, ToldFit, Types, Groups
    <3> QED
      BY <1>0, <1>1, <3>1 DEF ToldFit
  <2>2. \A t \in pools' : t[1] <= group'
    BY <1>0, <1>1 DEF Inv, PoolsFit, Types, Groups
  <2>3. told' \subseteq pools' /\ pools' \ told' = {}
    OBVIOUS
  <2>4. driver' = "legacy" => reporters' = {}
    BY DEF Inv, PoolsFit
  <2> QED
    BY <1>1, <2>1, <2>2, <2>3, <2>4 DEF PoolsFit
<1> QED
  BY <1>3, <1>4, <1>5, <1>6, <1>7 DEF Inv

(* Steps that touch no part and leave the group and the iteration.           *)
LEMMA PhaseStepKeepsInv ==
  ASSUME Inv, SpawnsPool \/ PoolReady \/ EndIteration \/ Fails \/ Close
  PROVE  Inv'
<1>0. UNCHANGED <<driver, group, iteration, partVars>> /\ phase # "over" /\ phase' # "over"
  BY DEF SpawnsPool, PoolReady, EndIteration, Fails, Close
<1>1. Types'
  BY <1>0, RunsAssumption DEF Inv, Types, Phases, partVars, SpawnsPool, PoolReady, EndIteration, Fails, Close, Stopped
<1>2. OthersAtRest' /\ SourceFits'
  BY <1>0 DEF Inv, OthersAtRest, SourceFits, partVars
<1>3. CounterFits'
  BY <1>0 DEF Inv, CounterFits, Count, Counted, AnsweredParts, Upload, partVars
<1>4. PhaseFits'
  BY <1>0 DEF Inv, PhaseFits, SpawnsPool, PoolReady, EndIteration, Fails, Close, AllAnswered, partVars
<1>5. PoolsFit'
  <2>1. group \in Nat /\ iteration \in Nat
    BY RunsAssumption DEF Inv, Types, Groups
  <2>2. CASE SpawnsPool
    <3>1. driver # "legacy" /\ pools' = pools \cup {PoolOf(group, iteration)} /\ phase = "planning"
      BY <2>2 DEF SpawnsPool, PoolOf
    <3>2. told' = told /\ phase' = "spawning" /\ told = {} /\ pools = {} /\ PoolOf(group, iteration)' = PoolOf(group, iteration)
      BY <1>0, <2>2 DEF SpawnsPool, Inv, PoolsFit, ToldFit, PoolOf
    <3> QED
      BY <1>0, <2>1, <3>1, <3>2 DEF PoolsFit, ToldFit, PoolOf
  <2>3. CASE PoolReady \/ Close
    BY <1>0, <2>3 DEF PoolReady, Close, Inv, PoolsFit, ToldFit, PoolOf
  <2>4. CASE (EndIteration \/ Fails) /\ driver # "legacy"
    BY <1>0, <2>4 DEF EndIteration, Fails, CleansUp, Stopped, Inv, PoolsFit, ToldFit, PoolOf
  <2>5. CASE (EndIteration \/ Fails) /\ driver = "legacy"
    <3>1. /\ phase = "running" /\ phase' # "running" /\ pools' = pools
          /\ told' = told \cup {<<group, iteration>>}
          /\ reporters' = reporters \ {<<group, iteration>>}
          /\ iteration >= 1
      BY <2>5 DEF EndIteration, Fails, CleansUp, Stopped, Inv, PhaseFits
    <3>2. pools' \ told' = {} /\ reporters' = {}
      BY <2>5, <3>1 DEF Inv, PoolsFit, PoolOf
    <3>3. <<group, iteration>> \in pools
      BY <2>5, <3>1 DEF Inv, PoolsFit
    <3>4. ASSUME NEW t \in told' PROVE ToldFit(t)'
      BY <1>0, <2>1, <2>5, <3>1 DEF Inv, PoolsFit, ToldFit
    <3> QED
      BY <1>0, <2>5, <3>1, <3>2, <3>3, <3>4 DEF Inv, PoolsFit
  <2> QED
    BY <2>2, <2>3, <2>4, <2>5
<1> QED
  BY <1>1, <1>2, <1>3, <1>4, <1>5 DEF Inv

(* All parts of the iteration before have been answered: what the new one    *)
(* finds is its own.                                                         *)
LEMMA StartIterationKeepsInv ==
  ASSUME Inv, StartIteration
  PROVE  Inv'
<1>0. /\ iteration' = iteration + 1 /\ iteration \in Nat /\ iteration < Iterations
      /\ phase = "between" /\ phase' = "running"
      /\ iteration' \in 1 .. Iterations
      /\ group \in 1 .. NGroups /\ NGroups \in Nat
      /\ counter' = [counter EXCEPT ![group] = 0]
      /\ UNCHANGED <<driver, group, told, part, source>>
  BY RunsAssumption DEF StartIteration, CountRestarts, Inv, Types, Groups
<1>1. Types'
  BY <1>0 DEF Inv, Types, Phases, StartIteration, Groups
<1>2. OthersAtRest'
  BY <1>0 DEF Inv, Types, OthersAtRest, PhaseFits
<1>3. PhaseFits'
  BY <1>0 DEF PhaseFits
<1>4. \A p \in Parts : part'[group'][iteration'][p] = "idle"
  BY <1>0 DEF Inv, OthersAtRest
<1>5. CounterFits'
  <2>1. Counted(group, iteration)' = {} /\ AnsweredParts(group, iteration)' = {}
    BY <1>4 DEF Counted, AnsweredParts
  <2>2. Cardinality({}) = 0
    BY FS_EmptySet
  <2>3. Count(group, iteration)' = 0
    <3>1. Cardinality(Counted(group, iteration)') = 0 /\ Cardinality(AnsweredParts(group, iteration)') = 0
      BY <2>1, <2>2
    <3> QED
      BY <3>1 DEF Count
  <2>4. counter'[group] = 0 /\ \A g \in Groups : g > group => counter'[g] = 0
    BY <1>0 DEF Inv, Types, CounterFits, Groups
  <2> QED
    BY <1>0, <2>3, <2>4 DEF CounterFits
<1>6. SourceFits'
  <2>1. \A p \in Parts : source[p] = "caller"
    BY <1>0 DEF Inv, PhaseFits, SourceFits
  <2> QED
    BY <1>0, <2>1 DEF SourceFits
<1>7. PoolsFit'
  <2>1. /\ told \subseteq pools /\ pools \subseteq pools'
        /\ \A t \in pools' : t[1] <= group
    BY <1>0 DEF Inv, PoolsFit, StartIteration
  <2>2. ASSUME NEW t \in told PROVE ToldFit(t)'
    <3>1. t[2] \in Nat
      BY <2>1, RunsAssumption DEF Inv, Types
    <3> QED
      BY <1>0, <3>1 DEF Inv, PoolsFit, ToldFit
  <2>3. ASSUME NEW t \in pools' \ told, driver = "legacy" PROVE t = <<group, iteration'>>
    BY <1>0, <2>3 DEF Inv, PoolsFit, StartIteration
  <2>4. ASSUME NEW t \in pools' \ told, driver # "legacy" PROVE t = <<group, 0>>
    BY <1>0, <2>4 DEF Inv, PoolsFit, PoolOf, StartIteration
  <2>5. driver = "legacy" => <<group, iteration'>> \in pools'
    BY DEF StartIteration
  <2>6. driver = "legacy" => \A r \in reporters' : r = <<group, iteration'>>
    BY <1>0 DEF Inv, PoolsFit, StartIteration
  <2> QED
    BY <1>0, <2>1, <2>2, <2>3, <2>4, <2>5, <2>6 DEF PoolsFit, PoolOf
<1> QED
  BY <1>1, <1>2, <1>3, <1>5, <1>6, <1>7 DEF Inv

LEMMA ThreadsExitKeepsInv ==
  ASSUME Inv, NEW t \in told, ThreadsExit(t)
  PROVE  Inv'
<1>0. /\ UNCHANGED <<driver, group, phase, iteration, partVars, reporters>>
      /\ told' = told \ {t} /\ pools' = pools \ {t}
  BY DEF ThreadsExit
<1>1. Types' /\ OthersAtRest' /\ PhaseFits' /\ SourceFits'
  BY <1>0 DEF Inv, Types, OthersAtRest, PhaseFits, SourceFits, partVars
<1>2. CounterFits'
  BY <1>0 DEF Inv, CounterFits, Count, Counted, AnsweredParts, Upload, partVars
<1>3. PoolsFit'
  <2>1. driver = "legacy" /\ phase = "running" => <<group, iteration>> \in pools'
    <3>1. driver = "legacy" /\ phase = "running" => t # <<group, iteration>>
      BY DEF Inv, PoolsFit, PhaseFits, ToldFit
    <3> QED
      BY <1>0, <3>1 DEF Inv, PoolsFit
  <2> QED
    BY <1>0, <2>1 DEF Inv, PoolsFit, ToldFit, PoolOf
<1> QED
  BY <1>1, <1>2, <1>3 DEF Inv

-----------------------------------------------------------------------------
(* A part that moves is one of the last iteration begun, and that has not    *)
(* ended; or it is one of a group that is over, and threads that were told   *)
(* to terminate carry it.                                                    *)
Bygone(g, i) ==
  /\ driver = "legacy" /\ <<g, i>> \in told
  /\ g < group \/ phase = "over"

LEMMA MovesAreOfIteration ==
  ASSUME Inv, NEW g \in Groups, NEW i \in 1 .. Iterations, NEW p \in Parts,
         NEW from \in Places, NEW to \in Places,
         Moves(g, i, p, from, to), from # "answered",
         from = "idle" => driver = "legacy" \/ i = iteration
  PROVE  /\ Bygone(g, i) \/ (g = group /\ i = iteration /\ phase \notin {"between", "over"})
         /\ part[g][i][p] = from
         /\ part' = [part EXCEPT ![g][i][p] = to]
<1>0. /\ g \in Nat /\ group \in Nat /\ i \in Nat /\ iteration \in Nat /\ i >= 1
      /\ group \in Groups
  BY RunsAssumption DEF Groups, Inv, Types
<1>1. /\ part[g][i][p] = from /\ part' = [part EXCEPT ![g][i][p] = to]
      /\ PoolOf(g, i) \in pools
  BY DEF Moves
<1>2. g <= group
  BY <1>1 DEF Inv, PoolsFit, PoolOf
<1>3. CASE driver # "legacy"
  <2>1. /\ g = group /\ phase # "over"
    BY <1>1, <1>3 DEF Inv, PoolsFit, ToldFit, PoolOf
  <2>2. i = iteration
    BY <1>0, <1>1, <1>3, <2>1 DEF Inv, OthersAtRest
  <2>3. phase # "between"
    BY <1>0, <1>1, <2>1, <2>2 DEF Inv, PhaseFits
  <2> QED
    BY <1>1, <2>1, <2>2, <2>3
<1>4. CASE driver = "legacy"
  <2>1. <<g, i>> \in pools
    BY <1>1, <1>4 DEF PoolOf
  <2>2. CASE g = group /\ phase # "over"
    <3>1. i <= iteration
      BY <1>0, <1>4, <2>1, <2>2 DEF Inv, PoolsFit, ToldFit, PoolOf
    <3>2. i = iteration
      BY <1>0, <1>1, <2>2, <3>1 DEF Inv, OthersAtRest
    <3>3. phase # "between"
      BY <1>0, <1>1, <2>2, <3>2 DEF Inv, PhaseFits
    <3> QED
      BY <1>1, <2>2, <3>2, <3>3
  <2>3. CASE g # group \/ phase = "over"
    <3>1. <<g, i>> \in told
      BY <1>4, <2>1, <2>3 DEF Inv, PoolsFit, PoolOf
    <3> QED
      BY <1>0, <1>1, <1>2, <1>4, <2>3, <3>1 DEF Bygone
  <2> QED
    BY <2>2, <2>3
<1> QED
  BY <1>3, <1>4

(* What threads of a group that is over still do touches nothing that the    *)
(* invariant speaks of.                                                      *)
LEMMA BygoneKeepsInv ==
  ASSUME Inv, NEW g \in Groups, NEW i \in 1 .. Iterations, NEW p \in Parts, NEW to \in Places,
         Bygone(g, i), part' = [part EXCEPT ![g][i][p] = to],
         NEW n \in Nat, counter' = [counter EXCEPT ![g] = n],
         UNCHANGED <<driver, group, phase, iteration, pools, told, source, reporters>>
  PROVE  Inv'
<1>0. g \in Nat /\ group \in Nat /\ group \in Groups /\ (phase # "over" => g < group)
  BY RunsAssumption DEF Groups, Inv, Types, Bygone
<1>1. phase # "over" =>
        \A h \in Groups : h >= group => part'[h] = part[h] /\ counter'[h] = counter[h]
  BY <1>0 DEF Inv, Types, Groups
<1>2. phase # "over" => part'[group] = part[group] /\ counter'[group] = counter[group]
  BY <1>0, <1>1
<1>3. Types'
  BY <1>0 DEF Inv, Types
<1>4. OthersAtRest'
  BY <1>0, <1>1, <1>2 DEF Inv, OthersAtRest, Groups
<1>5. PhaseFits' /\ SourceFits'
  BY <1>0, <1>2 DEF Inv, PhaseFits, SourceFits
<1>6. CounterFits'
  <2>1. phase # "over" => Count(group, iteration)' = Count(group, iteration)
    BY <1>2 DEF Count, Counted, AnsweredParts, Upload
  <2> QED
    BY <1>0, <1>1, <1>2, <2>1 DEF Inv, CounterFits, Groups
<1>7. PoolsFit'
  BY DEF Inv, PoolsFit, ToldFit, PoolOf
<1> QED
  BY <1>3, <1>4, <1>5, <1>6, <1>7 DEF Inv

(* And a part of the iteration: the counter keeps up with it, and so does    *)
(* its source.                                                               *)
Adds(to) == IF to = "counted" \/ (to = "answered" /\ Upload) THEN 1 ELSE 0

LEMMA PartMoved ==
  ASSUME NEW f \in [Groups -> [1 .. Iterations -> [Parts -> Places]]],
         NEW g \in Groups, NEW i \in 1 .. Iterations, NEW p \in Parts, NEW to \in Places,
         NEW h, h = [f EXCEPT ![g][i][p] = to]
  PROVE  /\ h \in [Groups -> [1 .. Iterations -> [Parts -> Places]]]
         /\ h[g][i][p] = to
         /\ \A q \in Parts \ {p} : h[g][i][q] = f[g][i][q]
         /\ \A j \in (1 .. Iterations) \ {i} : h[g][j] = f[g][j]
         /\ \A k \in Groups \ {g} : h[k] = f[k]
<1>1. PICK row \in [Parts -> Places] : row = [f[g][i] EXCEPT ![p] = to]
  OBVIOUS
<1>2. PICK rows \in [1 .. Iterations -> [Parts -> Places]] : rows = [f[g] EXCEPT ![i] = row]
  OBVIOUS
<1>3. h = [f EXCEPT ![g] = rows]
  BY <1>1, <1>2
<1> QED
  BY <1>1, <1>2, <1>3

LEMMA CountMoves ==
  ASSUME Inv, group \in Groups, iteration \in 1 .. Iterations, NEW p \in Parts,
         NEW from \in Places, NEW to \in Places,
         <<from, to>> \in {<<"idle", "sent">>, <<"sent", "counted">>, <<"counted", "answered">>},
         part[group][iteration][p] = from, part' = [part EXCEPT ![group][iteration][p] = to],
         UNCHANGED <<driver, group, iteration>>
  PROVE  /\ Count(group, iteration)' = Count(group, iteration) + Adds(to)
         /\ Count(group, iteration) \in Nat
<1>0. part \in [Groups -> [1 .. Iterations -> [Parts -> Places]]]
  BY DEF Inv, Types
<1>1. /\ part'[group][iteration][p] = to
      /\ \A q \in Parts \ {p} : part'[group][iteration][q] = part[group][iteration][q]
  BY <1>0, PartMoved
<1>2. PICK C, D : C = Counted(group, iteration) /\ D = Counted(group, iteration)'
  OBVIOUS
<1>3. PICK A, B : A = AnsweredParts(group, iteration) /\ B = AnsweredParts(group, iteration)'
  OBVIOUS
<1>4. /\ D = IF to = "counted" THEN C \cup {p} ELSE C
      /\ to = "counted" => p \notin C
  BY <1>1, <1>2 DEF Counted
<1>5. /\ B = IF to = "answered" THEN A \cup {p} ELSE A
      /\ to = "answered" => p \notin A
  BY <1>1, <1>3 DEF AnsweredParts
<1>6. /\ IsFiniteSet(C) /\ Cardinality(C) \in Nat
      /\ IsFiniteSet(A) /\ Cardinality(A) \in Nat
  BY <1>2, <1>3, CountsAreFinite
<1>7. /\ to = "counted" => Cardinality(C \cup {p}) = Cardinality(C) + 1
      /\ to = "answered" => Cardinality(A \cup {p}) = Cardinality(A) + 1
  BY <1>4, <1>5, <1>6, FS_AddElement
<1>8. /\ Cardinality(D) = IF to = "counted" THEN Cardinality(C) + 1 ELSE Cardinality(C)
      /\ Cardinality(B) = IF to = "answered" THEN Cardinality(A) + 1 ELSE Cardinality(A)
  BY <1>4, <1>5, <1>7
<1>9. iteration # 0 /\ iteration' = iteration /\ Upload' = Upload
  BY RunsAssumption DEF Upload
<1>10. /\ Count(group, iteration) = Cardinality(C) + IF Upload THEN Cardinality(A) ELSE 0
       /\ Count(group, iteration)' = Cardinality(D) + IF Upload THEN Cardinality(B) ELSE 0
  BY <1>2, <1>3, <1>9 DEF Count
<1> QED
  BY <1>6, <1>8, <1>10 DEF Adds

LEMMA CurrentKeepsInv ==
  ASSUME Inv, phase \notin {"between", "over"}, iteration \in 1 .. Iterations, NEW p \in Parts,
         NEW from \in Places, NEW to \in Places,
         <<from, to>> \in {<<"idle", "sent">>, <<"sent", "counted">>, <<"counted", "answered">>},
         part[group][iteration][p] = from, part' = [part EXCEPT ![group][iteration][p] = to],
         counter' = [counter EXCEPT ![group] = @ + Adds(to)],
         source' \in [Parts -> {"caller", "worker"}],
         \A q \in Parts \ {p} : source'[q] = source[q],
         to = "answered" => source'[p] = "caller",
         UNCHANGED <<driver, group, phase, iteration, pools, told, reporters>>
  PROVE  Inv'
<1>0. group \in Groups /\ group \in Nat /\ counter[group] \in Nat
  BY RunsAssumption DEF Inv, Types, Groups
<1>1. /\ part'[group][iteration][p] = to
      /\ \A q \in Parts \ {p} : part'[group][iteration][q] = part[group][iteration][q]
      /\ part' \in [Groups -> [1 .. Iterations -> [Parts -> Places]]]
      /\ \A j \in (1 .. Iterations) \ {iteration} : part'[group][j] = part[group][j]
      /\ \A g \in Groups \ {group} : part'[g] = part[g]
  BY <1>0, PartMoved DEF Inv, Types
<1>2. Types'
  <2>1. Adds(to) \in Nat
    BY DEF Adds
  <2>2. counter' \in [Groups -> Nat]
    BY <1>0, <2>1 DEF Inv, Types
  <2> QED
    BY <1>0, <1>1, <2>2 DEF Inv, Types
<1>3. OthersAtRest'
  BY <1>0, <1>1 DEF Inv, OthersAtRest, Types, Groups
<1>4. PhaseFits'
  BY DEF Inv, PhaseFits
<1>5. CounterFits'
  <2>1. Count(group, iteration)' = Count(group, iteration) + Adds(to)
    BY <1>0, CountMoves
  <2>2. counter'[group] = counter[group] + Adds(to)
    BY <1>0 DEF Inv, Types
  <2>3. counter'[group] = Count(group, iteration)'
    BY <2>1, <2>2 DEF Inv, CounterFits
  <2>4. \A g \in Groups : g > group => counter'[g] = 0
    BY <1>0 DEF Inv, CounterFits, Types, Groups
  <2> QED
    BY <2>3, <2>4 DEF CounterFits
<1>6. SourceFits'
  <2>1. iteration # 0 /\ iteration > 0
    BY RunsAssumption
  <2>2. ASSUME NEW q \in Parts, part'[group][iteration][q] \in {"idle", "answered"}
        PROVE  source'[q] = "caller"
    BY <1>1, <2>1, <2>2 DEF Inv, SourceFits
  <2> QED
    BY <2>1, <2>2 DEF SourceFits
<1>7. PoolsFit'
  BY DEF Inv, PoolsFit, ToldFit, PoolOf
<1> QED
  BY <1>2, <1>3, <1>4, <1>5, <1>6, <1>7 DEF Inv

LEMMA PartStepKeepsInv ==
  ASSUME Inv, NEW g \in Groups, NEW i \in 1 .. Iterations, NEW p \in Parts, PartStep(g, i, p)
  PROVE  Inv'
<1>0. /\ UNCHANGED <<driver, group, phase, iteration, pools, told, reporters>>
      /\ counter[g] \in Nat
  BY DEF PartStep, Sends, WorkerCounts, Answered, Inv, Types
<1>1. CASE Sends(g, i, p)
  <2>1. /\ Bygone(g, i) \/ (g = group /\ i = iteration /\ phase \notin {"between", "over"})
        /\ part[g][i][p] = "idle" /\ part' = [part EXCEPT ![g][i][p] = "sent"]
    BY <1>1, MovesAreOfIteration DEF Sends, Places
  <2>2. /\ counter' = counter
        /\ source' = IF driver = "upload" THEN [source EXCEPT ![p] = "worker"] ELSE source
    BY <1>1 DEF Sends
  <2>3. CASE Bygone(g, i)
    <3>1. counter' = [counter EXCEPT ![g] = counter[g]] /\ source' = source
      BY <2>2, <2>3 DEF Inv, Types, Bygone
    <3> QED
      BY <1>0, <2>1, <2>3, <3>1, BygoneKeepsInv DEF Places
  <2>4. CASE g = group /\ i = iteration /\ phase \notin {"between", "over"}
    <3>1. counter' = [counter EXCEPT ![group] = @ + Adds("sent")]
      BY <1>0, <2>2, <2>4 DEF Inv, Types, Adds
    <3>2. source' \in [Parts -> {"caller", "worker"}] /\ \A q \in Parts \ {p} : source'[q] = source[q]
      BY <2>2 DEF Inv, Types
    <3> QED
      BY <1>0, <2>1, <2>4, <3>1, <3>2, CurrentKeepsInv DEF Places
  <2> QED
    BY <2>1, <2>3, <2>4
<1>2. CASE WorkerCounts(g, i, p)
  <2>1. /\ Bygone(g, i) \/ (g = group /\ i = iteration /\ phase \notin {"between", "over"})
        /\ part[g][i][p] = "sent" /\ part' = [part EXCEPT ![g][i][p] = "counted"]
    BY <1>2, MovesAreOfIteration DEF WorkerCounts, Places
  <2>2. counter' = [counter EXCEPT ![g] = @ + 1] /\ source' = source
    BY <1>2 DEF WorkerCounts
  <2>3. CASE Bygone(g, i)
    <3>1. counter[g] + 1 \in Nat /\ counter' = [counter EXCEPT ![g] = counter[g] + 1]
      BY <1>0, <2>2
    <3> QED
      BY <1>0, <2>1, <2>2, <2>3, <3>1, BygoneKeepsInv DEF Places
  <2>4. CASE g = group /\ i = iteration /\ phase \notin {"between", "over"}
    <3>1. counter' = [counter EXCEPT ![group] = @ + Adds("counted")]
      BY <2>2, <2>4 DEF Adds
    <3>2. source' \in [Parts -> {"caller", "worker"}] /\ \A q \in Parts \ {p} : source'[q] = source[q]
      BY <2>2 DEF Inv, Types
    <3> QED
      BY <1>0, <2>1, <2>4, <3>1, <3>2, CurrentKeepsInv DEF Places
  <2> QED
    BY <2>1, <2>3, <2>4
<1>3. CASE Answered(g, i, p)
  <2>1. /\ ~Bygone(g, i)
        /\ Bygone(g, i) \/ (g = group /\ i = iteration /\ phase \notin {"between", "over"})
        /\ part[g][i][p] = "counted" /\ part' = [part EXCEPT ![g][i][p] = "answered"]
    BY <1>3, MovesAreOfIteration DEF Answered, Places, Bygone, PoolOf
  <2>2. /\ counter' = IF driver = "upload" THEN [counter EXCEPT ![g] = @ + 1] ELSE counter
        /\ source' = [source EXCEPT ![p] = "caller"]
    BY <1>3 DEF Answered, Restored
  <2>3. counter' = [counter EXCEPT ![group] = @ + Adds("answered")]
    <3>1. CASE driver = "upload"
      BY <2>1, <2>2, <3>1 DEF Upload, Adds, Bygone
    <3>2. CASE driver # "upload"
      BY <1>0, <2>1, <2>2, <3>2 DEF Inv, Types, Upload, Adds
    <3> QED BY <3>1, <3>2
  <2>4. /\ source' \in [Parts -> {"caller", "worker"}] /\ \A q \in Parts \ {p} : source'[q] = source[q]
        /\ source'[p] = "caller"
    BY <2>2 DEF Inv, Types
  <2> QED
    BY <1>0, <2>1, <2>3, <2>4, CurrentKeepsInv DEF Places
<1> QED
  BY <1>1, <1>2, <1>3 DEF PartStep

-----------------------------------------------------------------------------
LEMMA NextKeepsInv == Inv /\ [Next]_vars => Inv'
<1> SUFFICES ASSUME Inv, [Next]_vars PROVE Inv'
  OBVIOUS
<1>1. CASE GroupEndsEarly
  <2>1. pools = told
    BY <1>1 DEF GroupEndsEarly, Inv, PoolsFit
  <2> QED
    BY <1>1, <2>1, EndGroupKeepsInv DEF GroupEndsEarly
<1>2. CASE Closed
  <2>1. pools \ told \subseteq {<<group, 0>>} /\ told \subseteq pools \ {<<group, 0>>}
    BY <1>2 DEF Closed, Inv, PoolsFit, ToldFit, PoolOf
  <2> QED
    BY <1>2, <2>1, EndGroupKeepsInv DEF Closed, PoolIsClosed
<1>3. CASE SpawnsPool \/ PoolReady \/ EndIteration \/ Fails \/ Close
  BY <1>3, PhaseStepKeepsInv
<1>4. CASE StartIteration
  BY <1>4, StartIterationKeepsInv
<1>5. ASSUME NEW g \in Groups, NEW i \in 1 .. Iterations, NEW p \in Parts, PartStep(g, i, p)
      PROVE  Inv'
  BY <1>5, PartStepKeepsInv
<1>6. ASSUME NEW t \in told, ThreadsExit(t) PROVE Inv'
  BY <1>6, ThreadsExitKeepsInv
<1>7. CASE UNCHANGED vars
  BY <1>7 DEF vars, partVars, Inv, Types, OthersAtRest, PhaseFits, CounterFits, Count, Upload,
              Counted, AnsweredParts, SourceFits, PoolsFit, ToldFit, PoolOf
<1> QED
  BY <1>1, <1>2, <1>3, <1>4, <1>5, <1>6, <1>7 DEF Next

THEOREM InvAlways == Spec => []Inv
BY InitEstablishesInv, NextKeepsInv, PTL DEF Spec

(* The counter tells of the parts of the iteration that runs, also while     *)
(* threads of a group before it still fetch theirs.                          *)
THEOREM CounterIsRight == Spec => []CounterIsOfIteration
BY InvGivesSafety, InvAlways, PTL

(* A part that an upload is to send has its buffer.                          *)
THEOREM SourcesComeBack == Spec => []SourcesAreBack
BY InvGivesSafety, InvAlways, PTL

(* Threads that main has not told to end, and has not waited for, are those  *)
(* of the iteration.  What else is under way while it runs are the parts of  *)
(* earlier groups of a run with --no-api, whose threads were told to end.    *)
THEOREM IterationsAreApart == Spec => []MeasuredAlone
BY InvGivesSafety, InvAlways, PTL

-----------------------------------------------------------------------------
(* SliceRun, for any number of parts, workers, lanes, chunks and retries.    *)

-----------------------------------------------------------------------------
(* The dealing of the parts to the workers.                                  *)

LEMMA PoolShape ==
  ASSUME pool \in Pools
  PROVE  /\ pool[1] \in Nat /\ pool[1] > 0 /\ pool[2] \in Nat /\ pool[2] > 0
         /\ NParts \in Nat /\ NParts > 0
         /\ Active \in Nat /\ Active > 0 /\ Active <= NParts /\ Active <= pool[1]
         /\ pool[1] < NParts => Active = pool[1]
         /\ ~(pool[1] < NParts) => Active = NParts
<1>1. pool[1] \in Nat \ {0} /\ pool[2] \in Nat \ {0}
  BY PoolsAssumption
<1> QED
  BY <1>1, PartsAssumption DEF Active

LEMMA SliceInside ==
  ASSUME pool \in Pools, NEW w \in Workers
  PROVE  /\ w \in Nat /\ w > 0 /\ w <= pool[1]
         /\ SliceLength(w) \in Nat /\ SliceLength(w) > 0
         /\ \A i \in 1 .. SliceLength(w) : SlicePart(w, i) \in AllParts
<1> DEFINE n == pool[1]
           q == (NParts - w) \div n
<1>1. /\ n \in Nat \ {0} /\ NParts \in Nat /\ w \in Nat /\ w > 0 /\ w <= n /\ w <= NParts
  BY PoolShape DEF Workers
<1>2. NParts - w \in Nat
  BY <1>1
<1>3. q \in Nat /\ q * n <= NParts - w
  BY <1>1, <1>2, DivFacts
<1>4. SliceLength(w) = q + 1
  BY DEF SliceLength
<1>5. ASSUME NEW i \in 1 .. SliceLength(w)
      PROVE  SlicePart(w, i) \in AllParts
  <2> DEFINE j == i - 1
  <2> HIDE DEF q, n
  <2>1. j \in Nat /\ j <= q
    BY <1>3, <1>4
  <2> HIDE DEF j
  <2>2. j * n \in Nat
    BY <1>1, <2>1
  <2>3. j * n <= q * n
    <3>1. CASE j = q
      BY <1>1, <1>3, <2>2, <3>1
    <3>2. CASE j < q
      <4>1. j * n + n <= q * n
        BY <1>1, <1>3, <2>1, <3>2, ProductStep
      <4>2. q * n \in Int
        BY <1>1, <1>3
      <4> QED BY <1>1, <2>2, <4>1, <4>2
    <3> QED BY <1>3, <2>1, <3>1, <3>2
  <2>4. SlicePart(w, i) = w + j * n
    BY DEF SlicePart, j, n
  <2> DEFINE u == j * n
             v == q * n
  <2>5. v \in Int
    BY <1>1, <1>3
  <2> HIDE DEF u, v
  <2>6. w + u \in 1 .. NParts
    BY <1>1, <1>3, <2>2, <2>3, <2>5 DEF u, v
  <2> QED BY <2>4, <2>6 DEF AllParts, u
<1> QED
  BY <1>1, <1>3, <1>4, <1>5

LEMMA SlicesApart ==
  ASSUME pool \in Pools, NEW v \in Workers, NEW w \in Workers, NEW i \in Nat, NEW j \in Nat,
         SlicePart(v, i) = SlicePart(w, j)
  PROVE  v = w /\ i = j
<1> DEFINE n == pool[1]
           c == j - i
<1>1. /\ n \in Nat /\ n > 0 /\ v \in Nat /\ w \in Nat /\ v > 0 /\ w > 0 /\ v <= n /\ w <= n
  BY PoolShape, SliceInside
<1>2. v + (i - 1) * n = w + (j - 1) * n
  BY DEF SlicePart
<1>3. c \in Int /\ (j - 1) * n - (i - 1) * n = c * n
  <2> HIDE DEF n
  <2> QED BY <1>1
<1>4. (i - 1) * n \in Int /\ (j - 1) * n \in Int
  <2> HIDE DEF n
  <2> QED BY <1>1
<1> HIDE DEF n, c
<1>5. c * n = v - w
  BY <1>1, <1>2, <1>3, <1>4
<1>6. c * n < n /\ -n < c * n
  BY <1>1, <1>5
<1>7. c = 0
  BY <1>1, <1>3, <1>6, NoMultiple
<1>8. c * n = 0
  BY <1>1, <1>7
<1> QED
  BY <1>1, <1>5, <1>7, <1>8 DEF c

LEMMA SlicesCover ==
  ASSUME pool \in Pools, NEW p \in AllParts
  PROVE  \E w \in Workers : \E i \in 1 .. SliceLength(w) : SlicePart(w, i) = p
<1>1. PICK n : n = pool[1]
  OBVIOUS
<1>2. /\ n \in Nat \ {0} /\ NParts \in Nat /\ p \in Nat /\ p > 0 /\ p <= NParts
  BY <1>1, PoolShape DEF AllParts
<1>3. PICK d \in Nat : d * n <= p - 1 /\ p - 1 < d * n + n
  <2>1. p - 1 \in Nat
    BY <1>2
  <2> QED BY <1>2, <2>1, DivFacts
<1>4. PICK e \in Nat : e = d * n
  BY <1>2, <1>3
<1>5. PICK w \in Nat : w + e = p /\ w > 0 /\ w <= n /\ w <= p
  <2>1. p - e \in Nat /\ p - e > 0 /\ p - e <= n /\ (p - e) + e = p /\ p - e <= p
    BY <1>2, <1>3, <1>4
  <2> QED BY <2>1
<1>6. w \in Workers
  BY <1>1, <1>2, <1>5, PoolShape DEF Workers
<1>7. PICK q \in Nat : q = (NParts - w) \div n /\ NParts - w < q * n + n
  <2>1. NParts - w \in Nat
    BY <1>2, <1>5
  <2> QED BY <1>2, <2>1, DivFacts
<1>8. d <= q
  <2> SUFFICES ASSUME q < d PROVE FALSE
    BY <1>3, <1>7
  <2>1. PICK f \in Nat : f = q * n
    BY <1>2, <1>7
  <2>2. f + n <= e
    BY <1>2, <1>3, <1>4, <1>7, <2>1, ProductStep
  <2> QED BY <1>2, <1>4, <1>5, <1>7, <2>1, <2>2
<1>9. SliceLength(w) = q + 1
  BY <1>1, <1>7 DEF SliceLength
<1>10. SlicePart(w, d + 1) = p
  <2>1. d + 1 - 1 = d
    BY <1>3
  <2> QED BY <1>1, <1>4, <1>5, <2>1 DEF SlicePart
<1>11. d + 1 \in 1 .. SliceLength(w)
  BY <1>3, <1>7, <1>8, <1>9
<1> QED
  BY <1>6, <1>10, <1>11

-----------------------------------------------------------------------------
(* The invariant.  First, one worker.                                        *)

Attempts == [phase : LanePhases, part : 0 .. NParts, tryNo : 0 .. MaxPartRetries,
             got : 0 .. Chunks, aborted : BOOLEAN]
Flying(x) == x.phase \in {"request", "reading"}

(* A lane that fetches has a part, and knows how many of its chunks came.    *)
AttemptFits(x) ==
  /\ x \in Attempts
  /\ Flying(x) <=> x.part # 0
  /\ Flying(x) => x.got < Chunks

(* The lanes fetch different parts, taken from the slice; those that are     *)
(* over found no part left.                                                  *)
LanesFit(w) ==
  /\ lane[w] \in [Lanes(w) -> Attempts]
  /\ cursor[w] \in 0 .. SliceLength(w)
  /\ \A l \in Lanes(w) :
       /\ AttemptFits(lane[w][l])
       /\ lane[w][l].part # 0 => lane[w][l].part \in Taken(w)
       /\ \A m \in Lanes(w) : lane[w][m].part = lane[w][l].part /\ lane[w][l].part # 0 => m = l
       /\ lane[w][l].phase = "over" => cursor[w] = SliceLength(w)

(* What the state of a worker says of its lanes.                             *)
StateFits(w) ==
  /\ w \in starting => state[w] = "ready"
  /\ state[w] \in {"loading", "ready"} =>
       cursor[w] = 0 /\ partsDone[w] = 0 /\ \A l \in Lanes(w) : lane[w][l].phase = "new"
  /\ state[w] = "running" => \A l \in Lanes(w) : lane[w][l].phase \notin {"new", "threw"}
  /\ state[w] \in {"profiling", "done"} => \A l \in Lanes(w) : lane[w][l].phase = "over"
  /\ state[w] = "failed" =>
       /\ \E l \in Lanes(w) : lane[w][l].phase = "threw"
       /\ \A l \in Lanes(w) : lane[w][l].phase # "new"

(* The parts that are behind a worker are counted, unless a lane threw.      *)
Fetched(w) == {p \in Taken(w) : \A l \in Lanes(w) : lane[w][l].part # p}
DoneFits(w) ==
  /\ partsDone[w] \in Nat
  /\ partsDone[w] <= Cardinality(Fetched(w))
  /\ state[w] # "failed" => partsDone[w] = Cardinality(Fetched(w))

WorkerFits(w) == LanesFit(w) /\ StateFits(w) /\ DoneFits(w)

(* Then main, with the messages that are on their way to it.                 *)
Messages == {<<"ready">>, <<"error">>, <<"exit">>} \cup {<<"done", n>> : n \in Nat}

Loaded == {w \in Workers : state[w] # "loading" /\ ~Holds(outbox[w], "ready")}
ReadyFits ==
  /\ \A w \in Workers : /\ Single(outbox[w], "ready")
                        /\ Holds(outbox[w], "ready") => state[w] # "loading"
  /\ readyCount = Cardinality(Loaded)
  /\ readyCount < Active => starting = {} /\ \A w \in Workers : state[w] \in {"loading", "ready"}

Slice(w) == {SlicePart(w, i) : i \in 1 .. SliceLength(w)}
Reported == {w \in Workers : state[w] = "done" /\ ~Holds(outbox[w], "done")}
ReportedParts == UNION {Slice(w) : w \in Reported}
DoneBooks ==
  /\ \A w \in Workers : /\ Single(outbox[w], "done")
                        /\ Holds(outbox[w], "done") => state[w] = "done"
                        /\ Sent(outbox[w], "done") \subseteq {partsDone[w]}
  /\ doneCount = Cardinality(Reported)
  /\ results = Cardinality(ReportedParts)
  /\ outcome = "resolved" => doneCount = Active

SliceTypes ==
  /\ pool \in Pools /\ deliveryMode \in Modes
  /\ outbox \in [Workers -> Seq(Messages)]
  /\ starting \subseteq Workers /\ dead \subseteq Workers
  /\ state \in [Workers -> WorkerStates]
  /\ cursor \in [Workers -> Nat] /\ partsDone \in [Workers -> Nat]
  /\ DOMAIN lane = Workers /\ lane = [w \in Workers |-> lane[w]]
  /\ outcome \in {"running", "resolved", "failed"}

SliceInv ==
  /\ SliceTypes
  /\ \A w \in Workers : WorkerFits(w)
  /\ ReadyFits /\ DoneBooks

-----------------------------------------------------------------------------
(* Sizes.                                                                    *)

LEMMA LaneCount ==
  ASSUME pool \in Pools, NEW w \in Workers
  PROVE  /\ Cardinality(Lanes(w)) \in Nat /\ Cardinality(Lanes(w)) > 0
         /\ Cardinality(Lanes(w)) <= SliceLength(w)
         /\ Lanes(w) = 1 .. Cardinality(Lanes(w))
         /\ IsFiniteSet(Lanes(w))
<1>1. PICK n \in Nat : Lanes(w) = 1 .. n /\ n > 0 /\ n <= SliceLength(w)
  BY PoolShape, SliceInside DEF Lanes
<1>2. IsFiniteSet(1 .. n) /\ Cardinality(1 .. n) = n
  BY FS_Interval
<1> QED
  BY <1>1, <1>2

LEMMA TakenSize ==
  ASSUME pool \in Pools, NEW w \in Workers, cursor[w] \in 0 .. SliceLength(w)
  PROVE  /\ IsFiniteSet(Taken(w)) /\ Cardinality(Taken(w)) = cursor[w]
         /\ Taken(w) \subseteq Slice(w) /\ Taken(w) \subseteq AllParts
<1>1. cursor[w] \in Nat /\ cursor[w] <= SliceLength(w) /\ SliceLength(w) \in Nat
  BY SliceInside
<1> DEFINE f == [i \in 1 .. cursor[w] |-> SlicePart(w, i)]
<1>2. \A i, j \in 1 .. cursor[w] : f[i] = f[j] => i = j
  BY <1>1, SlicesApart
<1>3. \A x : x \in Taken(w) <=> \E i \in 1 .. cursor[w] : f[i] = x
  BY DEF Taken
<1> HIDE DEF f
<1>4. IsFiniteSet(Taken(w)) /\ Cardinality(Taken(w)) = cursor[w]
  BY <1>1, <1>2, <1>3, ImageSize
<1>5. \A i \in 1 .. cursor[w] : i \in 1 .. SliceLength(w)
  BY <1>1
<1>6. Taken(w) \subseteq Slice(w)
  BY <1>5 DEF Taken, Slice
<1>7. Slice(w) \subseteq AllParts
  BY SliceInside DEF Slice
<1> QED
  BY <1>4, <1>6, <1>7

LEMMA SliceSize ==
  ASSUME pool \in Pools, NEW w \in Workers
  PROVE  /\ IsFiniteSet(Slice(w)) /\ Cardinality(Slice(w)) = SliceLength(w)
         /\ Slice(w) \subseteq AllParts
         /\ \A v \in Workers \ {w} : Slice(v) \cap Slice(w) = {}
<1>1. SliceLength(w) \in Nat /\ Slice(w) \subseteq AllParts
  BY SliceInside DEF Slice
<1> DEFINE f == [i \in 1 .. SliceLength(w) |-> SlicePart(w, i)]
<1>2. \A i, j \in 1 .. SliceLength(w) : f[i] = f[j] => i = j
  BY <1>1, SlicesApart
<1>3. \A x : x \in Slice(w) <=> \E i \in 1 .. SliceLength(w) : f[i] = x
  BY DEF Slice
<1> HIDE DEF f
<1>4. IsFiniteSet(Slice(w)) /\ Cardinality(Slice(w)) = SliceLength(w)
  BY <1>1, <1>2, <1>3, ImageSize
<1>5. ASSUME NEW v \in Workers \ {w}, NEW x \in Slice(v), x \in Slice(w)
      PROVE  FALSE
  <2>1. PICK i \in 1 .. SliceLength(v) : x = SlicePart(v, i)
    BY DEF Slice
  <2>2. PICK j \in 1 .. SliceLength(w) : x = SlicePart(w, j)
    BY <1>5 DEF Slice
  <2>3. i \in Nat /\ j \in Nat
    BY SliceInside
  <2> QED BY <2>1, <2>2, <2>3, SlicesApart
<1> QED
  BY <1>1, <1>4, <1>5

LEMMA WorkersFinite ==
  ASSUME pool \in Pools
  PROVE  IsFiniteSet(Workers) /\ Cardinality(Workers) = Active
<1>1. Active \in Nat
  BY PoolShape
<1> QED
  BY <1>1, FS_Interval DEF Workers

LEMMA PartsFinite == IsFiniteSet(AllParts) /\ Cardinality(AllParts) = NParts /\ NParts \in Nat
<1>1. NParts \in Nat
  BY PartsAssumption
<1> QED
  BY <1>1, FS_Interval DEF AllParts

(* A worker that has posted its result has fetched its whole slice.          *)
LEMMA DoneIsWhole ==
  ASSUME SliceInv, NEW w \in Workers, state[w] \in {"profiling", "done"}
  PROVE  Fetched(w) = Slice(w) /\ partsDone[w] = SliceLength(w)
<1>1. /\ pool \in Pools /\ WorkerFits(w)
      /\ \A l \in Lanes(w) : lane[w][l].phase = "over" /\ lane[w][l].part = 0
      /\ cursor[w] \in 0 .. SliceLength(w)
  BY DEF SliceInv, SliceTypes, WorkerFits, LanesFit, StateFits, AttemptFits, Flying
<1>2. cursor[w] = SliceLength(w)
  <2>1. 1 \in Lanes(w)
    BY <1>1, LaneCount
  <2> QED BY <1>1, <2>1 DEF WorkerFits, LanesFit
<1>3. Taken(w) = Slice(w) /\ Slice(w) \subseteq AllParts
  BY <1>1, <1>2, SliceSize DEF Taken, Slice
<1>4. 0 \notin AllParts
  BY DEF AllParts
<1>5. Fetched(w) = Slice(w)
  BY <1>1, <1>3, <1>4 DEF Fetched
<1> QED
  BY <1>1, <1>5, SliceSize DEF WorkerFits, DoneFits

-----------------------------------------------------------------------------
(* What the invariant is for.                                                *)
LEMMA SliceInvGivesTypes == SliceInv => SliceTypeOK
<1> SUFFICES ASSUME SliceInv PROVE SliceTypeOK
  OBVIOUS
<1>1. SliceTypes /\ pool \in Pools
  BY DEF SliceInv, SliceTypes
<1>2. ASSUME NEW w \in Workers
      PROVE  /\ cursor[w] \in 0 .. SliceLength(w)
             /\ partsDone[w] \in 0 .. SliceLength(w)
             /\ \A l \in Lanes(w) :
                  /\ lane[w][l].phase \in LanePhases
                  /\ lane[w][l].part \in 0 .. NParts
                  /\ lane[w][l].tryNo \in 0 .. MaxPartRetries
                  /\ lane[w][l].got \in 0 .. Chunks
                  /\ lane[w][l].aborted \in BOOLEAN
  <2>1. /\ cursor[w] \in 0 .. SliceLength(w)
        /\ \A l \in Lanes(w) : lane[w][l] \in Attempts
        /\ partsDone[w] \in Nat /\ partsDone[w] <= Cardinality(Fetched(w))
    BY DEF SliceInv, WorkerFits, LanesFit, DoneFits, AttemptFits
  <2>2. Fetched(w) \in SUBSET Taken(w)
    BY DEF Fetched
  <2>3. IsFiniteSet(Taken(w)) /\ Cardinality(Taken(w)) = cursor[w]
    BY <1>1, <2>1, TakenSize
  <2>4. Cardinality(Fetched(w)) <= cursor[w] /\ Cardinality(Fetched(w)) \in Nat
    BY <2>2, <2>3, FS_Subset, FS_CardinalityType
  <2>5. partsDone[w] \in 0 .. SliceLength(w)
    <3>1. cursor[w] <= SliceLength(w) /\ cursor[w] \in Nat /\ SliceLength(w) \in Nat
      BY <1>1, <2>1, SliceInside
    <3> QED BY <2>1, <2>4, <3>1
  <2> QED BY <2>1, <2>5 DEF Attempts
<1>3. readyCount \in 0 .. Active
  <2>1. Loaded \in SUBSET Workers
    BY DEF Loaded
  <2>2. Cardinality(Loaded) <= Active /\ Cardinality(Loaded) \in Nat
    BY <1>1, <2>1, WorkersFinite, FS_Subset, FS_CardinalityType
  <2> QED BY <1>1, <2>2, PoolShape DEF SliceInv, ReadyFits
<1>4. doneCount \in 0 .. Active
  <2>1. Reported \in SUBSET Workers
    BY DEF Reported
  <2>2. Cardinality(Reported) <= Active /\ Cardinality(Reported) \in Nat
    BY <1>1, <2>1, WorkersFinite, FS_Subset, FS_CardinalityType
  <2> QED BY <1>1, <2>2, PoolShape DEF SliceInv, DoneBooks
<1>5. results \in 0 .. NParts
  <2>1. ReportedParts \in SUBSET AllParts
    BY <1>1, SliceSize DEF ReportedParts, Reported
  <2>2. Cardinality(ReportedParts) <= NParts /\ Cardinality(ReportedParts) \in Nat
    BY <2>1, PartsFinite, FS_Subset, FS_CardinalityType
  <2> QED BY <2>2, PartsFinite DEF SliceInv, DoneBooks
<1>6. state \in [Workers -> WorkerStates]
  BY <1>1 DEF SliceTypes
<1> QED
  BY <1>1, <1>2, <1>3, <1>4, <1>5, <1>6 DEF SliceTypes, SliceTypeOK

(* When the run has resolved, all workers have reported.                     *)
LEMMA ResolvedIsReported ==
  ASSUME SliceInv, outcome = "resolved"
  PROVE  Reported = Workers /\ ReportedParts = AllParts
<1>1. pool \in Pools /\ Reported \in SUBSET Workers /\ Cardinality(Reported) = Active
  BY DEF SliceInv, SliceTypes, DoneBooks, Reported
<1>2. Reported = Workers
  BY <1>1, WorkersFinite, FS_Subset
<1>3. ReportedParts \subseteq AllParts
  BY <1>1, SliceSize DEF ReportedParts
<1>4. ASSUME NEW p \in AllParts
      PROVE  p \in ReportedParts
  <2>1. PICK w \in Workers : \E i \in 1 .. SliceLength(w) : SlicePart(w, i) = p
    BY <1>1, SlicesCover
  <2>2. p \in Slice(w)
    BY <2>1 DEF Slice
  <2> QED BY <1>2, <2>2 DEF ReportedParts
<1> QED
  BY <1>2, <1>3, <1>4

LEMMA SliceInvGivesSafety == SliceInv => ResultIsExact
<1> SUFFICES ASSUME SliceInv PROVE ResultIsExact
  OBVIOUS
<1>1. pool \in Pools
  BY DEF SliceInv, SliceTypes
<1>2. UNION {{SlicePart(w, i) : i \in 1 .. SliceLength(w)} : w \in Workers} = AllParts
  <2>1. \A w \in Workers : Slice(w) \subseteq AllParts
    BY <1>1, SliceSize
  <2>2. \A p \in AllParts : \E w \in Workers : p \in Slice(w)
    BY <1>1, SlicesCover DEF Slice
  <2> QED BY <2>1, <2>2 DEF Slice
<1>3. ASSUME NEW w \in Workers
      PROVE  /\ \A p \in AllParts : Cardinality(Fetching(w, p)) <= (IF p \in Taken(w) THEN 1 ELSE 0)
             /\ state[w] # "failed" =>
                  partsDone[w] = Cardinality({p \in Taken(w) : Fetching(w, p) = {}})
  <2>1. WorkerFits(w)
    BY DEF SliceInv
  <2>2. ASSUME NEW p \in AllParts
        PROVE  Cardinality(Fetching(w, p)) <= (IF p \in Taken(w) THEN 1 ELSE 0)
    <3>1. Cardinality({}) = 0
      BY FS_EmptySet
    <3>2. CASE Fetching(w, p) = {}
      BY <3>1, <3>2
    <3>3. ASSUME NEW l \in Fetching(w, p)
          PROVE  p \in Taken(w) /\ Fetching(w, p) = {l}
      <4>1. l \in Lanes(w) /\ lane[w][l].part = p /\ p # 0
        BY DEF Fetching, AllParts
      <4> QED BY <2>1, <4>1 DEF WorkerFits, LanesFit, Fetching
    <3>4. ASSUME NEW l \in Fetching(w, p)
          PROVE  Cardinality(Fetching(w, p)) = 1
      BY <3>3, FS_Singleton
    <3> QED BY <3>2, <3>3, <3>4
  <2>3. {p \in Taken(w) : Fetching(w, p) = {}} = Fetched(w)
    BY DEF Fetching, Fetched
  <2> QED BY <2>1, <2>2, <2>3 DEF WorkerFits, DoneFits
<1>4. outcome = "resolved" => results = NParts
  BY ResolvedIsReported, PartsFinite DEF SliceInv, DoneBooks
<1> QED
  BY <1>2, <1>3, <1>4, SliceInvGivesTypes DEF ResultIsExact

-----------------------------------------------------------------------------
(* Initially.                                                                *)
LEMMA InitEstablishesSliceInv == SliceInit => SliceInv
<1> SUFFICES ASSUME SliceInit PROVE SliceInv
  OBVIOUS
<1>1. /\ pool \in Pools /\ deliveryMode \in Modes /\ outbox = [w \in Workers |-> <<>>] /\ starting = {}
      /\ state = [w \in Workers |-> "loading"] /\ cursor = [w \in Workers |-> 0]
      /\ lane = [w \in Workers |-> [l \in Lanes(w) |-> Idle("new")]]
      /\ partsDone = [w \in Workers |-> 0]
      /\ dead = {} /\ readyCount = 0 /\ doneCount = 0 /\ results = 0 /\ outcome = "running"
  BY DEF SliceInit
<1>2. SliceTypes
  <2>1. outbox \in [Workers -> Seq(Messages)]
    BY <1>1
  <2>3. /\ state \in [Workers -> WorkerStates] /\ cursor \in [Workers -> Nat]
        /\ partsDone \in [Workers -> Nat]
    BY <1>1 DEF WorkerStates
  <2>4. DOMAIN lane = Workers /\ lane = [w \in Workers |-> lane[w]]
    BY <1>1
  <2> QED BY <1>1, <2>1, <2>3, <2>4 DEF SliceTypes
<1>3. ASSUME NEW w \in Workers
      PROVE  WorkerFits(w)
  <2>1. /\ lane[w] = [l \in Lanes(w) |-> Idle("new")] /\ cursor[w] = 0 /\ partsDone[w] = 0
        /\ state[w] = "loading"
    BY <1>1
  <2>2. Idle("new") \in Attempts /\ Idle("new").phase = "new" /\ Idle("new").part = 0
    BY PartsAssumption, RetriesAssumption DEF Idle, Attempts, LanePhases
  <2>3. AttemptFits(Idle("new"))
    BY <2>2 DEF AttemptFits, Flying
  <2>4. LanesFit(w)
    <3>1. 0 \in 0 .. SliceLength(w)
      BY <1>1, SliceInside
    <3> QED BY <2>1, <2>2, <2>3, <3>1 DEF LanesFit
  <2>5. StateFits(w)
    BY <1>1, <2>1, <2>2 DEF StateFits
  <2>6. Taken(w) = {} /\ Fetched(w) = {}
    BY <2>1 DEF Taken, Fetched
  <2>7. DoneFits(w)
    BY <2>1, <2>6, FS_EmptySet DEF DoneFits
  <2> QED BY <2>4, <2>5, <2>7 DEF WorkerFits
<1>4. ReadyFits /\ DoneBooks
  <2>1. Loaded = {} /\ Reported = {} /\ ReportedParts = {}
    BY <1>1 DEF Loaded, Reported, ReportedParts
  <2>2. Cardinality({}) = 0
    BY FS_EmptySet
  <2>3. \A w \in Workers : /\ Single(outbox[w], "ready") /\ ~Holds(outbox[w], "ready")
                           /\ Single(outbox[w], "done") /\ ~Holds(outbox[w], "done")
                           /\ Sent(outbox[w], "done") = {}
    BY <1>1, EmptyQueue
  <2>4. ReadyFits
    BY <1>1, <2>1, <2>2, <2>3 DEF ReadyFits
  <2> QED BY <1>1, <2>1, <2>2, <2>3, <2>4 DEF DoneBooks
<1> QED
  BY <1>2, <1>3, <1>4 DEF SliceInv

-----------------------------------------------------------------------------
(* What a step leaves as it was.                                             *)

LEMMA SettingsKept ==
  ASSUME UNCHANGED <<pool, deliveryMode>>
  PROVE  /\ Workers' = Workers /\ Active' = Active
         /\ \A w : /\ Lanes(w)' = Lanes(w) /\ SliceLength(w)' = SliceLength(w)
                   /\ Slice(w)' = Slice(w)
                   /\ \A i : SlicePart(w, i)' = SlicePart(w, i)
BY DEF Workers, Active, Lanes, SliceLength, Slice, SlicePart

LEMMA TakenKept ==
  ASSUME UNCHANGED <<pool, deliveryMode>>, NEW w, cursor'[w] = cursor[w]
  PROVE  Taken(w)' = Taken(w)
BY SettingsKept DEF Taken

LEMMA StillFits ==
  ASSUME NEW w, WorkerFits(w), UNCHANGED <<pool, deliveryMode>>, lane'[w] = lane[w],
         cursor'[w] = cursor[w], state'[w] = state[w], partsDone'[w] = partsDone[w],
         w \in starting' => w \in starting
  PROVE  WorkerFits(w)'
<1>1. /\ Taken(w)' = Taken(w) /\ Lanes(w)' = Lanes(w) /\ SliceLength(w)' = SliceLength(w)
  BY TakenKept, SettingsKept
<1>2. Fetched(w)' = Fetched(w) /\ Fetched(w) \subseteq Taken(w)
  BY <1>1 DEF Fetched
<1>3. LanesFit(w)'
  BY <1>1 DEF WorkerFits, LanesFit, AttemptFits
<1>4. StateFits(w)'
  BY <1>1 DEF WorkerFits, StateFits
<1>5. DoneFits(w)'
  BY <1>2 DEF WorkerFits, DoneFits
<1> QED
  BY <1>3, <1>4, <1>5 DEF WorkerFits

LEMMA ReadyKept ==
  ASSUME ReadyFits, UNCHANGED <<pool, deliveryMode, readyCount>>,
         \A w \in Workers : /\ Holds(outbox'[w], "ready") <=> Holds(outbox[w], "ready")
                            /\ Single(outbox[w], "ready") => Single(outbox'[w], "ready")
                            /\ state'[w] = "loading" <=> state[w] = "loading",
         readyCount < Active => starting' = {} /\ \A w \in Workers : state'[w] = state[w]
  PROVE  ReadyFits'
<1>1. Workers' = Workers /\ Active' = Active
  BY SettingsKept
<1>2. Loaded' = Loaded
  BY <1>1 DEF Loaded
<1> QED
  BY <1>1, <1>2 DEF ReadyFits

LEMMA DoneKept ==
  ASSUME DoneBooks, UNCHANGED <<pool, deliveryMode, doneCount, results>>,
         \A w \in Workers : /\ Holds(outbox'[w], "done") <=> Holds(outbox[w], "done")
                            /\ Single(outbox[w], "done") => Single(outbox'[w], "done")
                            /\ Sent(outbox'[w], "done") = Sent(outbox[w], "done")
                            /\ state'[w] = "done" <=> state[w] = "done"
                            /\ state[w] = "done" => partsDone'[w] = partsDone[w],
         outcome' = "resolved" => outcome = "resolved"
  PROVE  DoneBooks'
<1>1. Workers' = Workers /\ Active' = Active /\ \A w : Slice(w)' = Slice(w)
  BY SettingsKept
<1>2. Reported' = Reported
  BY <1>1 DEF Reported
<1>3. ReportedParts' = ReportedParts
  BY <1>1, <1>2 DEF ReportedParts
<1>4. ASSUME NEW w \in Workers
      PROVE  Sent(outbox'[w], "done") \subseteq {partsDone'[w]}
  <2>1. CASE state[w] = "done"
    BY <2>1 DEF DoneBooks
  <2>2. CASE state[w] # "done"
    <3>1. ~Holds(outbox[w], "done")
      BY <2>2 DEF DoneBooks
    <3>2. Sent(outbox[w], "done") = {}
      BY <3>1 DEF Sent, Holds
    <3> QED BY <3>2
  <2> QED BY <2>1, <2>2
<1> QED
  BY <1>1, <1>2, <1>3, <1>4 DEF DoneBooks

(* A message is posted: to the others nothing happens.                       *)
LEMMA PostKeeps ==
  ASSUME SliceTypes, NEW w \in Workers, NEW m \in Messages, Post(w, m)
  PROVE  /\ outbox' \in [Workers -> Seq(Messages)]
         /\ outbox'[w] = Append(outbox[w], m)
         /\ \A v \in Workers \ {w} : outbox'[v] = outbox[v]
         /\ \A type : m[1] # type =>
              \A v \in Workers : /\ Holds(outbox'[v], type) <=> Holds(outbox[v], type)
                                 /\ Single(outbox[v], type) => Single(outbox'[v], type)
                                 /\ Sent(outbox'[v], type) = Sent(outbox[v], type)
<1>1. /\ outbox \in [Workers -> Seq(Messages)] /\ outbox' = [outbox EXCEPT ![w] = Append(@, m)]
  BY DEF SliceTypes, Post
<1>2. Append(outbox[w], m) \in Seq(Messages) /\ outbox[w] \in Seq(Messages)
  BY <1>1, AppendProperties
<1>3. /\ outbox' \in [Workers -> Seq(Messages)] /\ outbox'[w] = Append(outbox[w], m)
      /\ \A v \in Workers \ {w} : outbox'[v] = outbox[v]
  BY <1>1, <1>2
<1>4. ASSUME NEW type, m[1] # type
      PROVE  /\ Holds(outbox'[w], type) <=> Holds(outbox[w], type)
             /\ Single(outbox[w], type) => Single(outbox'[w], type)
             /\ Sent(outbox'[w], type) = Sent(outbox[w], type)
  <2> DEFINE q == outbox[w]
  <2>1. q \in Seq(Messages) /\ outbox'[w] = Append(q, m)
    BY <1>2, <1>3
  <2> HIDE DEF q
  <2>2. /\ Holds(Append(q, m), type) <=> Holds(q, type)
        /\ Single(q, type) => Single(Append(q, m), type)
        /\ Sent(Append(q, m), type) = Sent(q, type)
    BY <1>4, <2>1, AppendQueue
  <2> QED BY <2>1, <2>2 DEF q
<1> QED
  BY <1>3, <1>4

LEMMA DequeueKeeps ==
  ASSUME SliceTypes, NEW w \in Workers, NEW kind, Receives(w, kind), Dequeue(w)
  PROVE  /\ outbox' \in [Workers -> Seq(Messages)]
         /\ Head(outbox[w]) \in Messages /\ Head(outbox[w])[1] = kind
         /\ Head(outbox[w])[2] \in Sent(outbox[w], kind) /\ Holds(outbox[w], kind)
         /\ Single(outbox[w], kind) =>
              /\ ~Holds(outbox'[w], kind) /\ Sent(outbox'[w], kind) = {}
              /\ Single(outbox'[w], kind)
         /\ \A v \in Workers \ {w} : outbox'[v] = outbox[v]
         /\ \A type : kind # type =>
              \A v \in Workers : /\ Holds(outbox'[v], type) <=> Holds(outbox[v], type)
                                 /\ Single(outbox[v], type) => Single(outbox'[v], type)
                                 /\ Sent(outbox'[v], type) = Sent(outbox[v], type)
<1>1. /\ outbox \in [Workers -> Seq(Messages)] /\ outbox' = [outbox EXCEPT ![w] = Tail(@)]
      /\ outbox[w] # <<>> /\ Head(outbox[w])[1] = kind
  BY DEF SliceTypes, Dequeue, Receives
<1>2. outbox[w] \in Seq(Messages)
  BY <1>1
<1>3. Tail(outbox[w]) \in Seq(Messages) /\ Head(outbox[w]) \in Messages
  BY <1>1, <1>2, HeadTailProperties
<1>4. /\ outbox' \in [Workers -> Seq(Messages)] /\ outbox'[w] = Tail(outbox[w])
      /\ \A v \in Workers \ {w} : outbox'[v] = outbox[v]
  BY <1>1, <1>3
<1> DEFINE q == outbox[w]
           r == outbox'[w]
<1>5. q \in Seq(Messages) /\ q # <<>> /\ r = Tail(q) /\ Head(q)[1] = kind
  BY <1>1, <1>2, <1>4
<1> HIDE DEF q, r
<1>6. /\ Head(q)[2] \in Sent(q, kind) /\ Holds(q, kind)
      /\ Single(q, kind) => ~Holds(r, kind) /\ Single(r, kind)
  BY <1>5, TailQueue
<1>7. ~Holds(r, kind) => Sent(r, kind) = {}
  BY DEF Holds, Sent
<1>8. \A type : kind # type => /\ Holds(r, type) <=> Holds(q, type)
                               /\ Single(q, type) => Single(r, type)
                               /\ Sent(r, type) = Sent(q, type)
  BY <1>5, TailQueue
<1> QED
  BY <1>1, <1>3, <1>4, <1>6, <1>7, <1>8 DEF q, r

(* What changes one worker leaves the parts of the others alone.             *)
LEMMA OneWorkerMoves ==
  ASSUME SliceInv, NEW w \in Workers, UNCHANGED <<pool, deliveryMode>>, starting' \subseteq starting,
         \A v \in Workers \ {w} : /\ lane'[v] = lane[v] /\ cursor'[v] = cursor[v]
                                  /\ state'[v] = state[v] /\ partsDone'[v] = partsDone[v],
         WorkerFits(w)'
  PROVE  \A v \in Workers : WorkerFits(v)'
<1> SUFFICES ASSUME NEW v \in Workers, v # w PROVE WorkerFits(v)'
  OBVIOUS
<1>1. WorkerFits(v)
  BY DEF SliceInv
<1>2. /\ lane'[v] = lane[v] /\ cursor'[v] = cursor[v] /\ state'[v] = state[v]
      /\ partsDone'[v] = partsDone[v] /\ (v \in starting' => v \in starting)
  OBVIOUS
<1> QED
  BY <1>1, <1>2, StillFits

(* Nothing but lanes of w: the books stay.                                   *)
LEMMA BooksKept ==
  ASSUME SliceInv, NEW w \in Workers,
         UNCHANGED <<pool, deliveryMode, outbox, starting, state, partsDone, mainVars>>
  PROVE  ReadyFits' /\ DoneBooks'
<1>1. UNCHANGED <<readyCount, doneCount, results, outcome>>
  BY DEF mainVars
<1>2. ReadyFits /\ DoneBooks
  BY DEF SliceInv
<1>3. ReadyFits'
  BY <1>1, <1>2, ReadyKept DEF ReadyFits
<1>4. DoneBooks'
  BY <1>1, <1>2, DoneKept
<1> QED
  BY <1>3, <1>4

LEMMA LaneShape ==
  ASSUME SliceInv, NEW w \in Workers, NEW l \in Lanes(w), NEW x, Become(w, l, x)
  PROVE  /\ DOMAIN lane' = Workers /\ lane' = [v \in Workers |-> lane'[v]]
         /\ lane'[w] = [lane[w] EXCEPT ![l] = x]
         /\ lane'[w][l] = x
         /\ \A m \in Lanes(w) \ {l} : lane'[w][m] = lane[w][m]
         /\ \A v \in Workers \ {w} : lane'[v] = lane[v]
<1>1. /\ DOMAIN lane = Workers /\ lane = [v \in Workers |-> lane[v]]
      /\ lane' = [lane EXCEPT ![w][l] = x] /\ lane[w] \in [Lanes(w) -> Attempts]
  BY DEF SliceInv, SliceTypes, WorkerFits, LanesFit, Become
<1>2. /\ DOMAIN lane' = Workers /\ lane' = [v \in Workers |-> lane'[v]]
      /\ lane'[w] = [lane[w] EXCEPT ![l] = x]
      /\ \A v \in Workers \ {w} : lane'[v] = lane[v]
  BY <1>1
<1> QED
  BY <1>1, <1>2

(* A lane goes on with its part.                                             *)
LEMMA LaneMoves ==
  ASSUME SliceInv, NEW w \in Workers, NEW l \in Lanes(w), Flying(lane[w][l]),
         NEW x, AttemptFits(x), Flying(x), x.part = lane[w][l].part, Become(w, l, x),
         UNCHANGED <<outbox, pool, deliveryMode, starting, state, cursor, partsDone, dead,
                     mainVars>>
  PROVE  SliceInv'
<1>1. /\ DOMAIN lane' = Workers /\ lane' = [v \in Workers |-> lane'[v]]
      /\ lane'[w] = [lane[w] EXCEPT ![l] = x] /\ lane'[w][l] = x
      /\ \A m \in Lanes(w) \ {l} : lane'[w][m] = lane[w][m]
      /\ \A v \in Workers \ {w} : lane'[v] = lane[v]
  BY LaneShape
<1>2. /\ Workers' = Workers /\ Lanes(w)' = Lanes(w) /\ SliceLength(w)' = SliceLength(w)
      /\ Taken(w)' = Taken(w)
  BY SettingsKept, TakenKept
<1>3. SliceTypes'
  BY <1>1, <1>2 DEF SliceInv, SliceTypes, mainVars
<1>4. WorkerFits(w)
  BY DEF SliceInv
<1>5. \A m \in Lanes(w) : /\ lane'[w][m].part = lane[w][m].part /\ AttemptFits(lane'[w][m])
                          /\ Flying(lane'[w][m]) <=> Flying(lane[w][m])
                          /\ m # l => lane'[w][m] = lane[w][m]
  BY <1>1, <1>4 DEF WorkerFits, LanesFit
<1>6. LanesFit(w)'
  <2>1. lane'[w] \in [Lanes(w) -> Attempts]
    BY <1>1, <1>4 DEF WorkerFits, LanesFit, AttemptFits
  <2>2. \A m \in Lanes(w) : lane'[w][m].phase = "over" => lane[w][m].phase = "over"
    BY <1>1 DEF Flying
  <2>3. \A m \in Lanes(w) : AttemptFits(lane[w][m])'
    BY <1>5 DEF AttemptFits, Flying
  <2> QED BY <1>2, <1>4, <1>5, <2>1, <2>2, <2>3 DEF WorkerFits, LanesFit
<1>7. StateFits(w)'
  <2>1. \A m \in Lanes(w) : m = l \/ lane'[w][m].phase = lane[w][m].phase
    BY <1>1
  <2>2. /\ lane'[w][l].phase \notin {"new", "over", "threw"}
        /\ lane[w][l].phase \notin {"new", "over", "threw"}
    BY <1>1 DEF Flying
  <2> QED BY <1>2, <1>4, <2>1, <2>2 DEF WorkerFits, StateFits
<1>8. Fetched(w)' = Fetched(w)
  BY <1>2, <1>5 DEF Fetched
<1>9. DoneFits(w)'
  BY <1>4, <1>8 DEF WorkerFits, DoneFits
<1>10. WorkerFits(w)'
  BY <1>6, <1>7, <1>9 DEF WorkerFits
<1>11. \A v \in Workers : WorkerFits(v)'
  BY <1>1, <1>10, OneWorkerMoves
<1>12. ReadyFits' /\ DoneBooks'
  BY BooksKept
<1> QED
  BY <1>2, <1>3, <1>11, <1>12 DEF SliceInv

(* The attempts of a lane that do not end.                                   *)
LEMMA AttemptGoesOn ==
  ASSUME SliceInv, NEW w \in Workers, NEW l \in Lanes(w),
         \/ Responds(w, l) \/ ChunkArrives(w, l) \/ WatchdogFires(w, l)
         \/ AttemptThrows(w, l) /\ Retries(lane[w][l])
  PROVE  SliceInv'
<1> DEFINE at == lane[w][l]
<1>1. AttemptFits(at) /\ at \in Attempts /\ Chunks \in Nat /\ Chunks > 0
  BY PartsAssumption DEF SliceInv, WorkerFits, LanesFit, AttemptFits
<1>2. /\ Flying(at)
      /\ UNCHANGED <<outbox, pool, deliveryMode, starting, state, cursor, partsDone, dead,
                     mainVars>>
  BY DEF Responds, ChunkArrives, WatchdogFires, AttemptThrows, At, Flying, settings
<1> HIDE DEF at
<1>3. CASE Responds(w, l)
  <2> DEFINE x == [at EXCEPT !.phase = "reading"]
  <2>1. Become(w, l, x) /\ at.phase = "request"
    BY <1>3 DEF Responds, At, at
  <2>2. AttemptFits(x) /\ Flying(x) /\ x.part = at.part
    BY <1>1, <1>2, <2>1 DEF AttemptFits, Attempts, Flying, LanePhases
  <2> HIDE DEF x
  <2> QED BY <1>2, <2>1, <2>2, LaneMoves DEF at
<1>4. CASE ChunkArrives(w, l)
  <2> DEFINE x == [at EXCEPT !.got = @ + 1]
  <2>1. Become(w, l, x) /\ at.phase = "reading" /\ at.got + 1 < Chunks
    BY <1>4 DEF ChunkArrives, At, at
  <2>2. AttemptFits(x) /\ Flying(x) /\ x.part = at.part
    <3>1. at.got + 1 \in 0 .. Chunks /\ at.got \in Nat
      BY <1>1, <2>1 DEF Attempts
    <3>2. x \in Attempts /\ x.got = at.got + 1 /\ x.part = at.part /\ x.phase = at.phase
      BY <1>1, <3>1 DEF Attempts
    <3> HIDE DEF x
    <3> QED BY <1>1, <1>2, <2>1, <3>2 DEF AttemptFits, Flying
  <2> HIDE DEF x
  <2> QED BY <1>2, <2>1, <2>2, LaneMoves DEF at
<1>5. CASE WatchdogFires(w, l)
  <2> DEFINE x == [at EXCEPT !.aborted = TRUE]
  <2>1. Become(w, l, x)
    BY <1>5 DEF WatchdogFires, at
  <2>2. AttemptFits(x) /\ Flying(x) /\ x.part = at.part
    <3>1. x \in Attempts /\ x.got = at.got /\ x.part = at.part /\ x.phase = at.phase
      BY <1>1 DEF Attempts
    <3> HIDE DEF x
    <3> QED BY <1>1, <1>2, <3>1 DEF AttemptFits, Flying
  <2> HIDE DEF x
  <2> QED BY <1>2, <2>1, <2>2, LaneMoves DEF at
<1>6. CASE AttemptThrows(w, l) /\ Retries(at)
  <2> DEFINE x == NextTry(at)
  <2>1. Become(w, l, x) /\ at.tryNo < MaxPartRetries
    BY <1>6 DEF AttemptThrows, Retries, at
  <2>2. x = [phase |-> "request", part |-> at.part, tryNo |-> at.tryNo + 1, got |-> 0,
             aborted |-> FALSE]
    BY DEF NextTry, Attempt
  <2>3. at.tryNo + 1 \in 0 .. MaxPartRetries /\ 0 \in 0 .. Chunks
    BY <1>1, <2>1, RetriesAssumption DEF Attempts
  <2> HIDE DEF x
  <2>4. /\ x \in Attempts /\ x.part = at.part /\ x.phase = "request" /\ x.got = 0
    BY <1>1, <2>2, <2>3 DEF Attempts, LanePhases
  <2>5. AttemptFits(x) /\ Flying(x)
    BY <1>1, <1>2, <2>4 DEF AttemptFits, Flying
  <2> QED BY <1>2, <2>1, <2>4, <2>5, LaneMoves DEF at
<1> QED
  BY <1>3, <1>4, <1>5, <1>6 DEF at

-----------------------------------------------------------------------------
(* A part is complete.                                                       *)

LEMMA FinishedKeepsInv ==
  ASSUME SliceInv, NEW w \in Workers, NEW l \in Lanes(w), Flying(lane[w][l]),
         Finished(w, l), NEW p, p = lane[w][l].part,
         UNCHANGED <<outbox, pool, deliveryMode, starting, dead, mainVars>>
  PROVE  SliceInv'
<1>1. /\ SliceTypes /\ WorkerFits(w) /\ pool \in Pools /\ cursor[w] \in 0 .. SliceLength(w)
      /\ SliceLength(w) \in Nat /\ AttemptFits(lane[w][l]) /\ lane[w] \in [Lanes(w) -> Attempts]
  BY SliceInside DEF SliceInv, SliceTypes, WorkerFits, LanesFit
<1>2. p # 0 /\ p \in Taken(w) /\ Taken(w) \subseteq AllParts
  BY <1>1, TakenSize DEF WorkerFits, LanesFit, AttemptFits
<1>3. state[w] \in {"running", "failed"}
  <2>1. state[w] \in WorkerStates /\ lane[w][l].phase \notin {"new", "over", "threw"}
    BY <1>1 DEF SliceTypes, Flying
  <2> QED BY <1>1, <2>1 DEF WorkerStates, WorkerFits, StateFits
<1> DEFINE c == cursor[w]
           next == SlicePart(w, cursor[w] + 1)
           x == IF HasNext(w) THEN Attempt(next, 0) ELSE Idle("over")
<1>4. /\ partsDone' = [partsDone EXCEPT ![w] = @ + 1]
      /\ cursor' = IF HasNext(w) THEN [cursor EXCEPT ![w] = @ + 1] ELSE cursor
      /\ Become(w, l, x)
      /\ HasNext(w) => state' = state
      /\ ~HasNext(w) =>
           state' = [state EXCEPT ![w] = IF \A h \in Lanes(w) : lane'[w][h].phase = "over"
                                         THEN "profiling" ELSE @]
  BY DEF Finished, Advanced
<1>5. HasNext(w) => c + 1 \in 1 .. SliceLength(w)
  BY <1>1 DEF HasNext
<1>6. ~HasNext(w) => c = SliceLength(w)
  BY <1>1 DEF HasNext
<1>7. HasNext(w) => next \in AllParts /\ next \notin Taken(w) /\ next # 0
  <2> SUFFICES ASSUME HasNext(w) PROVE next \in AllParts /\ next \notin Taken(w) /\ next # 0
    OBVIOUS
  <2>1. next \in AllParts
    BY <1>1, <1>5, SliceInside
  <2>2. ASSUME next \in Taken(w) PROVE FALSE
    <3>1. PICK i \in 1 .. c : SlicePart(w, i) = next
      BY <2>2 DEF Taken
    <3>2. i \in Nat /\ c + 1 \in Nat /\ i # c + 1
      BY <1>1
    <3> QED BY <1>1, <3>1, <3>2, SlicesApart
  <2> QED BY <2>1, <2>2 DEF AllParts
<1>8. /\ x \in Attempts /\ AttemptFits(x)
      /\ x.part = IF HasNext(w) THEN next ELSE 0
      /\ x.phase = IF HasNext(w) THEN "request" ELSE "over"
  <2>1. 0 \in 0 .. Chunks /\ 0 \in 0 .. NParts /\ 0 < Chunks /\ 0 \in 0 .. MaxPartRetries
    BY PartsAssumption, RetriesAssumption
  <2>2. CASE HasNext(w)
    <3>1. x = [phase |-> "request", part |-> next, tryNo |-> 0, got |-> 0, aborted |-> FALSE]
      BY <2>2 DEF Attempt
    <3>2. next \in 0 .. NParts
      BY <1>7, <2>2 DEF AllParts
    <3> HIDE DEF next, x
    <3> QED BY <1>7, <2>1, <2>2, <3>1, <3>2 DEF AttemptFits, Attempts, Flying, LanePhases
  <2>3. CASE ~HasNext(w)
    <3>1. x = [phase |-> "over", part |-> 0, tryNo |-> 0, got |-> 0, aborted |-> FALSE]
      BY <2>3 DEF Idle
    <3> HIDE DEF x
    <3> QED BY <2>1, <2>3, <3>1 DEF AttemptFits, Attempts, Flying, LanePhases
  <2> QED BY <2>2, <2>3
<1> HIDE DEF next, x
<1>9. /\ DOMAIN lane' = Workers /\ lane' = [v \in Workers |-> lane'[v]]
      /\ lane'[w] = [lane[w] EXCEPT ![l] = x] /\ lane'[w][l] = x
      /\ \A m \in Lanes(w) \ {l} : lane'[w][m] = lane[w][m]
      /\ \A v \in Workers \ {w} : lane'[v] = lane[v]
  BY <1>4, LaneShape
<1>10. /\ Workers' = Workers /\ Lanes(w)' = Lanes(w) /\ SliceLength(w)' = SliceLength(w)
       /\ \A i : SlicePart(w, i)' = SlicePart(w, i)
  BY SettingsKept
<1>11. /\ cursor' \in [Workers -> Nat] /\ cursor'[w] \in 0 .. SliceLength(w)
       /\ cursor'[w] = IF HasNext(w) THEN c + 1 ELSE c
       /\ \A v \in Workers \ {w} : cursor'[v] = cursor[v]
  BY <1>1, <1>4, <1>5 DEF SliceTypes
<1>12. Taken(w)' = Taken(w) \cup (IF HasNext(w) THEN {next} ELSE {})
  <2>1. Taken(w)' = {SlicePart(w, i) : i \in 1 .. cursor'[w]}
    BY <1>10 DEF Taken
  <2>2. CASE HasNext(w)
    <3>1. cursor'[w] = c + 1 /\ c \in Nat
      BY <1>1, <1>11, <2>2
    <3>2. \A i : i \in 1 .. c + 1 <=> i \in 1 .. c \/ i = c + 1
      BY <3>1
    <3> QED BY <2>1, <2>2, <3>1, <3>2 DEF Taken, next
  <2>3. CASE ~HasNext(w)
    BY <1>11, <2>1, <2>3 DEF Taken
  <2> QED BY <2>2, <2>3
<1>13. /\ partsDone' \in [Workers -> Nat] /\ partsDone'[w] = partsDone[w] + 1
       /\ \A v \in Workers \ {w} : partsDone'[v] = partsDone[v]
  BY <1>1, <1>4 DEF SliceTypes
<1>14. /\ state' \in [Workers -> WorkerStates]
       /\ state'[w] # state[w] => /\ state'[w] = "profiling" /\ state[w] = "running"
                                  /\ \A h \in Lanes(w) : lane'[w][h].phase = "over"
       /\ \A v \in Workers \ {w} : state'[v] = state[v]
  <2>1. state \in [Workers -> WorkerStates] /\ "profiling" \in WorkerStates
    BY <1>1 DEF SliceTypes, WorkerStates
  <2>2. /\ state' \in [Workers -> WorkerStates] /\ \A v \in Workers \ {w} : state'[v] = state[v]
        /\ state'[w] # state[w] => /\ state'[w] = "profiling"
                                   /\ \A h \in Lanes(w) : lane'[w][h].phase = "over"
    BY <1>4, <2>1
  <2>3. state[w] = "failed" => ~ \A h \in Lanes(w) : lane'[w][h].phase = "over"
    <3> SUFFICES ASSUME state[w] = "failed" PROVE \E h \in Lanes(w) : lane'[w][h].phase = "threw"
      OBVIOUS
    <3>1. PICK h \in Lanes(w) : lane[w][h].phase = "threw"
      BY <1>1 DEF WorkerFits, StateFits
    <3>2. h # l
      BY <3>1 DEF Flying
    <3> QED BY <1>9, <3>1, <3>2
  <2> QED BY <1>3, <2>2, <2>3
<1>15. SliceTypes'
  BY <1>1, <1>9, <1>10, <1>11, <1>13, <1>14 DEF SliceTypes, mainVars
<1>16. \A m \in Lanes(w) : m # l =>
         /\ lane'[w][m] = lane[w][m] /\ AttemptFits(lane[w][m]) /\ lane[w][m] \in Attempts
         /\ lane[w][m].part # p
         /\ lane[w][m].part # 0 => lane[w][m].part \in Taken(w)
  BY <1>1, <1>2, <1>9 DEF WorkerFits, LanesFit, AttemptFits
<1>17. LanesFit(w)'
  <2>1. lane'[w] \in [Lanes(w) -> Attempts]
    BY <1>1, <1>8, <1>9
  <2>2. ASSUME NEW m \in Lanes(w)
        PROVE  /\ AttemptFits(lane[w][m])'
               /\ lane'[w][m].part # 0 => lane'[w][m].part \in Taken(w)'
               /\ lane'[w][m].phase = "over" => cursor'[w] = SliceLength(w)
    <3>1. CASE m = l
      <4>1. lane'[w][m] = x
        BY <1>9, <3>1
      <4>2. AttemptFits(lane[w][m])'
        BY <1>8, <4>1 DEF AttemptFits, Flying
      <4> QED BY <1>6, <1>8, <1>11, <1>12, <4>1, <4>2
    <3>2. CASE m # l
      <4>1. lane'[w][m] = lane[w][m] /\ AttemptFits(lane[w][m])
        BY <1>16, <3>2
      <4>2. AttemptFits(lane[w][m])'
        BY <4>1 DEF AttemptFits, Flying
      <4>3. lane[w][m].phase = "over" => c = SliceLength(w)
        BY <1>1 DEF WorkerFits, LanesFit
      <4>4. c = SliceLength(w) => ~HasNext(w)
        BY <1>1 DEF HasNext
      <4> QED BY <1>11, <1>12, <1>16, <3>2, <4>1, <4>2, <4>3, <4>4
    <3> QED BY <3>1, <3>2
  <2>3. ASSUME NEW m \in Lanes(w), NEW h \in Lanes(w), lane'[w][h].part = lane'[w][m].part,
               lane'[w][m].part # 0, m # h
        PROVE  FALSE
    <3>1. CASE m # l /\ h # l
      BY <1>1, <1>9, <2>3, <3>1 DEF WorkerFits, LanesFit
    <3>2. CASE m = l \/ h = l
      <4>1. PICK g \in Lanes(w) : g # l /\ lane'[w][g].part = x.part /\ x.part # 0
        BY <1>9, <2>3, <3>2
      <4>2. x.part = next /\ HasNext(w)
        BY <1>8, <4>1
      <4>3. lane[w][g].part \in Taken(w)
        BY <1>16, <4>1
      <4> QED BY <1>7, <1>16, <4>1, <4>2, <4>3
    <3> QED BY <3>1, <3>2
  <2> QED BY <1>10, <1>11, <2>1, <2>2, <2>3 DEF LanesFit
<1>18. StateFits(w)'
  <2>1. \A h \in Lanes(w) : h = l \/ lane'[w][h].phase = lane[w][h].phase
    BY <1>9
  <2>2. lane'[w][l].phase \in {"request", "over"} /\ lane[w][l].phase \notin {"new", "over", "threw"}
    BY <1>8, <1>9 DEF Flying
  <2>3. state'[w] \in {"running", "failed", "profiling"} /\ w \notin starting
    BY <1>1, <1>3, <1>14 DEF WorkerFits, StateFits
  <2>4. state'[w] = "profiling" => \A h \in Lanes(w) : lane'[w][h].phase = "over"
    BY <1>3, <1>14
  <2>5. state'[w] = "running" => state[w] = "running"
    BY <1>14
  <2>6. state'[w] = "failed" => state[w] = "failed"
    BY <1>14
  <2> QED BY <1>1, <1>10, <2>1, <2>2, <2>3, <2>4, <2>5, <2>6 DEF WorkerFits, StateFits
<1>19. Fetched(w)' = Fetched(w) \cup {p} /\ p \notin Fetched(w)
  <2>1. Fetched(w)' = {q \in Taken(w)' : \A m \in Lanes(w) : lane'[w][m].part # q}
    BY <1>10 DEF Fetched
  <2>2. p \notin Fetched(w)
    BY DEF Fetched
  <2>3. p \in Fetched(w)'
    <3>1. x.part # p
      BY <1>2, <1>7, <1>8
    <3> QED BY <1>2, <1>9, <1>12, <1>16, <2>1, <3>1
  <2>4. ASSUME NEW q, q # p
        PROVE  q \in Fetched(w)' <=> q \in Fetched(w)
    <3>1. ASSUME q \in Fetched(w)'
          PROVE  q \in Fetched(w)
      <4>1. HasNext(w) => q # next
        BY <1>8, <1>9, <2>1, <3>1
      <4>2. q \in Taken(w)
        BY <1>12, <2>1, <3>1, <4>1
      <4>3. \A m \in Lanes(w) : lane[w][m].part # q
        BY <1>9, <2>1, <2>4, <3>1
      <4> QED BY <4>2, <4>3 DEF Fetched
    <3>2. ASSUME q \in Fetched(w)
          PROVE  q \in Fetched(w)'
      <4>1. q \in Taken(w) /\ q # 0 /\ \A m \in Lanes(w) : lane[w][m].part # q
        BY <1>2, <3>2 DEF Fetched, AllParts
      <4>2. x.part # q
        BY <1>7, <1>8, <4>1
      <4> QED BY <1>9, <1>12, <2>1, <4>1, <4>2
    <3> QED BY <3>1, <3>2
  <2> QED BY <2>2, <2>3, <2>4
<1>20. DoneFits(w)'
  <2>1. IsFiniteSet(Fetched(w))
    <3>1. Fetched(w) \in SUBSET Taken(w)
      BY DEF Fetched
    <3> QED BY <1>1, <3>1, TakenSize, FS_Subset
  <2>2. Cardinality(Fetched(w) \cup {p}) = Cardinality(Fetched(w)) + 1
    BY <1>19, <2>1, FS_AddElement
  <2>3. Cardinality(Fetched(w)) \in Nat
    BY <2>1, FS_CardinalityType
  <2>4. /\ partsDone[w] \in Nat /\ partsDone[w] <= Cardinality(Fetched(w))
        /\ state[w] # "failed" => partsDone[w] = Cardinality(Fetched(w))
    BY <1>1 DEF WorkerFits, DoneFits
  <2>5. state'[w] # "failed" => state[w] # "failed"
    BY <1>14
  <2>6. Cardinality(Fetched(w)') = Cardinality(Fetched(w)) + 1
    BY <1>19, <2>2
  <2> HIDE DEF c
  <2>7. /\ partsDone'[w] \in Nat /\ partsDone'[w] <= Cardinality(Fetched(w)) + 1
        /\ state'[w] # "failed" => partsDone'[w] = Cardinality(Fetched(w)) + 1
    BY <1>13, <2>3, <2>4, <2>5
  <2> QED BY <2>6, <2>7 DEF DoneFits
<1>22. WorkerFits(w)'
  BY <1>17, <1>18, <1>20 DEF WorkerFits
<1>23. \A v \in Workers : WorkerFits(v)'
  BY <1>9, <1>11, <1>13, <1>14, <1>22, OneWorkerMoves
<1>24. ReadyFits'
  <2>1. ReadyFits /\ readyCount' = readyCount
    BY DEF SliceInv, mainVars
  <2>2. ~(readyCount < Active)
    BY <1>3, <2>1 DEF ReadyFits
  <2>3. \A v \in Workers : state'[v] = "loading" <=> state[v] = "loading"
    BY <1>3, <1>14
  <2> QED BY <2>1, <2>2, <2>3, ReadyKept
<1>25. DoneBooks'
  <2>1. DoneBooks /\ UNCHANGED <<doneCount, results, outcome>>
    BY DEF SliceInv, mainVars
  <2>2. \A v \in Workers : /\ state'[v] = "done" <=> state[v] = "done"
                           /\ state[v] = "done" => partsDone'[v] = partsDone[v]
    BY <1>3, <1>13, <1>14
  <2> QED BY <2>1, <2>2, DoneKept
<1> QED
  BY <1>10, <1>15, <1>23, <1>24, <1>25 DEF SliceInv

LEMMA PartEndsKeepsInv ==
  ASSUME SliceInv, NEW w \in Workers, NEW l \in Lanes(w), BodyEnds(w, l)
  PROVE  SliceInv'
<1>1. /\ Flying(lane[w][l]) /\ Finished(w, l)
      /\ UNCHANGED <<outbox, pool, deliveryMode, starting, dead, mainVars>>
  BY DEF BodyEnds, At, Flying, settings
<1> QED
  BY <1>1, FinishedKeepsInv

-----------------------------------------------------------------------------
(* A lane throws for good.                                                   *)
LEMMA ThrowKeepsInv ==
  ASSUME SliceInv, NEW w \in Workers, NEW l \in Lanes(w), AttemptThrows(w, l),
         ~Retries(lane[w][l])
  PROVE  SliceInv'
<1> DEFINE x == Idle("threw")
<1>1. /\ SliceTypes /\ WorkerFits(w) /\ pool \in Pools /\ cursor[w] \in 0 .. SliceLength(w)
      /\ AttemptFits(lane[w][l]) /\ lane[w] \in [Lanes(w) -> Attempts]
  BY DEF SliceInv, SliceTypes, WorkerFits, LanesFit
<1>2. /\ Flying(lane[w][l]) /\ Become(w, l, x)
      /\ IF state[w] = "failed" THEN UNCHANGED <<state, outbox>>
         ELSE state' = [state EXCEPT ![w] = "failed"] /\ Post(w, <<"error">>)
      /\ UNCHANGED <<pool, deliveryMode, starting, cursor, partsDone, dead, mainVars>>
  BY DEF AttemptThrows, At, Flying, settings
<1>3. state[w] \in {"running", "failed"}
  <2>1. state[w] \in WorkerStates /\ lane[w][l].phase \notin {"new", "over", "threw"}
    BY <1>1, <1>2 DEF SliceTypes, Flying
  <2> QED BY <1>1, <2>1 DEF WorkerStates, WorkerFits, StateFits
<1>4. x.phase = "threw" /\ x.part = 0 /\ x \in Attempts /\ AttemptFits(x)
  <2>1. x = [phase |-> "threw", part |-> 0, tryNo |-> 0, got |-> 0, aborted |-> FALSE]
    BY DEF Idle
  <2>2. 0 \in 0 .. Chunks /\ 0 \in 0 .. NParts /\ 0 \in 0 .. MaxPartRetries
    BY PartsAssumption, RetriesAssumption
  <2> HIDE DEF x
  <2> QED BY <2>1, <2>2 DEF AttemptFits, Attempts, Flying, LanePhases
<1> HIDE DEF x
<1>5. /\ DOMAIN lane' = Workers /\ lane' = [v \in Workers |-> lane'[v]]
      /\ lane'[w] = [lane[w] EXCEPT ![l] = x] /\ lane'[w][l] = x
      /\ \A m \in Lanes(w) \ {l} : lane'[w][m] = lane[w][m]
      /\ \A v \in Workers \ {w} : lane'[v] = lane[v]
  BY <1>2, LaneShape
<1>6. /\ Workers' = Workers /\ Lanes(w)' = Lanes(w) /\ SliceLength(w)' = SliceLength(w)
      /\ Taken(w)' = Taken(w)
  BY <1>2, SettingsKept, TakenKept
<1>7. /\ state' \in [Workers -> WorkerStates] /\ state'[w] = "failed"
      /\ \A v \in Workers \ {w} : state'[v] = state[v]
  BY <1>1, <1>2 DEF SliceTypes, WorkerStates
<1>8. /\ outbox' \in [Workers -> Seq(Messages)]
      /\ \A type \in {"ready", "done"} :
           \A v \in Workers : /\ Holds(outbox'[v], type) <=> Holds(outbox[v], type)
                              /\ Single(outbox[v], type) => Single(outbox'[v], type)
                              /\ Sent(outbox'[v], type) = Sent(outbox[v], type)
  <2>1. CASE state[w] = "failed"
    BY <1>1, <1>2, <2>1 DEF SliceTypes
  <2>2. CASE state[w] # "failed"
    <3>1. Post(w, <<"error">>) /\ <<"error">> \in Messages /\ <<"error">>[1] = "error"
      BY <1>2, <2>2 DEF Messages
    <3> QED BY <1>1, <3>1, PostKeeps
  <2> QED BY <2>1, <2>2
<1>9. SliceTypes'
  BY <1>1, <1>2, <1>5, <1>6, <1>7, <1>8 DEF SliceTypes, mainVars
<1>10. LanesFit(w)'
  <2>1. lane'[w] \in [Lanes(w) -> Attempts]
    BY <1>1, <1>4, <1>5
  <2>2. \A m \in Lanes(w) : AttemptFits(lane[w][m])'
    BY <1>1, <1>4, <1>5 DEF WorkerFits, LanesFit, AttemptFits, Flying
  <2>3. \A m \in Lanes(w) : lane'[w][m].part # 0 \/ lane'[w][m].phase = "over" =>
          m # l /\ lane'[w][m] = lane[w][m]
    BY <1>4, <1>5
  <2> QED BY <1>1, <1>2, <1>6, <2>1, <2>2, <2>3 DEF WorkerFits, LanesFit
<1>11. StateFits(w)'
  <2>1. \A m \in Lanes(w) : lane'[w][m].phase # "new"
    BY <1>1, <1>3, <1>4, <1>5 DEF WorkerFits, StateFits
  <2>2. lane'[w][l].phase = "threw" /\ w \notin starting
    BY <1>1, <1>3, <1>4, <1>5 DEF WorkerFits, StateFits
  <2> QED BY <1>2, <1>6, <1>7, <2>1, <2>2 DEF StateFits
<1>12. DoneFits(w)'
  <2>1. Fetched(w) \in SUBSET (Fetched(w)') /\ Fetched(w)' \in SUBSET Taken(w)
    <3>1. \A q \in Taken(w) : q # 0
      BY <1>1, TakenSize DEF AllParts
    <3> QED BY <1>4, <1>5, <1>6, <3>1 DEF Fetched
  <2>2. IsFiniteSet(Fetched(w)')
    BY <1>1, <2>1, TakenSize, FS_Subset
  <2>3. /\ Cardinality(Fetched(w)) <= Cardinality(Fetched(w)')
        /\ Cardinality(Fetched(w)') \in Nat /\ Cardinality(Fetched(w)) \in Nat
    BY <2>1, <2>2, FS_Subset, FS_CardinalityType
  <2>4. /\ partsDone'[w] = partsDone[w] /\ partsDone[w] \in Nat
        /\ partsDone[w] <= Cardinality(Fetched(w))
    BY <1>1, <1>2 DEF WorkerFits, DoneFits
  <2>5. partsDone'[w] <= Cardinality(Fetched(w)') /\ partsDone'[w] \in Nat
    BY <2>3, <2>4
  <2> QED BY <1>7, <2>5 DEF DoneFits
<1>13. WorkerFits(w)'
  BY <1>7, <1>10, <1>11, <1>12 DEF WorkerFits
<1>14. \A v \in Workers : WorkerFits(v)'
  BY <1>2, <1>5, <1>7, <1>13, OneWorkerMoves
<1>15. ReadyFits'
  <2>1. ReadyFits /\ readyCount' = readyCount
    BY <1>2 DEF SliceInv, mainVars
  <2>2. ~(readyCount < Active)
    BY <1>3, <2>1 DEF ReadyFits
  <2>3. \A v \in Workers : state'[v] = "loading" <=> state[v] = "loading"
    BY <1>3, <1>7
  <2> QED BY <1>2, <1>8, <2>1, <2>2, <2>3, ReadyKept
<1>16. DoneBooks'
  <2>1. DoneBooks /\ UNCHANGED <<doneCount, results, outcome>>
    BY <1>2 DEF SliceInv, mainVars
  <2>2. \A v \in Workers : state'[v] = "done" <=> state[v] = "done"
    BY <1>3, <1>7
  <2> QED BY <1>2, <1>8, <2>1, <2>2, DoneKept
<1> QED
  BY <1>6, <1>9, <1>14, <1>15, <1>16 DEF SliceInv

-----------------------------------------------------------------------------
(* The messages of a worker.                                                 *)

(* 'ready' is posted, or the result.                                         *)
LEMMA WorkerPostsKeepsInv ==
  ASSUME SliceInv, NEW w \in Workers, WorkerReady(w) \/ PostDone(w)
  PROVE  SliceInv'
<1>1. /\ SliceTypes /\ WorkerFits(w) /\ ReadyFits /\ DoneBooks
      /\ UNCHANGED <<pool, deliveryMode, starting, cursor, lane, partsDone, dead,
                     readyCount, doneCount, results, outcome>>
  BY DEF SliceInv, WorkerReady, PostDone, settings, mainVars
<1>2. PICK now \in WorkerStates, m \in Messages :
        /\ state' = [state EXCEPT ![w] = now] /\ Post(w, m)
        /\ \/ state[w] = "loading" /\ now = "ready" /\ m[1] = "ready"
           \/ state[w] = "profiling" /\ now = "done" /\ m[1] = "done" /\ m[2] = partsDone[w]
  <2>1. CASE WorkerReady(w)
    <3>1. "ready" \in WorkerStates /\ <<"ready">> \in Messages /\ <<"ready">>[1] = "ready"
      BY DEF WorkerStates, Messages
    <3> QED BY <2>1, <3>1 DEF WorkerReady
  <2>2. CASE PostDone(w)
    <3> DEFINE m == <<"done", partsDone[w]>>
    <3>1. partsDone[w] \in Nat
      BY <1>1 DEF SliceTypes
    <3>2. "done" \in WorkerStates /\ m \in Messages /\ m[1] = "done" /\ m[2] = partsDone[w]
      BY <3>1 DEF WorkerStates, Messages
    <3> QED BY <2>2, <3>2 DEF PostDone
  <2> QED BY <2>1, <2>2
<1>3. /\ outbox' \in [Workers -> Seq(Messages)] /\ outbox'[w] = Append(outbox[w], m)
      /\ \A v \in Workers \ {w} : outbox'[v] = outbox[v]
      /\ \A type : m[1] # type =>
           \A v \in Workers : /\ Holds(outbox'[v], type) <=> Holds(outbox[v], type)
                              /\ Single(outbox[v], type) => Single(outbox'[v], type)
                              /\ Sent(outbox'[v], type) = Sent(outbox[v], type)
  BY <1>1, <1>2, PostKeeps
<1>4. /\ state' \in [Workers -> WorkerStates] /\ state'[w] = now
      /\ \A v \in Workers \ {w} : state'[v] = state[v]
  BY <1>1, <1>2 DEF SliceTypes
<1>5. Workers' = Workers /\ Active' = Active /\ Lanes(w)' = Lanes(w) /\ Taken(w)' = Taken(w)
      /\ SliceLength(w)' = SliceLength(w)
  BY <1>1, SettingsKept, TakenKept
<1>6. SliceTypes'
  BY <1>1, <1>3, <1>4, <1>5 DEF SliceTypes
<1>7. WorkerFits(w)'
  <2>1. Fetched(w)' = Fetched(w)
    BY <1>1, <1>5 DEF Fetched
  <2>2. now \in {"ready", "done"} /\ state[w] # "failed"
    BY <1>2
  <2>3. LanesFit(w)'
    BY <1>1, <1>5 DEF WorkerFits, LanesFit, AttemptFits
  <2>4. StateFits(w)'
    BY <1>1, <1>2, <1>4, <1>5 DEF WorkerFits, StateFits
  <2>5. DoneFits(w)'
    BY <1>1, <1>4, <2>1, <2>2 DEF WorkerFits, DoneFits
  <2> QED BY <2>3, <2>4, <2>5 DEF WorkerFits
<1>8. \A v \in Workers : WorkerFits(v)'
  BY <1>1, <1>4, <1>7, OneWorkerMoves
<1>9. /\ outbox[w] \in Seq(Messages)
      /\ ~Holds(outbox[w], m[1]) => Holds(outbox'[w], m[1]) /\ Single(outbox'[w], m[1])
      /\ Sent(outbox'[w], m[1]) = Sent(outbox[w], m[1]) \cup {m[2]}
      /\ Holds(outbox'[w], m[1])
  <2> DEFINE q == outbox[w]
             type == m[1]
  <2>1. q \in Seq(Messages)
    BY <1>1 DEF SliceTypes
  <2> HIDE DEF q
  <2>2. /\ Sent(Append(q, m), type) = Sent(q, type) \cup {m[2]}
        /\ Holds(Append(q, m), type)
        /\ ~Holds(q, type) => Single(Append(q, m), type)
    BY <2>1, AppendQueue
  <2> QED BY <1>3, <2>1, <2>2 DEF q
<1>10. CASE now = "ready"
  <2>1. state[w] = "loading" /\ m[1] = "ready"
    BY <1>2, <1>10
  <2>2. ~Holds(outbox[w], "ready")
    BY <1>1, <2>1 DEF ReadyFits
  <2>3. Holds(outbox'[w], "ready") /\ Single(outbox'[w], "ready")
    BY <1>9, <2>1, <2>2
  <2>4. Loaded' = Loaded
    BY <1>3, <1>4, <1>5, <2>1, <2>3 DEF Loaded
  <2>5. ReadyFits'
    BY <1>1, <1>3, <1>4, <1>5, <1>10, <2>3, <2>4 DEF ReadyFits
  <2>6. DoneBooks'
    <3>1. \A v \in Workers : state'[v] = "done" <=> state[v] = "done"
      BY <1>4, <1>10, <2>1
    <3> QED BY <1>1, <1>3, <2>1, <3>1, DoneKept
  <2> QED BY <1>5, <1>6, <1>8, <2>5, <2>6 DEF SliceInv
<1>11. CASE now = "done"
  <2>1. state[w] = "profiling" /\ m[1] = "done" /\ m[2] = partsDone[w]
    BY <1>2, <1>11
  <2>2. ReadyFits'
    <3>1. ~(readyCount < Active)
      BY <1>1, <2>1 DEF ReadyFits
    <3>2. \A v \in Workers : state'[v] = "loading" <=> state[v] = "loading"
      BY <1>4, <1>11, <2>1
    <3> QED BY <1>1, <1>3, <2>1, <3>1, <3>2, ReadyKept
  <2>3. ~Holds(outbox[w], "done")
    BY <1>1, <2>1 DEF DoneBooks
  <2>4. Sent(outbox[w], "done") = {}
    BY <2>3 DEF Holds, Sent
  <2>5. /\ Holds(outbox'[w], "done") /\ Single(outbox'[w], "done")
        /\ Sent(outbox'[w], "done") = {partsDone[w]}
    BY <1>9, <2>1, <2>3, <2>4
  <2>6. Reported' = Reported
    BY <1>3, <1>4, <1>5, <2>1, <2>5 DEF Reported
  <2>7. ReportedParts' = ReportedParts
    BY <1>1, <2>6, SettingsKept DEF ReportedParts
  <2>8. DoneBooks'
    BY <1>1, <1>3, <1>4, <1>5, <1>11, <2>5, <2>6, <2>7 DEF DoneBooks
  <2> QED BY <1>5, <1>6, <1>8, <2>2, <2>8 DEF SliceInv
<1> QED
  BY <1>2, <1>10, <1>11

LEMMA DiesKeepsInv ==
  ASSUME SliceInv, NEW w \in Workers, Dies(w)
  PROVE  SliceInv'
<1>1. /\ SliceTypes /\ ReadyFits /\ DoneBooks /\ Post(w, <<"exit">>) /\ dead' = dead \cup {w}
      /\ UNCHANGED <<pool, deliveryMode, starting, state, cursor, lane, partsDone,
                     readyCount, doneCount, results, outcome>>
  BY DEF SliceInv, Dies, workerVars, settings, mainVars
<1>2. <<"exit">> \in Messages /\ <<"exit">>[1] = "exit"
  BY DEF Messages
<1>3. /\ outbox' \in [Workers -> Seq(Messages)]
      /\ \A type \in {"ready", "done"} :
           \A v \in Workers : /\ Holds(outbox'[v], type) <=> Holds(outbox[v], type)
                              /\ Single(outbox[v], type) => Single(outbox'[v], type)
                              /\ Sent(outbox'[v], type) = Sent(outbox[v], type)
  BY <1>1, <1>2, PostKeeps
<1>4. Workers' = Workers
  BY <1>1, SettingsKept
<1>5. SliceTypes'
  BY <1>1, <1>3, <1>4 DEF SliceTypes
<1>6. \A v \in Workers : WorkerFits(v)'
  BY <1>1, StillFits DEF SliceInv
<1>7. ReadyFits' /\ DoneBooks'
  <2>1. readyCount < Active => starting' = {}
    BY <1>1 DEF ReadyFits
  <2> QED BY <1>1, <1>3, <2>1, ReadyKept, DoneKept
<1> QED
  BY <1>4, <1>5, <1>6, <1>7 DEF SliceInv

(* The lanes of a slice start, each with a part.                             *)
LEMMA StartKeepsInv ==
  ASSUME SliceInv, NEW w \in Workers, Start(w)
  PROVE  SliceInv'
<1>1. /\ SliceTypes /\ WorkerFits(w) /\ ReadyFits /\ DoneBooks /\ pool \in Pools
      /\ w \in starting /\ starting' = starting \ {w}
      /\ state' = [state EXCEPT ![w] = "running"]
      /\ cursor' = [cursor EXCEPT ![w] = Cardinality(Lanes(w))]
      /\ lane' = [lane EXCEPT ![w] = [l \in Lanes(w) |-> Attempt(SlicePart(w, l), 0)]]
      /\ UNCHANGED <<pool, deliveryMode, outbox, partsDone, dead,
                     readyCount, doneCount, results, outcome>>
  BY DEF SliceInv, SliceTypes, Start, settings, mainVars
<1>2. state[w] = "ready" /\ partsDone[w] = 0
  BY <1>1 DEF WorkerFits, StateFits
<1>3. PICK n \in Nat : /\ n = Cardinality(Lanes(w)) /\ n <= SliceLength(w) /\ Lanes(w) = 1 .. n
                       /\ SliceLength(w) \in Nat
  BY <1>1, LaneCount, SliceInside
<1>4. /\ state' \in [Workers -> WorkerStates] /\ state'[w] = "running"
      /\ \A v \in Workers \ {w} : state'[v] = state[v]
  BY <1>1 DEF SliceTypes, WorkerStates
<1>5. /\ cursor' \in [Workers -> Nat] /\ cursor'[w] = n
      /\ \A v \in Workers \ {w} : cursor'[v] = cursor[v]
  BY <1>1, <1>3 DEF SliceTypes
<1>6. /\ DOMAIN lane' = Workers /\ lane' = [v \in Workers |-> lane'[v]]
      /\ lane'[w] = [l \in Lanes(w) |-> Attempt(SlicePart(w, l), 0)]
      /\ \A v \in Workers \ {w} : lane'[v] = lane[v]
  BY <1>1 DEF SliceTypes
<1>7. /\ Workers' = Workers /\ Active' = Active /\ Lanes(w)' = Lanes(w)
      /\ SliceLength(w)' = SliceLength(w) /\ \A i : SlicePart(w, i)' = SlicePart(w, i)
  BY <1>1, SettingsKept
<1>8. SliceTypes'
  BY <1>1, <1>4, <1>5, <1>6, <1>7 DEF SliceTypes
<1>9. Taken(w)' = {SlicePart(w, i) : i \in Lanes(w)}
  BY <1>3, <1>5, <1>7 DEF Taken
<1>10. ASSUME NEW l \in Lanes(w)
       PROVE  /\ AttemptFits(lane'[w][l]) /\ lane'[w][l].phase = "request"
              /\ lane'[w][l].part = SlicePart(w, l) /\ SlicePart(w, l) # 0
  <2> DEFINE p == SlicePart(w, l)
             x == Attempt(p, 0)
  <2>1. p \in AllParts
    <3>1. \A i \in 1 .. n : i \in 1 .. SliceLength(w)
      <4>1. n \in Nat /\ n <= SliceLength(w) /\ SliceLength(w) \in Nat
        BY <1>3
      <4> QED BY <4>1
    <3>2. l \in 1 .. SliceLength(w)
      BY <1>3, <3>1
    <3> QED BY <1>1, <3>2, SliceInside
  <2>2. p \in 0 .. NParts /\ p # 0 /\ 0 < Chunks /\ 0 \in 0 .. Chunks /\ 0 \in 0 .. MaxPartRetries
    BY <2>1, PartsAssumption, RetriesAssumption DEF AllParts
  <2> HIDE DEF p
  <2>3. x = [phase |-> "request", part |-> p, tryNo |-> 0, got |-> 0, aborted |-> FALSE]
    BY DEF Attempt
  <2> HIDE DEF x
  <2>4. x \in Attempts /\ x.phase = "request" /\ x.part = p /\ x.got = 0
    BY <2>2, <2>3 DEF Attempts, LanePhases
  <2>5. AttemptFits(x)
    BY <2>2, <2>4 DEF AttemptFits, Flying
  <2>6. lane'[w][l] = x
    BY <1>6 DEF x, p
  <2> QED BY <2>2, <2>4, <2>5, <2>6 DEF p
<1>11. LanesFit(w)'
  <2>1. lane'[w] \in [Lanes(w) -> Attempts]
    BY <1>6, <1>10 DEF AttemptFits
  <2>2. cursor'[w] \in 0 .. SliceLength(w)
    <3>1. n \in Nat /\ n <= SliceLength(w) /\ SliceLength(w) \in Nat
      BY <1>3
    <3>2. n \in 0 .. SliceLength(w)
      BY <3>1
    <3> QED BY <1>5, <3>2
  <2>3. \A l \in Lanes(w) : AttemptFits(lane[w][l])'
    BY <1>10 DEF AttemptFits, Flying
  <2>4. \A l, m \in Lanes(w) : lane'[w][m].part = lane'[w][l].part => m = l
    <3>1. \A l \in Lanes(w) : l \in Nat
      BY <1>3
    <3> QED BY <1>1, <1>10, <3>1, SlicesApart
  <2>5. \A l \in Lanes(w) : lane'[w][l].part \in Taken(w)' /\ lane'[w][l].phase # "over"
    BY <1>9, <1>10
  <2> QED BY <1>7, <2>1, <2>2, <2>3, <2>4, <2>5 DEF LanesFit
<1>12. StateFits(w)'
  BY <1>1, <1>4, <1>7, <1>10 DEF StateFits
<1>13. Fetched(w)' = {}
  BY <1>7, <1>9, <1>10 DEF Fetched
<1>14. DoneFits(w)'
  BY <1>1, <1>2, <1>13, FS_EmptySet DEF DoneFits
<1>15. WorkerFits(w)'
  BY <1>11, <1>12, <1>14 DEF WorkerFits
<1>16. \A v \in Workers : WorkerFits(v)'
  BY <1>1, <1>4, <1>5, <1>6, <1>15, OneWorkerMoves
<1>17. ReadyFits'
  <2>1. ~(readyCount < Active)
    BY <1>1 DEF ReadyFits
  <2>2. \A v \in Workers : state'[v] = "loading" <=> state[v] = "loading"
    BY <1>2, <1>4
  <2> QED BY <1>1, <2>1, <2>2, ReadyKept
<1>18. DoneBooks'
  <2>1. \A v \in Workers : state'[v] = "done" <=> state[v] = "done"
    BY <1>2, <1>4
  <2> QED BY <1>1, <2>1, DoneKept
<1> QED
  BY <1>7, <1>8, <1>16, <1>17, <1>18 DEF SliceInv

(* A worker of a run to files goes on waiting.                               *)
LEMMA StartIgnoredKeepsInv ==
  ASSUME SliceInv, NEW w \in Workers, StartIgnored(w)
  PROVE  SliceInv'
<1>1. /\ SliceTypes /\ ReadyFits /\ DoneBooks /\ starting' = starting \ {w}
      /\ UNCHANGED <<pool, deliveryMode, outbox, state, cursor, lane, partsDone, dead,
                     readyCount, doneCount, results, outcome>>
  BY DEF SliceInv, StartIgnored, settings, mainVars
<1>2. Workers' = Workers /\ starting' \subseteq starting
  BY <1>1, SettingsKept
<1>3. SliceTypes'
  BY <1>1, <1>2 DEF SliceTypes
<1>4. \A v \in Workers : WorkerFits(v)'
  BY <1>1, <1>2, StillFits DEF SliceInv
<1>5. ReadyFits' /\ DoneBooks'
  <2>1. readyCount < Active => starting' = {}
    BY <1>1 DEF ReadyFits
  <2> QED BY <1>1, <2>1, ReadyKept, DoneKept
<1> QED
  BY <1>2, <1>3, <1>4, <1>5 DEF SliceInv

-----------------------------------------------------------------------------
(* Main takes a message.                                                     *)

(* The last 'ready' finds all workers ready, and starts them.                *)
LEMMA ReadyTakenKeepsInv ==
  ASSUME SliceInv, NEW w \in Workers, Ready(w)
  PROVE  SliceInv'
<1>1. /\ SliceTypes /\ ReadyFits /\ DoneBooks /\ pool \in Pools
      /\ Receives(w, "ready") /\ Dequeue(w) /\ readyCount' = readyCount + 1
      /\ starting' = IF readyCount' = Active THEN Workers ELSE starting
      /\ UNCHANGED <<pool, deliveryMode, state, cursor, lane, partsDone, dead,
                     doneCount, results, outcome>>
  BY DEF SliceInv, SliceTypes, Ready, settings
<1>2. /\ outbox' \in [Workers -> Seq(Messages)] /\ Holds(outbox[w], "ready")
      /\ ~Holds(outbox'[w], "ready") /\ Single(outbox'[w], "ready")
      /\ \A v \in Workers \ {w} : outbox'[v] = outbox[v]
      /\ \A v \in Workers : /\ Holds(outbox'[v], "done") <=> Holds(outbox[v], "done")
                            /\ Single(outbox[v], "done") => Single(outbox'[v], "done")
                            /\ Sent(outbox'[v], "done") = Sent(outbox[v], "done")
  BY <1>1, DequeueKeeps DEF ReadyFits
<1>3. Workers' = Workers /\ Active' = Active
  BY <1>1, SettingsKept
<1>4. SliceTypes'
  BY <1>1, <1>2, <1>3 DEF SliceTypes
<1>5. state[w] # "loading" /\ w \notin Loaded
  BY <1>1, <1>2 DEF ReadyFits, Loaded
<1>6. Loaded' = Loaded \cup {w}
  BY <1>1, <1>2, <1>3, <1>5 DEF Loaded
<1>7. /\ IsFiniteSet(Workers) /\ Cardinality(Workers) = Active
      /\ Loaded \in SUBSET Workers /\ Loaded' \in SUBSET Workers
  BY <1>1, <1>6, WorkersFinite DEF Loaded
<1>8. IsFiniteSet(Loaded) /\ IsFiniteSet(Loaded')
  BY <1>7, FS_Subset
<1>9. /\ Cardinality(Loaded') = Cardinality(Loaded) + 1 /\ Cardinality(Loaded) \in Nat
      /\ Cardinality(Loaded') <= Active
  BY <1>5, <1>6, <1>7, <1>8, FS_AddElement, FS_Subset, FS_CardinalityType
<1>10. readyCount' = Cardinality(Loaded') /\ readyCount < Active
  BY <1>1, <1>9, PoolShape DEF ReadyFits
<1>11. starting = {} /\ \A v \in Workers : state[v] \in {"loading", "ready"}
  BY <1>1, <1>10 DEF ReadyFits
<1>12. starting' \subseteq Workers /\ (readyCount' < Active => starting' = {})
  BY <1>1, <1>9, <1>10, <1>11, PoolShape
<1>13. \A v \in starting' : v \in Workers /\ state[v] = "ready"
  <2> SUFFICES ASSUME NEW v \in starting' PROVE v \in Workers /\ state[v] = "ready"
    OBVIOUS
  <2>1. readyCount' = Active
    BY <1>1, <1>11
  <2>2. Loaded' = Workers
    BY <1>7, <1>10, <2>1, FS_Subset
  <2>3. v \in Workers /\ v \in Loaded'
    BY <1>12, <2>2
  <2> QED BY <1>1, <1>3, <1>11, <2>3 DEF Loaded
<1>14. ASSUME NEW v \in Workers
       PROVE  WorkerFits(v)'
  <2>1. WorkerFits(v) /\ Lanes(v)' = Lanes(v) /\ SliceLength(v)' = SliceLength(v)
        /\ Taken(v)' = Taken(v)
    BY <1>1, SettingsKept, TakenKept DEF SliceInv
  <2>2. Fetched(v)' = Fetched(v)
    BY <1>1, <2>1 DEF Fetched
  <2>3. LanesFit(v)'
    BY <1>1, <2>1 DEF WorkerFits, LanesFit, AttemptFits
  <2>4. StateFits(v)'
    BY <1>1, <1>13, <2>1 DEF WorkerFits, StateFits
  <2>5. DoneFits(v)'
    BY <1>1, <2>1, <2>2 DEF WorkerFits, DoneFits
  <2> QED BY <2>3, <2>4, <2>5 DEF WorkerFits
<1>15. ReadyFits'
  <2>1. \A v \in Workers : /\ Single(outbox'[v], "ready")
                           /\ Holds(outbox'[v], "ready") => state'[v] # "loading"
    BY <1>1, <1>2 DEF ReadyFits
  <2> QED BY <1>1, <1>3, <1>10, <1>11, <1>12, <2>1 DEF ReadyFits
<1>16. DoneBooks'
  BY <1>1, <1>2, DoneKept
<1> QED
  BY <1>3, <1>4, <1>14, <1>15, <1>16 DEF SliceInv

(* Dying threads and messages leave the workers as they were.                *)
LEMMA WorkersStay ==
  ASSUME SliceInv, UNCHANGED workerVars
  PROVE  \A w \in Workers : WorkerFits(w)'
<1>1. UNCHANGED <<pool, deliveryMode, starting, state, cursor, lane, partsDone>>
  BY DEF workerVars, settings
<1> QED
  BY <1>1, StillFits DEF SliceInv

(* A result is the length of a slice: the slices of the workers that have    *)
(* reported add up.                                                          *)
LEMMA DoneTakenKeepsInv ==
  ASSUME SliceInv, NEW w \in Workers, Done(w)
  PROVE  SliceInv'
<1>1. /\ SliceTypes /\ ReadyFits /\ DoneBooks /\ pool \in Pools
      /\ Receives(w, "done") /\ Dequeue(w) /\ outcome = "running"
      /\ results' = results + Head(outbox[w])[2] /\ doneCount' = doneCount + 1
      /\ outcome' \in {"running", "resolved"} /\ (outcome' = "resolved" => doneCount' = Active)
      /\ dead' \in {dead, Workers}
      /\ UNCHANGED <<pool, deliveryMode, starting, state, cursor, lane, partsDone, readyCount>>
  BY DEF SliceInv, SliceTypes, Done, Settle, Resolves, Receives, workerVars, settings
<1>2. /\ outbox' \in [Workers -> Seq(Messages)] /\ Holds(outbox[w], "done")
      /\ Head(outbox[w])[2] \in Sent(outbox[w], "done")
      /\ ~Holds(outbox'[w], "done") /\ Sent(outbox'[w], "done") = {} /\ Single(outbox'[w], "done")
      /\ \A v \in Workers \ {w} : outbox'[v] = outbox[v]
      /\ \A v \in Workers : /\ Holds(outbox'[v], "ready") <=> Holds(outbox[v], "ready")
                            /\ Single(outbox[v], "ready") => Single(outbox'[v], "ready")
  BY <1>1, DequeueKeeps DEF DoneBooks
<1>3. Workers' = Workers /\ Active' = Active /\ \A v : Slice(v)' = Slice(v)
  BY <1>1, SettingsKept
<1>4. SliceTypes'
  BY <1>1, <1>2, <1>3 DEF SliceTypes
<1>5. \A v \in Workers : WorkerFits(v)'
  BY <1>1, WorkersStay DEF workerVars, settings
<1>6. ReadyFits'
  BY <1>1, <1>2, ReadyKept DEF ReadyFits
<1>7. state[w] = "done" /\ w \notin Reported /\ Head(outbox[w])[2] = SliceLength(w)
  <2>1. state[w] = "done" /\ Head(outbox[w])[2] = partsDone[w]
    BY <1>1, <1>2 DEF DoneBooks
  <2> QED BY <1>2, <2>1, DoneIsWhole DEF Reported
<1>8. Reported' = Reported \cup {w}
  BY <1>1, <1>2, <1>3, <1>7 DEF Reported
<1>9. Cardinality(Reported') = Cardinality(Reported) + 1
  <2>1. Reported \in SUBSET Workers
    BY DEF Reported
  <2>2. IsFiniteSet(Reported)
    BY <1>1, <2>1, WorkersFinite, FS_Subset
  <2> QED BY <1>7, <1>8, <2>2, FS_AddElement
<1>10. ReportedParts' = ReportedParts \cup Slice(w)
  BY <1>3, <1>8 DEF ReportedParts
<1>11. Cardinality(ReportedParts') = Cardinality(ReportedParts) + SliceLength(w)
  <2>1. ReportedParts \in SUBSET AllParts
    BY <1>1, SliceSize DEF ReportedParts, Reported
  <2>2. IsFiniteSet(ReportedParts)
    BY <2>1, PartsFinite, FS_Subset
  <2>3. ReportedParts \cap Slice(w) = {}
    BY <1>1, <1>7, SliceSize DEF ReportedParts, Reported
  <2>4. IsFiniteSet(Slice(w)) /\ Cardinality(Slice(w)) = SliceLength(w)
    BY <1>1, SliceSize
  <2> QED BY <1>10, <2>2, <2>3, <2>4, DisjointUnionSize
<1>12. DoneBooks'
  <2>1. \A v \in Workers : /\ Single(outbox'[v], "done")
                           /\ Holds(outbox'[v], "done") => state'[v] = "done"
                           /\ Sent(outbox'[v], "done") \subseteq {partsDone'[v]}
    BY <1>1, <1>2 DEF DoneBooks
  <2>2. doneCount' = Cardinality(Reported')
    BY <1>1, <1>9 DEF DoneBooks
  <2>3. results' = Cardinality(ReportedParts')
    BY <1>1, <1>7, <1>11 DEF DoneBooks
  <2> QED BY <1>1, <1>3, <2>1, <2>2, <2>3 DEF DoneBooks
<1> QED
  BY <1>3, <1>4, <1>5, <1>6, <1>12 DEF SliceInv

LEMMA FailureKeepsInv ==
  ASSUME SliceInv, NEW w \in Workers, WorkerFailed(w)
  PROVE  SliceInv'
<1>1. /\ SliceTypes /\ ReadyFits /\ DoneBooks
      /\ Dequeue(w) /\ outcome' = "failed" /\ dead' = Workers
      /\ UNCHANGED <<pool, deliveryMode, starting, state, cursor, lane, partsDone,
                     readyCount, doneCount, results>>
  BY DEF SliceInv, WorkerFailed, Settle, workerVars, settings
<1>2. PICK kind \in {"error", "exit"} : Receives(w, kind)
  BY DEF WorkerFailed
<1>3. /\ outbox' \in [Workers -> Seq(Messages)]
      /\ \A type \in {"ready", "done"} :
           \A v \in Workers : /\ Holds(outbox'[v], type) <=> Holds(outbox[v], type)
                              /\ Single(outbox[v], type) => Single(outbox'[v], type)
                              /\ Sent(outbox'[v], type) = Sent(outbox[v], type)
  BY <1>1, <1>2, DequeueKeeps
<1>4. Workers' = Workers
  BY <1>1, SettingsKept
<1>5. SliceTypes'
  BY <1>1, <1>3, <1>4 DEF SliceTypes
<1>6. \A v \in Workers : WorkerFits(v)'
  BY <1>1, WorkersStay DEF workerVars, settings
<1>7. ReadyFits' /\ DoneBooks'
  <2>1. readyCount < Active => starting' = {}
    BY <1>1 DEF ReadyFits
  <2> QED BY <1>1, <1>3, <2>1, ReadyKept, DoneKept
<1> QED
  BY <1>4, <1>5, <1>6, <1>7 DEF SliceInv

-----------------------------------------------------------------------------
LEMMA SliceNextKeepsInv == SliceInv /\ [SliceNext]_sliceVars => SliceInv'
<1> SUFFICES ASSUME SliceInv, [SliceNext]_sliceVars PROVE SliceInv'
  OBVIOUS
<1>1. ASSUME UNCHANGED sliceVars
      PROVE  SliceInv'
  <2>1. /\ UNCHANGED workerVars /\ UNCHANGED <<outbox, dead, readyCount, doneCount, results, outcome>>
        /\ UNCHANGED <<pool, deliveryMode, starting, state, cursor, lane, partsDone>>
    BY <1>1 DEF sliceVars, workerVars, settings, mainVars
  <2>2. Workers' = Workers
    BY <2>1, SettingsKept
  <2>3. SliceTypes'
    BY <2>1, <2>2 DEF SliceInv, SliceTypes
  <2>4. \A w \in Workers : WorkerFits(w)'
    BY <2>1, WorkersStay
  <2>5. ReadyFits' /\ DoneBooks'
    <3>1. ReadyFits /\ DoneBooks
      BY DEF SliceInv
    <3>2. readyCount < Active => starting' = {}
      BY <2>1, <3>1 DEF ReadyFits
    <3> QED BY <2>1, <3>1, <3>2, ReadyKept, DoneKept
  <2> QED BY <2>2, <2>3, <2>4, <2>5 DEF SliceInv
<1>2. ASSUME NEW w \in Workers, Handled(w)
      PROVE  SliceInv'
  BY <1>2, ReadyTakenKeepsInv, DoneTakenKeepsInv, FailureKeepsInv DEF Handled
<1>3. ASSUME NEW w \in Workers, WorkerStep(w)
      PROVE  SliceInv'
  BY <1>3, WorkerPostsKeepsInv, StartKeepsInv, StartIgnoredKeepsInv DEF WorkerStep
<1>4. ASSUME NEW w \in Workers, NEW l \in Lanes(w), LaneStep(w, l)
      PROVE  SliceInv'
  <2>1. CASE Responds(w, l) \/ ChunkArrives(w, l) \/ WatchdogFires(w, l)
    BY <2>1, AttemptGoesOn
  <2>2. CASE BodyEnds(w, l)
    BY <2>2, PartEndsKeepsInv
  <2>3. CASE AttemptThrows(w, l)
    BY <2>3, AttemptGoesOn, ThrowKeepsInv
  <2> QED BY <1>4, <2>1, <2>2, <2>3 DEF LaneStep
<1>5. ASSUME NEW w \in Workers, Dies(w)
      PROVE  SliceInv'
  BY <1>5, DiesKeepsInv
<1> QED
  BY <1>1, <1>2, <1>3, <1>4, <1>5 DEF SliceNext, Progress

LEMMA SliceInvAlways == SliceSpec => []SliceInv
<1>1. SliceInit => SliceInv
  BY InitEstablishesSliceInv
<1>2. SliceInv /\ [SliceNext]_sliceVars => SliceInv'
  BY SliceNextKeepsInv
<1> QED
  BY <1>1, <1>2, PTL DEF SliceSpec

(* However the lanes of the workers interleave, stall, retry and fail: no    *)
(* part is fetched by two lanes, a worker that did not fail counts the parts *)
(* that are behind it, and the results of a run that resolves add up to all  *)
(* the parts of the batch, for every number of parts, workers and lanes.     *)
THEOREM SlicesAreExact == SliceSpec => []ResultIsExact
<1>1. SliceInv => ResultIsExact
  BY SliceInvGivesSafety
<1> QED
  BY <1>1, SliceInvAlways, PTL

-----------------------------------------------------------------------------
(* Connections, for any number of threads, sockets and addresses, and any    *)
(* lists the resolver may answer with: going round a list.                   *)

Within(ips) == {ip \in Ips : \E i \in 1 .. Len(ips) : ips[i] = ip}

(* How often address a comes up in the first n turns.                        *)
Turns(ips, n, a) ==
  n \div Len(ips) + (IF \E i \in 1 .. n % Len(ips) : ips[i] = a THEN 1 ELSE 0)

(* Whether a precedes b in the list.                                         *)
Ahead(ips, a, b) ==
  IF \E i, j \in 1 .. Len(ips) : i < j /\ ips[i] = a /\ ips[j] = b THEN 1 ELSE 0

(* Where turn n of a list is reached and each address a has been given row[a]*)
(* times: how far the addresses are apart beyond what the turns account for, *)
(* and what may come of it until the next round.                             *)
EvenOver(ips, n, row, m, S) ==
  \A a, b \in S :
    (row[a] - Turns(ips, n, a)) - (row[b] - Turns(ips, n, b)) + Ahead(ips, a, b) <= 1 + m

LEMMA DivModOf ==
  ASSUME NEW n \in Nat, NEW s \in Nat, s > 0
  PROVE  /\ n \div s \in Nat /\ n % s \in Nat /\ n % s < s
         /\ n = (n \div s) * s + (n % s)
BY Z3

LEMMA DivModIs ==
  ASSUME NEW n \in Nat, NEW s \in Nat, s > 0, NEW q \in Nat, NEW r \in Nat, r < s,
         n = q * s + r
  PROVE  n \div s = q /\ n % s = r
<1>1. PICK e \in Nat, d \in Nat : e = n \div s /\ d = n % s /\ d < s /\ n = e * s + d
  BY DivModOf
<1>2. q = e
  <2>1. CASE q < e
    <3>1. q * s + s <= e * s
      BY <2>1, <1>1, ProductStep
    <3>2. q * s \in Nat /\ e * s \in Nat
      BY <1>1
    <3> QED BY <1>1, <3>1, <3>2
  <2>2. CASE e < q
    <3>1. e * s + s <= q * s
      BY <2>2, <1>1, ProductStep
    <3>2. q * s \in Nat /\ e * s \in Nat
      BY <1>1
    <3> QED BY <1>1, <3>1, <3>2
  <2> QED BY <1>1, <2>1, <2>2
<1>3. q * s \in Nat
  OBVIOUS
<1> QED
  BY <1>1, <1>2, <1>3

LEMMA ListShape ==
  ASSUME NEW ips \in Answers
  PROVE  /\ Len(ips) \in Nat /\ Len(ips) > 0
         /\ \A i \in 1 .. Len(ips) : ips[i] \in Ips
         /\ \A i, j \in 1 .. Len(ips) : ips[i] = ips[j] => i = j
<1>1. /\ ips \in Seq(Ips) /\ ips # <<>>
      /\ \A i, j \in 1 .. Len(ips) : ips[i] = ips[j] => i = j
  BY AnswersAssumption DEF Ips
<1> QED
  BY <1>1

LEMMA AddressInside ==
  ASSUME NEW ips \in Answers, NEW n \in Nat
  PROVE  Address(ips, n) \in Ips
<1>1. PICK s \in Nat : s = Len(ips) /\ s > 0 /\ \A i \in 1 .. s : ips[i] \in Ips
  BY ListShape
<1>2. PICK r \in Nat : r = n % s /\ r < s
  BY <1>1, DivModOf
<1>3. r + 1 \in 1 .. s
  BY <1>1, <1>2
<1> QED
  BY <1>1, <1>2, <1>3 DEF Address

LEMMA TurnsNext ==
  ASSUME NEW ips \in Answers, NEW n \in Nat, NEW a \in Within(ips)
  PROVE  /\ Turns(ips, n, a) \in Nat
         /\ Turns(ips, n + 1, a)
              = IF a = Address(ips, n) THEN Turns(ips, n, a) + 1 ELSE Turns(ips, n, a)
<1>1. PICK s \in Nat : s = Len(ips) /\ s > 0
  BY ListShape
<1>a. s > 0
  BY <1>1
<1>2. PICK q \in Nat, r \in Nat : q = n \div s /\ r = n % s /\ r < s /\ n = q * s + r
  BY <1>a, DivModOf
<1>3. PICK k \in 1 .. s : ips[k] = a
  BY <1>1 DEF Within
<1>4. \A i \in 1 .. s : ips[i] = a <=> i = k
  BY <1>1, <1>3, ListShape
<1>5. PICK p \in Nat : p = q * s
  BY <1>1, <1>2
<1>6. a = Address(ips, n) <=> k = r + 1
  BY <1>1, <1>2, <1>3, <1>4 DEF Address
<1>7. Turns(ips, n, a) = q + (IF k <= r THEN 1 ELSE 0)
  <2>1. (\E i \in 1 .. r : ips[i] = a) <=> k <= r
    BY <1>1, <1>2, <1>3, <1>4
  <2> QED BY <1>1, <1>2, <2>1 DEF Turns
<1>8. CASE r + 1 < s
  <2>1. n + 1 = q * s + (r + 1)
    BY <1>2, <1>5
  <2>2. (n + 1) \div s = q /\ (n + 1) % s = r + 1
    BY <1>a, <1>8, <2>1, DivModIs
  <2>3. (\E i \in 1 .. r + 1 : ips[i] = a) <=> k <= r + 1
    BY <1>1, <1>2, <1>3, <1>4, <1>8
  <2>4. Turns(ips, n + 1, a) = q + (IF k <= r + 1 THEN 1 ELSE 0)
    BY <1>1, <2>2, <2>3 DEF Turns
  <2> QED BY <1>2, <1>3, <1>6, <1>7, <2>4
<1>9. CASE r + 1 = s
  <2>1. n + 1 = (q + 1) * s + 0
    <3>1. (q + 1) * s = q * s + s
      BY <1>1, <1>2
    <3> QED BY <1>2, <1>5, <1>9, <3>1
  <2>a. q + 1 \in Nat
    OBVIOUS
  <2>2. (n + 1) \div s = q + 1 /\ (n + 1) % s = 0
    BY <1>a, <2>1, <2>a, DivModIs
  <2>3. Turns(ips, n + 1, a) = q + 1
    BY <1>1, <1>2, <2>2 DEF Turns
  <2> QED BY <1>2, <1>3, <1>6, <1>7, <1>9, <2>3
<1> QED
  BY <1>1, <1>2, <1>8, <1>9

LEMMA TurnsApart ==
  ASSUME NEW ips \in Answers, NEW n \in Nat, NEW a \in Within(ips), NEW b \in Within(ips)
  PROVE  /\ Turns(ips, n, a) \in Nat /\ Turns(ips, n, b) \in Nat
         /\ Ahead(ips, a, b) \in 0 .. 1
         /\ Turns(ips, n, a) - Turns(ips, n, b) <= Ahead(ips, a, b)
         /\ Ahead(ips, a, b) - 1 <= Turns(ips, n, a) - Turns(ips, n, b)
<1>1. PICK s \in Nat : s = Len(ips) /\ s > 0
  BY ListShape
<1>2. PICK q \in Nat, r \in Nat : q = n \div s /\ r = n % s /\ r < s
  BY <1>1, DivModOf
<1>3. PICK k \in 1 .. s, l \in 1 .. s : ips[k] = a /\ ips[l] = b
  BY <1>1 DEF Within
<1>4. /\ \A i \in 1 .. s : ips[i] = a <=> i = k
      /\ \A i \in 1 .. s : ips[i] = b <=> i = l
  BY <1>1, <1>3, ListShape
<1>5. Turns(ips, n, a) = q + (IF k <= r THEN 1 ELSE 0)
  <2>1. (\E i \in 1 .. r : ips[i] = a) <=> k <= r
    BY <1>1, <1>2, <1>3, <1>4
  <2> QED BY <1>1, <1>2, <2>1 DEF Turns
<1>6. Turns(ips, n, b) = q + (IF l <= r THEN 1 ELSE 0)
  <2>1. (\E i \in 1 .. r : ips[i] = b) <=> l <= r
    BY <1>1, <1>2, <1>3, <1>4
  <2> QED BY <1>1, <1>2, <2>1 DEF Turns
<1>7. Ahead(ips, a, b) = IF k < l THEN 1 ELSE 0
  BY <1>1, <1>3, <1>4 DEF Ahead
<1> QED
  BY <1>2, <1>3, <1>5, <1>6, <1>7

-----------------------------------------------------------------------------
(* What becomes of EvenOver.                                                 *)

(* Nothing has been given.                                                   *)
LEMMA EvenStarts ==
  ASSUME NEW ips \in Answers, NEW row \in [Ips -> Nat], \A a \in Ips : row[a] = 0,
         NEW m \in Nat, NEW S, S \subseteq Within(ips)
  PROVE  EvenOver(ips, 0, row, m, S)
<1> SUFFICES ASSUME NEW a \in S, NEW b \in S
             PROVE  (row[a] - Turns(ips, 0, a)) - (row[b] - Turns(ips, 0, b))
                      + Ahead(ips, a, b) <= 1 + m
  BY DEF EvenOver
<1>1. a \in Within(ips) /\ b \in Within(ips) /\ row[a] = 0 /\ row[b] = 0
  BY DEF Within
<1>2. /\ Turns(ips, 0, a) \in Nat /\ Turns(ips, 0, b) \in Nat /\ Ahead(ips, a, b) \in 0 .. 1
      /\ Ahead(ips, a, b) - 1 <= Turns(ips, 0, a) - Turns(ips, 0, b)
  BY <1>1, TurnsApart
<1> QED
  BY <1>1, <1>2

(* The next address is given.                                                *)
LEMMA EvenTurns ==
  ASSUME NEW ips \in Answers, NEW n \in Nat, NEW row \in [Ips -> Nat], NEW next \in [Ips -> Nat],
         \A a \in Ips : next[a] = IF a = Address(ips, n) THEN row[a] + 1 ELSE row[a],
         NEW m \in Nat, NEW S, S \subseteq Within(ips), EvenOver(ips, n, row, m, S)
  PROVE  EvenOver(ips, n + 1, next, m, S)
<1>1. ASSUME NEW a \in S
      PROVE  next[a] - Turns(ips, n + 1, a) = row[a] - Turns(ips, n, a)
  <2>1. a \in Within(ips) /\ a \in Ips /\ row[a] \in Nat
    BY DEF Within
  <2>2. /\ Turns(ips, n, a) \in Nat
        /\ Turns(ips, n + 1, a)
             = IF a = Address(ips, n) THEN Turns(ips, n, a) + 1 ELSE Turns(ips, n, a)
    BY <2>1, TurnsNext
  <2> QED
    BY <2>1, <2>2
<1> QED
  BY <1>1 DEF EvenOver

(* Another list takes over, wherever it starts.                              *)
LEMMA EvenBreaks ==
  ASSUME NEW old \in Answers, NEW new \in Answers, NEW n \in Nat, NEW e \in Nat,
         NEW row \in [Ips -> Nat], NEW m \in Nat,
         NEW S, S \subseteq Within(old), S \subseteq Within(new), EvenOver(old, n, row, m, S)
  PROVE  EvenOver(new, e, row, m + 1, S)
<1> SUFFICES ASSUME NEW a \in S, NEW b \in S
             PROVE  (row[a] - Turns(new, e, a)) - (row[b] - Turns(new, e, b))
                      + Ahead(new, a, b) <= 1 + (m + 1)
  BY DEF EvenOver
<1>1. /\ a \in Within(old) /\ b \in Within(old) /\ a \in Within(new) /\ b \in Within(new)
      /\ row[a] \in Nat /\ row[b] \in Nat
  BY DEF Within
<1>2. /\ Turns(old, n, a) \in Nat /\ Turns(old, n, b) \in Nat /\ Ahead(old, a, b) \in 0 .. 1
      /\ Turns(old, n, a) - Turns(old, n, b) <= Ahead(old, a, b)
  BY <1>1, TurnsApart
<1>3. /\ Turns(new, e, a) \in Nat /\ Turns(new, e, b) \in Nat /\ Ahead(new, a, b) \in 0 .. 1
      /\ Ahead(new, a, b) - 1 <= Turns(new, e, a) - Turns(new, e, b)
  BY <1>1, TurnsApart
<1>4. (row[a] - Turns(old, n, a)) - (row[b] - Turns(old, n, b)) + Ahead(old, a, b) <= 1 + m
  BY DEF EvenOver
<1> QED
  BY <1>1, <1>2, <1>3, <1>4

LEMMA EvenBounds ==
  ASSUME NEW ips \in Answers, NEW n \in Nat, NEW row \in [Ips -> Nat], NEW m \in Nat,
         NEW S, S \subseteq Within(ips), EvenOver(ips, n, row, m, S), NEW a \in S, NEW b \in S
  PROVE  row[a] <= row[b] + 1 + m
<1>1. a \in Within(ips) /\ b \in Within(ips) /\ row[a] \in Nat /\ row[b] \in Nat
  BY DEF Within
<1>2. /\ Turns(ips, n, a) \in Nat /\ Turns(ips, n, b) \in Nat /\ Ahead(ips, a, b) \in 0 .. 1
      /\ Turns(ips, n, a) - Turns(ips, n, b) <= Ahead(ips, a, b)
  BY <1>1, TurnsApart
<1>3. (row[a] - Turns(ips, n, a)) - (row[b] - Turns(ips, n, b)) + Ahead(ips, a, b) <= 1 + m
  BY DEF EvenOver
<1> QED
  BY <1>1, <1>2, <1>3

-----------------------------------------------------------------------------
(* The invariant.                                                            *)

Entry == [ips : Answers, idx : Nat \ {0}, fresh : BOOLEAN]
Sockets == [phase : SocketPhases, found : Nat, ip : Ips, bytes : Nat]

ConnectionTypes ==
  /\ cfg \in Configs
  /\ dnsCache \in [Threads -> Nat] /\ entries \in [Threads -> Seq(Entry)]
  /\ connCounter \in [Threads -> Nat]
  /\ socket \in [Conns -> Sockets]
  /\ recorded \subseteq Conns /\ registry \subseteq recorded /\ measured \subseteq Conns
  /\ posted \subseteq Threads /\ reported \subseteq Threads \ posted
  /\ ipCounts \in [Threads -> [Ips -> Nat]]
  /\ given \in [Threads -> [Ips -> Nat]] /\ breaks \in [Threads -> Nat]
  /\ report \in [Threads -> [Ips -> Stat]]
  /\ runIp \in [Ips -> Nat] /\ runIpTput \in [Ips -> Stat]

(* The addresses that are always given are even, also after the turns that   *)
(* are left of the round.                                                    *)
Even(w) ==
  IF dnsCache[w] = 0 THEN \A a \in Ips : given[w][a] = 0
  ELSE EvenOver(Cached(w).ips, Cached(w).idx, given[w], breaks[w], Steady(w))

SteadyOf(list) == {ip \in Ips : \A n \in 1 .. Len(list) : ip \in Within(list[n].ips)}

(* The sockets that wait for the resolver, whose answer is still to be       *)
(* counted.                                                                  *)
Asking(w) == {c \in Of(w) : socket[c].phase = "resolving"}

LookupsFit(w) ==
  /\ dnsCache[w] = Len(entries[w])
  /\ connCounter[w] <= cfg.sockets[w]
  /\ \A c \in Of(w) : /\ socket[c].found <= dnsCache[w]
                      /\ socket[c].phase = "none" <=> c[2] > connCounter[w]
  /\ \A a \in Ips : given[w][a] + Cardinality(Asking(w)) <= connCounter[w]
  /\ breaks[w] + Cardinality(Asking(w)) <= connCounter[w]
  /\ Even(w)

(* A socket is recorded when it connects, and registered until it closes.    *)
RecordedAt(w, a) == {c \in recorded \cap Of(w) : socket[c].ip = a}
CountsFit(w) ==
  /\ \A c \in Of(w) :
       /\ c \in recorded => socket[c].phase \in {"connected", "secure", "closed"}
       /\ c \in registry <=> socket[c].phase \in {"connected", "secure"}
  /\ \A a \in Ips : ipCounts[w][a] = Cardinality(RecordedAt(w, a))

(* The sockets that were measured; their bytes do not change any more.       *)
StatOf(conns) == [bytes |-> BytesOf(conns), conns |-> Cardinality(conns)]
MeasuredAt(w, a) == {c \in measured \cap Of(w) : socket[c].ip = a}
ReportedConns(conns, a) == {c \in conns : socket[c].ip = a /\ c[1] \in reported}
ReportsFit ==
  /\ \A c \in measured : ~Working(c[1])
  /\ \A w \in posted : \A a \in Ips : report[w][a] = StatOf(MeasuredAt(w, a))
  /\ \A a \in Ips : runIp[a] = Cardinality(ReportedConns(recorded, a))
  /\ cfg.receiver = "run" =>
       \A a \in Ips : runIpTput[a] = StatOf(ReportedConns(measured, a))

ConnectionInv ==
  /\ ConnectionTypes
  /\ \A w \in Threads : LookupsFit(w) /\ CountsFit(w)
  /\ ReportsFit

-----------------------------------------------------------------------------
(* Sets of sockets.                                                          *)

LEMMA ConnShape ==
  ASSUME cfg \in Configs
  PROVE  /\ IsFiniteSet(Conns)
         /\ \A c \in Conns : /\ c[1] \in Threads /\ c[2] \in Nat /\ c[2] >= 1
                             /\ c[2] <= cfg.sockets[c[1]]
                             /\ c = <<c[1], c[2]>> /\ c \in Of(c[1])
         /\ \A w : Of(w) \subseteq Conns /\ \A c \in Of(w) : c[1] = w
         /\ \A w \in Threads : cfg.sockets[w] \in Nat
<1>1. cfg.sockets \in [Threads -> Nat]
  BY ConfigsAssumption
<1>2. PICK size : size = cfg.sockets
  OBVIOUS
<1>3. Conns = UNION {{w} \X (1 .. size[w]) : w \in Threads}
  BY <1>2 DEF Conns
<1>4. IsFiniteSet(UNION {{w} \X (1 .. size[w]) : w \in Threads})
  <2>1. size \in [Threads -> Int]
    BY <1>1, <1>2
  <2> QED BY <2>1, ThreadsAssumption, FiniteRows
<1>5. \A c \in Conns : /\ c[1] \in Threads /\ c[2] \in 1 .. size[c[1]]
                       /\ c = <<c[1], c[2]>>
  BY <1>3
<1>6. \A w \in Threads : size[w] \in Nat
  BY <1>1, <1>2
<1> QED
  BY <1>2, <1>3, <1>4, <1>5, <1>6 DEF Of

LEMMA ConnsFinite ==
  ASSUME cfg \in Configs, NEW S, S \subseteq Conns
  PROVE  IsFiniteSet(S) /\ Cardinality(S) \in Nat
<1>1. IsFiniteSet(S)
  BY ConnShape, FS_Subset
<1> QED
  BY <1>1, FS_CardinalityType

(* The sockets that a thread has opened.                                     *)
LEMMA OpenedSize ==
  ASSUME cfg \in Configs, NEW w \in Threads, NEW n \in Nat, n <= cfg.sockets[w],
         NEW S, \A c \in S : c \in Of(w) /\ c[2] <= n
  PROVE  Cardinality(S) \in 0 .. n
<1>1. IsFiniteSet(Run(w, 1, n)) /\ Cardinality(Run(w, 1, n)) = n
  BY RunSize
<1>2. ASSUME NEW c \in S
      PROVE  c \in Run(w, 1, n)
  <2>1. c[2] \in Nat /\ c[2] >= 1 /\ c[2] <= n /\ c = <<w, c[2]>>
    BY ConnShape
  <2>2. c[2] - 1 \in 0 .. n - 1 /\ c[2] = 1 + (c[2] - 1)
    BY <2>1
  <2> QED BY <2>1, <2>2 DEF Run
<1>3. S \subseteq Run(w, 1, n)
  BY <1>2
<1>4. IsFiniteSet(S) /\ Cardinality(S) <= n /\ Cardinality(S) \in Nat
  BY <1>1, <1>3, FS_Subset, FS_CardinalityType
<1> QED
  BY <1>4

LEMMA BytesFinite ==
  ASSUME ConnectionTypes, NEW S, S \subseteq Conns
  PROVE  /\ IsFiniteSet(UNION {{c} \X (1 .. socket[c].bytes) : c \in S})
         /\ BytesOf(S) \in Nat /\ StatOf(S) \in Stat
<1> DEFINE size == [c \in S |-> socket[c].bytes]
<1>1. IsFiniteSet(S) /\ Cardinality(S) \in Nat
  BY ConnsFinite DEF ConnectionTypes
<1>2. size \in [S -> Int]
  BY DEF ConnectionTypes, Sockets
<1>3. UNION {{c} \X (1 .. socket[c].bytes) : c \in S} = UNION {{c} \X (1 .. size[c]) : c \in S}
  OBVIOUS
<1> HIDE DEF size
<1>4. /\ IsFiniteSet(UNION {{c} \X (1 .. size[c]) : c \in S})
      /\ Cardinality(UNION {{c} \X (1 .. size[c]) : c \in S}) \in Nat
  BY <1>1, <1>2, FiniteRows
<1> QED
  BY <1>1, <1>3, <1>4 DEF BytesOf, StatOf, Stat

LEMMA StatsAdd ==
  ASSUME ConnectionTypes, NEW S, NEW T, S \subseteq Conns, T \subseteq Conns, S \cap T = {}
  PROVE  StatOf(S \cup T) = SumOf(StatOf(S), StatOf(T))
<1> DEFINE Bytes(conns) == UNION {{c} \X (1 .. socket[c].bytes) : c \in conns}
<1>1. IsFiniteSet(S) /\ IsFiniteSet(T) /\ IsFiniteSet(Bytes(S)) /\ IsFiniteSet(Bytes(T))
  BY ConnsFinite, BytesFinite DEF ConnectionTypes
<1>2. Bytes(S \cup T) = Bytes(S) \cup Bytes(T) /\ Bytes(S) \cap Bytes(T) = {}
  OBVIOUS
<1>3. \A conns : BytesOf(conns) = Cardinality(Bytes(conns))
  BY DEF BytesOf
<1> HIDE DEF Bytes
<1>4. BytesOf(S \cup T) = BytesOf(S) + BytesOf(T)
  BY <1>1, <1>2, <1>3, DisjointUnionSize
<1>5. Cardinality(S \cup T) = Cardinality(S) + Cardinality(T)
  BY <1>1, DisjointUnionSize
<1> QED
  BY <1>4, <1>5 DEF StatOf, SumOf

LEMMA NoStatOfNone == StatOf({}) = Nothing
<1>1. Cardinality({}) = 0
  BY FS_EmptySet
<1>2. UNION {{c} \X (1 .. socket[c].bytes) : c \in {}} = {}
  OBVIOUS
<1> QED
  BY <1>1, <1>2 DEF StatOf, BytesOf, Nothing

-----------------------------------------------------------------------------
(* What the invariant is for.                                                *)

LEMMA ConnectionInvGivesTypes == ConnectionInv => ConnectionsTypeOK
<1> SUFFICES ASSUME ConnectionInv PROVE ConnectionsTypeOK
  OBVIOUS
<1>1. ConnectionTypes /\ cfg \in Configs
  BY DEF ConnectionInv, ConnectionTypes
<1>2. ASSUME NEW w \in Threads
      PROVE  /\ dnsCache[w] = Len(entries[w])
             /\ \A i \in 1 .. Len(entries[w]) : entries[w][i] \in [ips : Answers, idx : Nat \ {0}, fresh : BOOLEAN]
             /\ connCounter[w] \in 0 .. cfg.sockets[w]
             /\ ipCounts[w] \in [Ips -> 0 .. connCounter[w]]
             /\ given[w] \in [Ips -> 0 .. connCounter[w]]
             /\ breaks[w] \in 0 .. connCounter[w]
             /\ report[w] \in [Ips -> Stat]
  <2>1. LookupsFit(w) /\ CountsFit(w)
    BY DEF ConnectionInv
  <2>2. /\ entries[w] \in Seq(Entry) /\ connCounter[w] \in Nat /\ cfg.sockets[w] \in Nat
        /\ ipCounts[w] \in [Ips -> Nat] /\ given[w] \in [Ips -> Nat] /\ breaks[w] \in Nat
        /\ report[w] \in [Ips -> Stat]
    BY <1>1, ConnShape DEF ConnectionTypes
  <2>3. Asking(w) \subseteq Conns
    BY <1>1, ConnShape DEF Asking
  <2>4. Cardinality(Asking(w)) \in Nat
    BY <1>1, <2>3, ConnsFinite
  <2>5. \A a \in Ips : given[w][a] \in 0 .. connCounter[w]
    BY <2>1, <2>2, <2>4 DEF LookupsFit
  <2>6. breaks[w] \in 0 .. connCounter[w]
    BY <2>1, <2>2, <2>4 DEF LookupsFit
  <2>7. \A a \in Ips : ipCounts[w][a] \in 0 .. connCounter[w]
    <3> SUFFICES ASSUME NEW a \in Ips PROVE ipCounts[w][a] \in 0 .. connCounter[w]
      OBVIOUS
    <3>1. ASSUME NEW c \in RecordedAt(w, a)
          PROVE  c \in Of(w) /\ c[2] <= connCounter[w]
      <4>1. c \in Of(w) /\ c \in recorded
        BY DEF RecordedAt
      <4>2. ~(c[2] > connCounter[w])
        BY <2>1, <4>1 DEF LookupsFit, CountsFit
      <4>3. c[2] \in Nat
        BY <1>1, <4>1, ConnShape
      <4> QED BY <2>2, <4>1, <4>2, <4>3
    <3>2. connCounter[w] <= cfg.sockets[w]
      BY <2>1 DEF LookupsFit
    <3>3. Cardinality(RecordedAt(w, a)) \in 0 .. connCounter[w]
      BY <1>1, <2>2, <3>1, <3>2, OpenedSize
    <3> QED BY <2>1, <3>3 DEF CountsFit
  <2>8. \A i \in 1 .. Len(entries[w]) : entries[w][i] \in Entry
    BY <2>2
  <2>9. ipCounts[w] \in [Ips -> 0 .. connCounter[w]] /\ given[w] \in [Ips -> 0 .. connCounter[w]]
    BY <2>2, <2>5, <2>7
  <2> QED BY <2>1, <2>2, <2>6, <2>8, <2>9 DEF LookupsFit, Entry
<1>3. ASSUME NEW c \in Conns
      PROVE  /\ socket[c].phase \in SocketPhases
             /\ socket[c].found \in 0 .. Len(entries[c[1]])
             /\ socket[c].ip \in Ips /\ socket[c].bytes \in Nat
  <2>1. c[1] \in Threads /\ c \in Of(c[1])
    BY <1>1, ConnShape
  <2>2. socket[c].found <= dnsCache[c[1]] /\ dnsCache[c[1]] = Len(entries[c[1]])
    BY <2>1 DEF ConnectionInv, LookupsFit
  <2>3. socket[c] \in Sockets /\ dnsCache[c[1]] \in Nat
    BY <1>1, <2>1 DEF ConnectionTypes
  <2> QED BY <2>2, <2>3 DEF Sockets
<1> QED
  BY <1>1, <1>2, <1>3 DEF ConnectionTypes, ConnectionsTypeOK

(* The entry in the cache has all addresses that are always given.           *)
LEMMA CachedFacts ==
  ASSUME ConnectionTypes, NEW w \in Threads, LookupsFit(w), dnsCache[w] # 0
  PROVE  /\ Cached(w) \in Entry /\ Cached(w).ips \in Answers
         /\ Cached(w).idx \in Nat /\ Cached(w).idx # 0
         /\ Steady(w) \subseteq Within(Cached(w).ips)
<1>1. /\ entries[w] \in Seq(Entry) /\ dnsCache[w] = Len(entries[w])
      /\ dnsCache[w] \in 1 .. Len(entries[w])
  BY DEF ConnectionTypes, LookupsFit
<1>2. Cached(w) \in Entry
  BY <1>1 DEF Cached
<1>3. Steady(w) \subseteq Within(Cached(w).ips)
  BY <1>1 DEF Steady, Within, Cached
<1> QED
  BY <1>2, <1>3 DEF Entry

LEMMA ConnectionInvGivesSafety ==
  ConnectionInv => SpreadBounded /\ CountsAreSockets /\ ThroughputIsWhole
<1> SUFFICES ASSUME ConnectionInv PROVE SpreadBounded /\ CountsAreSockets /\ ThroughputIsWhole
  OBVIOUS
<1>1. ConnectionTypes
  BY DEF ConnectionInv
<1>2. SpreadBounded
  <2> SUFFICES ASSUME NEW w \in Threads, NEW a \in Steady(w), NEW b \in Steady(w)
               PROVE  given[w][a] <= given[w][b] + 1 + breaks[w]
    BY DEF SpreadBounded
  <2>1. /\ LookupsFit(w) /\ Even(w) /\ a \in Ips /\ b \in Ips
        /\ given[w] \in [Ips -> Nat] /\ breaks[w] \in Nat
    BY <1>1 DEF ConnectionInv, LookupsFit, ConnectionTypes, Steady
  <2>2. CASE dnsCache[w] = 0
    <3>1. given[w][a] = 0 /\ given[w][b] = 0
      BY <2>1, <2>2 DEF Even
    <3> QED BY <2>1, <3>1
  <2>3. CASE dnsCache[w] # 0
    <3>1. /\ Cached(w).ips \in Answers /\ Cached(w).idx \in Nat
          /\ Steady(w) \subseteq Within(Cached(w).ips)
      BY <1>1, <2>1, <2>3, CachedFacts
    <3>2. EvenOver(Cached(w).ips, Cached(w).idx, given[w], breaks[w], Steady(w))
      BY <2>1, <2>3 DEF Even
    <3> QED BY <2>1, <3>1, <3>2, EvenBounds
  <2> QED BY <2>2, <2>3
<1>3. CountsAreSockets
  BY ConnectionInvGivesTypes
     DEF CountsAreSockets, ConnectionInv, CountsFit, ReportsFit, RecordedAt, ReportedConns
<1>4. ThroughputIsWhole
  BY DEF ThroughputIsWhole, ConnectionInv, ReportsFit, ReportedConns, StatOf
<1> QED
  BY <1>2, <1>3, <1>4

-----------------------------------------------------------------------------
(* What a step leaves as it was.                                             *)

LEMMA ConnsKept ==
  ASSUME UNCHANGED cfg
  PROVE  Conns' = Conns /\ \A w : Of(w)' = Of(w)
BY DEF Conns, Of

LEMMA SteadyIs ==
  ASSUME NEW w
  PROVE  Steady(w) = SteadyOf(entries[w]) /\ Steady(w)' = SteadyOf(entries'[w])
BY DEF Steady, SteadyOf, Within

LEMMA SteadySame ==
  ASSUME NEW old, NEW new, Len(new) = Len(old),
         \A n \in 1 .. Len(old) : new[n].ips = old[n].ips
  PROVE  SteadyOf(new) = SteadyOf(old)
BY DEF SteadyOf

LEMMA SteadyShrinks ==
  ASSUME NEW old, NEW new, NEW k \in Nat, Len(old) = k, Len(new) = k + 1,
         \A n \in 1 .. k : new[n] = old[n]
  PROVE  SteadyOf(new) \subseteq SteadyOf(old) /\ SteadyOf(new) \subseteq Within(new[k + 1].ips)
<1>1. ASSUME NEW ip \in SteadyOf(new)
      PROVE  ip \in SteadyOf(old) /\ ip \in Within(new[k + 1].ips)
  <2>1. ip \in Ips /\ \A n \in 1 .. k + 1 : ip \in Within(new[n].ips)
    BY <1>1 DEF SteadyOf
  <2>2. k + 1 \in 1 .. k + 1 /\ \A n \in 1 .. k : n \in 1 .. k + 1
    OBVIOUS
  <2>3. \A n \in 1 .. k : ip \in Within(old[n].ips)
    BY <2>1, <2>2
  <2> QED BY <2>1, <2>2, <2>3 DEF SteadyOf
<1> QED
  BY <1>1

LEMMA EvenStays ==
  ASSUME NEW w \in Threads, Even(w), dnsCache[w] = Len(entries[w]), dnsCache[w] \in Nat,
         dnsCache'[w] = dnsCache[w], Len(entries'[w]) = Len(entries[w]),
         \A n \in 1 .. Len(entries[w]) : /\ entries'[w][n].ips = entries[w][n].ips
                                          /\ entries'[w][n].idx = entries[w][n].idx,
         given'[w] = given[w], breaks'[w] = breaks[w]
  PROVE  Even(w)'
<1>1. Steady(w)' = Steady(w)
  BY SteadyIs, SteadySame
<1>2. CASE dnsCache[w] = 0
  BY <1>2 DEF Even
<1>3. CASE dnsCache[w] # 0
  <2>1. Cached(w)'.ips = Cached(w).ips /\ Cached(w)'.idx = Cached(w).idx
    BY <1>3 DEF Cached
  <2> QED BY <1>1, <1>3, <2>1 DEF Even, EvenOver, Turns, Ahead
<1> QED
  BY <1>2, <1>3

LEMMA LookupsStay ==
  ASSUME ConnectionTypes, NEW w \in Threads, LookupsFit(w), UNCHANGED cfg,
         dnsCache'[w] = dnsCache[w], Len(entries'[w]) = Len(entries[w]),
         \A n \in 1 .. Len(entries[w]) : /\ entries'[w][n].ips = entries[w][n].ips
                                          /\ entries'[w][n].idx = entries[w][n].idx,
         connCounter'[w] = connCounter[w], given'[w] = given[w], breaks'[w] = breaks[w],
         \A c \in Of(w) : /\ socket'[c].found = socket[c].found
                          /\ socket'[c].phase = "none" <=> socket[c].phase = "none"
                          /\ socket'[c].phase = "resolving" <=> socket[c].phase = "resolving"
  PROVE  LookupsFit(w)'
<1>1. Of(w)' = Of(w)
  BY ConnsKept
<1>2. Asking(w)' = Asking(w)
  BY <1>1 DEF Asking
<1>4. Even(w)'
  BY EvenStays DEF LookupsFit, ConnectionTypes
<1> QED
  BY <1>1, <1>2, <1>4 DEF LookupsFit

LEMMA CountsStay ==
  ASSUME NEW w \in Threads, CountsFit(w), UNCHANGED cfg, ipCounts'[w] = ipCounts[w],
         \A c \in Of(w) : /\ c \in recorded' <=> c \in recorded
                          /\ c \in registry' <=> c \in registry
                          /\ c \in recorded => /\ socket'[c].ip = socket[c].ip
                                               /\ socket'[c].phase \in {"connected", "secure", "closed"}
                          /\ socket'[c].phase \in {"connected", "secure"}
                               <=> socket[c].phase \in {"connected", "secure"}
  PROVE  CountsFit(w)'
<1>1. Of(w)' = Of(w)
  BY ConnsKept
<1>2. \A a \in Ips : RecordedAt(w, a)' = RecordedAt(w, a)
  BY <1>1 DEF RecordedAt
<1> QED
  BY <1>1, <1>2 DEF CountsFit

(* The bytes of sockets that did not move.                                   *)
LEMMA StatsStay ==
  ASSUME NEW S, \A c \in S : socket'[c] = socket[c]
  PROVE  StatOf(S)' = StatOf(S)
BY DEF StatOf, BytesOf

(* A thread that works does something.                                       *)
LEMMA ThreadMoves ==
  ASSUME ConnectionInv, NEW w \in Threads, Working(w), UNCHANGED <<cfg, reportVars>>,
         ConnectionTypes', LookupsFit(w)', CountsFit(w)',
         \A v \in Threads \ {w} :
           /\ dnsCache'[v] = dnsCache[v] /\ entries'[v] = entries[v]
           /\ connCounter'[v] = connCounter[v] /\ ipCounts'[v] = ipCounts[v]
           /\ given'[v] = given[v] /\ breaks'[v] = breaks[v],
         \A c \in Conns : c[1] # w => /\ socket'[c] = socket[c]
                                      /\ c \in recorded' <=> c \in recorded
                                      /\ c \in registry' <=> c \in registry
  PROVE  ConnectionInv'
<1>1. /\ ConnectionTypes /\ cfg \in Configs /\ ReportsFit
      /\ UNCHANGED <<posted, report, reported, runIp, runIpTput, measured>>
      /\ Conns' = Conns /\ \A v : Of(v)' = Of(v)
  BY ConnsKept DEF ConnectionInv, ConnectionTypes, reportVars
<1>2. ASSUME NEW v \in Threads
      PROVE  LookupsFit(v)' /\ CountsFit(v)'
  <2>1. CASE v = w
    BY <2>1
  <2>2. CASE v # w
    <3>1. LookupsFit(v) /\ CountsFit(v)
      BY DEF ConnectionInv
    <3>2. \A c \in Of(v) : c \in Conns /\ c[1] # w
      BY <1>1, <2>2, ConnShape
    <3>3. LookupsFit(v)'
      BY <1>1, <2>2, <3>1, <3>2, LookupsStay
    <3>4. \A c \in Of(v) : c \in recorded => socket[c].phase \in {"connected", "secure", "closed"}
      BY <3>1 DEF CountsFit
    <3>5. CountsFit(v)'
      BY <2>2, <3>1, <3>2, <3>4, CountsStay
    <3> QED BY <3>3, <3>5
  <2> QED BY <2>1, <2>2
<1>3. \A c \in Conns : c[1] \in posted \cup reported => c[1] # w
  BY DEF Working
<1>4. ReportsFit'
  <2>1. \A c \in measured' : ~Working(c[1])'
    BY <1>1 DEF ReportsFit, Working
  <2>2. ASSUME NEW v \in posted', NEW a \in Ips
        PROVE  report'[v][a] = StatOf(MeasuredAt(v, a))'
    <3>1. v \in posted /\ \A c \in Of(v) : c \in Conns /\ c[1] = v
      BY <1>1, ConnShape
    <3>2. MeasuredAt(v, a)' = MeasuredAt(v, a) /\ MeasuredAt(v, a) \subseteq Of(v)
      BY <1>1, <1>3, <3>1 DEF MeasuredAt
    <3>3. \A c \in MeasuredAt(v, a) : socket'[c] = socket[c]
      BY <1>3, <3>1, <3>2
    <3>4. StatOf(MeasuredAt(v, a))' = StatOf(MeasuredAt(v, a))
      BY <3>2, <3>3, StatsStay DEF StatOf, BytesOf
    <3> QED BY <1>1, <3>1, <3>4 DEF ReportsFit
  <2>3. ASSUME NEW a \in Ips
        PROVE  runIp'[a] = Cardinality(ReportedConns(recorded, a))'
    <3>1. recorded \subseteq Conns /\ recorded' \subseteq Conns
      BY <1>1 DEF ConnectionTypes
    <3>2. ReportedConns(recorded, a)' = ReportedConns(recorded, a)
      BY <1>1, <1>3, <3>1 DEF ReportedConns
    <3> QED BY <1>1, <3>2 DEF ReportsFit
  <2>4. ASSUME NEW a \in Ips, cfg.receiver = "run"
        PROVE  runIpTput'[a] = StatOf(ReportedConns(measured, a))'
    <3>1. measured \subseteq Conns
      BY <1>1 DEF ConnectionTypes
    <3>2. ReportedConns(measured, a)' = ReportedConns(measured, a)
      BY <1>1, <1>3, <3>1 DEF ReportedConns
    <3>3. \A c \in ReportedConns(measured, a) : socket'[c] = socket[c]
      BY <1>3, <3>1 DEF ReportedConns
    <3>4. StatOf(ReportedConns(measured, a))' = StatOf(ReportedConns(measured, a))
      BY <3>2, <3>3, StatsStay DEF StatOf, BytesOf
    <3> QED BY <1>1, <2>4, <3>4 DEF ReportsFit
  <2> QED BY <2>1, <2>2, <2>3, <2>4 DEF ReportsFit
<1> QED
  BY <1>1, <1>2, <1>4 DEF ConnectionInv

-----------------------------------------------------------------------------
(* The lookups.                                                              *)

(* What is known of a socket and of its thread.                              *)
LEMMA SocketFacts ==
  ASSUME ConnectionInv, NEW c \in Conns, NEW w, w = c[1]
  PROVE  /\ w \in Threads /\ c \in Of(w) /\ ConnectionTypes /\ cfg \in Configs
         /\ LookupsFit(w) /\ CountsFit(w) /\ socket[c] \in Sockets
         /\ entries[w] \in Seq(Entry) /\ dnsCache[w] \in Nat /\ dnsCache[w] = Len(entries[w])
         /\ given[w] \in [Ips -> Nat] /\ breaks[w] \in Nat /\ connCounter[w] \in Nat
         /\ IsFiniteSet(Asking(w)) /\ Cardinality(Asking(w)) \in Nat
         /\ \A d \in Of(w) : d \in Conns /\ d[1] = w /\ d[2] \in Nat /\ (d[2] = c[2] => d = c)
<1>1. ConnectionTypes /\ cfg \in Configs
  BY DEF ConnectionInv, ConnectionTypes
<1>2. w \in Threads /\ c \in Of(w) /\ LookupsFit(w) /\ CountsFit(w)
  BY <1>1, ConnShape DEF ConnectionInv
<1>3. Asking(w) \subseteq Conns
  BY <1>1, ConnShape DEF Asking
<1>4. IsFiniteSet(Asking(w)) /\ Cardinality(Asking(w)) \in Nat
  BY <1>1, <1>3, ConnsFinite
<1>5. \A d \in Of(w) : d \in Conns /\ d[1] = w /\ d[2] \in Nat /\ (d[2] = c[2] => d = c)
  BY <1>1, ConnShape
<1>6. /\ socket[c] \in Sockets /\ entries[w] \in Seq(Entry) /\ dnsCache[w] \in Nat
      /\ given[w] \in [Ips -> Nat] /\ breaks[w] \in Nat /\ connCounter[w] \in Nat
  BY <1>1, <1>2 DEF ConnectionTypes
<1> QED
  BY <1>1, <1>2, <1>4, <1>5, <1>6 DEF LookupsFit

(* The sockets that wait for the resolver, when one moves.                   *)
LEMMA AskingMoves ==
  ASSUME ConnectionInv, NEW c \in Conns, NEW w, w = c[1], UNCHANGED cfg,
         \A d \in Conns : d # c => socket'[d] = socket[d]
  PROVE  /\ Cardinality(Asking(w)') \in Nat
         /\ socket[c].phase # "resolving" /\ socket'[c].phase # "resolving"
              => Cardinality(Asking(w)') = Cardinality(Asking(w))
         /\ socket[c].phase # "resolving" /\ socket'[c].phase = "resolving"
              => Cardinality(Asking(w)') = Cardinality(Asking(w)) + 1
         /\ socket[c].phase = "resolving" /\ socket'[c].phase # "resolving"
              => Cardinality(Asking(w)') = Cardinality(Asking(w)) - 1
         /\ socket[c].phase = "resolving" /\ socket'[c].phase = "resolving"
              => Cardinality(Asking(w)') = Cardinality(Asking(w))
<1>1. Of(w)' = Of(w) /\ c \in Of(w) /\ IsFiniteSet(Asking(w)) /\ Cardinality(Asking(w)) \in Nat
  BY ConnsKept, SocketFacts
<1>2. \A d \in Of(w) : d \in Conns
  BY SocketFacts
<1>3. Asking(w)' = IF socket'[c].phase = "resolving" THEN Asking(w) \cup {c} ELSE Asking(w) \ {c}
  BY <1>1, <1>2 DEF Asking
<1>4. c \in Asking(w) <=> socket[c].phase = "resolving"
  BY <1>1 DEF Asking
<1>5. /\ Cardinality(Asking(w) \cup {c})
           = IF c \in Asking(w) THEN Cardinality(Asking(w)) ELSE Cardinality(Asking(w)) + 1
      /\ Cardinality(Asking(w) \ {c})
           = IF c \in Asking(w) THEN Cardinality(Asking(w)) - 1 ELSE Cardinality(Asking(w))
  BY <1>1, FS_AddElement, FS_RemoveElement
<1>6. IsFiniteSet(Asking(w) \ {c}) /\ Cardinality(Asking(w) \ {c}) \in Nat
  BY <1>1, FS_RemoveElement, FS_CardinalityType
<1> QED
  BY <1>1, <1>3, <1>4, <1>5, <1>6

LEMMA CountedUp ==
  ASSUME NEW counts \in [Threads -> [Ips -> Nat]], NEW w \in Threads, NEW a \in Ips
  PROVE  /\ [counts EXCEPT ![w][a] = @ + 1] \in [Threads -> [Ips -> Nat]]
         /\ \A b \in Ips : [counts EXCEPT ![w][a] = @ + 1][w][b]
                             = IF b = a THEN counts[w][b] + 1 ELSE counts[w][b]
         /\ \A v \in Threads \ {w} : [counts EXCEPT ![w][a] = @ + 1][v] = counts[v]
<1>1. PICK row \in [Ips -> Nat] : row = [counts[w] EXCEPT ![a] = @ + 1]
  <2>1. counts[w] \in [Ips -> Nat] /\ counts[w][a] + 1 \in Nat
    OBVIOUS
  <2>2. [counts[w] EXCEPT ![a] = counts[w][a] + 1] \in [Ips -> Nat]
    BY <2>1
  <2> QED BY <2>2
<1>2. [counts EXCEPT ![w][a] = @ + 1] = [counts EXCEPT ![w] = row]
  BY <1>1
<1> QED
  BY <1>1, <1>2

(* A socket is opened.                                                       *)
LEMMA OpensFits ==
  ASSUME ConnectionInv, NEW c \in Conns, NEW w, w = c[1], Opens(c),
         \A d \in Conns : d # c => socket'[d] = socket[d],
         socket'[c].phase # "none"
  PROVE  /\ socket[c].phase = "none" /\ Working(w) /\ c \notin recorded /\ c \notin registry
         /\ connCounter' = [connCounter EXCEPT ![w] = @ + 1]
         /\ connCounter'[w] = connCounter[w] + 1 /\ connCounter'[w] <= cfg.sockets[w]
         /\ \A d \in Of(w) : socket'[d].phase = "none" <=> d[2] > connCounter'[w]
<1>1. /\ w \in Threads /\ c \in Of(w) /\ ConnectionTypes /\ cfg \in Configs
      /\ LookupsFit(w) /\ CountsFit(w) /\ connCounter[w] \in Nat
      /\ \A d \in Of(w) : d \in Conns /\ d[2] \in Nat /\ (d[2] = c[2] => d = c)
  BY SocketFacts
<1>2. /\ socket[c].phase = "none" /\ Working(w) /\ c[2] = connCounter[w] + 1
      /\ connCounter' = [connCounter EXCEPT ![w] = @ + 1]
  BY DEF Opens, SocketIs
<1>3. c \notin recorded /\ c \notin registry
  BY <1>1, <1>2 DEF CountsFit
<1>4. connCounter'[w] = connCounter[w] + 1
  BY <1>1, <1>2 DEF ConnectionTypes
<1>5. c[2] <= cfg.sockets[w]
  BY <1>1, ConnShape
<1>6. ASSUME NEW d \in Of(w)
      PROVE  socket'[d].phase = "none" <=> d[2] > connCounter'[w]
  <2>1. CASE d = c
    BY <1>1, <1>2, <1>4, <2>1
  <2>2. CASE d # c
    <3>1. socket[d].phase = "none" <=> d[2] > connCounter[w]
      BY <1>1 DEF LookupsFit
    <3>2. d[2] # connCounter[w] + 1 /\ d[2] \in Nat /\ socket'[d] = socket[d]
      BY <1>1, <1>2, <2>2
    <3> QED BY <1>1, <1>4, <3>1, <3>2
  <2> QED BY <2>1, <2>2
<1> QED
  BY <1>2, <1>3, <1>4, <1>5, <1>6

LEMMA FromCacheKeeps ==
  ASSUME ConnectionInv, NEW c \in Conns, FromCache(c)
  PROVE  ConnectionInv'
<1>1. PICK w : w = c[1]
  OBVIOUS
<1>2. /\ w \in Threads /\ c \in Of(w) /\ ConnectionTypes /\ LookupsFit(w) /\ CountsFit(w)
      /\ socket[c] \in Sockets /\ given[w] \in [Ips -> Nat] /\ breaks[w] \in Nat
      /\ entries[w] \in Seq(Entry) /\ dnsCache[w] \in Nat /\ dnsCache[w] = Len(entries[w])
      /\ connCounter[w] \in Nat /\ Cardinality(Asking(w)) \in Nat
      /\ \A d \in Of(w) : d \in Conns /\ d[1] = w
  BY <1>1, SocketFacts
<1>3. PICK n \in Nat : n = dnsCache[w] /\ n # 0
  BY <1>1, <1>2 DEF FromCache, Hit
<1>4. PICK ips \in Answers, e \in Nat : ips = entries[w][n].ips /\ e = entries[w][n].idx /\ e # 0
  <2>1. entries[w][n] \in Entry
    BY <1>2, <1>3
  <2> QED BY <2>1 DEF Entry
<1>5. /\ socket' = [socket EXCEPT ![c].phase = "opening", ![c].ip = Address(ips, e)]
      /\ given' = [given EXCEPT ![w][Address(ips, e)] = @ + 1]
      /\ entries' = [entries EXCEPT ![w][n].idx = @ + 1]
      /\ UNCHANGED <<cfg, dnsCache, breaks, recorded, ipCounts, registry, reportVars>>
      /\ Opens(c)
  BY <1>1, <1>3, <1>4 DEF FromCache, Cached, Deliver, Opens, statVars
<1>6. Address(ips, e) \in Ips
  BY <1>4, AddressInside
<1>7. /\ \A d \in Conns : d # c => socket'[d] = socket[d]
      /\ socket'[c] \in Sockets /\ socket'[c].phase = "opening"
      /\ socket'[c].found = socket[c].found
  BY <1>2, <1>5, <1>6 DEF ConnectionTypes, Sockets, SocketPhases
<1>8. /\ socket[c].phase = "none" /\ Working(w) /\ c \notin recorded /\ c \notin registry
      /\ connCounter' = [connCounter EXCEPT ![w] = @ + 1]
      /\ connCounter'[w] = connCounter[w] + 1 /\ connCounter'[w] <= cfg.sockets[w]
      /\ \A d \in Of(w) : socket'[d].phase = "none" <=> d[2] > connCounter'[w]
  BY <1>1, <1>5, <1>7, OpensFits
<1>9. Conns' = Conns /\ Of(w)' = Of(w)
  BY <1>5, ConnsKept
<1>10. /\ entries'[w] = [entries[w] EXCEPT ![n].idx = e + 1]
       /\ entries'[w] \in Seq(Entry) /\ Len(entries'[w]) = Len(entries[w])
       /\ entries'[w][n].ips = ips /\ entries'[w][n].idx = e + 1
       /\ \A m \in 1 .. Len(entries[w]) : entries'[w][m].ips = entries[w][m].ips
  <2>1. PICK new : new = [entries[w][n] EXCEPT !.idx = e + 1]
    OBVIOUS
  <2>2. entries[w][n] \in Entry
    BY <1>2, <1>3
  <2>3. new \in Entry /\ new.ips = ips /\ new.idx = e + 1
    BY <1>4, <2>1, <2>2 DEF Entry
  <2>4. entries'[w] = [entries[w] EXCEPT ![n] = new]
    BY <1>2, <1>4, <1>5, <2>1 DEF ConnectionTypes
  <2>5. /\ [entries[w] EXCEPT ![n] = new] \in Seq(Entry)
        /\ Len([entries[w] EXCEPT ![n] = new]) = Len(entries[w])
        /\ [entries[w] EXCEPT ![n] = new][n] = new
        /\ \A m \in 1 .. Len(entries[w]) :
             m # n => [entries[w] EXCEPT ![n] = new][m] = entries[w][m]
    BY <1>2, <1>3, <2>3
  <2>6. \A m \in 1 .. Len(entries[w]) : entries'[w][m].ips = entries[w][m].ips
    BY <1>4, <2>3, <2>4, <2>5
  <2> QED BY <2>1, <2>3, <2>4, <2>5, <2>6
<1>11. \A a \in Ips : given'[w][a] = IF a = Address(ips, e) THEN given[w][a] + 1 ELSE given[w][a]
  BY <1>2, <1>5 DEF ConnectionTypes
<1>12. ConnectionTypes'
  <2>1. socket' \in [Conns -> Sockets]
    BY <1>2, <1>5, <1>7 DEF ConnectionTypes
  <2>2. connCounter' \in [Threads -> Nat] /\ entries' \in [Threads -> Seq(Entry)]
    BY <1>2, <1>5, <1>8, <1>10 DEF ConnectionTypes
  <2>3. given' \in [Threads -> [Ips -> Nat]]
    BY <1>2, <1>5, <1>6, CountedUp DEF ConnectionTypes
  <2> QED BY <1>2, <1>5, <1>9, <2>1, <2>2, <2>3 DEF ConnectionTypes, reportVars
<1>13. LookupsFit(w)'
  <2>1. Cardinality(Asking(w)') = Cardinality(Asking(w))
    BY <1>1, <1>5, <1>7, <1>8, AskingMoves
  <2>2. \A a \in Ips : /\ given[w][a] \in Nat
                       /\ given[w][a] + Cardinality(Asking(w)) <= connCounter[w]
    BY <1>2 DEF LookupsFit
  <2>3. ASSUME NEW a \in Ips
        PROVE  given'[w][a] + Cardinality(Asking(w)') <= connCounter'[w]
    <3>1. given'[w][a] <= given[w][a] + 1 /\ given'[w][a] \in Nat /\ given[w][a] \in Nat
      BY <1>11, <2>2
    <3>2. given[w][a] + Cardinality(Asking(w)) <= connCounter[w]
      BY <2>2
    <3> QED BY <1>2, <1>8, <2>1, <3>1, <3>2
  <2>4. breaks'[w] + Cardinality(Asking(w)') <= connCounter'[w]
    <3>1. breaks[w] + Cardinality(Asking(w)) <= connCounter[w] /\ breaks'[w] = breaks[w]
      BY <1>2, <1>5 DEF LookupsFit
    <3>2. PICK a \in Nat, x \in Nat, y \in Nat :
            a = Cardinality(Asking(w)) /\ x = breaks[w] /\ y = connCounter[w]
      BY <1>2
    <3> QED BY <1>8, <2>1, <3>1, <3>2
  <2>5. given'[w] \in [Ips -> Nat]
    BY <1>2, <1>5, <1>6, CountedUp DEF ConnectionTypes
  <2>6. Even(w)'
    <3>1. EvenOver(ips, e, given[w], breaks[w], Steady(w)) /\ Steady(w) \subseteq Within(ips)
      BY <1>2, <1>3, <1>4, CachedFacts DEF LookupsFit, Even, Cached
    <3>2. EvenOver(ips, e + 1, given'[w], breaks[w], Steady(w))
      BY <1>2, <1>4, <1>11, <2>5, <3>1, EvenTurns
    <3>3. dnsCache'[w] = n /\ breaks'[w] = breaks[w]
      BY <1>3, <1>5
    <3>5. Steady(w)' = Steady(w)
      BY <1>10, SteadyIs, SteadySame
    <3>4. Cached(w)'.ips = ips /\ Cached(w)'.idx = e + 1
      BY <1>3, <1>10, <3>3 DEF Cached
    <3> QED BY <1>3, <3>2, <3>3, <3>4, <3>5 DEF Even, EvenOver, Turns, Ahead
  <2>7. \A d \in Of(w) : socket'[d].found <= dnsCache'[w]
    BY <1>2, <1>5, <1>7 DEF LookupsFit
  <2>8. dnsCache'[w] = Len(entries'[w]) /\ connCounter'[w] <= cfg'.sockets[w]
    BY <1>2, <1>5, <1>8, <1>10
  <2> QED BY <1>8, <1>9, <2>3, <2>4, <2>6, <2>7, <2>8 DEF LookupsFit
<1>14. CountsFit(w)'
  <2>1. \A d \in Of(w) : d # c => socket'[d] = socket[d]
    BY <1>2, <1>7
  <2>2. \A d \in Of(w) : d \in recorded => socket[d].phase \in {"connected", "secure", "closed"}
    BY <1>2 DEF CountsFit
  <2> QED BY <1>2, <1>5, <1>7, <1>8, <2>1, <2>2, CountsStay
<1>15. \A v \in Threads \ {w} :
         /\ dnsCache'[v] = dnsCache[v] /\ entries'[v] = entries[v]
         /\ connCounter'[v] = connCounter[v] /\ ipCounts'[v] = ipCounts[v]
         /\ given'[v] = given[v] /\ breaks'[v] = breaks[v]
  BY <1>2, <1>5, <1>8 DEF ConnectionTypes
<1>16. \A d \in Conns : d[1] # w => /\ socket'[d] = socket[d]
                                    /\ d \in recorded' <=> d \in recorded
                                    /\ d \in registry' <=> d \in registry
  BY <1>1, <1>5, <1>7
<1>17. UNCHANGED <<cfg, reportVars>>
  BY <1>5
<1> QED
  BY <1>2, <1>8, <1>12, <1>13, <1>14, <1>15, <1>16, <1>17, ThreadMoves

LEMMA AsksKeeps ==
  ASSUME ConnectionInv, NEW c \in Conns, Asks(c)
  PROVE  ConnectionInv'
<1>1. PICK w : w = c[1]
  OBVIOUS
<1>2. /\ w \in Threads /\ c \in Of(w) /\ ConnectionTypes /\ LookupsFit(w) /\ CountsFit(w)
      /\ socket[c] \in Sockets /\ given[w] \in [Ips -> Nat] /\ breaks[w] \in Nat
      /\ dnsCache[w] \in Nat /\ connCounter[w] \in Nat /\ Cardinality(Asking(w)) \in Nat
      /\ \A d \in Of(w) : d \in Conns /\ d[1] = w
  BY <1>1, SocketFacts
<1>3. /\ socket' = [socket EXCEPT ![c].phase = "resolving", ![c].found = dnsCache[w]]
      /\ UNCHANGED <<cfg, dnsCache, entries, given, breaks, recorded, ipCounts, registry, reportVars>>
      /\ Opens(c)
  BY <1>1 DEF Asks, Opens, statVars
<1>4. /\ \A d \in Conns : d # c => socket'[d] = socket[d]
      /\ socket'[c] \in Sockets /\ socket'[c].phase = "resolving"
      /\ socket'[c].found = dnsCache[w]
  BY <1>2, <1>3 DEF ConnectionTypes, Sockets, SocketPhases
<1>5. /\ socket[c].phase = "none" /\ Working(w) /\ c \notin recorded /\ c \notin registry
      /\ connCounter' = [connCounter EXCEPT ![w] = @ + 1]
      /\ connCounter'[w] = connCounter[w] + 1 /\ connCounter'[w] <= cfg.sockets[w]
      /\ \A d \in Of(w) : socket'[d].phase = "none" <=> d[2] > connCounter'[w]
  BY <1>1, <1>3, <1>4, OpensFits
<1>6. Conns' = Conns /\ Of(w)' = Of(w)
  BY <1>3, ConnsKept
<1>7. ConnectionTypes'
  <2>1. socket' \in [Conns -> Sockets]
    BY <1>2, <1>3, <1>4 DEF ConnectionTypes
  <2>2. connCounter' \in [Threads -> Nat]
    BY <1>2, <1>5 DEF ConnectionTypes
  <2> QED BY <1>2, <1>3, <1>6, <2>1, <2>2 DEF ConnectionTypes, reportVars
<1>8. LookupsFit(w)'
  <2>1. Cardinality(Asking(w)') = Cardinality(Asking(w)) + 1
    BY <1>1, <1>3, <1>4, <1>5, AskingMoves
  <2>2. \A a \in Ips : /\ given[w][a] \in Nat
                       /\ given[w][a] + Cardinality(Asking(w)) <= connCounter[w]
    BY <1>2 DEF LookupsFit
  <2>3. ASSUME NEW a \in Ips
        PROVE  given'[w][a] + Cardinality(Asking(w)') <= connCounter'[w]
    <3>1. given'[w][a] <= given[w][a] /\ given'[w][a] \in Nat /\ given[w][a] \in Nat
      BY <1>3, <2>2
    <3>2. given[w][a] + Cardinality(Asking(w)) <= connCounter[w]
      BY <2>2
    <3> QED BY <1>2, <1>5, <2>1, <3>1, <3>2
  <2>4. breaks'[w] + Cardinality(Asking(w)') <= connCounter'[w]
    <3>1. breaks[w] + Cardinality(Asking(w)) <= connCounter[w] /\ breaks'[w] = breaks[w]
      BY <1>2, <1>3 DEF LookupsFit
    <3>2. PICK a \in Nat, x \in Nat, y \in Nat :
            a = Cardinality(Asking(w)) /\ x = breaks[w] /\ y = connCounter[w]
      BY <1>2
    <3> QED BY <1>5, <2>1, <3>1, <3>2
  <2>6. Even(w)'
    BY <1>2, <1>3, EvenStays DEF LookupsFit
  <2>7. ASSUME NEW d \in Of(w)
        PROVE  socket'[d].found <= dnsCache'[w]
    <3>1. dnsCache'[w] = dnsCache[w] /\ dnsCache[w] <= dnsCache[w]
      BY <1>2, <1>3
    <3>2. CASE d = c
      BY <1>4, <3>1, <3>2
    <3>3. CASE d # c
      <4>1. socket'[d] = socket[d] /\ socket[d].found <= dnsCache[w]
        BY <1>2, <1>4, <3>3 DEF LookupsFit
      <4> QED BY <3>1, <4>1
    <3> QED BY <3>2, <3>3
  <2>8. dnsCache'[w] = Len(entries'[w]) /\ connCounter'[w] <= cfg'.sockets[w]
    BY <1>2, <1>3, <1>5 DEF LookupsFit
  <2> QED BY <1>5, <1>6, <2>3, <2>4, <2>6, <2>7, <2>8 DEF LookupsFit
<1>9. CountsFit(w)'
  <2>1. \A d \in Of(w) : d # c => socket'[d] = socket[d]
    BY <1>2, <1>4
  <2>2. \A d \in Of(w) : d \in recorded => socket[d].phase \in {"connected", "secure", "closed"}
    BY <1>2 DEF CountsFit
  <2> QED BY <1>2, <1>3, <1>4, <1>5, <2>1, <2>2, CountsStay
<1>10. \A v \in Threads \ {w} :
         /\ dnsCache'[v] = dnsCache[v] /\ entries'[v] = entries[v]
         /\ connCounter'[v] = connCounter[v] /\ ipCounts'[v] = ipCounts[v]
         /\ given'[v] = given[v] /\ breaks'[v] = breaks[v]
  BY <1>2, <1>3, <1>5 DEF ConnectionTypes
<1>11. \A d \in Conns : d[1] # w => /\ socket'[d] = socket[d]
                                    /\ d \in recorded' <=> d \in recorded
                                    /\ d \in registry' <=> d \in registry
  BY <1>1, <1>3, <1>4
<1>12. UNCHANGED <<cfg, reportVars>>
  BY <1>3
<1> QED
  BY <1>2, <1>5, <1>7, <1>8, <1>9, <1>10, <1>11, <1>12, ThreadMoves

(* An answer with the list that is cached, for a lookup that found it there, *)
(* goes on with its turns; any other starts somewhere in another round.      *)
LEMMA ResolvedKeeps ==
  ASSUME ConnectionInv, NEW c \in Conns, Resolved(c)
  PROVE  ConnectionInv'
<1>1. PICK w : w = c[1]
  OBVIOUS
<1>2. /\ w \in Threads /\ c \in Of(w) /\ ConnectionTypes /\ LookupsFit(w) /\ CountsFit(w)
      /\ socket[c] \in Sockets /\ given[w] \in [Ips -> Nat] /\ breaks[w] \in Nat
      /\ entries[w] \in Seq(Entry) /\ dnsCache[w] \in Nat /\ dnsCache[w] = Len(entries[w])
      /\ connCounter[w] \in Nat /\ Cardinality(Asking(w)) \in Nat
      /\ \A d \in Of(w) : d \in Conns /\ d[1] = w
  BY <1>1, SocketFacts
<1>3. PICK f \in Nat : f = socket[c].found /\ f <= dnsCache[w]
  BY <1>2 DEF Sockets, LookupsFit
<1>4. PICK e \in Nat : e = FromFound(c) /\ e = IF f = 0 THEN 0 ELSE entries[w][f].idx
  <2>1. f # 0 => entries[w][f] \in Entry
    BY <1>2, <1>3
  <2>2. f # 0 => entries[w][f].idx \in Nat
    BY <2>1 DEF Entry
  <2> QED BY <1>1, <1>3, <2>2 DEF FromFound
<1>5. PICK ips \in Answers :
         /\ socket[c].phase = "resolving" /\ Working(w)
         /\ socket' = [socket EXCEPT ![c].phase = "opening", ![c].ip = Address(ips, e)]
         /\ given' = [given EXCEPT ![w][Address(ips, e)] = @ + 1]
         /\ entries' = [entries EXCEPT ![w] =
                           Append(@, [ips |-> ips, idx |-> e + 1, fresh |-> TRUE])]
         /\ dnsCache' = [dnsCache EXCEPT ![w] = dnsCache[w] + 1]
         /\ breaks' = [breaks EXCEPT ![w] = IF Breaks(c, ips) THEN @ + 1 ELSE @]
         /\ UNCHANGED <<cfg, connCounter, recorded, ipCounts, registry, reportVars>>
  BY <1>1, <1>2, <1>4 DEF Resolved, SocketIs, Deliver, statVars
<1>6. Address(ips, e) \in Ips
  BY <1>4, <1>5, AddressInside
<1>7. /\ \A d \in Conns : d # c => socket'[d] = socket[d]
      /\ socket'[c] \in Sockets /\ socket'[c].phase = "opening"
      /\ socket'[c].found = socket[c].found
  BY <1>2, <1>5, <1>6 DEF ConnectionTypes, Sockets, SocketPhases
<1>8. Conns' = Conns /\ Of(w)' = Of(w)
  BY <1>5, ConnsKept
<1>9. /\ entries'[w] = Append(entries[w], [ips |-> ips, idx |-> e + 1, fresh |-> TRUE])
      /\ entries'[w] \in Seq(Entry) /\ Len(entries'[w]) = dnsCache[w] + 1
      /\ entries'[w][dnsCache[w] + 1].ips = ips /\ entries'[w][dnsCache[w] + 1].idx = e + 1
      /\ \A m \in 1 .. Len(entries[w]) : entries'[w][m] = entries[w][m]
      /\ dnsCache'[w] = dnsCache[w] + 1
  <2>1. PICK new : new = [ips |-> ips, idx |-> e + 1, fresh |-> TRUE]
    OBVIOUS
  <2>2. new \in Entry /\ new.ips = ips /\ new.idx = e + 1
    BY <1>4, <2>1 DEF Entry
  <2>3. entries'[w] = Append(entries[w], new) /\ dnsCache'[w] = dnsCache[w] + 1
    BY <1>2, <1>5, <2>1 DEF ConnectionTypes
  <2>4. /\ Append(entries[w], new) \in Seq(Entry)
        /\ Len(Append(entries[w], new)) = Len(entries[w]) + 1
        /\ Append(entries[w], new)[Len(entries[w]) + 1] = new
        /\ \A m \in 1 .. Len(entries[w]) : Append(entries[w], new)[m] = entries[w][m]
    BY <1>2, <2>2
  <2> QED BY <1>2, <2>1, <2>2, <2>3, <2>4
<1>10. \A a \in Ips : given'[w][a] = IF a = Address(ips, e) THEN given[w][a] + 1 ELSE given[w][a]
  BY <1>2, <1>5 DEF ConnectionTypes
<1>11. breaks'[w] = IF Breaks(c, ips) THEN breaks[w] + 1 ELSE breaks[w]
  BY <1>2, <1>5 DEF ConnectionTypes
<1>12. ConnectionTypes'
  <2>1. socket' \in [Conns -> Sockets]
    BY <1>2, <1>5, <1>7 DEF ConnectionTypes
  <2>2. entries' \in [Threads -> Seq(Entry)]
    BY <1>2, <1>5, <1>9 DEF ConnectionTypes
  <2>3. given' \in [Threads -> [Ips -> Nat]]
    BY <1>2, <1>5, <1>6, CountedUp DEF ConnectionTypes
  <2>4. dnsCache' \in [Threads -> Nat] /\ breaks' \in [Threads -> Nat]
    BY <1>2, <1>5 DEF ConnectionTypes
  <2> QED BY <1>2, <1>5, <1>8, <2>1, <2>2, <2>3, <2>4 DEF ConnectionTypes, reportVars
<1>13. LookupsFit(w)'
  <2>1. Cardinality(Asking(w)') = Cardinality(Asking(w)) - 1 /\ Cardinality(Asking(w)') \in Nat
    BY <1>1, <1>5, <1>7, AskingMoves
  <2>2. \A a \in Ips : /\ given[w][a] \in Nat
                       /\ given[w][a] + Cardinality(Asking(w)) <= connCounter[w]
    BY <1>2 DEF LookupsFit
  <2>3. connCounter'[w] = connCounter[w]
    BY <1>5
  <2>4. ASSUME NEW a \in Ips
        PROVE  given'[w][a] + Cardinality(Asking(w)') <= connCounter'[w]
    <3>1. given'[w][a] <= given[w][a] + 1 /\ given'[w][a] \in Nat /\ given[w][a] \in Nat
      BY <1>10, <2>2
    <3>2. given[w][a] + Cardinality(Asking(w)) <= connCounter[w]
      BY <2>2
    <3> QED BY <1>2, <2>1, <2>3, <3>1, <3>2
  <2>5. breaks'[w] + Cardinality(Asking(w)') <= connCounter'[w]
    <3>1. breaks[w] + Cardinality(Asking(w)) <= connCounter[w]
      BY <1>2 DEF LookupsFit
    <3> QED BY <1>2, <1>11, <2>1, <2>3, <3>1
  <2>6. /\ given'[w] \in [Ips -> Nat]
        /\ Steady(w)' \subseteq Steady(w) /\ Steady(w)' \subseteq Within(ips)
    <3>1. given'[w] \in [Ips -> Nat]
      BY <1>2, <1>5, <1>6, CountedUp DEF ConnectionTypes
    <3>2. Steady(w)' \subseteq Steady(w) /\ Steady(w)' \subseteq Within(ips)
      <4>a. PICK k \in Nat : k = dnsCache[w]
        BY <1>2
      <4>1. PICK old, new : old = entries[w] /\ new = entries'[w]
        OBVIOUS
      <4>2. Len(old) = k /\ Len(new) = k + 1 /\ \A m \in 1 .. k : new[m] = old[m]
        BY <1>2, <1>9, <4>a, <4>1
      <4>3. SteadyOf(new) \subseteq SteadyOf(old) /\ SteadyOf(new) \subseteq Within(new[k + 1].ips)
        BY <4>2, SteadyShrinks
      <4> QED BY <1>9, <4>a, <4>1, <4>3, SteadyIs
    <3> QED BY <3>1, <3>2
  <2>7. EvenOver(ips, e, given[w], breaks'[w], Steady(w)')
    <3>1. CASE dnsCache[w] = 0
      <4>1. Even(w)
        BY <1>2 DEF LookupsFit
      <4>2. \A a \in Ips : given[w][a] = 0
        BY <3>1, <4>1 DEF Even
      <4>3. e = 0
        BY <1>2, <1>3, <1>4, <3>1
      <4>4. breaks'[w] \in Nat
        BY <1>2, <1>11
      <4> QED BY <1>2, <2>6, <4>2, <4>3, <4>4, EvenStarts
    <3>2. CASE dnsCache[w] # 0
      <4>1. /\ Cached(w).ips \in Answers /\ Cached(w).idx \in Nat
            /\ Steady(w)' \subseteq Within(Cached(w).ips)
        BY <1>2, <2>6, <3>2, CachedFacts
      <4>2. EvenOver(Cached(w).ips, Cached(w).idx, given[w], breaks[w], Steady(w)')
        BY <1>2, <2>6, <3>2 DEF LookupsFit, Even, EvenOver
      <4>3. CASE Breaks(c, ips)
        <5>1. breaks'[w] = breaks[w] + 1
          BY <1>11, <4>3
        <5>2. EvenOver(ips, e, given[w], breaks[w] + 1, Steady(w)')
          BY <1>2, <1>4, <1>5, <2>6, <4>1, <4>2, EvenBreaks
        <5> QED BY <5>1, <5>2
      <4>4. CASE ~Breaks(c, ips)
        <5>1. /\ Cached(w).ips = ips /\ Cached(w).idx = e /\ breaks'[w] = breaks[w]
          BY <1>1, <1>3, <1>4, <1>11, <3>2, <4>4 DEF Breaks, Cached
        <5> QED BY <4>2, <5>1
      <4> QED BY <4>3, <4>4
    <3> QED BY <3>1, <3>2
  <2>8. Even(w)'
    <3>1. breaks'[w] \in Nat
      BY <1>2, <1>11
    <3>2. EvenOver(ips, e + 1, given'[w], breaks'[w], Steady(w)')
      BY <1>2, <1>4, <1>5, <1>10, <2>6, <2>7, <3>1, EvenTurns
    <3>3. /\ dnsCache'[w] # 0
          /\ Cached(w)'.ips = ips /\ Cached(w)'.idx = e + 1
      BY <1>2, <1>9 DEF Cached
    <3> QED BY <3>2, <3>3 DEF Even, EvenOver, Turns, Ahead
  <2>9. \A d \in Of(w) : socket'[d].found <= dnsCache'[w]
    <3>1. \A d \in Of(w) : socket[d].found <= dnsCache[w] /\ socket[d].found \in Nat
      BY <1>2 DEF LookupsFit, ConnectionTypes, Sockets
    <3> QED BY <1>2, <1>7, <1>9, <3>1
  <2>10. \A d \in Of(w) : socket'[d].phase = "none" <=> d[2] > connCounter'[w]
    BY <1>2, <1>5, <1>7, <2>3 DEF LookupsFit
  <2>11. dnsCache'[w] = Len(entries'[w]) /\ connCounter'[w] <= cfg'.sockets[w]
    BY <1>2, <1>5, <1>9, <2>3 DEF LookupsFit
  <2> QED BY <1>8, <2>4, <2>5, <2>8, <2>9, <2>10, <2>11 DEF LookupsFit
<1>14. CountsFit(w)'
  <2>1. \A d \in Of(w) : d # c => socket'[d] = socket[d]
    BY <1>2, <1>7
  <2>2. \A d \in Of(w) : d \in recorded => socket[d].phase \in {"connected", "secure", "closed"}
    BY <1>2 DEF CountsFit
  <2>3. c \notin recorded
    BY <1>2, <1>5, <2>2
  <2> QED BY <1>2, <1>5, <1>7, <2>1, <2>2, <2>3, CountsStay
<1>15. \A v \in Threads \ {w} :
         /\ dnsCache'[v] = dnsCache[v] /\ entries'[v] = entries[v]
         /\ connCounter'[v] = connCounter[v] /\ ipCounts'[v] = ipCounts[v]
         /\ given'[v] = given[v] /\ breaks'[v] = breaks[v]
  BY <1>2, <1>5 DEF ConnectionTypes
<1>16. \A d \in Conns : d[1] # w => /\ socket'[d] = socket[d]
                                    /\ d \in recorded' <=> d \in recorded
                                    /\ d \in registry' <=> d \in registry
  BY <1>1, <1>5, <1>7
<1>17. UNCHANGED <<cfg, reportVars>>
  BY <1>5
<1> QED
  BY <1>2, <1>5, <1>12, <1>13, <1>14, <1>15, <1>16, <1>17, ThreadMoves

LEMMA ExpiresKeeps ==
  ASSUME ConnectionInv, NEW w \in Threads, Expires(w)
  PROVE  ConnectionInv'
<1>1. ConnectionTypes /\ LookupsFit(w) /\ CountsFit(w) /\ entries[w] \in Seq(Entry)
  BY DEF ConnectionInv, ConnectionTypes
<1>2. PICK n \in Nat : n = dnsCache[w] /\ n # 0 /\ n = Len(entries[w])
  BY <1>1 DEF Expires, Hit, LookupsFit, ConnectionTypes
<1>3. /\ Working(w) /\ entries' = [entries EXCEPT ![w][n].fresh = FALSE]
      /\ UNCHANGED <<cfg, dnsCache, given, breaks, connCounter, socket, recorded, ipCounts,
                     registry, reportVars>>
  BY <1>2 DEF Expires, statVars
<1>4. /\ entries'[w] \in Seq(Entry) /\ Len(entries'[w]) = Len(entries[w])
      /\ \A m \in 1 .. Len(entries[w]) : /\ entries'[w][m].ips = entries[w][m].ips
                                          /\ entries'[w][m].idx = entries[w][m].idx
  <2>1. PICK new : new = [entries[w][n] EXCEPT !.fresh = FALSE]
    OBVIOUS
  <2>2. entries[w][n] \in Entry
    BY <1>1, <1>2
  <2>3. new \in Entry /\ new.ips = entries[w][n].ips /\ new.idx = entries[w][n].idx
    BY <2>1, <2>2 DEF Entry
  <2>4. entries'[w] = [entries[w] EXCEPT ![n] = new]
    BY <1>1, <1>3, <2>1 DEF ConnectionTypes
  <2>5. /\ [entries[w] EXCEPT ![n] = new] \in Seq(Entry)
        /\ Len([entries[w] EXCEPT ![n] = new]) = Len(entries[w])
        /\ [entries[w] EXCEPT ![n] = new][n] = new
        /\ \A m \in 1 .. Len(entries[w]) :
             m # n => [entries[w] EXCEPT ![n] = new][m] = entries[w][m]
    BY <1>1, <1>2, <2>3
  <2> QED BY <2>3, <2>4, <2>5
<1>5. Conns' = Conns
  BY <1>3, ConnsKept
<1>6. ConnectionTypes'
  <2>1. entries' \in [Threads -> Seq(Entry)]
    BY <1>1, <1>3, <1>4 DEF ConnectionTypes
  <2> QED BY <1>1, <1>3, <1>5, <2>1 DEF ConnectionTypes, reportVars
<1>7. LookupsFit(w)'
  BY <1>1, <1>2, <1>3, <1>4, LookupsStay
<1>8. CountsFit(w)'
  <2>1. \A d \in Of(w) : d \in recorded => socket[d].phase \in {"connected", "secure", "closed"}
    BY <1>1 DEF CountsFit
  <2> QED BY <1>1, <1>3, <2>1, CountsStay
<1>9. \A v \in Threads \ {w} : entries'[v] = entries[v]
  BY <1>1, <1>3 DEF ConnectionTypes
<1> QED
  BY <1>3, <1>6, <1>7, <1>8, <1>9, ThreadMoves

-----------------------------------------------------------------------------
(* The sockets.                                                              *)

(* A socket that was opened moves on.                                        *)
LEMMA SocketMoves ==
  ASSUME ConnectionInv, NEW c \in Conns, NEW w, w = c[1], Working(w),
         UNCHANGED <<cfg, dnsVars, connCounter, reportVars>>,
         \A d \in Conns : d # c => socket'[d] = socket[d],
         socket' \in [Conns -> Sockets], socket'[c].found = socket[c].found,
         socket[c].phase # "none", socket'[c].phase \notin {"none", "resolving"},
         ipCounts' \in [Threads -> [Ips -> Nat]],
         \A v \in Threads \ {w} : ipCounts'[v] = ipCounts[v],
         recorded' \subseteq Conns, registry' \subseteq recorded',
         \A d \in Conns : d # c => /\ d \in recorded' <=> d \in recorded
                                   /\ d \in registry' <=> d \in registry,
         CountsFit(w)'
  PROVE  ConnectionInv'
<1>1. /\ w \in Threads /\ c \in Of(w) /\ ConnectionTypes /\ LookupsFit(w)
      /\ given[w] \in [Ips -> Nat] /\ breaks[w] \in Nat
      /\ connCounter[w] \in Nat /\ Cardinality(Asking(w)) \in Nat
      /\ \A d \in Of(w) : d \in Conns /\ d[1] = w
  BY SocketFacts
<1>2. UNCHANGED <<cfg, dnsCache, entries, given, breaks, connCounter>> /\ UNCHANGED reportVars
  BY DEF dnsVars
<1>3. Conns' = Conns /\ Of(w)' = Of(w)
  BY <1>2, ConnsKept
<1>4. ConnectionTypes'
  BY <1>1, <1>2, <1>3 DEF ConnectionTypes, reportVars
<1>5. LookupsFit(w)'
  <2>1. Cardinality(Asking(w)') <= Cardinality(Asking(w)) /\ Cardinality(Asking(w)') \in Nat
    <3>1. CASE socket[c].phase = "resolving"
      BY <1>1, <1>2, <3>1, AskingMoves
    <3>2. CASE socket[c].phase # "resolving"
      BY <1>1, <1>2, <3>2, AskingMoves
    <3> QED BY <3>1, <3>2
  <2>2. \A a \in Ips : /\ given[w][a] \in Nat
                       /\ given[w][a] + Cardinality(Asking(w)) <= connCounter[w]
    BY <1>1 DEF LookupsFit
  <2>3. ASSUME NEW a \in Ips
        PROVE  given'[w][a] + Cardinality(Asking(w)') <= connCounter'[w]
    <3>1. given'[w][a] <= given[w][a] /\ given'[w][a] \in Nat /\ given[w][a] \in Nat
      BY <1>2, <2>2
    <3>2. given[w][a] + Cardinality(Asking(w)) <= connCounter[w]
      BY <2>2
    <3> QED BY <1>1, <1>2, <2>1, <3>1, <3>2
  <2>4. breaks'[w] + Cardinality(Asking(w)') <= connCounter'[w]
    <3>1. breaks[w] + Cardinality(Asking(w)) <= connCounter[w]
      BY <1>1 DEF LookupsFit
    <3> QED BY <1>1, <1>2, <2>1, <3>1
  <2>6. Even(w)'
    BY <1>1, <1>2, EvenStays DEF LookupsFit, ConnectionTypes
  <2>7. \A d \in Of(w) : /\ socket'[d].found = socket[d].found
                         /\ socket'[d].phase = "none" <=> socket[d].phase = "none"
    BY <1>1
  <2> QED BY <1>1, <1>2, <1>3, <2>3, <2>4, <2>6, <2>7 DEF LookupsFit
<1>6. \A d \in Conns : d[1] # w => /\ socket'[d] = socket[d]
                                   /\ d \in recorded' <=> d \in recorded
                                   /\ d \in registry' <=> d \in registry
  OBVIOUS
<1> QED
  BY <1>1, <1>2, <1>4, <1>5, <1>6, ThreadMoves

(* The counts of a socket that is neither recorded nor closed by its step.   *)
LEMMA UncountedMoves ==
  ASSUME ConnectionInv, NEW c \in Conns, NEW w, w = c[1], Working(w),
         UNCHANGED <<cfg, dnsVars, connCounter, statVars, reportVars>>,
         NEW s \in Sockets, socket' = [socket EXCEPT ![c] = s], s.found = socket[c].found,
         socket[c].phase # "none", s.phase \notin {"none", "resolving"},
         c \in recorded => /\ s.ip = socket[c].ip
                           /\ s.phase \in {"connected", "secure", "closed"},
         s.phase \in {"connected", "secure"} <=> socket[c].phase \in {"connected", "secure"}
  PROVE  ConnectionInv'
<1>1. /\ w \in Threads /\ c \in Of(w) /\ ConnectionTypes /\ CountsFit(w)
      /\ \A d \in Of(w) : d \in Conns
  BY SocketFacts
<1>2. UNCHANGED <<cfg, recorded, ipCounts, registry>>
  BY DEF statVars
<1>3. /\ \A d \in Conns : d # c => socket'[d] = socket[d]
      /\ socket'[c] = s /\ socket' \in [Conns -> Sockets]
  BY <1>1 DEF ConnectionTypes
<1>4. \A d \in Of(w) : d \in recorded => socket[d].phase \in {"connected", "secure", "closed"}
  BY <1>1 DEF CountsFit
<1>5. CountsFit(w)'
  BY <1>1, <1>2, <1>3, <1>4, CountsStay
<1>6. /\ ipCounts' \in [Threads -> [Ips -> Nat]] /\ recorded' \subseteq Conns
      /\ registry' \subseteq recorded'
  BY <1>1, <1>2 DEF ConnectionTypes
<1> QED
  BY <1>2, <1>3, <1>5, <1>6, SocketMoves

LEMMA ResolveFailsKeeps ==
  ASSUME ConnectionInv, NEW c \in Conns, ResolveFails(c)
  PROVE  ConnectionInv'
<1>1. PICK w : w = c[1]
  OBVIOUS
<1>2. socket[c] \in Sockets /\ CountsFit(w) /\ c \in Of(w)
  BY <1>1, SocketFacts
<1>3. PICK s : s = [socket[c] EXCEPT !.phase = "fallback"]
  OBVIOUS
<1>4. s \in Sockets /\ s.phase = "fallback" /\ s.found = socket[c].found
  BY <1>2, <1>3 DEF Sockets, SocketPhases
<1>5. /\ Working(w) /\ socket[c].phase = "resolving" /\ socket' = [socket EXCEPT ![c] = s]
      /\ UNCHANGED <<cfg, dnsVars, connCounter, statVars, reportVars>>
  BY <1>1, <1>3 DEF ResolveFails, SocketIs, BecomesPhase
<1>6. c \notin recorded
  BY <1>2, <1>5 DEF CountsFit
<1> QED
  BY <1>1, <1>4, <1>5, <1>6, UncountedMoves

LEMMA DefaultAnswersKeeps ==
  ASSUME ConnectionInv, NEW c \in Conns, DefaultAnswers(c)
  PROVE  ConnectionInv'
<1>1. PICK w : w = c[1]
  OBVIOUS
<1>2. socket[c] \in Sockets /\ CountsFit(w) /\ c \in Of(w)
  BY <1>1, SocketFacts
<1>3. PICK ip \in Ips : socket' = [socket EXCEPT ![c].phase = "opening", ![c].ip = ip]
  BY DEF DefaultAnswers
<1>4. PICK s : s = [socket[c] EXCEPT !.phase = "opening", !.ip = ip]
  OBVIOUS
<1>5. s \in Sockets /\ s.phase = "opening" /\ s.found = socket[c].found
  BY <1>2, <1>4 DEF Sockets, SocketPhases
<1>6. socket' = [socket EXCEPT ![c] = s]
  <2>1. ConnectionTypes
    BY DEF ConnectionInv
  <2> QED BY <1>3, <1>4, <2>1 DEF ConnectionTypes
<1>7. /\ Working(w) /\ socket[c].phase = "fallback"
      /\ UNCHANGED <<cfg, dnsVars, connCounter, statVars, reportVars>>
  BY <1>1 DEF DefaultAnswers, SocketIs
<1>8. c \notin recorded
  BY <1>2, <1>7 DEF CountsFit
<1> QED
  BY <1>1, <1>5, <1>6, <1>7, <1>8, UncountedMoves

LEMMA ReadsKeeps ==
  ASSUME ConnectionInv, NEW c \in Conns, Reads(c)
  PROVE  ConnectionInv'
<1>1. PICK w : w = c[1]
  OBVIOUS
<1>2. socket[c] \in Sockets
  BY <1>1, SocketFacts
<1>3. /\ Working(w) /\ socket[c].phase \in {"secure", "connected"} 
      /\ UNCHANGED <<cfg, dnsVars, connCounter, statVars, reportVars>>
  BY <1>1 DEF Reads, SocketIs
<1>4. PICK s : s = [socket[c] EXCEPT !.bytes = socket[c].bytes + 1]
  OBVIOUS
<1>5. /\ s \in Sockets /\ s.phase = socket[c].phase /\ s.found = socket[c].found
      /\ s.ip = socket[c].ip
  BY <1>2, <1>3, <1>4 DEF Sockets
<1>6. socket' = [socket EXCEPT ![c] = s]
  BY <1>4 DEF Reads
<1> QED
  BY <1>1, <1>3, <1>5, <1>6, UncountedMoves

(* The second event of a socket that uses TLS finds it recorded.             *)
LEMMA SecuredKeeps ==
  ASSUME ConnectionInv, NEW c \in Conns, Secured(c)
  PROVE  ConnectionInv'
<1>1. PICK w : w = c[1]
  OBVIOUS
<1>2. socket[c] \in Sockets /\ CountsFit(w) /\ c \in Of(w) /\ ConnectionTypes
  BY <1>1, SocketFacts
<1>3. PICK s : s = [socket[c] EXCEPT !.phase = "secure"]
  OBVIOUS
<1>4. /\ s \in Sockets /\ s.phase = "secure" /\ s.found = socket[c].found
      /\ s.ip = socket[c].ip
  BY <1>2, <1>3 DEF Sockets, SocketPhases
<1>5. /\ Working(w) /\ socket[c].phase = "connected" /\ socket' = [socket EXCEPT ![c] = s]
      /\ UNCHANGED <<cfg, dnsVars, connCounter, reportVars>> /\ Record(c)
  BY <1>1, <1>3 DEF Secured, SocketIs, BecomesPhase
<1>6. c \in recorded
  BY <1>2, <1>5 DEF CountsFit, ConnectionTypes
<1>7. UNCHANGED statVars
  BY <1>5, <1>6 DEF Record, FirstEvent, statVars
<1>8. UNCHANGED <<cfg, dnsVars, connCounter, statVars, reportVars>>
  BY <1>5, <1>7
<1> QED
  BY <1>1, <1>4, <1>5, <1>8, UncountedMoves

LEMMA ConnectsKeeps ==
  ASSUME ConnectionInv, NEW c \in Conns, Connects(c)
  PROVE  ConnectionInv'
<1>1. PICK w : w = c[1]
  OBVIOUS
<1>2. /\ w \in Threads /\ c \in Of(w) /\ socket[c] \in Sockets /\ CountsFit(w)
      /\ ConnectionTypes /\ cfg \in Configs /\ \A d \in Of(w) : d \in Conns
  BY <1>1, SocketFacts
<1>3. PICK s : s = [socket[c] EXCEPT !.phase = "connected"]
  OBVIOUS
<1>4. /\ s \in Sockets /\ s.phase = "connected" /\ s.found = socket[c].found
      /\ s.ip = socket[c].ip
  BY <1>2, <1>3 DEF Sockets, SocketPhases
<1>5. /\ Working(w) /\ socket[c].phase = "opening" /\ socket' = [socket EXCEPT ![c] = s]
      /\ UNCHANGED <<cfg, dnsVars, connCounter, reportVars>> /\ Record(c)
  BY <1>1, <1>3 DEF Connects, SocketIs, BecomesPhase
<1>6. c \notin recorded
  BY <1>2, <1>5 DEF CountsFit
<1>7. PICK ip \in Ips : ip = socket[c].ip
  BY <1>2 DEF Sockets
<1>8. /\ recorded' = recorded \cup {c} /\ registry' = registry \cup {c}
      /\ ipCounts' = [ipCounts EXCEPT ![w][ip] = @ + 1]
  BY <1>1, <1>5, <1>6, <1>7 DEF Record, FirstEvent
<1>9. /\ \A d \in Conns : d # c => socket'[d] = socket[d]
      /\ socket'[c] = s /\ socket' \in [Conns -> Sockets]
  BY <1>2, <1>4, <1>5 DEF ConnectionTypes
<1>10. /\ ipCounts' \in [Threads -> [Ips -> Nat]]
       /\ \A a \in Ips : ipCounts'[w][a]
                           = IF a = ip THEN ipCounts[w][a] + 1 ELSE ipCounts[w][a]
       /\ \A v \in Threads \ {w} : ipCounts'[v] = ipCounts[v]
  BY <1>2, <1>8, CountedUp DEF ConnectionTypes
<1>11. Of(w)' = Of(w)
  BY <1>5, ConnsKept
<1>12. CountsFit(w)'
  <2>1. ASSUME NEW a \in Ips
        PROVE  ipCounts'[w][a] = Cardinality(RecordedAt(w, a)')
    <3>1. RecordedAt(w, a) \subseteq Conns /\ ipCounts[w][a] = Cardinality(RecordedAt(w, a))
      BY <1>2 DEF RecordedAt, CountsFit
    <3>2. IsFiniteSet(RecordedAt(w, a)) /\ c \notin RecordedAt(w, a)
      BY <1>2, <1>6, <3>1, ConnsFinite DEF RecordedAt
    <3>3. CASE a = ip
      <4>1. RecordedAt(w, a)' = RecordedAt(w, a) \cup {c}
        BY <1>2, <1>4, <1>7, <1>8, <1>9, <1>11, <3>3 DEF RecordedAt
      <4>2. Cardinality(RecordedAt(w, a) \cup {c}) = Cardinality(RecordedAt(w, a)) + 1
        BY <3>2, FS_AddElement
      <4> QED BY <1>10, <3>1, <3>3, <4>1, <4>2
    <3>4. CASE a # ip
      <4>1. RecordedAt(w, a)' = RecordedAt(w, a)
        BY <1>2, <1>4, <1>7, <1>8, <1>9, <1>11, <3>4 DEF RecordedAt
      <4> QED BY <1>10, <3>1, <3>4, <4>1
    <3> QED BY <3>3, <3>4
  <2>2. ASSUME NEW d \in Of(w)
        PROVE  /\ d \in recorded' => socket'[d].phase \in {"connected", "secure", "closed"}
               /\ d \in registry' <=> socket'[d].phase \in {"connected", "secure"}
    <3>1. CASE d = c
      BY <1>4, <1>8, <1>9, <3>1
    <3>2. CASE d # c
      <4>1. socket'[d] = socket[d]
        BY <1>2, <1>9, <3>2
      <4>2. (d \in recorded' <=> d \in recorded) /\ (d \in registry' <=> d \in registry)
        BY <1>8, <3>2
      <4> QED BY <1>2, <4>1, <4>2 DEF CountsFit
    <3> QED BY <3>1, <3>2
  <2> QED BY <1>11, <2>1, <2>2 DEF CountsFit
<1>13. /\ recorded' \subseteq Conns /\ registry' \subseteq recorded'
       /\ \A d \in Conns : d # c => /\ d \in recorded' <=> d \in recorded
                                    /\ d \in registry' <=> d \in registry
  BY <1>2, <1>8 DEF ConnectionTypes
<1> QED
  BY <1>1, <1>4, <1>5, <1>9, <1>10, <1>12, <1>13, SocketMoves

LEMMA ClosesKeeps ==
  ASSUME ConnectionInv, NEW c \in Conns, Closes(c)
  PROVE  ConnectionInv'
<1>1. PICK w : w = c[1]
  OBVIOUS
<1>2. /\ w \in Threads /\ c \in Of(w) /\ socket[c] \in Sockets /\ CountsFit(w)
      /\ ConnectionTypes /\ \A d \in Of(w) : d \in Conns
  BY <1>1, SocketFacts
<1>3. PICK s : s = [socket[c] EXCEPT !.phase = "closed"]
  OBVIOUS
<1>4. /\ s \in Sockets /\ s.phase = "closed" /\ s.found = socket[c].found
      /\ s.ip = socket[c].ip
  BY <1>2, <1>3 DEF Sockets, SocketPhases
<1>5. /\ Working(w) /\ socket[c].phase \in {"fallback", "opening", "connected", "secure"}
      /\ socket' = [socket EXCEPT ![c] = s] /\ registry' = registry \ {c}
      /\ UNCHANGED <<cfg, dnsVars, connCounter, recorded, ipCounts, reportVars>>
  BY <1>1, <1>3 DEF Closes, SocketIs, BecomesPhase
<1>6. /\ \A d \in Conns : d # c => socket'[d] = socket[d]
      /\ socket'[c] = s /\ socket' \in [Conns -> Sockets]
  BY <1>2, <1>4, <1>5 DEF ConnectionTypes
<1>7. Of(w)' = Of(w)
  BY <1>5, ConnsKept
<1>8. CountsFit(w)'
  <2>1. \A d \in Of(w) : socket'[d].ip = socket[d].ip
    BY <1>2, <1>4, <1>6
  <2>2. \A a \in Ips : RecordedAt(w, a)' = RecordedAt(w, a)
    BY <1>5, <1>7, <2>1 DEF RecordedAt
  <2>3. ASSUME NEW d \in Of(w)
        PROVE  /\ d \in recorded' => socket'[d].phase \in {"connected", "secure", "closed"}
               /\ d \in registry' <=> socket'[d].phase \in {"connected", "secure"}
    <3>1. CASE d = c
      BY <1>4, <1>5, <1>6, <3>1
    <3>2. CASE d # c
      <4>1. socket'[d] = socket[d]
        BY <1>2, <1>6, <3>2
      <4>2. (d \in recorded' <=> d \in recorded) /\ (d \in registry' <=> d \in registry)
        BY <1>5, <3>2
      <4> QED BY <1>2, <4>1, <4>2 DEF CountsFit
    <3> QED BY <3>1, <3>2
  <2> QED BY <1>2, <1>5, <1>7, <2>2, <2>3 DEF CountsFit
<1>9. /\ ipCounts' \in [Threads -> [Ips -> Nat]] /\ recorded' \subseteq Conns
      /\ registry' \subseteq recorded' /\ \A v \in Threads \ {w} : ipCounts'[v] = ipCounts[v]
      /\ \A d \in Conns : d # c => /\ d \in recorded' <=> d \in recorded
                                   /\ d \in registry' <=> d \in registry
  BY <1>2, <1>5 DEF ConnectionTypes
<1>10. UNCHANGED <<cfg, dnsVars, connCounter, reportVars>>
  BY <1>5
<1> QED
  BY <1>1, <1>4, <1>5, <1>6, <1>8, <1>9, <1>10, SocketMoves

-----------------------------------------------------------------------------
(* The reports.                                                              *)

LEMMA StatIs ==
  ASSUME ConnectionTypes, NEW S, S \subseteq Conns
  PROVE  /\ StatOf(S) \in Stat /\ IsFiniteSet(S)
         /\ StatOf(S).conns = 0 => S = {}
<1>1. StatOf(S) \in Stat /\ IsFiniteSet(S)
  BY BytesFinite, ConnsFinite DEF ConnectionTypes
<1>2. StatOf(S).conns = Cardinality(S)
  BY DEF StatOf
<1> QED
  BY <1>1, <1>2, FS_EmptySet

(* The lookups and the counts of a thread are the same after a report.       *)
LEMMA ThreadsStay ==
  ASSUME ConnectionInv, UNCHANGED <<cfg, dnsVars, connCounter, socket, statVars>>,
         NEW w \in Threads
  PROVE  LookupsFit(w)' /\ CountsFit(w)'
<1>1. /\ UNCHANGED <<cfg, dnsCache, entries, given, breaks, connCounter, socket>>
      /\ UNCHANGED <<recorded, ipCounts, registry>>
  BY DEF dnsVars, statVars
<1>2. ConnectionTypes /\ LookupsFit(w) /\ CountsFit(w)
  BY DEF ConnectionInv
<1>3. LookupsFit(w)'
  BY <1>1, <1>2, LookupsStay
<1>4. \A d \in Of(w) : d \in recorded => socket[d].phase \in {"connected", "secure", "closed"}
  BY <1>2 DEF CountsFit
<1>5. CountsFit(w)'
  BY <1>1, <1>2, <1>4, CountsStay
<1> QED
  BY <1>3, <1>5

LEMMA ReportsKeeps ==
  ASSUME ConnectionInv, NEW w \in Threads, Reports(w)
  PROVE  ConnectionInv'
<1>1. /\ ConnectionTypes /\ cfg \in Configs /\ CountsFit(w) /\ ReportsFit
      /\ \A v \in Threads : Of(v) \subseteq Conns /\ \A d \in Of(v) : d[1] = v
  BY ConnShape DEF ConnectionInv, ConnectionTypes
<1>2. PICK open : open = {c \in Of(w) : socket[c].phase \in {"connected", "secure"}}
  OBVIOUS
<1>3. /\ w \notin posted /\ w \notin reported
      /\ posted' = posted \cup {w} /\ report' = [report EXCEPT ![w] = Snapshot(w)]
      /\ measured' = measured \cup open
      /\ UNCHANGED <<cfg, dnsVars, connCounter, socket, statVars, reported, runIp, runIpTput>>
  BY <1>2 DEF Reports, Working
<1>4. UNCHANGED <<dnsCache, entries, given, breaks>> /\ UNCHANGED <<recorded, ipCounts, registry>>
  BY <1>3 DEF dnsVars, statVars
<1>5. Conns' = Conns /\ \A v : Of(v)' = Of(v)
  BY <1>3, ConnsKept
<1>6. open = registry \cap Of(w) /\ open \subseteq Conns
  BY <1>1, <1>2 DEF CountsFit
<1>7. Snapshot(w) = [ip \in Ips |-> StatOf({c \in open : socket[c].ip = ip})]
  BY <1>6 DEF Snapshot, StatOf
<1>8. \A ip \in Ips : StatOf({c \in open : socket[c].ip = ip}) \in Stat
  <2> SUFFICES ASSUME NEW ip \in Ips
               PROVE  StatOf({c \in open : socket[c].ip = ip}) \in Stat
    OBVIOUS
  <2>1. {c \in open : socket[c].ip = ip} \subseteq Conns
    BY <1>6
  <2> QED BY <1>1, <2>1, StatIs
<1>9. ConnectionTypes'
  <2>1. report' \in [Threads -> [Ips -> Stat]]
    BY <1>1, <1>3, <1>7, <1>8 DEF ConnectionTypes
  <2>2. posted' \subseteq Threads /\ reported' \subseteq Threads \ posted'
    BY <1>1, <1>3 DEF ConnectionTypes
  <2>3. measured' \subseteq Conns
    BY <1>1, <1>3, <1>6 DEF ConnectionTypes
  <2> QED BY <1>1, <1>3, <1>4, <1>5, <2>1, <2>2, <2>3 DEF ConnectionTypes
<1>10. \A v \in Threads : LookupsFit(v)' /\ CountsFit(v)'
  BY <1>3, ThreadsStay
<1>11. \A d \in measured : d[1] # w /\ (d[1] \in posted \/ d[1] \in reported)
  BY <1>1, <1>3 DEF ReportsFit, Working
<1>12. ReportsFit'
  <2>1. \A d \in measured' : ~Working(d[1])'
    BY <1>1, <1>2, <1>3, <1>11 DEF Working
  <2>2. ASSUME NEW v \in posted', NEW a \in Ips
        PROVE  report'[v][a] = StatOf(MeasuredAt(v, a))'
    <3>1. report'[v][a] = StatOf(MeasuredAt(v, a)')
      <4>1. CASE v = w
        <5>1. MeasuredAt(w, a)' = {c \in open : socket[c].ip = a}
          BY <1>1, <1>2, <1>3, <1>5, <1>11 DEF MeasuredAt
        <5>2. report'[w] = Snapshot(w)
          BY <1>1, <1>3 DEF ConnectionTypes
        <5> QED BY <1>7, <4>1, <5>1, <5>2
      <4>2. CASE v # w
        <5>1. v \in posted /\ v \in Threads /\ report'[v] = report[v]
          BY <1>1, <1>3, <4>2 DEF ConnectionTypes
        <5>2. MeasuredAt(v, a)' = MeasuredAt(v, a)
          BY <1>1, <1>2, <1>3, <1>5, <4>2, <5>1 DEF MeasuredAt
        <5> QED BY <1>1, <5>1, <5>2 DEF ReportsFit
      <4> QED BY <4>1, <4>2
    <3> QED BY <1>3, <3>1 DEF StatOf, BytesOf
  <2>3. ASSUME NEW a \in Ips
        PROVE  runIp'[a] = Cardinality(ReportedConns(recorded, a)')
    <3>1. ReportedConns(recorded, a)' = ReportedConns(recorded, a)
      BY <1>3, <1>4 DEF ReportedConns
    <3> QED BY <1>1, <1>3, <3>1 DEF ReportsFit
  <2>4. ASSUME NEW a \in Ips, cfg'.receiver = "run"
        PROVE  runIpTput'[a] = StatOf(ReportedConns(measured, a))'
    <3>1. ReportedConns(measured, a)' = ReportedConns(measured, a)
      BY <1>1, <1>2, <1>3 DEF ReportedConns
    <3>2. runIpTput'[a] = StatOf(ReportedConns(measured, a))
      BY <1>1, <1>3, <2>4 DEF ReportsFit
    <3> QED BY <1>3, <3>1, <3>2 DEF StatOf, BytesOf
  <2> QED BY <2>1, <2>2, <2>3, <2>4 DEF ReportsFit
<1> QED
  BY <1>9, <1>10, <1>12 DEF ConnectionInv

LEMMA ReportArrivesKeeps ==
  ASSUME ConnectionInv, NEW w \in Threads, ReportArrives(w)
  PROVE  ConnectionInv'
<1>1. /\ ConnectionTypes /\ cfg \in Configs /\ CountsFit(w) /\ ReportsFit
      /\ Of(w) \subseteq Conns /\ \A d \in Conns : d \in Of(w) <=> d[1] = w
  BY ConnShape DEF ConnectionInv, ConnectionTypes
<1>2. /\ w \in posted /\ w \notin reported
      /\ posted' = posted \ {w} /\ reported' = reported \cup {w}
      /\ runIp' = [ip \in Ips |-> runIp[ip] + ipCounts[w][ip]]
      /\ runIpTput' = [ip \in Ips |-> IF report[w][ip].conns = 0 THEN runIpTput[ip]
                                      ELSE Merge(runIpTput[ip], report[w][ip])]
      /\ UNCHANGED <<cfg, dnsVars, connCounter, socket, statVars, report, measured>>
  BY <1>1 DEF ReportArrives, ConnectionTypes
<1>3. UNCHANGED <<dnsCache, entries, given, breaks>> /\ UNCHANGED <<recorded, ipCounts, registry>>
  BY <1>2 DEF dnsVars, statVars
<1>4. Conns' = Conns /\ \A v : Of(v)' = Of(v)
  BY <1>2, ConnsKept
<1>5. \A a \in Ips : runIpTput[a] \in Stat /\ report[w][a] \in Stat
  BY <1>1 DEF ConnectionTypes
<1>6. \A x \in Stat, y \in Stat : Merge(x, y) \in Stat
  BY DEF Merge, SumOf, Nothing, Stat
<1>7. ConnectionTypes'
  <2>1. runIp' \in [Ips -> Nat]
    BY <1>1, <1>2 DEF ConnectionTypes
  <2>2. runIpTput' \in [Ips -> Stat]
    BY <1>2, <1>5, <1>6
  <2>3. posted' \subseteq Threads /\ reported' \subseteq Threads \ posted'
    BY <1>1, <1>2 DEF ConnectionTypes
  <2> QED BY <1>1, <1>2, <1>3, <1>4, <2>1, <2>2, <2>3 DEF ConnectionTypes
<1>8. \A v \in Threads : LookupsFit(v)' /\ CountsFit(v)'
  BY <1>2, ThreadsStay
<1>9. ReportsFit'
  <2>1. \A d \in measured' : ~Working(d[1])'
    BY <1>1, <1>2 DEF ReportsFit, Working
  <2>2. ASSUME NEW v \in posted', NEW a \in Ips
        PROVE  report'[v][a] = StatOf(MeasuredAt(v, a))'
    <3>1. v \in posted /\ MeasuredAt(v, a)' = MeasuredAt(v, a)
      BY <1>2, <1>4 DEF MeasuredAt
    <3>2. report[v][a] = StatOf(MeasuredAt(v, a))
      BY <1>1, <3>1 DEF ReportsFit
    <3> QED BY <1>2, <3>1, <3>2 DEF StatOf, BytesOf
  <2>3. ASSUME NEW a \in Ips
        PROVE  runIp'[a] = Cardinality(ReportedConns(recorded, a))'
    <3>1. /\ ReportedConns(recorded, a)' = ReportedConns(recorded, a) \cup RecordedAt(w, a)
          /\ ReportedConns(recorded, a) \cap RecordedAt(w, a) = {}
          /\ ReportedConns(recorded, a) \subseteq Conns /\ RecordedAt(w, a) \subseteq Conns
      BY <1>1, <1>2, <1>3 DEF ReportedConns, RecordedAt, ConnectionTypes
    <3>2. IsFiniteSet(ReportedConns(recorded, a)) /\ IsFiniteSet(RecordedAt(w, a))
      BY <1>1, <3>1, ConnsFinite
    <3>3. Cardinality(ReportedConns(recorded, a)')
            = Cardinality(ReportedConns(recorded, a)) + Cardinality(RecordedAt(w, a))
      BY <3>1, <3>2, DisjointUnionSize
    <3>4. /\ runIp[a] = Cardinality(ReportedConns(recorded, a))
          /\ ipCounts[w][a] = Cardinality(RecordedAt(w, a))
          /\ runIp'[a] = runIp[a] + ipCounts[w][a]
      BY <1>1, <1>2 DEF ReportsFit, CountsFit
    <3> QED BY <3>3, <3>4
  <2>4. ASSUME NEW a \in Ips, cfg.receiver = "run"
        PROVE  runIpTput'[a] = StatOf(ReportedConns(measured, a))'
    <3>1. /\ ReportedConns(measured, a)' = ReportedConns(measured, a) \cup MeasuredAt(w, a)
          /\ ReportedConns(measured, a) \cap MeasuredAt(w, a) = {}
          /\ ReportedConns(measured, a) \subseteq Conns /\ MeasuredAt(w, a) \subseteq Conns
      BY <1>1, <1>2 DEF ReportedConns, MeasuredAt, ConnectionTypes
    <3>2. /\ runIpTput[a] = StatOf(ReportedConns(measured, a))
          /\ report[w][a] = StatOf(MeasuredAt(w, a))
      BY <1>1, <1>2, <2>4 DEF ReportsFit
    <3>3. runIpTput'[a] = StatOf(ReportedConns(measured, a)')
      <4>1. CASE report[w][a].conns = 0
        <5>1. MeasuredAt(w, a) = {}
          BY <1>1, <3>1, <3>2, <4>1, StatIs
        <5>2. ReportedConns(measured, a)' = ReportedConns(measured, a)
          BY <3>1, <5>1
        <5> QED BY <1>2, <3>2, <4>1, <5>2
      <4>2. CASE report[w][a].conns # 0
        <5>1. runIpTput'[a] = SumOf(runIpTput[a], report[w][a])
          BY <1>2, <2>4, <4>2 DEF Merge
        <5>2. StatOf(ReportedConns(measured, a) \cup MeasuredAt(w, a))
                = SumOf(StatOf(ReportedConns(measured, a)), StatOf(MeasuredAt(w, a)))
          BY <1>1, <3>1, StatsAdd
        <5> QED BY <3>1, <3>2, <5>1, <5>2
      <4> QED BY <4>1, <4>2
    <3> QED BY <1>2, <3>3 DEF StatOf, BytesOf
  <2> QED BY <1>2, <2>1, <2>2, <2>3, <2>4 DEF ReportsFit
<1> QED
  BY <1>7, <1>8, <1>9 DEF ConnectionInv

-----------------------------------------------------------------------------
(* The theorems.                                                             *)

LEMMA ConnectionsStart == ConnectionsInit => ConnectionInv
<1> SUFFICES ASSUME ConnectionsInit PROVE ConnectionInv
  OBVIOUS
<1>1. cfg \in Configs
  BY DEF ConnectionsInit
<1>2. /\ recorded = {} /\ registry = {} /\ measured = {} /\ posted = {} /\ reported = {}
      /\ \A w \in Threads : /\ dnsCache[w] = 0 /\ entries[w] = <<>> /\ connCounter[w] = 0
                            /\ breaks[w] = 0
                            /\ \A a \in Ips : ipCounts[w][a] = 0 /\ given[w][a] = 0
      /\ \A c \in Conns : socket[c] = NoSocket
      /\ \A a \in Ips : runIp[a] = 0 /\ runIpTput[a] = Nothing
  BY DEF ConnectionsInit, NoCount, NoStat
<1>3. NIps \in Nat /\ NIps > 0 /\ 0 \in Ips
  BY IpsAssumption DEF Ips
<1>4. ConnectionTypes
  <2>1. NoCount \in [Ips -> Nat] /\ NoStat \in [Ips -> Stat]
    BY DEF NoCount, NoStat, Nothing, Stat
  <2>2. NoSocket \in Sockets
    BY <1>3 DEF NoSocket, Sockets, SocketPhases
  <2>3. socket \in [Conns -> Sockets]
    BY <2>2 DEF ConnectionsInit
  <2>4. entries \in [Threads -> Seq(Entry)]
    BY DEF ConnectionsInit
  <2> QED BY <2>1, <2>3, <2>4 DEF ConnectionsInit, ConnectionTypes
<1>5. Cardinality({}) = 0
  BY FS_EmptySet
<1>6. ASSUME NEW w \in Threads
      PROVE  LookupsFit(w) /\ CountsFit(w)
  <2>1. \A c \in Of(w) : /\ socket[c].phase = "none" /\ socket[c].found = 0
                         /\ c[2] \in Nat /\ c[2] >= 1
    BY <1>1, <1>2, ConnShape DEF NoSocket
  <2>2. Asking(w) = {}
    BY <2>1 DEF Asking
  <2>3. Even(w)
    BY <1>2 DEF Even
  <2>4. cfg.sockets[w] \in Nat
    BY <1>1, ConnShape
  <2>5. LookupsFit(w)
    <3>1. dnsCache[w] = Len(entries[w]) /\ connCounter[w] <= cfg.sockets[w]
      BY <1>2, <2>4
    <3>2. \A c \in Of(w) : /\ socket[c].found <= dnsCache[w]
                           /\ socket[c].phase = "none" <=> c[2] > connCounter[w]
      BY <1>2, <2>1
    <3>3. /\ \A a \in Ips : given[w][a] + Cardinality(Asking(w)) <= connCounter[w]
          /\ breaks[w] + Cardinality(Asking(w)) <= connCounter[w]
      BY <1>2, <1>5, <2>2
    <3> QED BY <2>3, <3>1, <3>2, <3>3 DEF LookupsFit
  <2>6. \A a \in Ips : RecordedAt(w, a) = {}
    BY <1>2 DEF RecordedAt
  <2>7. CountsFit(w)
    BY <1>2, <1>5, <2>1, <2>6 DEF CountsFit
  <2> QED BY <2>5, <2>7
<1>7. ReportsFit
  <2>1. \A a \in Ips : ReportedConns(recorded, a) = {} /\ ReportedConns(measured, a) = {}
    BY <1>2 DEF ReportedConns
  <2> QED BY <1>2, <1>5, <2>1, NoStatOfNone DEF ReportsFit
<1> QED
  BY <1>4, <1>6, <1>7 DEF ConnectionInv

LEMMA ConnectionStep == ConnectionInv /\ [ConnectionsNext]_connectionVars => ConnectionInv'
<1> SUFFICES ASSUME ConnectionInv, [ConnectionsNext]_connectionVars
             PROVE  ConnectionInv'
  OBVIOUS
<1>1. ASSUME NEW c \in Conns, LookupStep(c) PROVE ConnectionInv'
  <2>1. CASE FromCache(c)
    BY <2>1, FromCacheKeeps
  <2>2. CASE Asks(c)
    BY <2>2, AsksKeeps
  <2>3. CASE Resolved(c)
    BY <2>3, ResolvedKeeps
  <2>4. CASE ResolveFails(c)
    BY <2>4, ResolveFailsKeeps
  <2>5. CASE DefaultAnswers(c)
    BY <2>5, DefaultAnswersKeeps
  <2> QED BY <1>1, <2>1, <2>2, <2>3, <2>4, <2>5 DEF LookupStep
<1>2. ASSUME NEW c \in Conns, SocketStep(c) PROVE ConnectionInv'
  <2>1. CASE Connects(c)
    BY <2>1, ConnectsKeeps
  <2>2. CASE Secured(c)
    BY <2>2, SecuredKeeps
  <2>3. CASE Reads(c)
    BY <2>3, ReadsKeeps
  <2>4. CASE Closes(c)
    BY <2>4, ClosesKeeps
  <2> QED BY <1>2, <2>1, <2>2, <2>3, <2>4 DEF SocketStep
<1>3. ASSUME NEW w \in Threads, Expires(w) \/ Reports(w) \/ ReportArrives(w)
      PROVE  ConnectionInv'
  BY <1>3, ExpiresKeeps, ReportsKeeps, ReportArrivesKeeps
<1>4. CASE UNCHANGED connectionVars
  <2>1. /\ UNCHANGED <<cfg, dnsVars, connCounter, socket, statVars>>
        /\ UNCHANGED <<dnsCache, entries, given, breaks, recorded, ipCounts, registry>>
        /\ UNCHANGED <<posted, report, reported, runIp, runIpTput, measured>>
    BY <1>4 DEF connectionVars, dnsVars, statVars, reportVars
  <2>2. \A w \in Threads : LookupsFit(w)' /\ CountsFit(w)'
    BY <2>1, ThreadsStay
  <2>3. Conns' = Conns /\ \A w : Of(w)' = Of(w)
    BY <2>1, ConnsKept
  <2>4. ConnectionTypes'
    BY <2>1, <2>3 DEF ConnectionInv, ConnectionTypes
  <2>5. ReportsFit /\ ReportsFit' = ReportsFit
    BY <2>1, <2>3 DEF ConnectionInv, ReportsFit, Working, MeasuredAt, ReportedConns, StatOf, BytesOf
  <2> QED BY <2>2, <2>4, <2>5 DEF ConnectionInv
<1> QED
  BY <1>1, <1>2, <1>3, <1>4 DEF ConnectionsNext

THEOREM ConnectionInvHolds == ConnectionsSpec => []ConnectionInv
BY ConnectionsStart, ConnectionStep, PTL DEF ConnectionsSpec

(* spreadLookup spreads the connections of each worker evenly over the       *)
(* addresses that all answers of the resolver to it have had, whatever else  *)
(* they had and in whatever order, across cached entries that expire and     *)
(* replace each other, give or take one for each answer that breaks the      *)
(* turns: one with another list than that before it, or one that comes after *)
(* another has replaced the entry that its lookup found.                     *)
THEOREM SpreadIsEven == ConnectionsSpec => []SpreadBounded
BY ConnectionInvHolds, ConnectionInvGivesSafety, PTL

(* The connections per address that main prints are the sockets of all       *)
(* workers that ever connected to it, each counted once, though `connect'    *)
(* and `secureConnect' both report it and it may close at any time.          *)
THEOREM CountsAreExact == ConnectionsSpec => []CountsAreSockets
BY ConnectionInvHolds, ConnectionInvGivesSafety, PTL

(* mergeIpThroughput adds up, for each address, just the sockets that were   *)
(* open when their worker took its snapshot, with the bytes of each once.    *)
THEOREM ThroughputsAddUp == ConnectionsSpec => []ThroughputIsWhole
BY ConnectionInvHolds, ConnectionInvGivesSafety, PTL
=============================================================================
