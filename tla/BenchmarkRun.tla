---------------------------- MODULE BenchmarkRun ----------------------------
(***************************************************************************)
(* The drivers: main() runs benchmarkGroup for one group of objects after  *)
(* the other, whatever becomes of each; a group gets a pool of threads     *)
(* (the manager's, or with --no-api one for each run), runs its warm-up    *)
(* and measured iterations on it and closes it.  The manager's close waits *)
(* for its threads to exit; a run with --no-api tells its threads to       *)
(* terminate and does not wait.  A reporter shows the progress of an       *)
(* iteration from a counter that the workers of the group share.           *)
(*                                                                         *)
(* An upload sends the prepared sources again in each iteration: those of  *)
(* memory/parts are transferred to the workers and come back.              *)
(***************************************************************************)
EXTENDS Integers, FiniteSets

CONSTANTS
  NGroups,     \* groups that are given
  Iterations,  \* cfg.warmup + cfg.iterations
  Parts,       \* of the objects of a group
  Drivers      \* "upload", "download", and "legacy" (download with --no-api)

ASSUME RunsAssumption == NGroups \in Nat \ {0} /\ Iterations \in Nat \ {0} /\ IsFiniteSet(Parts)
ASSUME DriversAssumption == Drivers \subseteq {"upload", "download", "legacy"}

VARIABLES
  driver,
  group,      \* the group that main is at
  phase,      \* where its benchmarkGroup is
  iteration,  \* iterations begun
  pools,      \* the threads that live, by <<group, iteration>> (0: the manager's)
  told,       \* those that terminate() was called for and not awaited
  part,       \* part[g][i][p]: where p is in iteration i of group g
  source,     \* where the buffer of p is (upload)
  counter,    \* counter[g]: the progress counter of group g
  reporters   \* the iterations, <<group, iteration>>, whose timer runs

partVars == <<part, source, counter>>
vars == <<driver, group, phase, iteration, pools, told, partVars, reporters>>

Phases == {"planning", "spawning", "between", "running", "closing", "over"}
Places == {"idle", "sent", "counted", "answered"}

Groups == 1 .. NGroups
NoParts == [i \in 1 .. Iterations |-> [p \in Parts |-> "idle"]]

Init ==
  /\ driver \in Drivers
  /\ group = 1
  /\ phase = "planning"
  /\ iteration = 0
  /\ pools = {} /\ told = {}
  /\ part = [g \in Groups |-> NoParts]
  /\ source = [p \in Parts |-> "caller"]
  /\ counter = [g \in Groups |-> 0]
  /\ reporters = {}

-----------------------------------------------------------------------------
(* As elsewhere, an operator that precedes one of the same shape is a slip   *)
(* in it that no action uses.                                                *)

(* The next group, if any, with sources and a counter of its own: main       *)
(* catches what benchmarkGroup throws.                                       *)
EndGroup ==
  /\ IF group < NGroups THEN group' = group + 1 /\ phase' = "planning"
     ELSE phase' = "over" /\ UNCHANGED group
  /\ iteration' = 0
  /\ source' = [p \in Parts |-> "caller"]
  /\ UNCHANGED <<part, counter>>

(* HEADs, and for an upload the sources.  The group may be skipped (all its  *)
(* objects exist) or fail, before there is a pool.                           *)
GroupEndsEarly ==
  /\ phase = "planning"
  /\ EndGroup
  /\ UNCHANGED <<driver, pools, told, reporters>>

SpawnsPool ==
  /\ phase = "planning" /\ driver # "legacy"
  /\ phase' = "spawning"
  /\ pools' = pools \cup {<<group, 0>>}
  /\ UNCHANGED <<driver, group, iteration, told, partVars, reporters>>

(* manager.ready(), which a thread that fails resolves too, or nothing to    *)
(* wait for.                                                                 *)
PoolReady ==
  /\ phase = "spawning" \/ (phase = "planning" /\ driver = "legacy")
  /\ phase' = "between"
  /\ UNCHANGED <<driver, group, iteration, pools, told, partVars, reporters>>

(* runViaManager or runUploadViaManager, or runOnce and runOrdered up to     *)
(* their last 'ready': the reporter starts and resets the counter.           *)
CountGoesOn(n) == n
CountRestarts(n) == 0

StartIteration ==
  /\ phase = "between" /\ iteration < Iterations
  /\ iteration' = iteration + 1
  /\ phase' = "running"
  /\ pools' = IF driver = "legacy" THEN pools \cup {<<group, iteration'>>} ELSE pools
  /\ counter' = [counter EXCEPT ![group] = CountRestarts(@)]
  /\ reporters' = reporters \cup {<<group, iteration'>>}
  /\ UNCHANGED <<driver, group, told, part, source>>

(* The threads that carry the parts of iteration i of group g.               *)
PoolOf(g, i) == <<g, IF driver = "legacy" THEN i ELSE 0>>

Moves(g, i, p, from, to) ==
  /\ PoolOf(g, i) \in pools
  /\ part[g][i][p] = from
  /\ part' = [part EXCEPT ![g][i][p] = to]

(* Main assigns a part, and goes on doing so when one of the objects has     *)
(* failed.  That of an upload takes its buffer along.  With --no-api threads *)
(* have their slices, and go on with them while they live.                   *)
Sends(g, i, p) ==
  /\ driver = "legacy" \/ i = iteration
  /\ Moves(g, i, p, "idle", "sent")
  /\ source' = IF driver = "upload" THEN [source EXCEPT ![p] = "worker"] ELSE source
  /\ UNCHANGED <<driver, group, phase, iteration, pools, told, counter, reporters>>

(* The worker has downloaded or uploaded it: it counts it and posts.         *)
WorkerCounts(g, i, p) ==
  /\ Moves(g, i, p, "sent", "counted")
  /\ counter' = [counter EXCEPT ![g] = @ + 1]
  /\ UNCHANGED <<driver, group, phase, iteration, pools, told, source, reporters>>

(* Main has the answer, and for an upload restores the buffer and counts the *)
(* part again.  It makes nothing of what threads say that it told to end.    *)
NotRestored(p) == source
Restored(p) == [source EXCEPT ![p] = "caller"]

Answered(g, i, p) ==
  /\ PoolOf(g, i) \notin told
  /\ Moves(g, i, p, "counted", "answered")
  /\ source' = Restored(p)
  /\ counter' = IF driver = "upload" THEN [counter EXCEPT ![g] = @ + 1] ELSE counter
  /\ UNCHANGED <<driver, group, phase, iteration, pools, told, reporters>>

(* cleanup() of runOnce and runOrdered, which tells the threads of the run   *)
(* to terminate.                                                             *)
CleansUp == told' = IF driver = "legacy" THEN told \cup {<<group, iteration>>} ELSE told

(* Every object is complete (for an upload: CompleteMPU has answered).       *)
SomeAnswered == \E p \in Parts : part[group][iteration][p] = "answered"
AllAnswered == \A p \in Parts : part[group][iteration][p] = "answered"

EndIteration ==
  /\ phase = "running"
  /\ AllAnswered
  /\ phase' = "between"
  /\ reporters' = reporters \ {<<group, iteration>>}
  /\ CleansUp
  /\ UNCHANGED <<driver, group, iteration, pools, partVars>>

ThreadsExit(t) ==
  /\ t \in told
  /\ told' = told \ {t}
  /\ pools' = pools \ {t}
  /\ UNCHANGED <<driver, group, phase, iteration, partVars, reporters>>

(* Something rejects: an object, a thread, or its start.  cleanup() stops    *)
(* the reporter too; the manager's callers leave it all to `finally', which  *)
(* closes the pool and does not know of the reporter.                        *)
Stopped == IF driver = "legacy" THEN reporters \ {<<group, iteration>>} ELSE reporters

Fails ==
  /\ phase = "running"
  /\ phase' = "closing"
  /\ reporters' = Stopped
  /\ CleansUp
  /\ UNCHANGED <<driver, group, iteration, pools, partVars>>

(* All iterations are done: close() is called.                               *)
Close ==
  /\ phase = "between" /\ iteration = Iterations
  /\ phase' = "closing"
  /\ UNCHANGED <<driver, group, iteration, pools, told, partVars, reporters>>

(* `finally' has closed the manager if nobody else did, and its threads have *)
(* exited.  The close of a download may wait for ever after a failure        *)
(* (DownloadPool), and this does not happen.                                 *)
PoolIsLeft(live) == live
PoolIsClosed(live) == live \ {<<group, 0>>}

Closed ==
  /\ phase = "closing"
  /\ pools' = PoolIsClosed(pools)
  /\ EndGroup
  /\ UNCHANGED <<driver, told, reporters>>

-----------------------------------------------------------------------------
PartStep(g, i, p) == Sends(g, i, p) \/ WorkerCounts(g, i, p) \/ Answered(g, i, p)

Next ==
  \/ GroupEndsEarly \/ SpawnsPool \/ PoolReady \/ StartIteration \/ EndIteration \/ Close
  \/ Closed \/ Fails
  \/ \E t \in told : ThreadsExit(t)
  \/ \E g \in Groups, i \in 1 .. Iterations, p \in Parts : PartStep(g, i, p)

Spec == Init /\ [][Next]_vars

-----------------------------------------------------------------------------
(* Properties.                                                               *)

TypeOK ==
  /\ driver \in Drivers
  /\ group \in Groups
  /\ phase \in Phases
  /\ iteration \in 0 .. Iterations
  /\ pools \subseteq Groups \X (0 .. Iterations)
  /\ told \subseteq pools
  /\ part \in [Groups -> [1 .. Iterations -> [Parts -> Places]]]
  /\ source \in [Parts -> {"caller", "worker"}]
  /\ counter \in [Groups -> Nat]
  /\ reporters \subseteq Groups \X (1 .. Iterations)

Counted(g, i) == {p \in Parts : part[g][i][p] \in {"counted", "answered"}}
AnsweredParts(g, i) == {p \in Parts : part[g][i][p] = "answered"}

(* The counter tells of the parts of the iteration that runs: none of an     *)
(* earlier one is still on its way and counts in it, and threads that were   *)
(* told to terminate and still fetch do not either.                          *)
CounterIsOfIteration ==
  phase = "running" =>
    counter[group] = Cardinality(Counted(group, iteration))
                     + IF driver = "upload" THEN Cardinality(AnsweredParts(group, iteration)) ELSE 0

(* A part that an upload is to send has its buffer: it came back in the      *)
(* iteration before.                                                         *)
SourcesAreBack ==
  phase = "running" =>
    \A p \in Parts : part[group][iteration][p] = "idle" => source[p] = "caller"

(* The iterations of which live threads fetch or send a part.                *)
UnderWay ==
  {r \in Groups \X (1 .. Iterations) :
     PoolOf(r[1], r[2]) \in pools /\ \E p \in Parts : part[r[1]][r[2]][p] = "sent"}

(* What is measured is the iteration alone, whatever failed before it: main  *)
(* has told all threads to end but those of the iteration, or waited for     *)
(* them, no part of another iteration is under way while it runs, and no     *)
(* other timer shows its progress.  Two things the drivers leave behind when *)
(* an iteration fails: with --no-api, threads that are told to terminate and *)
(* go on with their parts into the next group; with the manager, the timer.  *)
MeasuredAlone ==
  /\ TypeOK
  /\ \A t \in pools \ told : t = PoolOf(group, iteration) /\ phase \notin {"planning", "over"}
  /\ phase = "running" =>
       \A r \in UnderWay \ {<<group, iteration>>} :
         driver = "legacy" /\ r[1] < group /\ r \in told
  /\ driver = "legacy" =>
       \A r \in reporters : r = <<group, iteration>> /\ phase = "running"
=============================================================================
