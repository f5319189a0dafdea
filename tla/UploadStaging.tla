---------------------------- MODULE UploadStaging ----------------------------
(***************************************************************************)
(* What the upload benchmark finds and leaves: the objects of the bucket   *)
(* and the source files it stages for deliveryMode `file'.  Both outlive   *)
(* a run, and a run may be killed at any point; the next one looks at them *)
(* to decide which objects it uploads and whether it writes a source.      *)
(*                                                                         *)
(* BenchmarkRun has what happens between threads in an iteration; here an  *)
(* upload() is one step.                                                   *)
(***************************************************************************)
EXTENDS Ranges, FiniteSets

CONSTANTS
  NGroups,      \* the groups of cfg.groups are 1 .. NGroups
  Keys,         \* Keys[g]: the objects of group g
  Bytes,        \* Bytes[g]: parseSize(group.label)
  Configs,      \* the [partSize, forceUpload, deliveryMode] a run may have
  Iterations,   \* cfg.warmup + cfg.iterations
  Capacity,     \* bytes of the volume of cfg.sourcePath
  Older,        \* objects that others may have left in the bucket
  MaxRuns       \* bound

ASSUME GroupsAssumption ==
  /\ NGroups \in Nat \ {0}
  /\ \A g \in 1 .. NGroups : IsFiniteSet(Keys[g]) /\ Bytes[g] \in Nat \ {0}
  /\ \A g, h \in 1 .. NGroups : Keys[g] \cap Keys[h] # {} => Bytes[g] = Bytes[h]
ASSUME ConfigsAssumption ==
  Configs \subseteq [partSize : Nat \ {0}, forceUpload : BOOLEAN,
                     deliveryMode : {"file", "memory", "stream"}]
ASSUME BoundsAssumption == Iterations \in Nat \ {0} /\ Capacity \in Nat /\ MaxRuns \in Nat
ASSUME OlderAssumption == Older \subseteq [size : Nat, first : Nat]

VARIABLES
  object,        \* object[k]: its size and that of its first part, or NoObject
  file,          \* file[g]: the size of the source file of group g, or NoFile
  cfg,           \* of the run
  runs,          \* runs started (bound)
  phase,         \* where its benchmarkGroup is; "over": there is no process
  group,
  described,     \* keys that describeExisting was called for
  keysToUpload,
  iteration,
  uploaded,      \* keys done in this iteration
  failed,        \* something threw in this run, or it was killed (history)
  misread        \* objects that this run took for one part (history)

stored == <<object, file>>
groupVars == <<described, keysToUpload, iteration, uploaded>>
historyVars == <<failed, misread>>
stagingVars == <<stored, cfg, runs, phase, group, groupVars, historyVars>>

NoObject == [size |-> 0 - 1, first |-> 0 - 1]
NoFile == 0 - 1
Groups == 1 .. NGroups
AllKeys == UNION {Keys[g] : g \in Groups}
StagingPhases == {"over", "describing", "writing", "uploading"}

StagingInit ==
  /\ object \in [AllKeys -> Older \cup {NoObject}]
  /\ file = [g \in Groups |-> NoFile]
  /\ cfg \in Configs
  /\ runs = 0
  /\ phase = "over"
  /\ group = 1
  /\ described = {} /\ keysToUpload = {}
  /\ iteration = 0 /\ uploaded = {}
  /\ failed = FALSE /\ misread = {}

-----------------------------------------------------------------------------
(* As elsewhere, an operator that precedes one of the same shape is a slip   *)
(* in it that no action uses.                                                *)

(* How upload() lays out an object.                                          *)
Layout(g, c) == [size |-> Bytes[g], first |-> Least(c.partSize, Bytes[g])]

NewGroup(g) ==
  /\ group' = g
  /\ phase' = "describing"
  /\ described' = {}
  /\ keysToUpload' = {}
  /\ iteration' = 0 /\ uploaded' = {}

(* main: the next group, whether this one was done, skipped or threw.        *)
EndGroup ==
  IF group < NGroups THEN NewGroup(group + 1)
  ELSE phase' = "over" /\ UNCHANGED <<group, groupVars>>

Throws == EndGroup /\ failed' = TRUE /\ UNCHANGED <<stored, cfg, runs, misread>>

Starts ==
  /\ phase = "over" /\ runs < MaxRuns
  /\ runs' = runs + 1
  /\ cfg' \in Configs
  /\ NewGroup(1)
  /\ failed' = FALSE /\ misread' = {}
  /\ UNCHANGED stored

(* The process is killed.                                                    *)
Killed ==
  /\ phase # "over"
  /\ phase' = "over"
  /\ failed' = TRUE
  /\ UNCHANGED <<stored, cfg, runs, group, groupVars, misread>>

-----------------------------------------------------------------------------
(* Which keys.                                                               *)

(* describeExisting: the HEAD of part 1 that fails, for whatever reason,     *)
(* makes the object one part.                                                *)
AsOnePart(k) == [object[k] EXCEPT !.first = object[k].size]
Descriptions(k) == {object[k]} \cup (IF object[k] = NoObject THEN {} ELSE {AsOnePart(k)})

SizeMatches(have) == have.size = Bytes[group]
Matches(have) == have.size = Bytes[group] /\ have.first = Least(cfg.partSize, Bytes[group])

Describes(k) ==
  /\ phase = "describing" /\ ~cfg.forceUpload
  /\ k \in Keys[group] \ described
  /\ described' = described \cup {k}
  /\ \E have \in Descriptions(k) :
       /\ keysToUpload' = IF Matches(have) THEN keysToUpload ELSE keysToUpload \cup {k}
       /\ misread' = IF have = object[k] THEN misread ELSE misread \cup {k}
  /\ UNCHANGED <<stored, cfg, runs, phase, group, iteration, uploaded, failed>>

(* The first HEAD fails with anything but a 404.                             *)
DescribeFails ==
  /\ phase = "describing" /\ ~cfg.forceUpload
  /\ Keys[group] \ described # {}
  /\ Throws

Forced ==
  /\ phase = "describing" /\ cfg.forceUpload
  /\ described' = Keys[group] /\ keysToUpload' = Keys[group]
  /\ described # Keys[group]
  /\ UNCHANGED <<stored, cfg, runs, phase, group, iteration, uploaded, historyVars>>

Decided == phase = "describing" /\ described = Keys[group]

Skips ==
  /\ Decided /\ keysToUpload = {}
  /\ EndGroup
  /\ UNCHANGED <<stored, cfg, runs, historyVars>>

-----------------------------------------------------------------------------
(* The source file.                                                          *)

(* The bytes of all files.                                                   *)
Occupied(files) == UNION {{g} \X (1 .. files[g]) : g \in Groups}
Used(files) == Cardinality(Occupied(files))
Free == Capacity - Used(file)

AnyExisting(g) == file[g] # NoFile
Staged(g) == file[g] = Bytes[g]

(* What the overwritten file takes is free again.                            *)
FreeBytes(g) == Free + IF file[g] = NoFile THEN 0 ELSE file[g]

NeedsFile == Decided /\ keysToUpload # {} /\ cfg.deliveryMode = "file" /\ ~Staged(group)

(* memory and stream fill buffers, file finds the source of an earlier run.  *)
SourcesReady ==
  /\ Decided /\ keysToUpload # {}
  /\ cfg.deliveryMode = "file" => Staged(group)
  /\ phase' = "uploading"
  /\ UNCHANGED <<stored, cfg, runs, group, groupVars, historyVars>>

(* The preflight of file, or of the buffers of memory.                       *)
Refused ==
  /\ \/ NeedsFile /\ FreeBytes(group) < Bytes[group]
     \/ Decided /\ keysToUpload # {} /\ cfg.deliveryMode = "memory"
  /\ Throws

(* writeRandomFile: createWriteStream empties the file.                      *)
OpensFile ==
  /\ NeedsFile /\ FreeBytes(group) >= Bytes[group]
  /\ file' = [file EXCEPT ![group] = 0]
  /\ phase' = "writing"
  /\ UNCHANGED <<object, cfg, runs, group, groupVars, historyVars>>

WritesChunk ==
  /\ phase = "writing" /\ file[group] < Bytes[group]
  /\ file' = [file EXCEPT ![group] = @ + 1]
  /\ UNCHANGED <<object, cfg, runs, phase, group, groupVars, historyVars>>

WriteFails == phase = "writing" /\ Throws

FinishesFile ==
  /\ phase = "writing" /\ file[group] = Bytes[group]
  /\ phase' = "uploading"
  /\ UNCHANGED <<stored, cfg, runs, group, groupVars, historyVars>>

-----------------------------------------------------------------------------
(* The iterations.                                                           *)

Uploads(k) ==
  /\ phase = "uploading"
  /\ k \in keysToUpload \ uploaded
  /\ object' = [object EXCEPT ![k] = Layout(group, cfg)]
  /\ uploaded' = uploaded \cup {k}
  /\ UNCHANGED <<file, cfg, runs, phase, group, described, keysToUpload, iteration, historyVars>>

UploadingFails == phase = "uploading" /\ Throws

EndIteration ==
  /\ phase = "uploading" /\ uploaded = keysToUpload
  /\ IF iteration + 1 < Iterations
     THEN /\ iteration' = iteration + 1 /\ uploaded' = {}
          /\ UNCHANGED <<phase, group, described, keysToUpload>>
     ELSE EndGroup
  /\ UNCHANGED <<stored, cfg, runs, historyVars>>

-----------------------------------------------------------------------------
GroupStep ==
  \/ \E k \in AllKeys : Describes(k) \/ Uploads(k)
  \/ Forced \/ Skips \/ SourcesReady \/ Refused
  \/ OpensFile \/ WritesChunk \/ FinishesFile \/ EndIteration

StagingNext == Starts \/ Killed \/ DescribeFails \/ WriteFails \/ UploadingFails \/ GroupStep

StagingSpec == StagingInit /\ [][StagingNext]_stagingVars

-----------------------------------------------------------------------------
(* Properties.                                                               *)

StagingTypeOK ==
  /\ object \in [AllKeys -> Older \cup {NoObject} \cup {Layout(g, c) : g \in Groups, c \in Configs}]
  /\ \A g \in Groups : file[g] \in 0 - 1 .. Bytes[g]
  /\ cfg \in Configs
  /\ runs \in 0 .. MaxRuns
  /\ phase \in StagingPhases
  /\ group \in Groups
  /\ described \subseteq Keys[group]
  /\ keysToUpload \subseteq described
  /\ iteration \in 0 .. Iterations - 1
  /\ uploaded \subseteq keysToUpload
  /\ failed \in BOOLEAN /\ misread \subseteq AllKeys

(* A run in which nothing failed leaves every object as it was asked for:    *)
(* what it skipped was there in that size and with those parts, whoever left *)
(* it and however the runs before ended.  (Of an object that was taken for   *)
(* one part, because the HEAD of that part failed, only the size is sure.)   *)
RunIsDone ==
  /\ StagingTypeOK
  /\ phase = "over" /\ runs > 0 /\ ~failed =>
       \A g \in Groups : \A k \in Keys[g] :
         /\ object[k].size = Bytes[g]
         /\ object[k] = Layout(g, cfg) \/ k \in misread

(* No file is uploaded that an earlier run, killed or failed, did not        *)
(* finish, and one that is being written fits on its volume, beside those of *)
(* the other groups that earlier runs left whole or in part.                 *)
SourceIsWhole ==
  /\ phase = "uploading" /\ cfg.deliveryMode = "file" => file[group] = Bytes[group]
  /\ phase = "writing" => Bytes[group] - file[group] <= Free
=============================================================================
