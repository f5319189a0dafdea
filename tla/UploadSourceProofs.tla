------------------------- MODULE UploadSourceProofs -------------------------
(***************************************************************************)
(* What is uploaded.  A worker's part holds the bytes of its source, for a *)
(* source and parts of any size, however its reads are cut up and whenever *)
(* the source is shortened; the source is whole when it is handed out, and *)
(* the objects are the wanted ones, whatever earlier runs left behind.     *)
(***************************************************************************)
EXTENDS UploadWorker, UploadStaging, OperatorLemmas

(* The bytes that were read of a part are its first ones; what is sent       *)
(* holds every byte that the source still has.                               *)
ReadIsPrefix ==
  \A p \in Parts : task[p].phase = "reading" =>
    \A j \in 0 .. Size(p) - 1 : j < task[p].read => task[p].body[j] = Start(p) + j
SentIsWhole ==
  \A p \in Parts : task[p].phase \in {"sending", "uploaded"} =>
    \A j \in 0 .. Size(p) - 1 : Start(p) + j < fileSize => task[p].body[j] = Start(p) + j
NothingRead ==
  \A p \in Parts : task[p].phase \in {"none", "sent"} => task[p].read = 0

(* TypeOK, with the fields of a task named.                                  *)
Tasks(p) == [phase : Phases, read : 0 .. Size(p),
             body : [0 .. Size(p) - 1 -> 0 .. Total - 1 \cup {Unset}]]
Types ==
  /\ kind \in Kinds
  /\ fileSize \in 0 .. Total
  /\ fdOpen \in BOOLEAN /\ stopped \in BOOLEAN
  /\ DOMAIN task = Parts /\ task = [p \in Parts |-> task[p]]
  /\ \A p \in Parts : task[p] \in Tasks(p)
  /\ buffers \subseteq Parts

Inv == Types /\ NothingRead /\ ReadIsPrefix /\ SentIsWhole

-----------------------------------------------------------------------------
(* A part lies inside the source.                                            *)
LEMMA PartInside ==
  ASSUME NEW p \in Parts
  PROVE  /\ Start(p) \in Nat /\ Size(p) \in Nat /\ Start(p) + Size(p) <= Total /\ Total \in Nat
         /\ PartBytes \in Nat
  BY RangeInside, SourceAssumption DEF Parts, Start, Size

LEMMA InvGivesSafety == Inv => SentIsSource
<1> SUFFICES ASSUME Inv PROVE SentIsSource
  OBVIOUS
<1>1. TypeOK
  BY DEF Inv, Types, Tasks, TypeOK
<1> QED
  BY <1>1 DEF Inv, SentIsWhole, SentIsSource

LEMMA InitEstablishesInv == Init => Inv
<1> SUFFICES ASSUME Init PROVE Inv
  OBVIOUS
<1>1. \A p \in Parts : task[p] \in Tasks(p)
  <2> SUFFICES ASSUME NEW p \in Parts PROVE task[p] \in Tasks(p)
    OBVIOUS
  <2>1. task[p] = [phase |-> "none", read |-> 0, body |-> Empty(p)]
    BY DEF Init
  <2>2. Empty(p) \in [0 .. Size(p) - 1 -> 0 .. Total - 1 \cup {Unset}]
    BY DEF Empty
  <2>3. 0 \in 0 .. Size(p)
    BY PartInside
  <2> QED
    BY <2>1, <2>2, <2>3 DEF Tasks, Phases
<1>2. Types
  <2>1. fileSize \in 0 .. Total
    BY SourceAssumption DEF Init
  <2>2. DOMAIN task = Parts /\ task = [p \in Parts |-> task[p]]
    BY DEF Init
  <2>3. kind \in Kinds /\ fdOpen \in BOOLEAN /\ stopped \in BOOLEAN /\ buffers \subseteq Parts
    BY DEF Init
  <2> QED
    BY <1>1, <2>1, <2>2, <2>3 DEF Types
<1>3. \A p \in Parts : task[p].phase = "none" /\ task[p].read = 0
  BY DEF Init
<1> QED
  BY <1>2, <1>3 DEF Inv, NothingRead, ReadIsPrefix, SentIsWhole

(* A step that moves one part, and gives it what the invariant asks for.     *)
LEMMA OnePartMoves ==
  ASSUME Inv, NEW p \in Parts, NEW t \in Tasks(p), task' = [task EXCEPT ![p] = t],
         UNCHANGED fileSize, kind' \in Kinds, fdOpen' \in BOOLEAN, stopped' \in BOOLEAN,
         buffers' \subseteq Parts,
         t.phase \in {"none", "sent"} => t.read = 0,
         t.phase = "reading" =>
           \A j \in 0 .. Size(p) - 1 : j < t.read => t.body[j] = Start(p) + j,
         t.phase \in {"sending", "uploaded"} =>
           \A j \in 0 .. Size(p) - 1 : Start(p) + j < fileSize => t.body[j] = Start(p) + j
  PROVE  Inv'
<1>1. task'[p] = t /\ \A q \in Parts \ {p} : task'[q] = task[q]
  BY DEF Inv, Types
<1>2. Types'
  BY <1>1 DEF Inv, Types, Tasks
<1>3. NothingRead'
  BY <1>1 DEF Inv, NothingRead
<1>4. ReadIsPrefix'
  BY <1>1 DEF Inv, ReadIsPrefix
<1>5. SentIsWhole'
  BY <1>1 DEF Inv, SentIsWhole
<1> QED
  BY <1>2, <1>3, <1>4, <1>5 DEF Inv

(* The steps that only name the next phase of a part.                        *)
LEMMA PhaseStepKeepsInv ==
  ASSUME Inv, NEW p \in Parts,
         Posts(p) \/ OpensSource(p) \/ OpenFails(p) \/ ReadFails(p) \/ HasRead(p) \/ Uploaded(p) \/ UploadFails(p)
  PROVE  Inv'
<1>1. PICK now \in Phases :
        /\ Becomes(p, now)
        /\ now \in {"none", "sent"} => At(p, "none")
        /\ now = "reading" => At(p, "sent")
        /\ now = "sending" => At(p, "reading") /\ task[p].read = Size(p)
        /\ now = "uploaded" => At(p, "sending")
  <2>1. {"sent", "reading", "failed", "sending", "uploaded"} \subseteq Phases
    BY DEF Phases
  <2> QED
    BY <2>1 DEF Posts, OpensSource, OpenFails, ReadFails, HasRead, Uploaded, UploadFails
<1>2. /\ UNCHANGED <<fileSize, kind>> /\ fdOpen' \in BOOLEAN /\ stopped' \in BOOLEAN
      /\ kind' \in Kinds /\ buffers' \subseteq Parts
  BY DEF Posts, OpensSource, OpenFails, ReadFails, HasRead, Uploaded, UploadFails, GivenBack, Inv, Types
<1> DEFINE t == [task[p] EXCEPT !.phase = now]
<1>3. t \in Tasks(p) /\ t.phase = now /\ t.read = task[p].read /\ t.body = task[p].body
  BY DEF Inv, Types, Tasks
<1>4. task' = [task EXCEPT ![p] = t]
  BY <1>1 DEF Becomes
<1>5. t.phase \in {"none", "sent"} => t.read = 0
  BY <1>1, <1>3 DEF At, Inv, NothingRead
<1>6. t.phase = "reading" => \A j \in 0 .. Size(p) - 1 : j < t.read => t.body[j] = Start(p) + j
  <2>1. t.phase = "reading" => t.read = 0
    BY <1>1, <1>3 DEF At, Inv, NothingRead
  <2> QED
    BY <2>1
<1>7. t.phase \in {"sending", "uploaded"} =>
        \A j \in 0 .. Size(p) - 1 : Start(p) + j < fileSize => t.body[j] = Start(p) + j
  <2>1. Size(p) \in Nat
    BY PartInside
  <2>2. CASE now = "sending"
    BY <1>1, <1>3, <2>1, <2>2 DEF At, Inv, ReadIsPrefix
  <2>3. CASE now = "uploaded"
    BY <1>1, <1>3, <2>3 DEF At, Inv, SentIsWhole
  <2> QED
    BY <1>3, <2>2, <2>3
<1> HIDE DEF t
<1> QED
  BY <1>2, <1>3, <1>4, <1>5, <1>6, <1>7, OnePartMoves

LEMMA SendsBytesKeepsInv ==
  ASSUME Inv, NEW p \in Parts, SendsBytes(p)
  PROVE  Inv'
<1> DEFINE t == [task[p] EXCEPT !.phase = "sending", !.body = Filled(p)]
<1>1. Filled(p) \in [0 .. Size(p) - 1 -> 0 .. Total - 1 \cup {Unset}]
  BY PartInside DEF Filled
<1>2. t \in Tasks(p) /\ t.phase = "sending" /\ t.body = Filled(p)
  BY <1>1 DEF Inv, Types, Tasks, Phases
<1>3. \A j \in 0 .. Size(p) - 1 : t.body[j] = Start(p) + j
  BY <1>2 DEF Filled
<1>4. task' = [task EXCEPT ![p] = t] /\ UNCHANGED <<kind, fileSize, fdOpen, buffers, stopped>>
  BY DEF SendsBytes
<1> HIDE DEF t
<1> QED
  BY <1>2, <1>3, <1>4, OnePartMoves DEF Inv, Types

(* readSync fills the body from where the last one left it; if it returns    *)
(* nothing, the source ends before that place.                               *)
LEMMA ReadsKeepsInv ==
  ASSUME Inv, NEW p \in Parts, Reads(p)
  PROVE  Inv'
<1> DEFINE r == task[p].read
<1>0. /\ task[p].phase = "reading" /\ r < Size(p)
      /\ UNCHANGED <<kind, fileSize, fdOpen, buffers, stopped>>
  BY DEF Reads, At
<1>1. PICK n \in Returned(p) :
        task' = [task EXCEPT
          ![p].phase = IF ReadIsOver(p, n) THEN "sending" ELSE @,
          ![p].read = @ + n,
          ![p].body = [j \in DOMAIN @ |->
                         IF task[p].read <= j /\ j < task[p].read + n
                         THEN ReadAt(p) + (j - task[p].read) ELSE @[j]]]
  BY DEF Reads
<1>2. /\ Start(p) \in Nat /\ Size(p) \in Nat /\ Start(p) + Size(p) <= Total /\ Total \in Nat
      /\ r \in 0 .. Size(p) /\ fileSize \in 0 .. Total
  BY PartInside DEF Inv, Types, Tasks
<1>3. /\ n \in Nat /\ r + n <= Size(p)
      /\ n = 0 => fileSize <= Start(p) + r
  BY <1>0, <1>1, <1>2 DEF Returned, ReadAt, AsksForRest, Least
<1> DEFINE now == IF n = 0 THEN "sending" ELSE "reading"
           body == [j \in 0 .. Size(p) - 1 |->
                      IF r <= j /\ j < r + n THEN Start(p) + j ELSE task[p].body[j]]
           t == [task[p] EXCEPT !.phase = now, !.read = r + n, !.body = body]
<1>4. task' = [task EXCEPT ![p] = t]
  <2>1. task[p] \in Tasks(p)
    BY DEF Inv, Types
  <2>2. DOMAIN task[p].body = 0 .. Size(p) - 1
    BY <2>1 DEF Tasks
  <2>3. [j \in 0 .. Size(p) - 1 |->
           IF r <= j /\ j < r + n THEN ReadAt(p) + (j - r) ELSE task[p].body[j]] = body
    BY <1>2, <1>3 DEF ReadAt
  <2> HIDE DEF body
  <2> QED
    BY <1>0, <1>1, <2>2, <2>3 DEF ReadIsOver
<1>5. body \in [0 .. Size(p) - 1 -> 0 .. Total - 1 \cup {Unset}]
  <2>1. task[p].body \in [0 .. Size(p) - 1 -> 0 .. Total - 1 \cup {Unset}]
    BY DEF Inv, Types, Tasks
  <2> QED
    BY <1>2, <1>3, <2>1
<1>6. \A j \in 0 .. Size(p) - 1 : j < r + n => body[j] = Start(p) + j
  BY <1>0, <1>2, <1>3 DEF Inv, ReadIsPrefix
<1> HIDE DEF body
<1>7. t \in Tasks(p) /\ t.phase = now /\ t.read = r + n /\ t.body = body
  <2>1. task[p] \in Tasks(p)
    BY DEF Inv, Types
  <2>2. now \in Phases /\ r + n \in 0 .. Size(p)
    BY <1>2, <1>3 DEF Phases
  <2> HIDE DEF now, r
  <2> QED
    BY <1>5, <2>1, <2>2 DEF Tasks
<1>8. t.phase \in {"sending", "uploaded"} =>
        \A j \in 0 .. Size(p) - 1 : Start(p) + j < fileSize => t.body[j] = Start(p) + j
  BY <1>2, <1>3, <1>6, <1>7
<1> HIDE DEF t
<1> QED
  BY <1>0, <1>4, <1>6, <1>7, <1>8, OnePartMoves DEF Inv, Types

LEMMA NextKeepsInv == Inv /\ [Next]_vars => Inv'
<1> SUFFICES ASSUME Inv, [Next]_vars PROVE Inv'
  OBVIOUS
<1>1. ASSUME NEW p \in Parts, Posts(p) \/ PartStep(p) PROVE Inv'
  BY <1>1, PhaseStepKeepsInv, SendsBytesKeepsInv, ReadsKeepsInv DEF PartStep
<1>2. CASE Stop
  BY <1>2 DEF Stop, Inv, Types, NothingRead, ReadIsPrefix, SentIsWhole
<1>3. CASE Shortened
  <2>1. fileSize' = fileSize - 1 /\ fileSize \in 0 .. Total /\ fileSize > 0 /\ Total \in Nat
    BY <1>3, SourceAssumption DEF Shortened, Inv, Types
  <2>2. UNCHANGED <<kind, fdOpen, task, buffers, stopped>>
    BY <1>3 DEF Shortened
  <2>3. Types' /\ NothingRead' /\ ReadIsPrefix'
    BY <2>1, <2>2 DEF Inv, Types, NothingRead, ReadIsPrefix
  <2>4. SentIsWhole'
    <3>1. \A p \in Parts : Start(p) \in Nat /\ Size(p) \in Nat
      BY PartInside
    <3> QED
      BY <2>1, <2>2, <3>1 DEF Inv, SentIsWhole
  <2> QED
    BY <2>3, <2>4 DEF Inv
<1>4. CASE UNCHANGED vars
  BY <1>4 DEF vars, Inv, Types, NothingRead, ReadIsPrefix, SentIsWhole
<1> QED
  BY <1>1, <1>2, <1>3, <1>4 DEF Next

(* What is sent of a part are its bytes, each at its place, as far as the    *)
(* source goes.                                                              *)
THEOREM SentIsTheSource == Spec => []SentIsSource
BY InitEstablishesInv, NextKeepsInv, InvGivesSafety, PTL DEF Spec

-----------------------------------------------------------------------------
(* The bucket and the source volume.                                         *)

(* Object k is as the run wants the objects of group g.                      *)
AsWanted(g, k) ==
  /\ object[k].size = Bytes[g]
  /\ object[k] = Layout(g, cfg) \/ k \in misread

(* As long as nothing failed, all groups before this one are done, and of    *)
(* this one what was skipped and what was uploaded.                          *)
DoneSoFar ==
  ~failed /\ runs > 0 =>
    /\ phase = "over" => \A g \in Groups : \A k \in Keys[g] : AsWanted(g, k)
    /\ phase # "over" => /\ \A g \in Groups : g < group => \A k \in Keys[g] : AsWanted(g, k)
                         /\ \A k \in (described \ keysToUpload) \cup uploaded : AsWanted(group, k)

StagingInv ==
  /\ StagingTypeOK /\ file \in [Groups -> Int]
  /\ phase \in {"writing", "uploading"} => described = Keys[group]
  /\ phase # "over" => runs > 0
  /\ DoneSoFar /\ SourceIsWhole

LEMMA GroupShape ==
  /\ NGroups \in Nat \ {0}
  /\ \A g \in Groups : /\ g \in Nat /\ g >= 1 /\ g <= NGroups
                       /\ IsFiniteSet(Keys[g]) /\ Keys[g] \subseteq AllKeys
                       /\ Bytes[g] \in Nat \ {0}
BY GroupsAssumption DEF Groups, AllKeys

(* An object is a record of its size and that of its first part.             *)
LEMMA ObjectShape ==
  ASSUME StagingTypeOK, NEW k \in AllKeys
  PROVE  object[k] \in [size : Int, first : Int]
<1>1. object[k] \in Older \cup {NoObject} \cup {Layout(g, c) : g \in Groups, c \in Configs}
  BY DEF StagingTypeOK
<1>2. \A x \in Older : x \in [size : Int, first : Int]
  BY OlderAssumption
<1>3. NoObject \in [size : Int, first : Int]
  BY DEF NoObject
<1>4. ASSUME NEW g \in Groups, NEW c \in Configs
      PROVE  Layout(g, c) \in [size : Int, first : Int]
  BY GroupShape, ConfigsAssumption DEF Layout, Least
<1> QED
  BY <1>1, <1>2, <1>3, <1>4

(* One layout for the groups that share an object.                           *)
LEMMA LayoutsAgree ==
  ASSUME NEW g \in Groups, NEW h \in Groups, NEW k \in Keys[g], k \in Keys[h], NEW c
  PROVE  Layout(g, c) = Layout(h, c)
<1>1. Bytes[g] = Bytes[h]
  BY GroupsAssumption DEF Groups
<1> QED
  BY <1>1 DEF Layout

(* What the run has not touched stays as wanted.                             *)
LEMMA WantedStays ==
  ASSUME NEW g, NEW k, AsWanted(g, k), UNCHANGED <<object, cfg>>, misread \subseteq misread'
  PROVE  AsWanted(g, k)'
BY DEF AsWanted, Layout

(* The next group, or the end of the run; nothing is staged at that point.   *)
LEMMA EndGroupEffect ==
  ASSUME StagingInv, EndGroup, UNCHANGED <<stored, cfg, runs, misread>>, runs > 0,
         failed' \in BOOLEAN,
         ~failed' => ~failed /\ phase # "over" /\ \A k \in Keys[group] : AsWanted(group, k)
  PROVE  StagingInv'
<1>1. /\ StagingTypeOK /\ file \in [Groups -> Int] /\ DoneSoFar
      /\ UNCHANGED <<object, file>>
  BY DEF StagingInv, stored
<1>2. /\ phase' \in {"describing", "over"} /\ group' \in Groups
      /\ described' \subseteq Keys[group'] /\ keysToUpload' \subseteq described'
      /\ uploaded' \subseteq keysToUpload' /\ iteration' \in 0 .. Iterations - 1
  <2>1. /\ group \in Groups /\ described \subseteq Keys[group] /\ keysToUpload \subseteq described
        /\ uploaded \subseteq keysToUpload /\ iteration \in 0 .. Iterations - 1
    BY <1>1 DEF StagingTypeOK
  <2>2. CASE group < NGroups
    <3>1. group' = group + 1 /\ phase' = "describing" /\ described' = {}
          /\ keysToUpload' = {} /\ iteration' = 0 /\ uploaded' = {}
      BY <2>2 DEF EndGroup, NewGroup
    <3>2. group + 1 \in Groups
      BY <2>1, <2>2, GroupShape DEF Groups
    <3>3. 0 \in 0 .. Iterations - 1
      BY BoundsAssumption
    <3> QED BY <3>1, <3>2, <3>3
  <2>3. CASE ~(group < NGroups)
    BY <2>1, <2>3 DEF EndGroup, groupVars
  <2> QED BY <2>2, <2>3
<1>3. StagingTypeOK' /\ (file \in [Groups -> Int])'
  BY <1>1, <1>2 DEF StagingTypeOK, StagingPhases
<1>4. DoneSoFar'
  <2> SUFFICES ASSUME ~failed', runs' > 0
               PROVE  /\ phase' = "over" => \A g \in Groups : \A k \in Keys[g] : AsWanted(g, k)'
                      /\ phase' # "over" =>
                           /\ \A g \in Groups : g < group' => \A k \in Keys[g] : AsWanted(g, k)'
                           /\ \A k \in (described' \ keysToUpload') \cup uploaded' : AsWanted(group, k)'
    BY DEF DoneSoFar
  <2>1. \A g \in Groups : g <= group => \A k \in Keys[g] : AsWanted(g, k)
    <3>1. ~failed /\ runs > 0 /\ phase # "over" /\ group \in Groups
      BY <1>1 DEF StagingTypeOK
    <3> QED BY <1>1, <3>1, GroupShape DEF DoneSoFar
  <2>2. \A g \in Groups : g <= group => \A k \in Keys[g] : AsWanted(g, k)'
    BY <1>1, <2>1, WantedStays
  <2>3. group \in Groups
    BY <1>1 DEF StagingTypeOK
  <2>4. CASE group < NGroups
    <3>1. group' = group + 1 /\ phase' = "describing" /\ described' = {} /\ uploaded' = {}
      BY <2>4 DEF EndGroup, NewGroup
    <3> QED BY <2>2, <2>3, <3>1, GroupShape
  <2>5. CASE ~(group < NGroups)
    <3>1. phase' = "over"
      BY <2>5 DEF EndGroup
    <3> QED BY <2>2, <2>3, <2>5, <3>1, GroupShape
  <2> QED BY <2>4, <2>5
<1>5. SourceIsWhole'
  BY <1>2 DEF SourceIsWhole
<1> QED
  BY <1>2, <1>3, <1>4, <1>5 DEF StagingInv

(* Steps of a run that change neither the objects nor what is done.          *)
LEMMA StagingStarts ==
  ASSUME StagingInv, Starts \/ Killed
  PROVE  StagingInv'
<1>1. StagingTypeOK /\ file \in [Groups -> Int] /\ UNCHANGED <<object, file>>
  BY DEF StagingInv, Starts, Killed, stored
<1>2. CASE Killed
  <2>1. StagingTypeOK'
    BY <1>1, <1>2 DEF Killed, StagingTypeOK, StagingPhases, groupVars
  <2> QED BY <1>1, <1>2, <2>1 DEF Killed, StagingInv, DoneSoFar, SourceIsWhole
<1>3. CASE Starts
  <2>1. /\ cfg' \in Configs /\ runs' \in 0 .. MaxRuns /\ group' = 1 /\ phase' = "describing"
        /\ described' = {} /\ keysToUpload' = {} /\ iteration' = 0 /\ uploaded' = {}
        /\ failed' = FALSE /\ misread' = {}
    BY <1>1, <1>3, BoundsAssumption DEF Starts, NewGroup, StagingTypeOK
  <2>2. 1 \in Groups /\ 0 \in 0 .. Iterations - 1
    BY BoundsAssumption, GroupShape DEF Groups
  <2>3. StagingTypeOK'
    <3>1. /\ object' \in [AllKeys -> Older \cup {NoObject} \cup {Layout(g, c) : g \in Groups, c \in Configs}]
          /\ \A g \in Groups : file'[g] \in 0 - 1 .. Bytes[g]
      BY <1>1 DEF StagingTypeOK
    <3>2. /\ phase' \in StagingPhases /\ group' \in Groups /\ described' \subseteq Keys[group']
          /\ keysToUpload' \subseteq described' /\ uploaded' \subseteq keysToUpload'
          /\ iteration' \in 0 .. Iterations - 1 /\ failed' \in BOOLEAN /\ misread' \subseteq AllKeys
      BY <2>1, <2>2 DEF StagingPhases
    <3> QED BY <2>1, <3>1, <3>2 DEF StagingTypeOK, Layout
  <2>4. DoneSoFar'
    BY <2>1, GroupShape DEF DoneSoFar
  <2>5. SourceIsWhole'
    BY <2>1 DEF SourceIsWhole
  <2>6. runs' > 0
    BY <1>1, <1>3 DEF Starts, StagingTypeOK
  <2> QED BY <1>1, <2>1, <2>3, <2>4, <2>5, <2>6 DEF StagingInv
<1> QED
  BY <1>2, <1>3

(* Which objects to upload.                                                  *)
LEMMA StagingDescribes ==
  ASSUME StagingInv, NEW k \in AllKeys, Describes(k)
  PROVE  StagingInv'
<1>1. /\ StagingTypeOK /\ file \in [Groups -> Int] /\ DoneSoFar /\ group \in Groups
      /\ phase = "describing" /\ k \in Keys[group] \ described
      /\ described' = described \cup {k}
      /\ UNCHANGED <<object, file, cfg, runs, phase, group, iteration, uploaded, failed>>
  BY DEF StagingInv, Describes, stored, StagingTypeOK
<1>2. PICK have \in Descriptions(k) :
        /\ keysToUpload' = IF Matches(have) THEN keysToUpload ELSE keysToUpload \cup {k}
        /\ misread' = IF have = object[k] THEN misread ELSE misread \cup {k}
  BY DEF Describes
<1>3. /\ keysToUpload \subseteq described /\ described \subseteq Keys[group]
      /\ uploaded \subseteq keysToUpload /\ misread \subseteq AllKeys
  BY <1>1 DEF StagingTypeOK
<1>4. StagingTypeOK'
  BY <1>1, <1>2, <1>3 DEF StagingTypeOK
<1>5. k \notin keysToUpload' => AsWanted(group, k)'
  <2> SUFFICES ASSUME Matches(have)
               PROVE  AsWanted(group, k)'
    BY <1>2
  <2>1. object[k] \in [size : Int, first : Int]
    BY <1>1, ObjectShape
  <2>2. CASE have = object[k]
    <3>1. object[k].size = Bytes[group] /\ object[k].first = Least(cfg.partSize, Bytes[group])
      BY <2>2 DEF Matches
    <3>2. object[k] = Layout(group, cfg)
      BY <2>1, <3>1 DEF Layout
    <3> QED BY <1>1, <3>1, <3>2 DEF AsWanted, Layout
  <2>3. CASE have # object[k]
    <3>1. have = [object[k] EXCEPT !.first = object[k].size]
      BY <1>2, <2>3 DEF Descriptions, AsOnePart
    <3>2. have.size = object[k].size
      BY <2>1, <3>1
    <3>3. object[k].size = Bytes[group] /\ k \in misread'
      BY <1>2, <2>3, <3>2 DEF Matches
    <3> QED BY <1>1, <3>3 DEF AsWanted
  <2> QED BY <2>2, <2>3
<1>6. DoneSoFar'
  <2> SUFFICES ASSUME ~failed, runs > 0
               PROVE  /\ \A g \in Groups : g < group => \A j \in Keys[g] : AsWanted(g, j)'
                      /\ \A j \in (described' \ keysToUpload') \cup uploaded : AsWanted(group, j)'
    BY <1>1 DEF DoneSoFar
  <2>1. /\ \A g \in Groups : g < group => \A j \in Keys[g] : AsWanted(g, j)
        /\ \A j \in (described \ keysToUpload) \cup uploaded : AsWanted(group, j)
    BY <1>1 DEF DoneSoFar
  <2>2. misread \subseteq misread' /\ keysToUpload \subseteq keysToUpload'
    BY <1>2
  <2>3. \A g \in Groups : g < group => \A j \in Keys[g] : AsWanted(g, j)'
    BY <1>1, <2>1, <2>2, WantedStays
  <2>4. \A j \in (described \ keysToUpload) \cup uploaded : AsWanted(group, j)'
    BY <1>1, <2>1, <2>2, WantedStays
  <2> QED BY <1>1, <1>5, <2>2, <2>3, <2>4
<1>7. SourceIsWhole'
  BY <1>1 DEF SourceIsWhole
<1> QED
  BY <1>1, <1>4, <1>6, <1>7 DEF StagingInv

LEMMA StagingForced ==
  ASSUME StagingInv, Forced
  PROVE  StagingInv'
<1>1. /\ StagingTypeOK /\ file \in [Groups -> Int] /\ DoneSoFar /\ group \in Groups
      /\ phase = "describing" /\ described' = Keys[group] /\ keysToUpload' = Keys[group]
      /\ UNCHANGED <<object, file, cfg, runs, phase, group, iteration, uploaded, failed, misread>>
  BY DEF StagingInv, Forced, stored, historyVars, StagingTypeOK
<1>2. StagingTypeOK'
  BY <1>1 DEF StagingTypeOK
<1>3. DoneSoFar'
  <2> SUFFICES ASSUME ~failed, runs > 0
               PROVE  /\ \A g \in Groups : g < group => \A j \in Keys[g] : AsWanted(g, j)'
                      /\ \A j \in uploaded : AsWanted(group, j)'
    BY <1>1 DEF DoneSoFar
  <2>1. /\ \A g \in Groups : g < group => \A j \in Keys[g] : AsWanted(g, j)
        /\ \A j \in uploaded : AsWanted(group, j)
    BY <1>1 DEF DoneSoFar
  <2> QED BY <1>1, <2>1, WantedStays
<1>4. SourceIsWhole'
  BY <1>1 DEF SourceIsWhole
<1> QED
  BY <1>1, <1>2, <1>3, <1>4 DEF StagingInv

(* Nothing is uploaded, or an iteration ends.                                *)
LEMMA StagingEnds ==
  ASSUME StagingInv, Skips \/ EndIteration
  PROVE  StagingInv'
<1>1. /\ StagingTypeOK /\ DoneSoFar /\ group \in Groups
      /\ UNCHANGED <<stored, cfg, runs, failed, misread>>
      /\ UNCHANGED <<object, file>>
  BY DEF StagingInv, Skips, EndIteration, stored, historyVars, StagingTypeOK
<1>2. failed' \in BOOLEAN /\ failed' = failed
  BY <1>1 DEF StagingTypeOK
<1>3. /\ phase # "over" /\ described = Keys[group]
      /\ \/ keysToUpload = {}
         \/ uploaded = keysToUpload
  BY DEF StagingInv, Skips, EndIteration, Decided
<1>4. ASSUME EndGroup
      PROVE  StagingInv'
  <2>1. runs > 0
    BY <1>3 DEF StagingInv
  <2>2. ~failed => \A k \in Keys[group] : AsWanted(group, k)
    BY <1>1, <1>3, <2>1 DEF DoneSoFar
  <2> QED BY <1>1, <1>2, <1>3, <1>4, <2>1, <2>2, EndGroupEffect
<1>5. CASE EndIteration /\ iteration + 1 < Iterations
  <2>1. /\ iteration' = iteration + 1 /\ uploaded' = {} /\ phase = "uploading"
        /\ UNCHANGED <<phase, group, described, keysToUpload>>
    BY <1>5 DEF EndIteration
  <2>2. iteration' \in 0 .. Iterations - 1
    BY <1>1, <1>5, <2>1, BoundsAssumption DEF StagingTypeOK
  <2>3. StagingTypeOK'
    BY <1>1, <2>1, <2>2 DEF StagingTypeOK
  <2>4. DoneSoFar'
    <3> SUFFICES ASSUME ~failed, runs > 0
                 PROVE  /\ \A g \in Groups : g < group => \A j \in Keys[g] : AsWanted(g, j)'
                        /\ \A j \in described \ keysToUpload : AsWanted(group, j)'
      BY <1>1, <2>1 DEF DoneSoFar
    <3>1. /\ \A g \in Groups : g < group => \A j \in Keys[g] : AsWanted(g, j)
          /\ \A j \in described \ keysToUpload : AsWanted(group, j)
      BY <1>1, <2>1 DEF DoneSoFar
    <3>2. UNCHANGED <<object, cfg>> /\ misread \subseteq misread'
      BY <1>1
    <3>3. \A g \in Groups : g < group => \A j \in Keys[g] : AsWanted(g, j)'
      BY <3>1, <3>2, WantedStays
    <3>4. \A j \in described \ keysToUpload : AsWanted(group, j)'
      BY <2>1, <3>1, <3>2, WantedStays
    <3> QED BY <3>3, <3>4
  <2>5. SourceIsWhole'
    BY <1>1, <2>1 DEF StagingInv, SourceIsWhole
  <2> QED BY <1>1, <2>1, <2>3, <2>4, <2>5 DEF StagingInv
<1>6. CASE Skips \/ (EndIteration /\ ~(iteration + 1 < Iterations))
  <2>1. EndGroup
    BY <1>6 DEF Skips, EndIteration
  <2> QED BY <1>4, <2>1
<1> QED
  BY <1>5, <1>6

(* Something throws.                                                         *)
LEMMA StagingThrows ==
  ASSUME StagingInv, DescribeFails \/ WriteFails \/ UploadingFails \/ Refused
  PROVE  StagingInv'
<1>1. EndGroup /\ failed' = TRUE /\ UNCHANGED <<stored, cfg, runs, misread>>
  BY DEF DescribeFails, WriteFails, UploadingFails, Refused, Throws
<1>2. phase # "over" /\ runs > 0
  BY DEF StagingInv, DescribeFails, WriteFails, UploadingFails, Refused, NeedsFile, Decided
<1> QED
  BY <1>1, <1>2, EndGroupEffect

(* One object is as the run lays it out.                                     *)
LEMMA StagingUploads ==
  ASSUME StagingInv, NEW k \in AllKeys, Uploads(k)
  PROVE  StagingInv'
<1>1. /\ StagingTypeOK /\ file \in [Groups -> Int] /\ DoneSoFar /\ SourceIsWhole
      /\ group \in Groups /\ phase = "uploading" /\ k \in keysToUpload \ uploaded
      /\ object' = [object EXCEPT ![k] = Layout(group, cfg)] /\ uploaded' = uploaded \cup {k}
      /\ UNCHANGED <<file, cfg, runs, phase, group, described, keysToUpload, iteration,
                     failed, misread>>
  BY DEF StagingInv, Uploads, historyVars, StagingTypeOK
<1> DEFINE Objects == Older \cup {NoObject} \cup {Layout(g, c) : g \in Groups, c \in Configs}
<1>2. object \in [AllKeys -> Objects] /\ Layout(group, cfg) \in Objects
  BY <1>1 DEF StagingTypeOK
<1>3. /\ object' \in [AllKeys -> Objects] /\ object'[k] = Layout(group, cfg)
      /\ \A j \in AllKeys \ {k} : object'[j] = object[j]
  <2> HIDE DEF Objects
  <2> QED BY <1>1, <1>2
<1>4. StagingTypeOK'
  BY <1>1, <1>3 DEF StagingTypeOK, Layout
<1>5. Keys[group] \subseteq AllKeys /\ k \in Keys[group]
  BY <1>1 DEF StagingTypeOK, AllKeys
<1>6. ASSUME NEW g \in Groups, k \in Keys[g]
      PROVE  AsWanted(g, k)'
  <2>1. Layout(group, cfg) = Layout(g, cfg)
    BY <1>1, <1>5, <1>6, LayoutsAgree
  <2>2. Layout(g, cfg).size = Bytes[g]
    BY DEF Layout
  <2> QED BY <1>1, <1>3, <2>1, <2>2 DEF AsWanted, Layout
<1>7. ASSUME NEW g \in Groups, NEW j \in Keys[g], AsWanted(g, j)
      PROVE  AsWanted(g, j)'
  <2>1. j \in AllKeys
    BY DEF AllKeys
  <2>2. CASE j = k
    BY <1>6, <2>2
  <2>3. CASE j # k
    BY <1>1, <1>3, <1>7, <2>1, <2>3 DEF AsWanted, Layout
  <2> QED BY <2>2, <2>3
<1>8. DoneSoFar'
  <2> SUFFICES ASSUME ~failed, runs > 0
               PROVE  /\ \A g \in Groups : g < group => \A j \in Keys[g] : AsWanted(g, j)'
                      /\ \A j \in (described \ keysToUpload) \cup uploaded' : AsWanted(group, j)'
    BY <1>1 DEF DoneSoFar
  <2>1. /\ \A g \in Groups : g < group => \A j \in Keys[g] : AsWanted(g, j)
        /\ \A j \in (described \ keysToUpload) \cup uploaded : AsWanted(group, j)
    BY <1>1 DEF DoneSoFar
  <2>2. (described \ keysToUpload) \cup uploaded \subseteq Keys[group]
    BY <1>1 DEF StagingTypeOK
  <2>3. \A j \in (described \ keysToUpload) \cup uploaded : AsWanted(group, j)'
    BY <1>1, <1>7, <2>1, <2>2
  <2>4. AsWanted(group, k)'
    BY <1>1, <1>5, <1>6
  <2>5. \A g \in Groups : g < group => \A j \in Keys[g] : AsWanted(g, j)'
    BY <1>7, <2>1
  <2> QED BY <1>1, <2>3, <2>4, <2>5
<1>9. SourceIsWhole'
  BY <1>1 DEF SourceIsWhole
<1> QED
  BY <1>1, <1>4, <1>8, <1>9 DEF StagingInv

(* The bytes of the other groups' files do not depend on the one of g.       *)
OtherFiles(files, g) == UNION {{h} \X (1 .. files[h]) : h \in Groups \ {g}}
Length(n) == IF n < 0 THEN 0 ELSE n

LEMMA UsedSplit ==
  ASSUME NEW g \in Groups, NEW files \in [Groups -> Int]
  PROVE  /\ Cardinality(OtherFiles(files, g)) \in Nat
         /\ Used(files) = Cardinality(OtherFiles(files, g)) + Length(files[g])
<1> DEFINE rest == [h \in Groups \ {g} |-> files[h]]
           mine == {g} \X (1 .. files[g])
           others == OtherFiles(files, g)
<1>1. IsFiniteSet(Groups \ {g}) /\ rest \in [Groups \ {g} -> Int]
  <2>1. IsFiniteSet(Groups)
    BY GroupShape, FS_Interval DEF Groups
  <2> QED BY <2>1, FS_Subset
<1>2. others = UNION {{h} \X (1 .. rest[h]) : h \in Groups \ {g}}
  BY DEF OtherFiles
<1>3. IsFiniteSet(others) /\ Cardinality(others) \in Nat
  <2> HIDE DEF rest, others
  <2> QED BY <1>1, <1>2, FiniteRows
<1>4. IsFiniteSet(mine) /\ Cardinality(mine) = Length(files[g])
  <2>1. files[g] \in Int
    OBVIOUS
  <2>2. CASE files[g] < 0
    <3>1. mine = {}
      BY <2>1, <2>2
    <3> HIDE DEF mine
    <3> QED BY <2>2, <3>1, FS_EmptySet DEF Length
  <2>3. CASE files[g] >= 0
    <3>1. mine = Run(g, 1, files[g])
      <4>1. \A x \in 1 .. files[g] : x = 1 + (x - 1) /\ x - 1 \in 0 .. files[g] - 1
        BY <2>1
      <4>2. \A i \in 0 .. files[g] - 1 : 1 + i \in 1 .. files[g]
        BY <2>1
      <4> QED BY <4>1, <4>2 DEF Run
    <3> HIDE DEF mine
    <3> QED BY <2>1, <2>3, <3>1, RunSize DEF Length
  <2> QED BY <2>1, <2>2, <2>3
<1>5. Occupied(files) = others \cup mine
  BY DEF Occupied, OtherFiles
<1>6. others \cap mine = {}
  BY DEF OtherFiles
<1> HIDE DEF mine, others
<1>7. Cardinality(others \cup mine) = Cardinality(others) + Cardinality(mine)
  BY <1>3, <1>4, <1>6, DisjointUnionSize
<1> QED
  BY <1>3, <1>4, <1>5, <1>7 DEF Used, others

(* What a file grows by is no longer free.                                   *)
LEMMA FreeAfter ==
  ASSUME NEW g \in Groups, file \in [Groups -> Int], NEW n \in Int,
         file' = [file EXCEPT ![g] = n]
  PROVE  /\ Free \in Int /\ Free' \in Int
         /\ Free' = Free + Length(file[g]) - Length(n)
<1>1. file' \in [Groups -> Int] /\ file'[g] = n /\ file[g] \in Int
  OBVIOUS
<1>2. OtherFiles(file', g) = OtherFiles(file, g)
  BY DEF OtherFiles
<1> DEFINE a == Cardinality(OtherFiles(file, g))
<1>3. a \in Nat /\ Used(file) = a + Length(file[g])
  BY <1>1, UsedSplit
<1>4. Used(file') = a + Length(n)
  BY <1>1, <1>2, UsedSplit
<1>5. Length(n) \in Int /\ Length(file[g]) \in Int
  BY <1>1 DEF Length
<1>6. Free = Capacity - Used(file) /\ Free' = Capacity - Used(file') /\ Capacity \in Int
  BY BoundsAssumption DEF Free, Used, Occupied
<1> HIDE DEF a
<1> QED
  BY <1>3, <1>4, <1>5, <1>6

(* The source of the group changes, nothing else of what was done.           *)
LEMMA SourceChanges ==
  ASSUME StagingInv, phase \in {"describing", "writing"}, phase' \in {"writing", "uploading"},
         described = Keys[group],
         UNCHANGED <<object, cfg, runs, group, groupVars, historyVars>>,
         file' \in [Groups -> Int], \A g \in Groups : file'[g] \in 0 - 1 .. Bytes[g],
         SourceIsWhole'
  PROVE  StagingInv'
<1>1. /\ StagingTypeOK /\ DoneSoFar
      /\ UNCHANGED <<object, cfg, runs, group, described, keysToUpload, iteration, uploaded,
                     failed, misread>>
  BY DEF StagingInv, groupVars, historyVars
<1>2. StagingTypeOK'
  BY <1>1 DEF StagingTypeOK, StagingPhases, Layout
<1>3. DoneSoFar'
  <2> SUFFICES ASSUME ~failed, runs > 0
               PROVE  /\ \A g \in Groups : g < group => \A j \in Keys[g] : AsWanted(g, j)'
                      /\ \A j \in (described \ keysToUpload) \cup uploaded : AsWanted(group, j)'
    BY <1>1 DEF DoneSoFar
  <2>1. /\ \A g \in Groups : g < group => \A j \in Keys[g] : AsWanted(g, j)
        /\ \A j \in (described \ keysToUpload) \cup uploaded : AsWanted(group, j)
    BY <1>1 DEF DoneSoFar
  <2> QED BY <1>1, <2>1, WantedStays
<1>4. runs' > 0
  BY <1>1 DEF StagingInv
<1> QED
  BY <1>1, <1>2, <1>3, <1>4 DEF StagingInv

LEMMA StagingSource ==
  ASSUME StagingInv, SourcesReady \/ OpensFile \/ WritesChunk \/ FinishesFile
  PROVE  StagingInv'
<1>1. /\ StagingTypeOK /\ file \in [Groups -> Int] /\ SourceIsWhole /\ group \in Groups
      /\ file[group] \in 0 - 1 .. Bytes[group] /\ Bytes[group] \in Nat
      /\ described = Keys[group] /\ phase \in {"describing", "writing"}
  BY GroupShape DEF StagingInv, StagingTypeOK, SourcesReady, OpensFile, WritesChunk,
     FinishesFile, NeedsFile, Decided
<1>2. CASE SourcesReady \/ FinishesFile
  <2>1. /\ phase' = "uploading" /\ UNCHANGED <<object, file, cfg, runs, group, groupVars, historyVars>>
        /\ cfg.deliveryMode = "file" => file[group] = Bytes[group]
    BY <1>2 DEF SourcesReady, FinishesFile, Staged, stored
  <2>2. SourceIsWhole'
    BY <2>1 DEF SourceIsWhole
  <2>3. \A g \in Groups : file'[g] \in 0 - 1 .. Bytes[g]
    BY <1>1, <2>1 DEF StagingTypeOK
  <2> QED BY <1>1, <2>1, <2>2, <2>3, SourceChanges
<1>3. ASSUME NEW n \in 0 .. Bytes[group], file' = [file EXCEPT ![group] = n],
             phase' = "writing", UNCHANGED <<object, cfg, runs, group, groupVars, historyVars>>,
             Bytes[group] - n <= Free'
      PROVE  StagingInv'
  <2>1. file' \in [Groups -> Int] /\ file'[group] = n
    BY <1>1, <1>3
  <2>2. \A g \in Groups : file'[g] \in 0 - 1 .. Bytes[g]
    BY <1>1, <1>3 DEF StagingTypeOK
  <2>3. SourceIsWhole'
    BY <1>3, <2>1 DEF SourceIsWhole
  <2> QED BY <1>1, <1>3, <2>1, <2>2, <2>3, SourceChanges
<1>4. CASE OpensFile
  <2>1. Free' = Free + Length(file[group]) - Length(0) /\ Free \in Int
    <3>1. file' = [file EXCEPT ![group] = 0] /\ 0 \in Int
      BY <1>4 DEF OpensFile
    <3> QED BY <1>1, <3>1, FreeAfter
  <2>2. Bytes[group] <= Free + IF file[group] = NoFile THEN 0 ELSE file[group]
    BY <1>4 DEF OpensFile, FreeBytes
  <2>3. Bytes[group] - 0 <= Free'
    <3> DEFINE after == Free'
    <3>1. after = Free + Length(file[group]) - Length(0)
      BY <2>1
    <3>2. Length(0) = 0 /\ Length(file[group]) = IF file[group] = NoFile THEN 0 ELSE file[group]
      BY <1>1 DEF Length, NoFile
    <3> HIDE DEF after
    <3>3. Bytes[group] - 0 <= after
      BY <1>1, <2>1, <2>2, <3>1, <3>2
    <3> QED BY <3>3 DEF after
  <2>4. /\ file' = [file EXCEPT ![group] = 0] /\ phase' = "writing"
        /\ UNCHANGED <<object, cfg, runs, group, groupVars, historyVars>>
    BY <1>4 DEF OpensFile
  <2>5. 0 \in 0 .. Bytes[group]
    BY <1>1
  <2> QED BY <1>3, <2>3, <2>4, <2>5
<1>5. CASE WritesChunk
  <2> DEFINE n == file[group] + 1
  <2>1. phase = "writing" /\ file[group] < Bytes[group] /\ file' = [file EXCEPT ![group] = n]
        /\ phase' = "writing" /\ UNCHANGED <<object, cfg, runs, group, groupVars, historyVars>>
    BY <1>5 DEF WritesChunk
  <2>2. n \in Int
    BY <1>1
  <2>3. Free' = Free + Length(file[group]) - Length(n) /\ Free \in Int
    <3> HIDE DEF n
    <3> QED BY <1>1, <2>1, <2>2, FreeAfter
  <2>4. n \in 0 .. Bytes[group] /\ Length(n) - Length(file[group]) <= 1
        /\ Length(n) \in Int /\ Length(file[group]) \in Int
    BY <1>1, <2>1 DEF Length
  <2>5. Bytes[group] - file[group] <= Free
    BY <1>1, <2>1 DEF SourceIsWhole
  <2>6. Bytes[group] - n <= Free'
    <3> DEFINE after == Free'
    <3>1. after = Free + Length(file[group]) - Length(n)
      BY <2>3
    <3> HIDE DEF after
    <3>2. CASE file[group] >= 0
      <4>1. Length(n) = file[group] + 1 /\ Length(file[group]) = file[group]
        BY <1>1, <3>2 DEF Length
      <4>2. Bytes[group] - n <= after
        BY <1>1, <2>3, <2>5, <3>1, <4>1
      <4> QED BY <4>2 DEF after
    <3>3. CASE file[group] < 0
      <4>1. Length(n) = 0 /\ Length(file[group]) = 0
        BY <1>1, <3>3 DEF Length
      <4>2. Bytes[group] - n <= after
        BY <1>1, <2>3, <2>5, <3>1, <4>1
      <4> QED BY <4>2 DEF after
    <3> QED BY <1>1, <3>2, <3>3
  <2> HIDE DEF n
  <2> QED BY <1>3, <2>1, <2>4, <2>6
<1> QED
  BY <1>2, <1>4, <1>5

LEMMA InitEstablishesStagingInv == StagingInit => StagingInv
<1> SUFFICES ASSUME StagingInit PROVE StagingInv
  OBVIOUS
<1>1. /\ object \in [AllKeys -> Older \cup {NoObject}] /\ file = [g \in Groups |-> NoFile]
      /\ cfg \in Configs /\ runs = 0 /\ phase = "over" /\ group = 1 /\ described = {}
      /\ keysToUpload = {} /\ iteration = 0 /\ uploaded = {} /\ failed = FALSE /\ misread = {}
  BY DEF StagingInit
<1>2. 1 \in Groups /\ 0 \in 0 .. Iterations - 1 /\ 0 \in 0 .. MaxRuns
  BY GroupShape, BoundsAssumption DEF Groups
<1>3. file \in [Groups -> Int] /\ \A g \in Groups : file[g] \in 0 - 1 .. Bytes[g]
  BY <1>1, GroupShape DEF NoFile
<1>4. StagingTypeOK
  <2>1. object \in [AllKeys -> Older \cup {NoObject} \cup {Layout(g, c) : g \in Groups, c \in Configs}]
    BY <1>1
  <2>2. cfg \in Configs /\ runs \in 0 .. MaxRuns /\ phase \in StagingPhases /\ group \in Groups
    BY <1>1, <1>2 DEF StagingPhases
  <2>3. /\ described \subseteq Keys[group] /\ keysToUpload \subseteq described
        /\ iteration \in 0 .. Iterations - 1 /\ uploaded \subseteq keysToUpload
        /\ failed \in BOOLEAN /\ misread \subseteq AllKeys
    BY <1>1, <1>2
  <2> QED BY <1>3, <2>1, <2>2, <2>3 DEF StagingTypeOK
<1> QED
  BY <1>1, <1>3, <1>4 DEF StagingInv, DoneSoFar, SourceIsWhole

LEMMA StagingStepKeepsInv == StagingInv /\ [StagingNext]_stagingVars => StagingInv'
<1> SUFFICES ASSUME StagingInv, [StagingNext]_stagingVars PROVE StagingInv'
  OBVIOUS
<1>1. CASE Starts \/ Killed
  BY <1>1, StagingStarts
<1>2. CASE DescribeFails \/ WriteFails \/ UploadingFails \/ Refused
  BY <1>2, StagingThrows
<1>3. ASSUME NEW k \in AllKeys, Describes(k)
      PROVE  StagingInv'
  BY <1>3, StagingDescribes
<1>4. ASSUME NEW k \in AllKeys, Uploads(k)
      PROVE  StagingInv'
  BY <1>4, StagingUploads
<1>5. CASE Forced
  BY <1>5, StagingForced
<1>6. CASE Skips \/ EndIteration
  BY <1>6, StagingEnds
<1>7. CASE SourcesReady \/ OpensFile \/ WritesChunk \/ FinishesFile
  BY <1>7, StagingSource
<1>8. CASE UNCHANGED stagingVars
  <2>1. UNCHANGED <<object, file, cfg, runs, phase, group, described, keysToUpload, iteration,
                    uploaded, failed, misread>>
    BY <1>8 DEF stagingVars, stored, groupVars, historyVars
  <2> QED BY <2>1 DEF StagingInv, StagingTypeOK, DoneSoFar, SourceIsWhole, AsWanted, Layout,
             Free, Used, Occupied
<1> QED
  BY <1>1, <1>2, <1>3, <1>4, <1>5, <1>6, <1>7, <1>8 DEF StagingNext, GroupStep

LEMMA StagingInvGivesRunIsDone == StagingInv => RunIsDone
BY DEF StagingInv, DoneSoFar, RunIsDone, AsWanted

-----------------------------------------------------------------------------
(* However many runs there were, and wherever they were killed or failed, a  *)
(* run of the upload benchmark in which nothing failed leaves each object of *)
(* each group as its configuration asks for, for any groups, sizes and       *)
(* objects that were in the bucket before.                                   *)
THEOREM RunsAreDone == StagingSpec => []RunIsDone
<1>1. StagingSpec => []StagingInv
  BY InitEstablishesStagingInv, StagingStepKeepsInv, PTL DEF StagingSpec
<1> QED
  BY <1>1, StagingInvGivesRunIsDone, PTL

(* No source file is uploaded before it is whole, and one that is being      *)
(* written finds the room it still needs on its volume, for any capacity.    *)
THEOREM SourcesAreWhole == StagingSpec => []SourceIsWhole
<1>1. StagingSpec => []StagingInv
  BY InitEstablishesStagingInv, StagingStepKeepsInv, PTL DEF StagingSpec
<1>2. StagingInv => SourceIsWhole
  BY DEF StagingInv
<1> QED
  BY <1>1, <1>2, PTL
=============================================================================
