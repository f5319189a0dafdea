---------------------------- MODULE UploadWorker ----------------------------
(***************************************************************************)
(* A thread of the upload pool: it is sent parts whose bytes come along    *)
(* ('upload', a buffer that is transferred to it), are shared              *)
(* ('upload-sab'), or are its own to read from the source file, at the     *)
(* part's place ('upload-file').  It sends each to S3 and answers.         *)
(*                                                                         *)
(* All parts here are of one source of Total bytes.  A byte is the place   *)
(* in the source it was read from, so that a byte of nowhere (of a buffer  *)
(* that was not filled) and one of another place are seen.  What main does *)
(* with the answers is in UploadManager.                                   *)
(***************************************************************************)
EXTENDS Ranges

CONSTANTS
  Total,       \* bytes of the source when main planned its parts
  PartBytes,   \* partSize
  Kinds        \* which of the messages are explored

ASSUME SourceAssumption == Total \in Nat \ {0} /\ PartBytes \in Nat \ {0}
ASSUME KindsAssumption == Kinds \subseteq {"upload", "upload-sab", "upload-file"}

VARIABLES
  kind,        \* of the messages
  fileSize,    \* of the source file: others may cut it off while it is read
  fdOpen,      \* uploaderFds has a descriptor for it
  task,        \* task[p]: where p is, the bytes read of it, and its body
  buffers,     \* parts whose buffer main has
  stopped      \* 'stop' was handled

vars == <<kind, fileSize, fdOpen, task, buffers, stopped>>

Parts == 1 .. RangeCount(Total, PartBytes)
Start(p) == RangeOffset(p, PartBytes)
Size(p) == RangeSize(Total, p, PartBytes)

Unset == 0 - 1    \* allocUnsafeSlow: whatever was there

Phases == {"none", "sent", "reading", "sending", "uploaded", "failed"}
Empty(p) == [j \in 0 .. Size(p) - 1 |-> Unset]
Filled(p) == [j \in 0 .. Size(p) - 1 |-> Start(p) + j]

Init ==
  /\ kind \in Kinds
  /\ fileSize = Total
  /\ fdOpen = FALSE
  /\ task = [p \in Parts |-> [phase |-> "none", read |-> 0, body |-> Empty(p)]]
  /\ buffers = Parts
  /\ stopped = FALSE

-----------------------------------------------------------------------------
(* As elsewhere, an operator that precedes one of the same shape is a slip   *)
(* in it that no action uses.                                                *)

In(phase) == {p \in Parts : task[p].phase = phase}
At(p, phase) == task[p].phase = phase
Becomes(p, phase) == task' = [task EXCEPT ![p].phase = phase]

(* readSync does not let the thread do anything else.                        *)
Idle == In("reading") = {}

(* Main posts a part, and its buffer with it.                                *)
Posts(p) ==
  /\ At(p, "none")
  /\ Becomes(p, "sent")
  /\ buffers' = IF kind = "upload" THEN buffers \ {p} ELSE buffers
  /\ UNCHANGED <<kind, fileSize, fdOpen, stopped>>

(* 'upload' and 'upload-sab'.                                                *)
SendsBytes(p) ==
  /\ Idle /\ At(p, "sent") /\ kind # "upload-file"
  /\ task' = [task EXCEPT ![p].phase = "sending", ![p].body = Filled(p)]
  /\ UNCHANGED <<kind, fileSize, fdOpen, buffers, stopped>>

(* 'upload-file', with fdForFile.                                            *)
OpensSource(p) ==
  /\ Idle /\ At(p, "sent") /\ kind = "upload-file"
  /\ fdOpen' = TRUE
  /\ Becomes(p, "reading")
  /\ UNCHANGED <<kind, fileSize, buffers, stopped>>

OpenFails(p) ==
  /\ Idle /\ At(p, "sent") /\ kind = "upload-file" /\ ~fdOpen
  /\ Becomes(p, "failed")
  /\ UNCHANGED <<kind, fileSize, fdOpen, buffers, stopped>>

(* What readSync may return: some of the bytes that are left and asked for.  *)
FromStart(p) == Start(p)
ReadAt(p) == Start(p) + task[p].read

AsksForRest(p) == Size(p) - task[p].read

Returned(p) ==
  LET left == fileSize - ReadAt(p)
  IN  IF left <= 0 THEN {0} ELSE 1 .. Least(AsksForRest(p), left)

ReadIsOver(p, n) == n = 0

Reads(p) ==
  /\ At(p, "reading") /\ task[p].read < Size(p)
  /\ \E n \in Returned(p) :
       task' = [task EXCEPT
         ![p].phase = IF ReadIsOver(p, n) THEN "sending" ELSE @,
         ![p].read = @ + n,
         ![p].body = [j \in DOMAIN @ |->
                        IF task[p].read <= j /\ j < task[p].read + n
                        THEN ReadAt(p) + (j - task[p].read) ELSE @[j]]]
  /\ UNCHANGED <<kind, fileSize, fdOpen, buffers, stopped>>

(* readSync throws: 'error'.                                                 *)
ReadFails(p) ==
  /\ At(p, "reading") /\ task[p].read < Size(p)
  /\ Becomes(p, "failed")
  /\ UNCHANGED <<kind, fileSize, fdOpen, buffers, stopped>>

HasRead(p) ==
  /\ At(p, "reading") /\ task[p].read = Size(p)
  /\ Becomes(p, "sending")
  /\ UNCHANGED <<kind, fileSize, fdOpen, buffers, stopped>>

(* UploadPart has answered: so does the worker, and gives the buffer back.   *)
GivenBack(p) == buffers \cup {p}

Uploaded(p) ==
  /\ Idle /\ At(p, "sending")
  /\ Becomes(p, "uploaded")
  /\ buffers' = IF kind = "upload" THEN GivenBack(p) ELSE buffers
  /\ UNCHANGED <<kind, fileSize, fdOpen, stopped>>

(* It has failed, as it may when 'stop' has destroyed the client: 'error',   *)
(* and the buffer stays here.                                                *)
UploadFails(p) ==
  /\ Idle /\ At(p, "sending")
  /\ Becomes(p, "failed")
  /\ UNCHANGED <<kind, fileSize, fdOpen, buffers, stopped>>

Stop ==
  /\ Idle /\ ~stopped
  /\ stopped' = TRUE
  /\ fdOpen' = FALSE
  /\ UNCHANGED <<kind, fileSize, task, buffers>>

(* Someone shortens the source file.                                         *)
Shortened ==
  /\ kind = "upload-file" /\ fileSize > 0
  /\ fileSize' = fileSize - 1
  /\ UNCHANGED <<kind, fdOpen, task, buffers, stopped>>

-----------------------------------------------------------------------------
PartStep(p) ==
  SendsBytes(p) \/ OpensSource(p) \/ OpenFails(p) \/ Reads(p) \/ ReadFails(p) \/ HasRead(p)
    \/ Uploaded(p) \/ UploadFails(p)

Next == (\E p \in Parts : Posts(p) \/ PartStep(p)) \/ Stop \/ Shortened

Spec == Init /\ [][Next]_vars

-----------------------------------------------------------------------------
(* Properties.                                                               *)

TypeOK ==
  /\ kind \in Kinds
  /\ fileSize \in 0 .. Total
  /\ fdOpen \in BOOLEAN /\ stopped \in BOOLEAN
  /\ \A p \in Parts :
       /\ task[p].phase \in Phases
       /\ task[p].read \in 0 .. Size(p)
       /\ task[p].body \in [0 .. Size(p) - 1 -> 0 .. Total - 1 \cup {Unset}]
  /\ buffers \subseteq Parts

(* What is sent of a part are its bytes, each at its place, as far as the    *)
(* source goes: reads that return less than they were asked for, of parts    *)
(* whose handlers alternate, neither shift nor repeat one.                   *)
SentIsSource ==
  /\ TypeOK
  /\ \A p \in Parts : task[p].phase \in {"sending", "uploaded"} =>
       \A j \in 0 .. Size(p) - 1 : Start(p) + j < fileSize => task[p].body[j] = Start(p) + j
=============================================================================
