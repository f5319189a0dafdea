----------------------------- MODULE FileWriter -----------------------------
(***************************************************************************)
(* The inline O_DIRECT writer: what a download worker in file mode does    *)
(* with an 'assign'.  It takes a buffer (slot) from its free list or makes *)
(* one, probing for the alignment that O_DIRECT wants, fills it with the   *)
(* range, attempt after attempt, writes it piece by piece, through the     *)
(* O_DIRECT descriptor of the file or the buffered one, and answers.       *)
(* Several handlers run between each other's awaits.                       *)
(*                                                                         *)
(* Sizes are small numbers of bytes and Align stands for 4096.  A byte of  *)
(* an object is <<dest, offset>>, so that a byte that lands at the wrong   *)
(* place is seen.                                                          *)
(***************************************************************************)
EXTENDS Ranges, FiniteSets, Sequences

CONSTANTS
  Dests,          \* destination files, one per object
  Configs,        \* the [total, rangeSize, fileChunk, direct, discard] that are
                  \* explored; total[d] is how many bytes the object for d has
  Align,          \* ALIGN
  Concurrency,    \* cfg.concurrency: how many ranges main gives a worker
  MaxPartRetries  \* MAX_PART_RETRIES

ASSUME DestsAssumption == IsFiniteSet(Dests)
ASSUME ConfigsAssumption ==
  Configs \subseteq [total : [Dests -> Nat], rangeSize : Nat \ {0}, fileChunk : Nat \ {0},
                     direct : BOOLEAN, discard : BOOLEAN]
ASSUME SizesAssumption == Align \in Nat \ {0} /\ Concurrency \in Nat /\ MaxPartRetries \in Nat

VARIABLES
  cfg,               \* workerData
  task,              \* task[r]: the handler that was given range r
  bufSlots,          \* slots on the free list
  slots,             \* slots[s]: the buffers made so far
  directProbed, directUsable,
  fileRecs,          \* fileRecs[d]: the descriptors of d in its record
  disk,              \* disk[d][o]: what the file holds at offset o
  dispatchInFlight, dispatchStopped,
  doneEmitted        \* dispatchMaybeDone has run and closed the descriptors

slotVars == <<bufSlots, slots, directProbed, directUsable>>
countVars == <<dispatchInFlight, dispatchStopped, doneEmitted>>
vars == <<cfg, task, slotVars, fileRecs, disk, countVars>>

Null == <<>>    \* no byte of an object

(* The ranges that main plans, and the size of the buffers they go through.  *)
RangesOf ==
  [c \in Configs |-> UNION {{<<d, i>> : i \in 1 .. RangeCount(c.total[d], c.rangeSize)} : d \in Dests}]
AllRanges == RangesOf[cfg]
Offset(r) == RangeOffset(r[2], cfg.rangeSize)
Size(r) == RangeSize(cfg.total[r[1]], r[2], cfg.rangeSize)
BufferBytes == 0 .. cfg.rangeSize - 1

Phases == {"none", "fetching", "writing", "answered", "failed"}

(* sent: bytes of the body that came in this attempt; got: byteLength;       *)
(* w, x: bytes written of the range and of the current piece; fd: the        *)
(* descriptor that piece goes to.                                            *)
NoTask == [phase |-> "none", slot |-> 0, tryNo |-> 0, sent |-> 0, got |-> 0,
           w |-> 0, x |-> 0, fd |-> Null]

Init ==
  /\ cfg \in Configs
  /\ task = [r \in AllRanges |-> NoTask]
  /\ bufSlots = {}
  /\ slots = <<>>
  /\ directProbed = FALSE
  /\ directUsable = FALSE
  /\ fileRecs = [d \in Dests |-> {}]
  /\ disk = [d \in Dests |-> [o \in 0 .. cfg.total[d] - 1 |-> Null]]
  /\ dispatchInFlight = 0
  /\ dispatchStopped = FALSE
  /\ doneEmitted = FALSE

-----------------------------------------------------------------------------
(* Slots.  As elsewhere, an operator that precedes one of the same shape is  *)
(* a slip in it that no action uses.                                         *)

(* acquireSlot, if a slot is free.                                           *)
ReuseShared(s) == UNCHANGED slotVars
Reuse(s) ==
  /\ bufSlots' = bufSlots \ {s}
  /\ UNCHANGED <<slots, directProbed, directUsable>>

(* acquireSlot, if none is: the first probe decides whether O_DIRECT works   *)
(* here; if it does, a later buffer may still find no aligned address.       *)
Allocate(found) ==
  LET probes == cfg.direct /\ ~cfg.discard /\ (directUsable \/ ~directProbed) IN
  /\ slots' = Append(slots, [direct |-> probes /\ found,
                             bytes |-> [j \in BufferBytes |-> Null]])
  /\ directProbed' = (directProbed \/ probes)
  /\ directUsable' = IF probes /\ ~directProbed THEN found ELSE directUsable
  /\ UNCHANGED bufSlots

Acquire(s, found) ==
  IF bufSlots = {} THEN s = Len(slots) + 1 /\ Allocate(found)
  ELSE s \in bufSlots /\ Reuse(s)

(* releaseSlot.  What is left in the buffer is no byte of its next range.    *)
ReleaseSlot(s) ==
  /\ bufSlots' = bufSlots \cup {s}
  /\ slots' = [slots EXCEPT ![s].bytes = [j \in BufferBytes |-> Null]]
  /\ UNCHANGED <<directProbed, directUsable>>

-----------------------------------------------------------------------------
(* dispatchMaybeDone.  With no profile to stop its await does not let a      *)
(* message in.                                                               *)

IsDoneAtOnce(stopped, count) == stopped /\ ~doneEmitted
IsDone(stopped, count) == stopped /\ count = 0 /\ ~doneEmitted

MaybeDone(stopped, count) ==
  LET done == IsDone(stopped, count) IN
  /\ doneEmitted' = (doneEmitted \/ done)
  /\ fileRecs' = IF done THEN [d \in Dests |-> {}] ELSE fileRecs

-----------------------------------------------------------------------------
(* writeRangeToFile.                                                         *)

(* The piece at w, and whether it may go through O_DIRECT.                   *)
Piece(r, w) == Least(cfg.fileChunk, task[r].got - w)
ByLength(r, w) == Piece(r, w) % Align = 0
ByLengthAndOffset(r, w) == Piece(r, w) % Align = 0 /\ (Offset(r) + w) % Align = 0

GoesDirect(s, r, w) == slots[s].direct /\ ByLengthAndOffset(r, w)

(* openSync happens once per file and kind.  A descriptor is told from one   *)
(* of the same kind that was opened after the records were closed.           *)
Descriptor(s, r, w) ==
  LET kind == IF GoesDirect(s, r, w) THEN "direct" ELSE "buffered"
      known == {fd \in fileRecs[r[1]] : fd[1] = kind}
  IN  IF known = {} THEN <<kind, doneEmitted>> ELSE CHOOSE fd \in known : TRUE

(* The next pwrite, up to its await.                                         *)
IssueWrite(r, w) ==
  LET fd == Descriptor(task[r].slot, r, w) IN
  /\ task' = [task EXCEPT ![r].phase = "writing", ![r].w = w, ![r].x = 0, ![r].fd = fd]
  /\ fileRecs' = [fileRecs EXCEPT ![r[1]] = @ \cup {fd}]
  /\ UNCHANGED <<slotVars, countVars>>

(* The whole range is on disk, or drained: give the slot back and answer.    *)
Answer(r) ==
  /\ task' = [task EXCEPT ![r] = [NoTask EXCEPT !.phase = "answered"]]
  /\ ReleaseSlot(task[r].slot)
  /\ dispatchInFlight' = dispatchInFlight - 1
  /\ MaybeDone(dispatchStopped, dispatchInFlight - 1)
  /\ UNCHANGED dispatchStopped

(* What the file holds after n bytes of the piece, from x on, were written.  *)
Stored(r, n) ==
  LET first == task[r].w + task[r].x IN
  [disk EXCEPT ![r[1]] =
     [o \in DOMAIN @ |->
        IF Offset(r) + first <= o /\ o < Offset(r) + first + n
        THEN slots[task[r].slot].bytes[o - Offset(r)]
        ELSE @[o]]]

-----------------------------------------------------------------------------
(* The handlers.                                                             *)

Running == {r \in AllRanges : task[r].phase \in {"fetching", "writing"}}
Failed == {r \in AllRanges : task[r].phase = "failed"}

(* 'assign', up to the first await.  Main has a lane for it: that of a part  *)
(* that failed does not come back.                                           *)
Assign(r) ==
  /\ task[r].phase = "none"
  /\ Cardinality(Running \cup Failed) < Concurrency
  /\ \E s \in bufSlots \cup {Len(slots) + 1}, found \in BOOLEAN :
       /\ Acquire(s, found)
       /\ task' = [task EXCEPT ![r] = [NoTask EXCEPT !.phase = "fetching", !.slot = s]]
  /\ dispatchInFlight' = dispatchInFlight + 1
  /\ UNCHANGED <<cfg, fileRecs, disk, dispatchStopped, doneEmitted>>

Fetching(r) == task[r].phase = "fetching"

(* A chunk arrives and is copied behind what the attempt has.                *)
ChunkArrives(r) ==
  /\ Fetching(r) /\ task[r].sent < Size(r)
  /\ \E n \in 1 .. Size(r) - task[r].sent :
       /\ slots' = [slots EXCEPT ![task[r].slot].bytes =
                      [j \in DOMAIN @ |->
                         IF task[r].got <= j /\ j < task[r].got + n
                         THEN <<r[1], Offset(r) + task[r].sent + (j - task[r].got)>>
                         ELSE @[j]]]
       /\ task' = [task EXCEPT ![r].sent = @ + n, ![r].got = @ + n]
  /\ UNCHANGED <<cfg, bufSlots, directProbed, directUsable, fileRecs, disk, countVars>>

(* The watchdog aborts the attempt: fetch again into the same slot, from 0.  *)
RetryAppends(r) == task[r].got
RetryFrom(r) == 0

AttemptStalls(r) ==
  /\ Fetching(r) /\ task[r].tryNo < MaxPartRetries
  /\ task' = [task EXCEPT ![r].tryNo = @ + 1, ![r].sent = 0,
                              ![r].got = RetryFrom(r)]
  /\ UNCHANGED <<cfg, slotVars, fileRecs, disk, countVars>>

(* The body has ended.                                                       *)
BodyEnds(r) ==
  /\ Fetching(r) /\ task[r].sent = Size(r)
  /\ IF cfg.discard \/ task[r].got = 0 THEN Answer(r) ELSE IssueWrite(r, 0)
  /\ UNCHANGED <<cfg, disk>>

(* A pwrite has written n bytes: a direct one all of its piece, or the       *)
(* handler throws; a buffered one is repeated until the piece is written.    *)
(* O_DIRECT also wants an aligned address, and the buffer starts at one.     *)
WriteEnds(r) ==
  /\ task[r].phase = "writing"
  /\ \E n \in 1 .. Piece(r, task[r].w) - task[r].x :
       /\ task[r].fd[1] = "direct" => n = Piece(r, task[r].w) /\ task[r].w % Align = 0
       /\ task[r].w + task[r].x + n <= cfg.rangeSize   \* fs.write wants it in the buffer
       /\ disk' = Stored(r, n)
       /\ IF task[r].x + n < Piece(r, task[r].w)
          THEN task' = [task EXCEPT ![r].x = @ + n] /\ UNCHANGED <<slotVars, fileRecs, countVars>>
          ELSE LET w == task[r].w + Piece(r, task[r].w) IN
               IF w < task[r].got THEN IssueWrite(r, w) ELSE Answer(r)
  /\ UNCHANGED cfg

(* The catch: the attempt failed for good, a descriptor could not be opened, *)
(* or a write failed or was short.  Neither the slot nor the count comes     *)
(* back.                                                                     *)
RangeFails(r) ==
  /\ r \in Running
  /\ task' = [task EXCEPT ![r] = [NoTask EXCEPT !.phase = "failed"]]
  /\ UNCHANGED <<cfg, slotVars, fileRecs, disk, countVars>>

(* 'stop'.                                                                   *)
Stop ==
  /\ ~dispatchStopped
  /\ dispatchStopped' = TRUE
  /\ MaybeDone(TRUE, dispatchInFlight)
  /\ UNCHANGED <<cfg, task, slotVars, disk, dispatchInFlight>>

-----------------------------------------------------------------------------
RangeStep(r) == ChunkArrives(r) \/ AttemptStalls(r) \/ BodyEnds(r) \/ WriteEnds(r) \/ RangeFails(r)

Next == (\E r \in AllRanges : Assign(r) \/ RangeStep(r)) \/ Stop

Spec == Init /\ [][Next]_vars

-----------------------------------------------------------------------------
(* Properties.                                                               *)

Slots == 1 .. Len(slots)

(* (Types, and: a worker never makes more buffers than main gives it ranges  *)
(* at a time, although those of failed ranges are lost.)                     *)
TypeOK ==
  /\ Len(slots) <= Concurrency
  /\ cfg \in Configs
  /\ DOMAIN task = AllRanges
  /\ \A r \in AllRanges :
       /\ task[r].phase \in Phases
       /\ task[r].slot \in Slots \cup {0}
       /\ task[r].tryNo \in 0 .. MaxPartRetries
       /\ task[r].sent \in 0 .. Size(r)
       /\ task[r].got = task[r].sent
       /\ task[r].w \in 0 .. Size(r)
       /\ task[r].x \in 0 .. Size(r)
  /\ bufSlots \subseteq Slots
  /\ directProbed \in BOOLEAN /\ directUsable \in BOOLEAN
  /\ dispatchInFlight \in Nat
  /\ dispatchStopped \in BOOLEAN /\ doneEmitted \in BOOLEAN

(* A range that is answered is in its file, every byte of it at its place:   *)
(* neither the other ranges nor an attempt that was given up, nor the reuse  *)
(* of its slot before the last write, left a byte of theirs.                 *)
AnsweredIsOnDisk ==
  ~cfg.discard =>
    \A r \in AllRanges : task[r].phase = "answered" =>
      \A o \in RangeBytes(cfg.total[r[1]], r[2], cfg.rangeSize) : disk[r[1]][o] = <<r[1], o>>

(* While a write is under way its descriptor is not closed: the worker       *)
(* closes them when it counts no range, and it counts a range until its last *)
(* write, and the failed ones for ever.                                      *)
DescriptorsOpen ==
  \A r \in AllRanges : task[r].phase = "writing" => task[r].fd \in fileRecs[r[1]]

(* A direct write has what O_DIRECT asks for: a file offset, a length and,   *)
(* if ranges or pieces are made of whole blocks, an address in the slot that *)
(* are multiples of the alignment.                                           *)
DirectIsAligned ==
  \A r \in AllRanges : task[r].phase = "writing" /\ task[r].fd[1] = "direct" =>
    /\ slots[task[r].slot].direct
    /\ (Offset(r) + task[r].w) % Align = 0
    /\ Piece(r, task[r].w) % Align = 0
    /\ cfg.rangeSize % Align = 0 \/ cfg.fileChunk % Align = 0 => task[r].w % Align = 0
=============================================================================
