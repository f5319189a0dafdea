------------------------ MODULE DownloadWorkerProofs ------------------------
(***************************************************************************)
(* The buffers of a download worker, for objects, ranges, pieces and       *)
(* blocks of any size.  In file mode (FileWriter) every range that is      *)
(* answered is in its file.  In stream mode (BufferReturn) no buffer is    *)
(* ever in two places, whatever consumers do with their chunks, and a      *)
(* worker makes no more of them than it needs.                             *)
(***************************************************************************)
EXTENDS FileWriter, BufferReturn, OperatorLemmas

-----------------------------------------------------------------------------
(* The ranges.                                                               *)

LEMMA ConfigShape ==
  ASSUME cfg \in Configs
  PROVE  /\ cfg.total \in [Dests -> Nat]
         /\ cfg.rangeSize \in Nat \ {0} /\ cfg.fileChunk \in Nat \ {0}
         /\ cfg.direct \in BOOLEAN /\ cfg.discard \in BOOLEAN
         /\ Align \in Nat \ {0} /\ Concurrency \in Nat /\ MaxPartRetries \in Nat
BY ConfigsAssumption, SizesAssumption

RangesOfDest(c, d) == {<<d, i>> : i \in 1 .. RangeCount(c.total[d], c.rangeSize)}

LEMMA RangeShape ==
  ASSUME cfg \in Configs
  PROVE  /\ AllRanges = UNION {RangesOfDest(cfg, d) : d \in Dests}
         /\ \A r \in AllRanges :
              /\ r = <<r[1], r[2]>> /\ r[1] \in Dests
              /\ r[2] \in 1 .. RangeCount(cfg.total[r[1]], cfg.rangeSize)
              /\ Offset(r) \in Nat /\ Size(r) \in Nat /\ Size(r) <= cfg.rangeSize
              /\ Offset(r) + Size(r) <= cfg.total[r[1]]
<1>1. AllRanges = UNION {RangesOfDest(cfg, d) : d \in Dests}
  BY DEF AllRanges, RangesOf, RangesOfDest
<1> SUFFICES ASSUME NEW r \in AllRanges
             PROVE  /\ r = <<r[1], r[2]>> /\ r[1] \in Dests
                    /\ r[2] \in 1 .. RangeCount(cfg.total[r[1]], cfg.rangeSize)
                    /\ Offset(r) \in Nat /\ Size(r) \in Nat /\ Size(r) <= cfg.rangeSize
                    /\ Offset(r) + Size(r) <= cfg.total[r[1]]
  BY <1>1
<1>2. PICK d \in Dests : r \in RangesOfDest(cfg, d)
  BY <1>1
<1>3. /\ r = <<r[1], r[2]>> /\ r[1] \in Dests
      /\ r[2] \in 1 .. RangeCount(cfg.total[r[1]], cfg.rangeSize)
  BY <1>2 DEF RangesOfDest
<1>4. cfg.total[r[1]] \in Nat /\ cfg.rangeSize \in Nat \ {0}
  BY <1>3, ConfigShape
<1> QED
  BY <1>3, <1>4, RangeInside DEF Offset, Size

LEMMA FiniteRanges ==
  ASSUME cfg \in Configs
  PROVE  IsFiniteSet(AllRanges)
<1>1. ASSUME NEW d \in Dests
      PROVE  IsFiniteSet(RangesOfDest(cfg, d))
  <2> DEFINE n == RangeCount(cfg.total[d], cfg.rangeSize)
  <2>1. IsFiniteSet(1 .. n)
    <3>1. cfg.total[d] \in Nat /\ cfg.rangeSize \in Nat \ {0}
      BY ConfigShape
    <3>2. n \in Int
      BY <3>1, CountFits DEF RangeCount
    <3> QED BY <3>2, FS_Interval
  <2>2. RangesOfDest(cfg, d) = {<<d, i>> : i \in 1 .. n}
    BY DEF RangesOfDest
  <2> HIDE DEF n
  <2> DEFINE f == [i \in 1 .. n |-> <<d, i>>]
  <2>3. f \in Surjection(1 .. n, RangesOfDest(cfg, d))
    BY <2>2 DEF Surjection
  <2> QED BY <2>1, <2>3, FS_Surjection
<1>2. IsFiniteSet({RangesOfDest(cfg, d) : d \in Dests})
  <2> DEFINE rows == {RangesOfDest(cfg, d) : d \in Dests}
             f == [d \in Dests |-> RangesOfDest(cfg, d)]
  <2>1. f \in [Dests -> rows] /\ \A r \in rows : \E d \in Dests : f[d] = r
    OBVIOUS
  <2>2. f \in Surjection(Dests, rows)
    <3> HIDE DEF f, rows
    <3> QED BY <2>1 DEF Surjection
  <2> HIDE DEF f, rows
  <2>3. IsFiniteSet(rows)
    BY <2>2, DestsAssumption, FS_Surjection
  <2> QED BY <2>3 DEF rows
<1>3. IsFiniteSet(UNION {RangesOfDest(cfg, d) : d \in Dests})
  BY <1>1, <1>2, FS_UNION
<1> QED
  BY <1>3, RangeShape

(* Two ranges of one object share no byte.                                   *)
LEMMA RangesDisjoint ==
  ASSUME cfg \in Configs, NEW r \in AllRanges, NEW q \in AllRanges, q # r, q[1] = r[1],
         NEW o \in Nat, Offset(q) <= o, o < Offset(q) + Size(q)
  PROVE  ~(Offset(r) <= o /\ o < Offset(r) + Size(r))
<1> DEFINE total == cfg.total[r[1]]
           step == cfg.rangeSize
<1>1. /\ total \in Nat /\ step \in Nat \ {0}
      /\ r[2] \in 1 .. RangeCount(total, step) /\ q[2] \in 1 .. RangeCount(total, step)
      /\ r[2] # q[2]
      /\ Offset(q) \in Nat /\ Size(q) \in Nat /\ Offset(q) + Size(q) <= total
      /\ Offset(r) \in Nat /\ Size(r) \in Nat
  BY RangeShape, ConfigShape
<1>2. o \in 0 .. total - 1
  BY <1>1
<1>3. \A p \in {q, r} : Offset(p) <= o /\ o < Offset(p) + Size(p)
                          => o \in RangeBytes(total, p[2], step)
  <2> SUFFICES ASSUME NEW p \in {q, r}, Offset(p) <= o, o < Offset(p) + Size(p)
               PROVE  o \in RangeBytes(total, p[2], step)
    OBVIOUS
  <2>1. /\ Offset(p) = RangeOffset(p[2], step) /\ Size(p) = RangeSize(total, p[2], step)
        /\ Offset(p) \in Nat /\ Size(p) \in Nat
    BY <1>1 DEF Offset, Size
  <2>2. o - Offset(p) \in 0 .. Size(p) - 1 /\ o = Offset(p) + (o - Offset(p))
    BY <2>1
  <2> QED BY <2>1, <2>2 DEF RangeBytes
<1>4. PICK i : \A j \in 1 .. RangeCount(total, step) : o \in RangeBytes(total, j, step) => j = i
  BY <1>1, <1>2, RangesPartition
<1> HIDE DEF total, step
<1> QED
  BY <1>1, <1>3, <1>4

-----------------------------------------------------------------------------
(* Multiples.                                                                *)

LEMMA MultipleHasNoRest ==
  ASSUME NEW q \in Nat, NEW n \in Nat \ {0}
  PROVE  (q * n) % n = 0
BY Z3

LEMMA NextMultiple ==
  ASSUME NEW q \in Nat, NEW n \in Nat
  PROVE  (q + 1) * n = q * n + n
BY Z3

LEMMA NoRestIsMultiple ==
  ASSUME NEW a \in Nat, NEW n \in Nat \ {0}, a % n = 0
  PROVE  \E q \in Nat : a = q * n
<1>1. a \div n \in Nat /\ a = ((a \div n) * n) + (a % n)
  BY Z3
<1>2. a = (a \div n) * n
  BY <1>1, Z3
<1> QED
  BY <1>1, <1>2

LEMMA ProductHasNoRest ==
  ASSUME NEW a \in Nat, NEW b \in Nat, NEW n \in Nat \ {0}, a % n = 0
  PROVE  (b * a) % n = 0
<1>1. PICK q \in Nat : a = q * n
  BY NoRestIsMultiple
<1>2. b * a = (b * q) * n /\ b * q \in Nat
  BY <1>1, Z3
<1> QED
  BY <1>2, MultipleHasNoRest

LEMMA DifferenceHasNoRest ==
  ASSUME NEW a \in Nat, NEW b \in Nat, NEW n \in Nat \ {0}, a % n = 0, (a + b) % n = 0
  PROVE  b % n = 0
<1>1. PICK q \in Nat : a = q * n
  BY NoRestIsMultiple
<1>2. PICK p \in Nat : a + b = p * n
  BY NoRestIsMultiple
<1>3. p - q \in Nat
  <2>1. SUFFICES ASSUME p < q PROVE FALSE
    OBVIOUS
  <2>2. p * n + n <= q * n
    BY <2>1, ProductStep
  <2> QED BY <1>1, <1>2, <2>2
<1>4. b = (p - q) * n
  <2>1. (p - q) * n = p * n - q * n
    BY <1>3, Z3
  <2> QED BY <1>1, <1>2, <2>1
<1> QED
  BY <1>3, <1>4, MultipleHasNoRest
-----------------------------------------------------------------------------
(* The inductive invariant.                                                  *)

Kinds == {"direct", "buffered"}
Byte == {Null} \cup (Dests \X Nat)
Fds == {Null} \cup (Kinds \X BOOLEAN)
SlotType == [direct : BOOLEAN, bytes : [BufferBytes -> Byte]]
TaskType == [phase : Phases, slot : Nat, tryNo : 0 .. MaxPartRetries, sent : Nat, got : Nat,
             w : Nat, x : Nat, fd : Fds]

Types ==
  /\ cfg \in Configs
  /\ task \in [AllRanges -> TaskType]
  /\ slots \in Seq(SlotType) /\ bufSlots \subseteq Slots
  /\ directProbed \in BOOLEAN /\ directUsable \in BOOLEAN
  /\ fileRecs \in [Dests -> SUBSET Fds]
  /\ DOMAIN disk = Dests /\ \A d \in Dests : DOMAIN disk[d] = 0 .. cfg.total[d] - 1
  /\ dispatchInFlight \in Nat
  /\ dispatchStopped \in BOOLEAN /\ doneEmitted \in BOOLEAN

(* Each range under way has a slot for itself.                               *)
OneSlot ==
  /\ \A r \in Running : task[r].slot \in Slots \ bufSlots
  /\ \A r, q \in Running : task[r].slot = task[q].slot => r = q

(* Every slot is on the free list or belongs to a range that is counted, the *)
(* failed ones too, and no slot is made beyond those that ranges hold.       *)
Busy == Running \cup Failed
SlotsCounted ==
  /\ dispatchInFlight = Cardinality(Busy)
  /\ Len(slots) = Cardinality(bufSlots) + dispatchInFlight
  /\ Len(slots) <= Concurrency

(* The first n bytes of r are in its slot; they are in its file.             *)
InSlot(r, n) ==
  \A i \in 0 .. n - 1 : slots[task[r].slot].bytes[i] = <<r[1], Offset(r) + i>>
OnDisk(r, n) ==
  \A i \in 0 .. n - 1 : disk[r[1]][Offset(r) + i] = <<r[1], Offset(r) + i>>

(* The piece at w is a whole one of those the range is cut into, and if it   *)
(* goes to a direct descriptor, its file offset and length are right.        *)
PieceIsRight(r) ==
  /\ \E k \in Nat : task[r].w = k * cfg.fileChunk
  /\ task[r].fd \in fileRecs[r[1]]
  /\ task[r].fd[1] = "direct" =>
       /\ slots[task[r].slot].direct
       /\ (Offset(r) + task[r].w) % Align = 0
       /\ Piece(r, task[r].w) % Align = 0

TaskMatches(r) ==
  /\ r \notin Running => task[r] = [NoTask EXCEPT !.phase = task[r].phase]
  /\ Fetching(r) => /\ task[r].sent <= Size(r) /\ task[r].got = task[r].sent
                    /\ task[r].w = 0 /\ task[r].x = 0
                    /\ InSlot(r, task[r].got)
  /\ task[r].phase = "writing" =>
       /\ ~cfg.discard
       /\ task[r].sent = Size(r) /\ task[r].got = Size(r)
       /\ task[r].w < Size(r) /\ task[r].x < Piece(r, task[r].w)
       /\ InSlot(r, Size(r)) /\ OnDisk(r, task[r].w + task[r].x)
       /\ PieceIsRight(r)
  /\ task[r].phase = "answered" /\ ~cfg.discard => OnDisk(r, Size(r))

Inv == Types /\ OneSlot /\ SlotsCounted /\ \A r \in AllRanges : TaskMatches(r)

-----------------------------------------------------------------------------
(* Inv gives what the run checks.                                            *)

LEMMA PieceSize ==
  ASSUME Inv, NEW r \in AllRanges, task[r].got = Size(r), NEW w \in Nat, w < Size(r)
  PROVE  /\ Piece(r, w) \in Nat \ {0} /\ w + Piece(r, w) <= Size(r)
         /\ w + Piece(r, w) < Size(r) => Piece(r, w) = cfg.fileChunk
<1>1. cfg \in Configs
  BY DEF Inv, Types
<1>2. Size(r) \in Nat /\ cfg.fileChunk \in Nat \ {0}
  BY <1>1, RangeShape, ConfigShape
<1>3. Piece(r, w) = IF cfg.fileChunk < Size(r) - w THEN cfg.fileChunk ELSE Size(r) - w
  BY DEF Piece, Least
<1> QED
  BY <1>2, <1>3

LEMMA InvGivesTypes == Inv => TypeOK
<1> SUFFICES ASSUME Inv PROVE TypeOK
  OBVIOUS
<1>1. ASSUME NEW r \in AllRanges
      PROVE  /\ task[r].phase \in Phases
             /\ task[r].slot \in Slots \cup {0}
             /\ task[r].tryNo \in 0 .. MaxPartRetries
             /\ task[r].sent \in 0 .. Size(r)
             /\ task[r].got = task[r].sent
             /\ task[r].w \in 0 .. Size(r)
             /\ task[r].x \in 0 .. Size(r)
  <2>1. task[r] \in TaskType /\ TaskMatches(r) /\ Size(r) \in Nat
    BY RangeShape DEF Inv, Types
  <2>2. CASE r \notin Running
    BY <2>1, <2>2 DEF TaskMatches, NoTask, TaskType
  <2>3. CASE Fetching(r)
    <3>1. r \in Running
      BY <2>3 DEF Fetching, Running
    <3> QED BY <2>1, <2>3, <3>1 DEF TaskMatches, TaskType, Inv, OneSlot
  <2>4. CASE task[r].phase = "writing"
    <3>1. r \in Running
      BY <2>4 DEF Running
    <3>2. task[r].w \in Nat /\ task[r].w < Size(r) /\ task[r].x \in Nat
          /\ task[r].x < Piece(r, task[r].w) /\ task[r].got = Size(r) /\ task[r].sent = Size(r)
      BY <2>1, <2>4 DEF TaskMatches, TaskType
    <3>3. task[r].w + Piece(r, task[r].w) <= Size(r) /\ Piece(r, task[r].w) \in Nat
      BY <3>2, PieceSize
    <3>4. task[r].x \in 0 .. Size(r)
      BY <2>1, <3>2, <3>3
    <3> QED BY <2>1, <3>1, <3>2, <3>4 DEF TaskType, Inv, OneSlot
  <2> QED BY <2>2, <2>3, <2>4 DEF Running, Fetching
<1>2. DOMAIN task = AllRanges
  BY DEF Inv, Types
<1> QED
  BY <1>1, <1>2 DEF Inv, Types, SlotsCounted, TypeOK

LEMMA InvGivesDisk == Inv => AnsweredIsOnDisk
<1> SUFFICES ASSUME Inv, ~cfg.discard, NEW r \in AllRanges, task[r].phase = "answered",
                    NEW o \in RangeBytes(cfg.total[r[1]], r[2], cfg.rangeSize)
             PROVE  disk[r[1]][o] = <<r[1], o>>
  BY DEF AnsweredIsOnDisk
<1>1. PICK i \in 0 .. Size(r) - 1 : o = Offset(r) + i
  BY DEF RangeBytes, Size, Offset
<1> QED
  BY <1>1 DEF Inv, TaskMatches, OnDisk

LEMMA InvGivesDescriptors == Inv => DescriptorsOpen
BY DEF Inv, TaskMatches, PieceIsRight, DescriptorsOpen

LEMMA InvGivesAlignment == Inv => DirectIsAligned
<1> SUFFICES ASSUME Inv, NEW r \in AllRanges, task[r].phase = "writing",
                    task[r].fd[1] = "direct"
             PROVE  /\ slots[task[r].slot].direct
                    /\ (Offset(r) + task[r].w) % Align = 0
                    /\ Piece(r, task[r].w) % Align = 0
                    /\ cfg.rangeSize % Align = 0 \/ cfg.fileChunk % Align = 0
                         => task[r].w % Align = 0
  BY DEF DirectIsAligned
<1>1. TaskMatches(r) /\ PieceIsRight(r) /\ task[r].w \in Nat
  BY DEF Inv, TaskMatches, Types, TaskType
<1>2. cfg.rangeSize \in Nat \ {0} /\ cfg.fileChunk \in Nat \ {0} /\ Align \in Nat \ {0}
  BY ConfigShape DEF Inv, Types
<1>3. ASSUME cfg.fileChunk % Align = 0
      PROVE  task[r].w % Align = 0
  <2>1. PICK k \in Nat : task[r].w = k * cfg.fileChunk
    BY <1>1 DEF PieceIsRight
  <2> QED BY <1>2, <1>3, <2>1, ProductHasNoRest
<1>4. ASSUME cfg.rangeSize % Align = 0
      PROVE  task[r].w % Align = 0
  <2>1. Offset(r) = (r[2] - 1) * cfg.rangeSize /\ r[2] - 1 \in Nat /\ Offset(r) \in Nat
    <3>1. r[2] \in 1 .. RangeCount(cfg.total[r[1]], cfg.rangeSize) /\ Offset(r) \in Nat
      BY RangeShape DEF Inv, Types
    <3> QED BY <3>1 DEF Offset, RangeOffset
  <2>2. Offset(r) % Align = 0
    <3> DEFINE i == r[2] - 1
    <3>1. i \in Nat /\ Offset(r) = i * cfg.rangeSize
      BY <2>1
    <3> HIDE DEF i
    <3>2. (i * cfg.rangeSize) % Align = 0
      BY <1>2, <1>4, <3>1, ProductHasNoRest
    <3> QED BY <3>1, <3>2
  <2>3. (Offset(r) + task[r].w) % Align = 0
    BY <1>1 DEF PieceIsRight
  <2> QED BY <1>1, <1>2, <2>1, <2>2, <2>3, DifferenceHasNoRest
<1> QED
  BY <1>1, <1>3, <1>4 DEF PieceIsRight
-----------------------------------------------------------------------------
(* What a step of one range leaves alone.                                    *)

(* The file of r changes inside r only.                                      *)
DiskKept(r) ==
  /\ DOMAIN disk' = Dests /\ \A d \in Dests : DOMAIN disk'[d] = DOMAIN disk[d]
  /\ \A d \in Dests : \A o \in DOMAIN disk[d] :
       ~(d = r[1] /\ Offset(r) <= o /\ o < Offset(r) + Size(r)) => disk'[d][o] = disk[d][o]

LEMMA DiskUntouched ==
  ASSUME Inv, NEW r, UNCHANGED disk
  PROVE  DiskKept(r)
BY DEF Inv, Types, DiskKept

LEMMA OthersKeep ==
  ASSUME Inv, NEW r \in AllRanges, NEW t, task' = [task EXCEPT ![r] = t], UNCHANGED cfg,
         \A s \in Slots \ bufSlots : s # task[r].slot => slots'[s] = slots[s],
         \/ \A d \in Dests : fileRecs[d] \subseteq fileRecs'[d]
         \/ Running \subseteq {r},
         DiskKept(r),
         NEW q \in AllRanges, q # r
  PROVE  TaskMatches(q)'
<1>1. cfg \in Configs /\ TaskMatches(q) /\ TaskMatches(r) /\ task'[q] = task[q]
  BY DEF Inv, Types
<1>2. /\ AllRanges' = AllRanges /\ Size(q)' = Size(q) /\ Offset(q)' = Offset(q)
      /\ q \in Running' <=> q \in Running
  BY <1>1 DEF AllRanges, Size, Offset, Running
<1>3. q[1] \in Dests /\ Offset(q) \in Nat /\ Size(q) \in Nat /\ Offset(q) + Size(q) <= cfg.total[q[1]]
      /\ cfg.total[q[1]] \in Nat
  BY <1>1, RangeShape, ConfigShape
<1>4. ASSUME q \in Running
      PROVE  slots'[task[q].slot] = slots[task[q].slot] /\ fileRecs[q[1]] \subseteq fileRecs'[q[1]]
  <2>1. task[q].slot \in Slots \ bufSlots /\ Len(slots) \in Nat
    BY <1>4 DEF Inv, OneSlot, Types
  <2>2. task[q].slot # task[r].slot
    <3>1. CASE r \in Running
      BY <1>4, <3>1 DEF Inv, OneSlot
    <3>2. CASE r \notin Running
      <4>1. task[r].slot = 0
        BY <1>1, <3>2 DEF TaskMatches, NoTask
      <4> QED BY <2>1, <4>1 DEF Slots
    <3> QED BY <3>1, <3>2
  <2> QED BY <1>3, <1>4, <2>1, <2>2
<1>5. \A n \in 0 .. Size(q) : OnDisk(q, n) => OnDisk(q, n)'
  <2> SUFFICES ASSUME NEW n \in 0 .. Size(q), OnDisk(q, n), NEW i \in 0 .. n - 1
               PROVE  disk'[q[1]][Offset(q) + i] = <<q[1], Offset(q) + i>>
    BY <1>2 DEF OnDisk
  <2>1. Offset(q) + i \in Nat /\ Offset(q) <= Offset(q) + i /\ Offset(q) + i < Offset(q) + Size(q)
        /\ Offset(q) + i \in 0 .. cfg.total[q[1]] - 1
    BY <1>3
  <2>2. ~(q[1] = r[1] /\ Offset(r) <= Offset(q) + i /\ Offset(q) + i < Offset(r) + Size(r))
    BY <1>1, <2>1, RangesDisjoint
  <2>3. Offset(q) + i \in DOMAIN disk[q[1]]
    BY <1>3, <2>1 DEF Inv, Types
  <2>4. disk'[q[1]][Offset(q) + i] = disk[q[1]][Offset(q) + i]
    BY <1>3, <2>2, <2>3 DEF DiskKept
  <2> QED BY <2>4 DEF OnDisk
<1>6. \A n : q \in Running /\ InSlot(q, n) => InSlot(q, n)'
  BY <1>1, <1>2, <1>4 DEF InSlot
<1>7. q \notin Running' => task'[q] = [NoTask EXCEPT !.phase = task'[q].phase]
  BY <1>1, <1>2 DEF TaskMatches
<1>8. ASSUME Fetching(q)
      PROVE  task[q].sent <= Size(q) /\ task[q].got = task[q].sent
             /\ task[q].w = 0 /\ task[q].x = 0 /\ InSlot(q, task[q].got)'
  <2>1. q \in Running
    BY <1>8 DEF Running, Fetching
  <2> QED BY <1>1, <1>6, <1>8, <2>1 DEF TaskMatches
<1>9. ASSUME task[q].phase = "writing"
      PROVE  /\ ~cfg.discard
             /\ task[q].sent = Size(q) /\ task[q].got = Size(q)
             /\ task[q].w < Size(q) /\ task[q].x < Piece(q, task[q].w)
             /\ InSlot(q, Size(q))' /\ OnDisk(q, task[q].w + task[q].x)'
             /\ PieceIsRight(q)' /\ Piece(q, task[q].w)' = Piece(q, task[q].w)
  <2>1. q \in Running
    BY <1>9 DEF Running
  <2>2. /\ ~cfg.discard
        /\ task[q].sent = Size(q) /\ task[q].got = Size(q)
        /\ task[q].w < Size(q) /\ task[q].x < Piece(q, task[q].w)
        /\ InSlot(q, Size(q)) /\ OnDisk(q, task[q].w + task[q].x)
        /\ PieceIsRight(q)
        /\ task[q].w \in Nat /\ task[q].x \in Nat
    BY <1>1, <1>9 DEF TaskMatches, Inv, Types, TaskType
  <2>3. Piece(q, task[q].w) \in Nat /\ task[q].w + Piece(q, task[q].w) <= Size(q)
    BY <2>2, PieceSize
  <2>4. task[q].w + task[q].x \in 0 .. Size(q)
    BY <1>3, <2>2, <2>3
  <2>5. OnDisk(q, task[q].w + task[q].x)'
    BY <1>1, <1>5, <2>2, <2>4 DEF OnDisk
  <2>6. Piece(q, task[q].w)' = Piece(q, task[q].w)
    BY <1>1 DEF Piece
  <2>7. PieceIsRight(q)'
    BY <1>1, <1>2, <1>4, <2>1, <2>2, <2>6 DEF PieceIsRight
  <2>8. InSlot(q, Size(q))'
    BY <1>1, <1>2, <1>6, <2>1, <2>2 DEF InSlot
  <2> QED BY <2>2, <2>5, <2>6, <2>7, <2>8
<1>10. ASSUME task[q].phase = "answered", ~cfg.discard
       PROVE  OnDisk(q, Size(q))'
  <2>1. OnDisk(q, Size(q))
    BY <1>1, <1>10 DEF TaskMatches
  <2>2. Size(q) \in 0 .. Size(q)
    BY <1>3
  <2> QED BY <1>2, <1>5, <2>1, <2>2 DEF OnDisk
<1> QED
  BY <1>1, <1>2, <1>7, <1>8, <1>9, <1>10 DEF TaskMatches, Fetching
-----------------------------------------------------------------------------
(* What updates make of the record of a range.                               *)

ReadTo(u, b, c) == [u EXCEPT !.sent = b, !.got = c]
RetriedFrom(u, a, c) == [u EXCEPT !.tryNo = a, !.sent = 0, !.got = c]
WriteAt(u, a, f) == [u EXCEPT !.phase = "writing", !.w = a, !.x = 0, !.fd = f]

LEMMA ReadUpdate ==
  ASSUME NEW u \in TaskType, NEW b, NEW c
  PROVE  ReadTo(u, b, c)
           = [phase |-> u.phase, slot |-> u.slot, tryNo |-> u.tryNo, sent |-> b, got |-> c,
              w |-> u.w, x |-> u.x, fd |-> u.fd]
<1> DEFINE v == [u EXCEPT !.sent = b]
<1>1. v = [phase |-> u.phase, slot |-> u.slot, tryNo |-> u.tryNo, sent |-> b, got |-> u.got,
           w |-> u.w, x |-> u.x, fd |-> u.fd]
  BY DEF TaskType
<1> HIDE DEF v
<1>2. [v EXCEPT !.got = c]
        = [phase |-> u.phase, slot |-> u.slot, tryNo |-> u.tryNo, sent |-> b, got |-> c,
           w |-> u.w, x |-> u.x, fd |-> u.fd]
  BY <1>1
<1> QED
  BY <1>2 DEF v, ReadTo

LEMMA RetryUpdate ==
  ASSUME NEW u \in TaskType, NEW a, NEW c
  PROVE  RetriedFrom(u, a, c)
           = [phase |-> u.phase, slot |-> u.slot, tryNo |-> a, sent |-> 0, got |-> c,
              w |-> u.w, x |-> u.x, fd |-> u.fd]
<1> DEFINE v == [u EXCEPT !.tryNo = a, !.sent = 0]
<1>1. v = [phase |-> u.phase, slot |-> u.slot, tryNo |-> a, sent |-> 0, got |-> u.got,
           w |-> u.w, x |-> u.x, fd |-> u.fd]
  <2> DEFINE y == [u EXCEPT !.tryNo = a]
  <2>1. y = [phase |-> u.phase, slot |-> u.slot, tryNo |-> a, sent |-> u.sent, got |-> u.got,
             w |-> u.w, x |-> u.x, fd |-> u.fd]
    BY DEF TaskType
  <2>2. v = [y EXCEPT !.sent = 0]
    OBVIOUS
  <2> HIDE DEF v, y
  <2> QED BY <2>1, <2>2
<1>2. RetriedFrom(u, a, c) = [v EXCEPT !.got = c]
  BY DEF RetriedFrom
<1> HIDE DEF v
<1> QED
  BY <1>1, <1>2
LEMMA WriteUpdate ==
  ASSUME NEW u \in TaskType, NEW a, NEW f
  PROVE  WriteAt(u, a, f)
           = [phase |-> "writing", slot |-> u.slot, tryNo |-> u.tryNo, sent |-> u.sent,
              got |-> u.got, w |-> a, x |-> 0, fd |-> f]
<1> DEFINE v == [u EXCEPT !.phase = "writing"]
           y == [v EXCEPT !.w = a]
           z == [y EXCEPT !.x = 0]
<1>1. v = [phase |-> "writing", slot |-> u.slot, tryNo |-> u.tryNo, sent |-> u.sent,
           got |-> u.got, w |-> u.w, x |-> u.x, fd |-> u.fd]
  BY DEF TaskType
<1>2. y = [phase |-> "writing", slot |-> u.slot, tryNo |-> u.tryNo, sent |-> u.sent,
           got |-> u.got, w |-> a, x |-> u.x, fd |-> u.fd]
  <2> HIDE DEF v
  <2> QED BY <1>1
<1>3. z = [phase |-> "writing", slot |-> u.slot, tryNo |-> u.tryNo, sent |-> u.sent,
           got |-> u.got, w |-> a, x |-> 0, fd |-> u.fd]
  <2> HIDE DEF y
  <2> QED BY <1>2
<1>4. WriteAt(u, a, f) = [z EXCEPT !.fd = f]
  BY DEF WriteAt
<1> HIDE DEF z
<1> QED
  BY <1>3, <1>4

-----------------------------------------------------------------------------
(* Steps of a range that goes on with its slot.                              *)

LEMMA MoveKeeps ==
  ASSUME Inv, NEW r \in Running, NEW t \in TaskType, task' = [task EXCEPT ![r] = t],
         t.phase \in {"fetching", "writing"}, t.slot = task[r].slot,
         UNCHANGED <<cfg, bufSlots, directProbed, directUsable, countVars>>,
         slots' \in Seq(SlotType), Len(slots') = Len(slots),
         \A s \in Slots : s # task[r].slot => slots'[s] = slots[s],
         fileRecs' \in [Dests -> SUBSET Fds], \A d \in Dests : fileRecs[d] \subseteq fileRecs'[d],
         DiskKept(r), TaskMatches(r)'
  PROVE  Inv'
<1>1. r \in AllRanges /\ AllRanges' = AllRanges /\ cfg \in Configs
  BY DEF Running, AllRanges, Inv, Types
<1>2. task'[r] = t /\ \A q \in AllRanges : q # r => task'[q] = task[q]
  BY <1>1 DEF Inv, Types
<1>3. \A q \in AllRanges' : TaskMatches(q)'
  BY <1>1, OthersKeep DEF Slots
<1>4. Running' = Running /\ Failed' = Failed
  BY <1>1, <1>2 DEF Running, Failed
<1>5. \A q \in Running : task'[q].slot = task[q].slot
  BY <1>1, <1>2 DEF Running
<1>6. OneSlot'
  BY <1>4, <1>5 DEF Inv, OneSlot, Slots
<1>7. SlotsCounted'
  BY <1>4 DEF Inv, SlotsCounted, Busy, countVars
<1>8. Types'
  <2>1. task' \in [AllRanges' -> TaskType]
    BY <1>1 DEF Inv, Types
  <2>2. slots' \in Seq(SlotType') /\ bufSlots' \subseteq Slots'
    BY DEF Inv, Types, Slots, SlotType, BufferBytes
  <2>3. DOMAIN disk' = Dests /\ \A d \in Dests : DOMAIN disk'[d] = 0 .. cfg'.total[d] - 1
    BY DEF Inv, Types, DiskKept
  <2> QED BY <2>1, <2>2, <2>3 DEF Inv, Types, countVars
<1> QED
  BY <1>3, <1>6, <1>7, <1>8 DEF Inv

LEMMA AttemptStallsKeeps ==
  ASSUME Inv, NEW r \in AllRanges, AttemptStalls(r)
  PROVE  Inv'
<1> DEFINE t == [task[r] EXCEPT !.tryNo = @ + 1, !.sent = 0, !.got = RetryFrom(r)]
<1>1. /\ Fetching(r) /\ task[r] \in TaskType /\ TaskMatches(r) /\ r \in Running
      /\ task[r].tryNo < MaxPartRetries /\ MaxPartRetries \in Nat
  BY SizesAssumption DEF AttemptStalls, Inv, Types, Fetching, Running
<1>2. task' = [task EXCEPT ![r] = t]
  BY DEF AttemptStalls
<1>3. t = [phase |-> "fetching", slot |-> task[r].slot, tryNo |-> task[r].tryNo + 1, sent |-> 0,
           got |-> 0, w |-> 0, x |-> 0, fd |-> task[r].fd]
  <2>1. task[r].phase = "fetching" /\ task[r].w = 0 /\ task[r].x = 0
    BY <1>1 DEF Fetching, TaskMatches
  <2>2. t = RetriedFrom(task[r], task[r].tryNo + 1, 0)
    BY DEF RetriedFrom, RetryFrom
  <2> HIDE DEF t
  <2> QED BY <1>1, <2>1, <2>2, RetryUpdate
<1>4. t \in TaskType
  BY <1>1, <1>3 DEF TaskType, Phases
<1>5. UNCHANGED <<cfg, slots, bufSlots, directProbed, directUsable, countVars, fileRecs, disk>>
  BY DEF AttemptStalls, slotVars
<1>6. TaskMatches(r)'
  <2>1. task'[r] = t
    BY <1>2 DEF Inv, Types
  <2>2. r \in Running' /\ Size(r)' = Size(r) /\ Size(r) \in Nat
    BY <1>1, <1>3, <1>5, <2>1, RangeShape DEF Running, AllRanges, Size, Inv, Types
  <2> HIDE DEF t
  <2> QED BY <1>3, <1>4, <2>1, <2>2 DEF TaskMatches, Fetching, InSlot
<1>7. DiskKept(r)
  BY <1>5, DiskUntouched
<1> HIDE DEF t
<1> QED
  BY <1>1, <1>2, <1>3, <1>4, <1>5, <1>6, <1>7, MoveKeeps DEF Inv, Types

LEMMA ChunkArrivesKeeps ==
  ASSUME Inv, NEW r \in AllRanges, ChunkArrives(r)
  PROVE  Inv'
<1>1. PICK n \in 1 .. Size(r) - task[r].sent :
        /\ slots' = [slots EXCEPT ![task[r].slot].bytes =
                       [j \in DOMAIN @ |->
                          IF task[r].got <= j /\ j < task[r].got + n
                          THEN <<r[1], Offset(r) + task[r].sent + (j - task[r].got)>>
                          ELSE @[j]]]
        /\ task' = [task EXCEPT ![r].sent = @ + n, ![r].got = @ + n]
  BY DEF ChunkArrives
<1>2. /\ Fetching(r) /\ r \in Running /\ task[r] \in TaskType /\ TaskMatches(r)
      /\ task[r].slot \in Slots \ bufSlots /\ slots \in Seq(SlotType) /\ cfg \in Configs
  BY DEF ChunkArrives, Fetching, Running, Inv, Types, OneSlot
<1> DEFINE s == task[r].slot
           got == task[r].got
           t == [task[r] EXCEPT !.sent = @ + n, !.got = @ + n]
           filled == [j \in BufferBytes |->
                        IF got <= j /\ j < got + n
                        THEN <<r[1], Offset(r) + task[r].sent + (j - got)>>
                        ELSE slots[s].bytes[j]]
           full == [slots[s] EXCEPT !.bytes = filled]
<1>3. task' = [task EXCEPT ![r] = t]
  BY <1>1
<1>4. /\ Size(r) \in Nat /\ Size(r) <= cfg.rangeSize /\ cfg.rangeSize \in Nat
      /\ Offset(r) \in Nat /\ r[1] \in Dests
  BY <1>2, RangeShape, ConfigShape
<1>5. /\ got \in Nat /\ task[r].sent = got /\ got + n <= Size(r) /\ n \in Nat
  BY <1>2, <1>4 DEF TaskMatches, TaskType
<1>6. t = [phase |-> "fetching", slot |-> s, tryNo |-> task[r].tryNo, sent |-> got + n,
           got |-> got + n, w |-> 0, x |-> 0, fd |-> task[r].fd]
  <2>1. task[r].phase = "fetching" /\ task[r].w = 0 /\ task[r].x = 0
    BY <1>2 DEF Fetching, TaskMatches
  <2>2. t = ReadTo(task[r], got + n, got + n)
    BY <1>5 DEF ReadTo
  <2> HIDE DEF t
  <2> QED BY <1>2, <2>1, <2>2, ReadUpdate
<1>a. t \in TaskType
  BY <1>2, <1>5, <1>6 DEF TaskType, Phases
<1>7. slots[s] \in SlotType /\ Len(slots) \in Nat /\ s \in 1 .. Len(slots)
  BY <1>2 DEF Slots
<1>8. full \in SlotType
  <2>1. filled \in [BufferBytes -> Byte]
    <3>1. \A j \in BufferBytes : got <= j => Offset(r) + task[r].sent + (j - got) \in Nat
      BY <1>4, <1>5 DEF BufferBytes
    <3>2. slots[s].bytes \in [BufferBytes -> Byte]
      BY <1>7 DEF SlotType
    <3> QED BY <1>4, <3>1, <3>2 DEF Byte
  <2> QED BY <1>7, <2>1 DEF SlotType
<1>9. slots' = [slots EXCEPT ![s] = full]
  <2>1. DOMAIN slots[s].bytes = BufferBytes
    BY <1>7 DEF SlotType
  <2> QED BY <1>1, <1>7, <2>1
<1>10. /\ slots' \in Seq(SlotType) /\ Len(slots') = Len(slots) /\ slots'[s] = full
       /\ \A u \in Slots : u # s => slots'[u] = slots[u]
  <2> HIDE DEF full, s
  <2> QED BY <1>2, <1>7, <1>8, <1>9 DEF Slots
<1>11. UNCHANGED <<cfg, bufSlots, directProbed, directUsable, countVars, fileRecs, disk>>
  BY DEF ChunkArrives
<1>12. TaskMatches(r)'
  <2>1. task'[r] = t
    BY <1>3 DEF Inv, Types
  <2>2. /\ r \in Running' /\ Size(r)' = Size(r) /\ Offset(r)' = Offset(r)
    BY <1>6, <1>11, <2>1 DEF Running, AllRanges, Size, Offset
  <2>3. \A i \in 0 .. got + n - 1 : full.bytes[i] = <<r[1], Offset(r) + i>>
    <3> SUFFICES ASSUME NEW i \in 0 .. got + n - 1
                 PROVE  filled[i] = <<r[1], Offset(r) + i>>
      BY <1>7 DEF SlotType
    <3>1. i \in BufferBytes
      BY <1>4, <1>5 DEF BufferBytes
    <3>2. CASE got <= i
      BY <1>4, <1>5, <3>1, <3>2
    <3>3. CASE i < got
      <4>1. slots[s].bytes[i] = <<r[1], Offset(r) + i>>
        BY <1>2, <1>5, <3>3 DEF TaskMatches, InSlot
      <4> QED BY <1>5, <3>1, <3>3, <4>1
    <3>4. got <= i \/ i < got
      <4> HIDE DEF got
      <4> QED BY <1>5
    <3> HIDE DEF filled, got
    <3> QED BY <3>2, <3>3, <3>4
  <2>4. \A i \in 0 .. got + n - 1 : slots'[s].bytes[i] = <<r[1], Offset(r)' + i>>
    <3>1. slots'[s] = full
      BY <1>10
    <3> HIDE DEF full, t, got, s
    <3> QED BY <2>2, <2>3, <3>1
  <2>5. task'[r].got = got + n /\ task'[r].slot = s
    BY <1>6, <2>1
  <2>6. InSlot(r, task[r].got)'
    <3> HIDE DEF full, t, got, s
    <3> QED BY <1>5, <2>4, <2>5 DEF InSlot
  <2> HIDE DEF full, t, got
  <2> QED BY <1>5, <1>6, <2>1, <2>2, <2>6 DEF TaskMatches, Fetching
<1>13. DiskKept(r)
  BY <1>11, DiskUntouched
<1> HIDE DEF t, full
<1> QED
  BY <1>2, <1>3, <1>6, <1>a, <1>10, <1>11, <1>12, <1>13, MoveKeeps DEF Inv, Types
-----------------------------------------------------------------------------
(* A range is given to the worker.                                           *)

LEMMA BusyFinite ==
  ASSUME Inv
  PROVE  /\ IsFiniteSet(Busy) /\ Cardinality(Busy) \in Nat
         /\ IsFiniteSet(bufSlots) /\ Cardinality(bufSlots) \in Nat
         /\ Len(slots) \in Nat
<1>1. cfg \in Configs /\ Len(slots) \in Nat /\ bufSlots \subseteq Slots
  BY DEF Inv, Types
<1>2. Busy \subseteq AllRanges
  BY DEF Busy, Running, Failed
<1>3. IsFiniteSet(Slots)
  BY <1>1, FS_Interval DEF Slots
<1> QED
  BY <1>1, <1>2, <1>3, FiniteRanges, FS_Subset, FS_CardinalityType

LEMMA AcquireEffect ==
  ASSUME Inv, NEW s \in bufSlots \cup {Len(slots) + 1}, NEW found \in BOOLEAN,
         Acquire(s, found), Cardinality(Busy) < Concurrency, UNCHANGED cfg
  PROVE  /\ slots' \in Seq(SlotType) /\ bufSlots' \subseteq bufSlots
         /\ directProbed' \in BOOLEAN /\ directUsable' \in BOOLEAN
         /\ s \in Slots' \ bufSlots' /\ s \notin Slots \ bufSlots /\ s \in Nat
         /\ Slots \subseteq Slots' /\ \A u \in Slots : slots'[u] = slots[u]
         /\ Len(slots') = Cardinality(bufSlots') + (dispatchInFlight + 1)
         /\ Len(slots') <= Concurrency
<1>1. /\ slots \in Seq(SlotType) /\ Len(slots) \in Nat /\ bufSlots \subseteq Slots
      /\ dispatchInFlight \in Nat /\ Concurrency \in Nat
      /\ dispatchInFlight = Cardinality(Busy) /\ Len(slots) <= Concurrency
      /\ Len(slots) = Cardinality(bufSlots) + dispatchInFlight
      /\ directProbed \in BOOLEAN /\ directUsable \in BOOLEAN
      /\ cfg.direct \in BOOLEAN /\ cfg.discard \in BOOLEAN
  BY ConfigShape DEF Inv, Types, SlotsCounted
<1>2. IsFiniteSet(bufSlots)
  BY BusyFinite
<1>3. CASE bufSlots = {}
  <2> DEFINE probes == cfg.direct /\ ~cfg.discard /\ (directUsable \/ ~directProbed)
             new == [direct |-> probes /\ found, bytes |-> [j \in BufferBytes |-> Null]]
  <2>1. /\ s = Len(slots) + 1 /\ slots' = Append(slots, new) /\ bufSlots' = bufSlots
        /\ directProbed' = (directProbed \/ probes)
        /\ directUsable' = IF probes /\ ~directProbed THEN found ELSE directUsable
    BY <1>3 DEF Acquire, Allocate
  <2>2. new \in SlotType
    <3>1. (probes /\ found) \in BOOLEAN
      OBVIOUS
    <3> HIDE DEF probes
    <3> QED BY <3>1 DEF SlotType, Byte
  <2>3. directProbed' \in BOOLEAN /\ directUsable' \in BOOLEAN
    <3>1. probes \in BOOLEAN
      OBVIOUS
    <3> HIDE DEF probes
    <3> QED BY <1>1, <2>1, <3>1, Zenon
  <2> HIDE DEF new
  <2>4. /\ slots' \in Seq(SlotType) /\ Len(slots') = Len(slots) + 1
        /\ \A u \in 1 .. Len(slots) : slots'[u] = slots[u]
    BY <1>1, <2>1, <2>2, AppendProperties
  <2>5. Cardinality(bufSlots) = 0
    BY <1>3, FS_EmptySet
  <2> QED BY <1>1, <1>3, <2>1, <2>3, <2>4, <2>5 DEF Slots
<1>4. CASE bufSlots # {}
  <2>1. /\ s \in bufSlots /\ bufSlots' = bufSlots \ {s}
        /\ UNCHANGED <<slots, directProbed, directUsable>>
    BY <1>4 DEF Acquire, Reuse
  <2>2. Cardinality(bufSlots \ {s}) = Cardinality(bufSlots) - 1 /\ Cardinality(bufSlots \ {s}) \in Nat
    BY <1>2, <2>1, RemovedSize
  <2> QED BY <1>1, <2>1, <2>2, BusyFinite DEF Slots, SlotType, BufferBytes
<1> QED
  BY <1>3, <1>4

Given(s) == [NoTask EXCEPT !.phase = "fetching", !.slot = s]

LEMMA AssignGives ==
  ASSUME NEW r, Assign(r)
  PROVE  \E s \in bufSlots \cup {Len(slots) + 1}, found \in BOOLEAN :
           Acquire(s, found) /\ task' = [task EXCEPT ![r] = Given(s)]
<1>1. \E s \in bufSlots \cup {Len(slots) + 1} : \E found \in BOOLEAN :
        Acquire(s, found) /\ task' = [task EXCEPT ![r] = Given(s)]
  BY Zenon DEF Assign, Given
<1> QED
  BY <1>1, Zenon

LEMMA AssignKeeps ==
  ASSUME Inv, NEW r \in AllRanges, Assign(r)
  PROVE  Inv'
<1>1. PICK s \in bufSlots \cup {Len(slots) + 1}, found \in BOOLEAN :
        /\ Acquire(s, found)
        /\ task' = [task EXCEPT ![r] = Given(s)]
  BY AssignGives
<1>2. /\ task[r].phase = "none" /\ Cardinality(Busy) < Concurrency
      /\ dispatchInFlight' = dispatchInFlight + 1
      /\ UNCHANGED <<cfg, fileRecs, disk, dispatchStopped, doneEmitted>>
  BY DEF Assign, Busy
<1>3. /\ slots' \in Seq(SlotType) /\ bufSlots' \subseteq bufSlots
      /\ directProbed' \in BOOLEAN /\ directUsable' \in BOOLEAN
      /\ s \in Slots' \ bufSlots' /\ s \notin Slots \ bufSlots /\ s \in Nat
      /\ Slots \subseteq Slots' /\ \A u \in Slots : slots'[u] = slots[u]
      /\ Len(slots') = Cardinality(bufSlots') + (dispatchInFlight + 1)
      /\ Len(slots') <= Concurrency
  BY <1>1, <1>2, AcquireEffect
<1> DEFINE t == Given(s)
<1>4. t = [phase |-> "fetching", slot |-> s, tryNo |-> 0, sent |-> 0, got |-> 0,
           w |-> 0, x |-> 0, fd |-> Null]
  <2> DEFINE v == [NoTask EXCEPT !.phase = "fetching"]
  <2>1. v = [phase |-> "fetching", slot |-> 0, tryNo |-> 0, sent |-> 0, got |-> 0,
             w |-> 0, x |-> 0, fd |-> Null]
    BY DEF NoTask
  <2>2. t = [v EXCEPT !.slot = s]
    BY DEF Given
  <2> HIDE DEF v, t
  <2> QED BY <2>1, <2>2
<1>5. t \in TaskType
  <2> HIDE DEF t
  <2>1. MaxPartRetries \in Nat
    BY SizesAssumption
  <2> QED BY <1>3, <1>4, <2>1 DEF TaskType, Phases, Fds
<1>6. task' = [task EXCEPT ![r] = t]
  BY <1>1
<1> HIDE DEF t
<1>7. /\ task'[r] = t /\ \A q \in AllRanges : q # r => task'[q] = task[q]
      /\ AllRanges' = AllRanges /\ cfg \in Configs
  BY <1>2, <1>6 DEF Inv, Types, AllRanges
<1>8. Running' = Running \cup {r} /\ Failed' = Failed /\ r \notin Busy /\ r \notin Running
  BY <1>2, <1>4, <1>7 DEF Running, Failed, Busy
<1>9. \A q \in AllRanges' : TaskMatches(q)'
  <2>1. ASSUME NEW q \in AllRanges, q # r
        PROVE  TaskMatches(q)'
    <3>1. DiskKept(r)
      BY <1>2, DiskUntouched
    <3> QED BY <1>2, <1>3, <1>6, <2>1, <3>1, OthersKeep
  <2>2. TaskMatches(r)'
    <3>1. Size(r)' = Size(r) /\ Size(r) \in Nat /\ r \in Running'
      BY <1>2, <1>7, <1>8, RangeShape DEF Size
    <3> QED BY <1>4, <1>7, <3>1 DEF TaskMatches, Fetching, InSlot
  <2> QED BY <1>7, <2>1, <2>2
<1>10. OneSlot'
  <2>1. \A q \in Running : task'[q] = task[q]
    BY <1>7, <1>8 DEF Running
  <2>2. \A q \in Running : task[q].slot \in Slots \ bufSlots
    BY DEF Inv, OneSlot
  <2>3. task'[r].slot = s
    BY <1>4, <1>7
  <2>4. \A q \in Running' : task'[q].slot \in Slots' \ bufSlots'
    BY <1>3, <1>8, <2>1, <2>2, <2>3
  <2>5. \A q, p \in Running : task[q].slot = task[p].slot => q = p
    BY DEF Inv, OneSlot
  <2>6. \A q, p \in Running' : task'[q].slot = task'[p].slot => q = p
    BY <1>3, <1>8, <2>1, <2>2, <2>3, <2>5
  <2> QED BY <2>4, <2>6 DEF OneSlot
<1>11. SlotsCounted'
  <2>1. Busy' = Busy \cup {r}
    BY <1>8 DEF Busy
  <2>2. Cardinality(Busy \cup {r}) = Cardinality(Busy) + 1
    BY <1>8, BusyFinite, FS_AddElement
  <2> QED BY <1>2, <1>3, <2>1, <2>2 DEF Inv, SlotsCounted
<1>12. Types'
  <2>1. task' \in [AllRanges' -> TaskType]
    BY <1>5, <1>6, <1>7 DEF Inv, Types
  <2>2. slots' \in Seq(SlotType') /\ bufSlots' \subseteq Slots'
    BY <1>2, <1>3 DEF Inv, Types, SlotType, BufferBytes
  <2> QED BY <1>2, <1>3, <2>1, <2>2 DEF Inv, Types
<1> QED
  BY <1>9, <1>10, <1>11, <1>12 DEF Inv
-----------------------------------------------------------------------------
(* A piece is written next.                                                  *)

LEMMA DescriptorKind ==
  ASSUME Inv, NEW r \in AllRanges, NEW s \in Slots, NEW w \in Nat
  PROVE  /\ Descriptor(s, r, w) \in Fds
         /\ Descriptor(s, r, w)[1] = "direct" => GoesDirect(s, r, w)
<1> DEFINE kind == IF GoesDirect(s, r, w) THEN "direct" ELSE "buffered"
           known == {fd \in fileRecs[r[1]] : fd[1] = kind}
<1>1. Descriptor(s, r, w) = IF known = {} THEN <<kind, doneEmitted>> ELSE CHOOSE fd \in known : TRUE
  BY DEF Descriptor
<1>2. kind \in Kinds /\ (kind = "direct" => GoesDirect(s, r, w))
  BY DEF Kinds
<1>3. r[1] \in Dests /\ fileRecs[r[1]] \subseteq Fds /\ doneEmitted \in BOOLEAN
  BY RangeShape DEF Inv, Types
<1>4. known \subseteq Fds /\ \A fd \in known : fd[1] = kind
  BY <1>3
<1> HIDE DEF kind, known
<1>5. CASE known = {}
  BY <1>1, <1>2, <1>3, <1>5 DEF Fds
<1>6. CASE known # {}
  <2>1. Descriptor(s, r, w) \in known
    BY <1>1, <1>6
  <2> QED BY <1>2, <1>4, <2>1
<1> QED
  BY <1>5, <1>6

LEMMA IssueKeeps ==
  ASSUME Inv, NEW r \in Running, NEW STATE w, w \in Nat, UNCHANGED cfg, DiskKept(r),
         ~cfg.discard, task[r].sent = Size(r), task[r].got = Size(r), w < Size(r),
         InSlot(r, Size(r)), \E k \in Nat : w = k * cfg.fileChunk,
         \A i \in 0 .. w - 1 : disk'[r[1]][Offset(r) + i] = <<r[1], Offset(r) + i>>,
         IssueWrite(r, w)
  PROVE  Inv'
<1> DEFINE fd == Descriptor(task[r].slot, r, w)
           t == WriteAt(task[r], w, fd)
<1>1. /\ r \in AllRanges /\ cfg \in Configs /\ task[r] \in TaskType
      /\ task[r].slot \in Slots \ bufSlots /\ fileRecs \in [Dests -> SUBSET Fds]
  BY DEF Running, Inv, Types, OneSlot
<1>2. /\ task' = [task EXCEPT ![r] = t]
      /\ fileRecs' = [fileRecs EXCEPT ![r[1]] = @ \cup {fd}]
      /\ UNCHANGED <<slots, bufSlots, directProbed, directUsable, countVars>>
  BY DEF IssueWrite, WriteAt, slotVars
<1>3. fd \in Fds /\ (fd[1] = "direct" => GoesDirect(task[r].slot, r, w))
  BY <1>1, DescriptorKind
<1>4. t = [phase |-> "writing", slot |-> task[r].slot, tryNo |-> task[r].tryNo, sent |-> Size(r),
           got |-> Size(r), w |-> w, x |-> 0, fd |-> fd]
  BY <1>1, WriteUpdate
<1>5. /\ Size(r) \in Nat /\ r[1] \in Dests /\ Offset(r) \in Nat
      /\ Piece(r, w) \in Nat \ {0}
  BY <1>1, RangeShape, PieceSize
<1> HIDE DEF fd, t
<1>6. t \in TaskType
  BY <1>1, <1>3, <1>4, <1>5 DEF TaskType, Phases
<1>7. task'[r] = t
  BY <1>1, <1>2 DEF Inv, Types
<1>8. fileRecs' \in [Dests -> SUBSET Fds] /\ fd \in fileRecs'[r[1]]
      /\ \A d \in Dests : fileRecs[d] \subseteq fileRecs'[d]
  BY <1>1, <1>2, <1>3, <1>5
<1>9. /\ r \in Running' /\ Size(r)' = Size(r) /\ Offset(r)' = Offset(r)
      /\ Piece(r, task[r].w)' = Piece(r, w)
  <2>1. Piece(r, task[r].w)' = Piece(r, w)
    BY <1>4, <1>7 DEF Piece
  <2> QED BY <1>1, <1>4, <1>7, <2>1 DEF Running, AllRanges, Size, Offset
<1>10. PieceIsRight(r)'
  <2>1. fd[1] = "direct" => /\ slots[task[r].slot].direct
                            /\ (Offset(r) + w) % Align = 0
                            /\ Piece(r, w) % Align = 0
    BY <1>3 DEF GoesDirect, ByLengthAndOffset
  <2> QED BY <1>2, <1>4, <1>7, <1>8, <1>9, <2>1 DEF PieceIsRight
<1>11. InSlot(r, Size(r))'
  BY <1>2, <1>4, <1>7, <1>9 DEF InSlot
<1>12. OnDisk(r, task[r].w + task[r].x)'
  BY <1>4, <1>7, <1>9 DEF OnDisk
<1>13. TaskMatches(r)'
  BY <1>4, <1>5, <1>7, <1>9, <1>10, <1>11, <1>12 DEF TaskMatches, Fetching
<1> QED
  BY <1>1, <1>2, <1>4, <1>6, <1>8, <1>13, MoveKeeps DEF Inv, Types

-----------------------------------------------------------------------------
(* A range leaves the worker: answered, or failed.                           *)

LEMMA LeavingBusy ==
  ASSUME Inv, NEW r \in Running
  PROVE  /\ Cardinality(Busy \ {r}) = dispatchInFlight - 1
         /\ dispatchInFlight - 1 \in Nat
         /\ dispatchInFlight - 1 = 0 => Running \subseteq {r}
<1>1. IsFiniteSet(Busy) /\ r \in Busy
  BY BusyFinite DEF Busy
<1>2. /\ Cardinality(Busy \ {r}) \in Nat
      /\ Cardinality(Busy \ {r}) = Cardinality(Busy) - 1
  BY <1>1, RemovedSize
<1>3. dispatchInFlight = Cardinality(Busy)
  BY DEF Inv, SlotsCounted
<1>4. Cardinality(Busy \ {r}) = 0 => Busy \ {r} = {}
  <2>1. IsFiniteSet(Busy \ {r})
    BY <1>1, FS_Subset
  <2> QED BY <2>1, FS_EmptySet
<1> QED
  BY <1>2, <1>3, <1>4 DEF Busy

LEMMA ReleaseEffect ==
  ASSUME Inv, NEW s \in Slots \ bufSlots, ReleaseSlot(s), UNCHANGED cfg
  PROVE  /\ slots' \in Seq(SlotType) /\ Len(slots') = Len(slots)
         /\ bufSlots' = bufSlots \cup {s} /\ bufSlots' \subseteq Slots
         /\ Cardinality(bufSlots') = Cardinality(bufSlots) + 1
         /\ \A u \in Slots : u # s => slots'[u] = slots[u]
         /\ UNCHANGED <<directProbed, directUsable>>
<1>1. /\ slots \in Seq(SlotType) /\ Len(slots) \in Nat /\ bufSlots \subseteq Slots
      /\ s \in 1 .. Len(slots) /\ slots[s] \in SlotType
  BY DEF Inv, Types, Slots
<1> DEFINE empty == [slots[s] EXCEPT !.bytes = [j \in BufferBytes |-> Null]]
<1>2. empty \in SlotType
  BY <1>1 DEF SlotType, Byte
<1>3. slots' = [slots EXCEPT ![s] = empty]
  BY DEF ReleaseSlot
<1>4. Cardinality(bufSlots \cup {s}) = Cardinality(bufSlots) + 1
  BY BusyFinite, FS_AddElement
<1> HIDE DEF empty
<1> QED
  BY <1>1, <1>2, <1>3, <1>4 DEF ReleaseSlot, Slots

LEMMA AnswerKeeps ==
  ASSUME Inv, NEW r \in Running, UNCHANGED cfg, DiskKept(r),
         ~cfg.discard => \A i \in 0 .. Size(r) - 1 :
                           disk'[r[1]][Offset(r) + i] = <<r[1], Offset(r) + i>>,
         Answer(r)
  PROVE  Inv'
<1> DEFINE s == task[r].slot
           t == [NoTask EXCEPT !.phase = "answered"]
<1>1. /\ r \in AllRanges /\ AllRanges' = AllRanges /\ cfg \in Configs
      /\ s \in Slots \ bufSlots
  BY DEF Running, AllRanges, Inv, Types, OneSlot
<1>2. /\ task' = [task EXCEPT ![r] = t] /\ ReleaseSlot(s)
      /\ dispatchInFlight' = dispatchInFlight - 1
      /\ MaybeDone(dispatchStopped, dispatchInFlight - 1)
      /\ UNCHANGED dispatchStopped
  BY DEF Answer
<1>3. /\ slots' \in Seq(SlotType) /\ Len(slots') = Len(slots)
      /\ bufSlots' = bufSlots \cup {s} /\ bufSlots' \subseteq Slots
      /\ Cardinality(bufSlots') = Cardinality(bufSlots) + 1
      /\ \A u \in Slots : u # s => slots'[u] = slots[u]
      /\ UNCHANGED <<directProbed, directUsable>>
  BY <1>1, <1>2, ReleaseEffect
<1>4. t \in TaskType /\ t.phase = "answered"
  BY SizesAssumption DEF NoTask, TaskType, Phases, Fds
<1>5. /\ task'[r] = t /\ \A q \in AllRanges : q # r => task'[q] = task[q]
  BY <1>1, <1>2 DEF Inv, Types
<1>6. Running' = Running \ {r} /\ Failed' = Failed /\ Busy' = Busy \ {r}
  <2>1. Running' = Running \ {r}
    BY <1>1, <1>4, <1>5 DEF Running
  <2>2. Failed' = Failed /\ r \notin Failed
    BY <1>1, <1>4, <1>5 DEF Failed, Running
  <2> QED BY <2>1, <2>2 DEF Busy
<1>7. /\ fileRecs' \in [Dests -> SUBSET Fds] /\ doneEmitted' \in BOOLEAN
      /\ fileRecs' = fileRecs \/ Running \subseteq {r}
  BY LeavingBusy DEF MaybeDone, IsDone, Answer, Inv, Types
<1>8. \A q \in AllRanges' : TaskMatches(q)'
  <2>1. ASSUME NEW q \in AllRanges, q # r
        PROVE  TaskMatches(q)'
    <3> HIDE DEF t
    <3>1. \A u \in Slots \ bufSlots : u # task[r].slot => slots'[u] = slots[u]
      BY <1>3
    <3>2. (\A d \in Dests : fileRecs[d] \subseteq fileRecs'[d]) \/ Running \subseteq {r}
      BY <1>7
    <3> QED BY <1>1, <1>2, <2>1, <3>1, <3>2, OthersKeep
  <2>2. TaskMatches(r)'
    <3>1. r \notin Running' /\ Size(r)' = Size(r) /\ Offset(r)' = Offset(r)
      BY <1>6 DEF Size, Offset
    <3>2. ~cfg'.discard => OnDisk(r, Size(r))'
      BY <3>1 DEF OnDisk
    <3> QED BY <1>4, <1>5, <3>1, <3>2 DEF TaskMatches, Fetching
  <2> QED BY <1>1, <2>1, <2>2
<1>9. OneSlot'
  <2>1. \A q \in Running' : task'[q] = task[q] /\ q \in Running /\ q # r
    BY <1>1, <1>5, <1>6 DEF Running
  <2>2. \A q \in Running' : task'[q].slot # s
    BY <2>1 DEF Inv, OneSlot
  <2> QED BY <1>3, <2>1, <2>2 DEF Inv, OneSlot, Slots
<1>10. SlotsCounted'
  BY <1>2, <1>3, <1>6, LeavingBusy, BusyFinite DEF Inv, SlotsCounted
<1>11. Types'
  <2>1. task' \in [AllRanges' -> TaskType]
    BY <1>1, <1>2, <1>4 DEF Inv, Types
  <2>2. slots' \in Seq(SlotType') /\ bufSlots' \subseteq Slots'
    BY <1>3 DEF SlotType, BufferBytes, Slots
  <2>3. DOMAIN disk' = Dests /\ \A d \in Dests : DOMAIN disk'[d] = 0 .. cfg'.total[d] - 1
    BY DEF Inv, Types, DiskKept
  <2>4. dispatchInFlight' \in Nat
    BY <1>2, LeavingBusy
  <2> QED BY <1>2, <1>3, <1>7, <2>1, <2>2, <2>3, <2>4 DEF Inv, Types
<1> QED
  BY <1>8, <1>9, <1>10, <1>11 DEF Inv

LEMMA RangeFailsKeeps ==
  ASSUME Inv, NEW r \in AllRanges, RangeFails(r)
  PROVE  Inv'
<1> DEFINE t == [NoTask EXCEPT !.phase = "failed"]
<1>1. /\ r \in Running /\ AllRanges' = AllRanges /\ cfg \in Configs
      /\ task' = [task EXCEPT ![r] = t]
      /\ UNCHANGED <<cfg, slots, bufSlots, directProbed, directUsable, fileRecs, disk, countVars>>
  BY DEF RangeFails, AllRanges, Inv, Types, slotVars
<1>2. t \in TaskType /\ t.phase = "failed"
  BY SizesAssumption DEF NoTask, TaskType, Phases, Fds
<1>3. /\ task'[r] = t /\ \A q \in AllRanges : q # r => task'[q] = task[q]
  BY <1>1 DEF Inv, Types
<1>4. Running' = Running \ {r} /\ Busy' = Busy
  <2>1. Running' = Running \ {r}
    BY <1>1, <1>2, <1>3 DEF Running
  <2>2. Failed' = Failed \cup {r}
    BY <1>1, <1>2, <1>3 DEF Failed
  <2> QED BY <1>1, <2>1, <2>2 DEF Busy
<1>5. \A q \in AllRanges' : TaskMatches(q)'
  <2>1. ASSUME NEW q \in AllRanges, q # r
        PROVE  TaskMatches(q)'
    <3>1. DiskKept(r)
      BY <1>1, DiskUntouched
    <3> HIDE DEF t
    <3> QED BY <1>1, <2>1, <3>1, OthersKeep
  <2>2. TaskMatches(r)'
    BY <1>2, <1>3, <1>4 DEF TaskMatches, Fetching
  <2> QED BY <1>1, <2>1, <2>2
<1>6. OneSlot'
  <2>1. \A q \in Running' : task'[q] = task[q] /\ q \in Running
    BY <1>1, <1>3, <1>4 DEF Running
  <2> QED BY <1>1, <2>1 DEF Inv, OneSlot, Slots
<1>7. SlotsCounted'
  BY <1>1, <1>4 DEF Inv, SlotsCounted, countVars
<1>8. Types'
  <2>1. task' \in [AllRanges' -> TaskType]
    BY <1>1, <1>2 DEF Inv, Types
  <2>2. slots' \in Seq(SlotType') /\ bufSlots' \subseteq Slots'
    BY <1>1 DEF Inv, Types, SlotType, BufferBytes, Slots
  <2> QED BY <1>1, <2>1, <2>2 DEF Inv, Types, countVars
<1> QED
  BY <1>5, <1>6, <1>7, <1>8 DEF Inv
-----------------------------------------------------------------------------
(* The ends of a body and of a write.                                        *)

LEMMA BodyEndsKeeps ==
  ASSUME Inv, NEW r \in AllRanges, BodyEnds(r)
  PROVE  Inv'
<1>1. /\ r \in Running /\ cfg \in Configs /\ TaskMatches(r) /\ Fetching(r)
      /\ task[r].sent = Size(r) /\ UNCHANGED <<cfg, disk>>
  BY DEF BodyEnds, Fetching, Running, Inv, Types
<1>2. task[r].got = Size(r) /\ InSlot(r, Size(r)) /\ Size(r) \in Nat
  BY <1>1, RangeShape DEF TaskMatches
<1>3. DiskKept(r)
  BY <1>1, DiskUntouched
<1>4. CASE cfg.discard \/ Size(r) = 0
  <2>1. Answer(r)
    BY <1>2, <1>4 DEF BodyEnds
  <2>2. ~cfg.discard => \A i \in 0 .. Size(r) - 1 :
                          disk'[r[1]][Offset(r) + i] = <<r[1], Offset(r) + i>>
    BY <1>2, <1>4
  <2> QED BY <1>1, <1>3, <2>1, <2>2, AnswerKeeps
<1>5. CASE ~(cfg.discard \/ Size(r) = 0)
  <2>1. IssueWrite(r, 0) /\ 0 < Size(r)
    BY <1>2, <1>5 DEF BodyEnds
  <2>2. \E k \in Nat : 0 = k * cfg.fileChunk
    <3>1. cfg.fileChunk \in Nat
      BY <1>1, ConfigShape
    <3>2. 0 * cfg.fileChunk = 0
      BY <3>1
    <3> QED BY <3>2
  <2>3. \A i \in 0 .. 0 - 1 : disk'[r[1]][Offset(r) + i] = <<r[1], Offset(r) + i>>
    OBVIOUS
  <2> QED BY <1>1, <1>2, <1>3, <1>5, <2>1, <2>2, <2>3, IssueKeeps
<1> QED
  BY <1>4, <1>5

LEMMA StoredEffect ==
  ASSUME Inv, NEW r \in AllRanges, task[r].phase = "writing",
         NEW n \in 1 .. Piece(r, task[r].w) - task[r].x, disk' = Stored(r, n)
  PROVE  /\ DiskKept(r)
         /\ \A i \in 0 .. task[r].w + task[r].x + n - 1 :
              disk'[r[1]][Offset(r) + i] = <<r[1], Offset(r) + i>>
<1> DEFINE first == task[r].w + task[r].x
           file == [o \in DOMAIN disk[r[1]] |->
                      IF Offset(r) + first <= o /\ o < Offset(r) + first + n
                      THEN slots[task[r].slot].bytes[o - Offset(r)]
                      ELSE disk[r[1]][o]]
<1>1. /\ cfg \in Configs /\ TaskMatches(r) /\ task[r].w \in Nat /\ task[r].x \in Nat
      /\ DOMAIN disk = Dests /\ \A d \in Dests : DOMAIN disk[d] = 0 .. cfg.total[d] - 1
  BY DEF Inv, Types, TaskType
<1>2. /\ task[r].got = Size(r) /\ task[r].w < Size(r) /\ task[r].x < Piece(r, task[r].w)
      /\ InSlot(r, Size(r)) /\ OnDisk(r, first)
  BY <1>1 DEF TaskMatches
<1>3. /\ r[1] \in Dests /\ Offset(r) \in Nat /\ Size(r) \in Nat
      /\ Offset(r) + Size(r) <= cfg.total[r[1]] /\ cfg.total[r[1]] \in Nat
      /\ Piece(r, task[r].w) \in Nat /\ task[r].w + Piece(r, task[r].w) <= Size(r)
  BY <1>1, <1>2, RangeShape, ConfigShape, PieceSize
<1>4. first \in Nat /\ n \in Nat /\ first + n <= Size(r)
  <2>1. Piece(r, task[r].w) - task[r].x \in Int
    BY <1>1, <1>3
  <2>2. n \in Nat /\ n <= Piece(r, task[r].w) - task[r].x
    BY <2>1
  <2> DEFINE w == task[r].w
             x == task[r].x
             p == Piece(r, task[r].w)
  <2>3. /\ w \in Nat /\ x \in Nat /\ p \in Nat /\ Size(r) \in Nat
        /\ w + p <= Size(r) /\ n \in Nat /\ n <= p - x
    BY <1>1, <1>3, <2>2
  <2> HIDE DEF w, x, p
  <2>4. w + x \in Nat /\ w + x + n <= Size(r)
    BY <2>3
  <2> QED BY <2>2, <2>4 DEF w, x
<1>5. disk' = [disk EXCEPT ![r[1]] = file]
  BY DEF Stored
<1> HIDE DEF first
<1>6. /\ disk'[r[1]] = file /\ \A d \in Dests : d # r[1] => disk'[d] = disk[d]
      /\ DOMAIN disk' = Dests
  <2> HIDE DEF file
  <2> QED BY <1>1, <1>3, <1>5
<1>7. DOMAIN file = DOMAIN disk[r[1]]
  OBVIOUS
<1>8. ASSUME NEW o \in DOMAIN disk[r[1]], ~(Offset(r) <= o /\ o < Offset(r) + Size(r))
      PROVE  file[o] = disk[r[1]][o]
  <2>1. o \in Int
    BY <1>1, <1>3
  <2>2. ~(Offset(r) + first <= o /\ o < Offset(r) + first + n)
    BY <1>3, <1>4, <1>8, <2>1
  <2> QED BY <2>2
<1>9. DiskKept(r)
  <2> HIDE DEF file
  <2> QED BY <1>1, <1>3, <1>6, <1>7, <1>8 DEF DiskKept
<1>10. ASSUME NEW i \in 0 .. first + n - 1
       PROVE  file[Offset(r) + i] = <<r[1], Offset(r) + i>>
  <2>1. Offset(r) + i \in DOMAIN disk[r[1]] /\ i \in 0 .. Size(r) - 1
    <3> DEFINE start == Offset(r)
               size == Size(r)
               total == cfg.total[r[1]]
    <3>1. /\ start \in Nat /\ size \in Nat /\ total \in Nat /\ start + size <= total
          /\ first \in Nat /\ n \in Nat /\ first + n <= size /\ i \in 0 .. first + n - 1
      BY <1>3, <1>4
    <3>2. DOMAIN disk[r[1]] = 0 .. total - 1
      BY <1>1, <1>3
    <3> HIDE DEF start, size, total
    <3>3. start + i \in 0 .. total - 1 /\ i \in 0 .. size - 1
      BY ONLY <3>1
    <3> QED BY <3>2, <3>3 DEF start, size
  <2>2. CASE i < first
    <3>1. disk[r[1]][Offset(r) + i] = <<r[1], Offset(r) + i>>
      <4>1. i \in 0 .. first - 1
        BY <1>4, <2>2
      <4> QED BY <1>2, <4>1 DEF OnDisk
    <3>2. ~(Offset(r) + first <= Offset(r) + i)
      BY <1>3, <1>4, <2>2
    <3> QED BY <2>1, <3>1, <3>2
  <2>3. CASE first <= i
    <3>1. slots[task[r].slot].bytes[i] = <<r[1], Offset(r) + i>>
      BY <1>2, <2>1 DEF InSlot
    <3>2. /\ Offset(r) + first <= Offset(r) + i /\ Offset(r) + i < Offset(r) + first + n
          /\ (Offset(r) + i) - Offset(r) = i
      BY <1>3, <1>4, <2>3
    <3> QED BY <2>1, <3>1, <3>2
  <2> QED BY <1>4, <2>2, <2>3
<1>11. \A i \in 0 .. first + n - 1 : disk'[r[1]][Offset(r) + i] = <<r[1], Offset(r) + i>>
  <2> HIDE DEF file
  <2> QED BY <1>6, <1>10
<1> QED
  BY <1>9, <1>11 DEF first

LEMMA WriteEndsKeeps ==
  ASSUME Inv, NEW r \in AllRanges, WriteEnds(r)
  PROVE  Inv'
<1> DEFINE next == task[r].w + Piece(r, task[r].w)
<1>1. PICK n \in 1 .. Piece(r, task[r].w) - task[r].x :
        /\ disk' = Stored(r, n)
        /\ IF task[r].x + n < Piece(r, task[r].w)
           THEN task' = [task EXCEPT ![r].x = @ + n] /\ UNCHANGED <<slotVars, fileRecs, countVars>>
           ELSE IF next < task[r].got THEN IssueWrite(r, next) ELSE Answer(r)
  BY DEF WriteEnds
<1>2. /\ r \in Running /\ cfg \in Configs /\ TaskMatches(r) /\ task[r].phase = "writing"
      /\ task[r] \in TaskType /\ UNCHANGED cfg
  BY DEF WriteEnds, Running, Inv, Types
<1>3. /\ ~cfg.discard /\ task[r].sent = Size(r) /\ task[r].got = Size(r)
      /\ task[r].w < Size(r) /\ task[r].x < Piece(r, task[r].w)
      /\ InSlot(r, Size(r)) /\ PieceIsRight(r)
      /\ task[r].w \in Nat /\ task[r].x \in Nat
  BY <1>2 DEF TaskMatches, TaskType
<1>4. /\ Size(r) \in Nat /\ Piece(r, task[r].w) \in Nat \ {0}
      /\ next \in Nat /\ next <= Size(r)
      /\ next < Size(r) => Piece(r, task[r].w) = cfg.fileChunk
      /\ cfg.fileChunk \in Nat /\ n \in Nat
  BY <1>2, <1>3, RangeShape, ConfigShape, PieceSize
<1>5. /\ DiskKept(r)
      /\ \A i \in 0 .. task[r].w + task[r].x + n - 1 :
           disk'[r[1]][Offset(r) + i] = <<r[1], Offset(r) + i>>
  BY <1>1, <1>2, StoredEffect
<1>6. CASE task[r].x + n < Piece(r, task[r].w)
  <2> DEFINE t == [task[r] EXCEPT !.x = @ + n]
  <2>1. /\ task' = [task EXCEPT ![r] = t]
        /\ UNCHANGED <<slots, bufSlots, directProbed, directUsable, fileRecs, countVars>>
    BY <1>1, <1>6 DEF slotVars
  <2>2. t = [phase |-> "writing", slot |-> task[r].slot, tryNo |-> task[r].tryNo,
             sent |-> Size(r), got |-> Size(r), w |-> task[r].w, x |-> task[r].x + n,
             fd |-> task[r].fd]
    BY <1>2, <1>3 DEF TaskType
  <2>3. t \in TaskType
    <3> HIDE DEF t
    <3> QED BY <1>2, <1>3, <1>4, <2>2 DEF TaskType
  <2> HIDE DEF t
  <2>4. task'[r] = t
    BY <2>1 DEF Inv, Types
  <2>5. /\ r \in Running' /\ Size(r)' = Size(r) /\ Offset(r)' = Offset(r)
        /\ Piece(r, task[r].w)' = Piece(r, task[r].w)
    BY <1>2, <1>3, <2>2, <2>4 DEF Running, AllRanges, Size, Offset, Piece
  <2>6. PieceIsRight(r)'
    BY <1>2, <1>3, <2>1, <2>2, <2>4, <2>5 DEF PieceIsRight
  <2>7. InSlot(r, Size(r))'
    BY <1>3, <2>1, <2>2, <2>4, <2>5 DEF InSlot
  <2>8. OnDisk(r, task[r].w + task[r].x)'
    <3>1. task'[r].w + task'[r].x = task[r].w + task[r].x + n
      BY <1>3, <1>4, <2>2, <2>4
    <3> QED BY <1>3, <1>4, <1>5, <2>5, <3>1 DEF OnDisk
  <2>9. TaskMatches(r)'
    BY <1>2, <1>3, <1>6, <2>2, <2>4, <2>5, <2>6, <2>7, <2>8 DEF TaskMatches, Fetching
  <2> QED BY <1>2, <1>5, <2>1, <2>2, <2>3, <2>9, MoveKeeps DEF Inv, Types
<1>7. CASE ~(task[r].x + n < Piece(r, task[r].w))
  <2>1. task[r].w + task[r].x + n = next
    BY <1>3, <1>4, <1>7
  <2>2. \A i \in 0 .. next - 1 : disk'[r[1]][Offset(r) + i] = <<r[1], Offset(r) + i>>
    <3> SUFFICES ASSUME NEW i \in 0 .. next - 1
                 PROVE  disk'[r[1]][Offset(r) + i] = <<r[1], Offset(r) + i>>
      OBVIOUS
    <3>1. i \in 0 .. task[r].w + task[r].x + n - 1
      BY <1>3, <1>4, <2>1
    <3> QED BY <1>5, <3>1
  <2>3. CASE next < Size(r)
    <3>1. IssueWrite(r, next)
      BY <1>1, <1>3, <1>7, <2>3
    <3>2. \E k \in Nat : next = k * cfg.fileChunk
      <4>1. PICK k \in Nat : task[r].w = k * cfg.fileChunk
        BY <1>3 DEF PieceIsRight
      <4>2. next = (k + 1) * cfg.fileChunk
        <5>1. next = k * cfg.fileChunk + cfg.fileChunk
          BY <1>4, <2>3, <4>1
        <5>2. (k + 1) * cfg.fileChunk = k * cfg.fileChunk + cfg.fileChunk
          BY <1>4, NextMultiple
        <5> QED BY <5>1, <5>2
      <4> QED BY <4>2
    <3> HIDE DEF next
    <3> QED BY <1>2, <1>3, <1>4, <1>5, <2>2, <2>3, <3>1, <3>2, IssueKeeps
  <2>4. CASE ~(next < Size(r))
    <3>1. Answer(r)
      BY <1>1, <1>3, <1>7, <2>4
    <3>2. next = Size(r)
      BY <1>4, <2>4
    <3> HIDE DEF next
    <3> QED BY <1>2, <1>5, <2>2, <3>1, <3>2, AnswerKeeps
  <2> QED BY <2>3, <2>4
<1> QED
  BY <1>6, <1>7

-----------------------------------------------------------------------------
(* 'stop', and the rest.                                                     *)

LEMMA StopKeeps ==
  ASSUME Inv, Stop
  PROVE  Inv'
<1>1. /\ MaybeDone(TRUE, dispatchInFlight)
      /\ UNCHANGED <<cfg, task, slots, bufSlots, directProbed, directUsable, disk, dispatchInFlight>>
  <2>1. MaybeDone(TRUE, dispatchInFlight)
    BY Zenon DEF Stop
  <2>2. UNCHANGED <<cfg, task, slots, bufSlots, directProbed, directUsable, disk, dispatchInFlight>>
    BY DEF Stop, slotVars
  <2> QED BY <2>1, <2>2, Zenon
<1>a. dispatchStopped' \in BOOLEAN
  BY Zenon DEF Stop
<1>2. AllRanges' = AllRanges /\ Running' = Running /\ Failed' = Failed
  BY <1>1 DEF AllRanges, Running, Failed
<1>3. /\ fileRecs' \in [Dests -> SUBSET Fds] /\ doneEmitted' \in BOOLEAN
      /\ fileRecs' = fileRecs \/ dispatchInFlight = 0
  BY <1>1 DEF MaybeDone, IsDone, Inv, Types
<1>4. dispatchInFlight = 0 => Running = {}
  BY BusyFinite, FS_EmptySet DEF Inv, SlotsCounted, Busy
<1>5. ASSUME NEW q \in AllRanges
      PROVE  TaskMatches(q)'
  <2>1. TaskMatches(q) /\ q \in Running' <=> TaskMatches(q) /\ q \in Running
    BY <1>1, <1>2
  <2>2. /\ TaskMatches(q) /\ Size(q)' = Size(q) /\ Offset(q)' = Offset(q)
        /\ Piece(q, task[q].w)' = Piece(q, task[q].w)
    BY <1>1 DEF Inv, Size, Offset, Piece
  <2>3. task[q].phase = "writing" => fileRecs' = fileRecs
    BY <1>3, <1>4 DEF Running
  <2>4. task[q].phase = "writing" => PieceIsRight(q)'
    BY <1>1, <2>2, <2>3 DEF TaskMatches, PieceIsRight
  <2>5. \A n : (InSlot(q, n) => InSlot(q, n)') /\ (OnDisk(q, n) => OnDisk(q, n)')
    BY <1>1, <2>2 DEF InSlot, OnDisk
  <2>6. InSlot(q, task[q].got)' <=> InSlot(q, task[q].got)
    BY <1>1, <2>2 DEF InSlot
  <2>7. /\ InSlot(q, Size(q))' <=> InSlot(q, Size(q))
        /\ OnDisk(q, Size(q))' <=> OnDisk(q, Size(q))
        /\ OnDisk(q, task[q].w + task[q].x)' <=> OnDisk(q, task[q].w + task[q].x)
    BY <1>1, <2>2 DEF InSlot, OnDisk
  <2> QED BY <1>1, <1>2, <2>2, <2>4, <2>6, <2>7 DEF TaskMatches, Fetching
<1>6. OneSlot' /\ SlotsCounted'
  BY <1>1, <1>2 DEF Inv, OneSlot, SlotsCounted, Slots, Busy
<1>7. Types'
  <2>1. slots' \in Seq(SlotType') /\ bufSlots' \subseteq Slots' /\ task' \in [AllRanges' -> TaskType]
    BY <1>1, <1>2 DEF Inv, Types, SlotType, BufferBytes, Slots
  <2> QED BY <1>1, <1>a, <1>3, <2>1 DEF Inv, Types
<1> QED
  BY <1>2, <1>5, <1>6, <1>7 DEF Inv

LEMMA InitInv == Init => Inv
<1> SUFFICES ASSUME Init PROVE Inv
  OBVIOUS
<1>1. /\ cfg \in Configs /\ task = [r \in AllRanges |-> NoTask] /\ bufSlots = {} /\ slots = <<>>
      /\ fileRecs = [d \in Dests |-> {}] /\ dispatchInFlight = 0
      /\ disk = [d \in Dests |-> [o \in 0 .. cfg.total[d] - 1 |-> Null]]
  BY DEF Init
<1>2. NoTask \in TaskType
  BY SizesAssumption DEF NoTask, TaskType, Phases, Fds
<1>3. Types
  <2>1. DOMAIN disk = Dests /\ \A d \in Dests : DOMAIN disk[d] = 0 .. cfg.total[d] - 1
    BY <1>1
  <2>2. task \in [AllRanges -> TaskType]
    BY <1>1, <1>2
  <2>3. slots \in Seq(SlotType) /\ bufSlots \subseteq Slots /\ fileRecs \in [Dests -> SUBSET Fds]
    BY <1>1
  <2>4. /\ directProbed \in BOOLEAN /\ directUsable \in BOOLEAN
        /\ dispatchStopped \in BOOLEAN /\ doneEmitted \in BOOLEAN
    BY DEF Init
  <2> QED BY <1>1, <2>1, <2>2, <2>3, <2>4 DEF Types
<1>4. \A r \in AllRanges : task[r] = NoTask /\ task[r].phase = "none"
  BY <1>1 DEF NoTask
<1>5. Running = {} /\ Failed = {} /\ Busy = {}
  BY <1>4 DEF Running, Failed, Busy
<1>6. \A r \in AllRanges : TaskMatches(r)
  <2>1. NoTask = [NoTask EXCEPT !.phase = "none"]
    BY DEF NoTask
  <2> QED BY <1>4, <2>1 DEF TaskMatches, Fetching
<1>7. OneSlot /\ SlotsCounted
  BY <1>1, <1>5, FS_EmptySet, SizesAssumption DEF OneSlot, SlotsCounted
<1> QED
  BY <1>3, <1>6, <1>7 DEF Inv

LEMMA StutterKeeps ==
  ASSUME Inv, UNCHANGED vars
  PROVE  Inv'
<1>1. UNCHANGED <<cfg, task, bufSlots, slots, directProbed, directUsable, fileRecs, disk,
                  dispatchInFlight, dispatchStopped, doneEmitted>>
  BY DEF vars, slotVars, countVars
<1>2. AllRanges' = AllRanges /\ Running' = Running /\ Failed' = Failed
  BY <1>1 DEF AllRanges, Running, Failed
<1>3. ASSUME NEW q \in AllRanges
      PROVE  TaskMatches(q)'
  BY <1>1, <1>2 DEF Inv, TaskMatches, Fetching, Size, Offset, Piece, InSlot, OnDisk, PieceIsRight
<1>4. OneSlot' /\ SlotsCounted'
  BY <1>1, <1>2 DEF Inv, OneSlot, SlotsCounted, Slots, Busy
<1>5. Types'
  BY <1>1, <1>2 DEF Inv, Types, SlotType, BufferBytes, Slots
<1> QED
  BY <1>2, <1>3, <1>4, <1>5 DEF Inv

LEMMA NextInv == Inv /\ [Next]_vars => Inv'
<1> SUFFICES ASSUME Inv, [Next]_vars PROVE Inv'
  OBVIOUS
<1>1. ASSUME NEW r \in AllRanges, Assign(r) PROVE Inv'
  BY <1>1, AssignKeeps
<1>2. ASSUME NEW r \in AllRanges, ChunkArrives(r) PROVE Inv'
  BY <1>2, ChunkArrivesKeeps
<1>3. ASSUME NEW r \in AllRanges, AttemptStalls(r) PROVE Inv'
  BY <1>3, AttemptStallsKeeps
<1>4. ASSUME NEW r \in AllRanges, BodyEnds(r) PROVE Inv'
  BY <1>4, BodyEndsKeeps
<1>5. ASSUME NEW r \in AllRanges, WriteEnds(r) PROVE Inv'
  BY <1>5, WriteEndsKeeps
<1>6. ASSUME NEW r \in AllRanges, RangeFails(r) PROVE Inv'
  BY <1>6, RangeFailsKeeps
<1>7. CASE Stop
  BY <1>7, StopKeeps
<1>8. CASE UNCHANGED vars
  BY <1>8, StutterKeeps
<1> QED
  BY <1>1, <1>2, <1>3, <1>4, <1>5, <1>6, <1>7, <1>8 DEF Next, RangeStep

(* Inv holds in every state of the writer.                                   *)
THEOREM InvHolds == Spec => []Inv
<1> QED
  BY InitInv, NextInv, PTL DEF Spec

(* The types, and a worker makes no more buffers than main gives it ranges   *)
(* at a time, although those of failed ranges are lost.                      *)
THEOREM TypesHold == Spec => []TypeOK
<1> QED
  BY InvHolds, InvGivesTypes, PTL

(* Whatever the sizes, the chunks and the retries, and whichever handlers    *)
(* run between each other's awaits: a range that is answered is in its file, *)
(* each byte at its place.                                                   *)
THEOREM AnsweredRangesAreOnDisk == Spec => []AnsweredIsOnDisk
<1> QED
  BY InvHolds, InvGivesDisk, PTL

(* No descriptor is closed while a write goes to it.                         *)
THEOREM DescriptorsStayOpen == Spec => []DescriptorsOpen
<1> QED
  BY InvHolds, InvGivesDescriptors, PTL

(* A direct write has an aligned offset and length, and an aligned address   *)
(* when the ranges or the pieces are whole blocks.                           *)
THEOREM DirectWritesAreAligned == Spec => []DirectIsAligned
<1> QED
  BY InvHolds, InvGivesAlignment, PTL

-----------------------------------------------------------------------------
(* The buffers that go to main and come back (BufferReturn).                *)

(* Where buffer b is.                                                        *)
WithHandler(w, b) == \E x \in filling[w] : x[2] = b
OnMain(b) == \E m \in Main : m[2] = b
OnList(w, b) == b \in returning[w] \cup returnedBufs[w]

(* A part is on its way to one worker at most.                               *)
AssignedOnce ==
  /\ \A w \in Workers : todo \cap assigned[w] = {}
  /\ \A v, w \in Workers : v # w => assigned[v] \cap assigned[w] = {}

(* The buffer that may be made for a part does not exist before the part is  *)
(* started.                                                                  *)
Fresh(p) == p \in todo \/ \E w \in Workers : p \in assigned[w]
FreshUnused ==
  \A p \in Parts : Fresh(p) =>
    /\ ~OnMain(p)
    /\ \A w \in Workers : ~WithHandler(w, p) /\ ~OnList(w, p)

(* The buffer of a handler is large enough.                                  *)
HandlerFits == \A w \in Workers : \A x \in filling[w] : BytesOf[x[2]] >= BytesOf[x[1]]

(* A lane is free, or taken by a part that is on its way, or lost.           *)
Lanes(w) ==
  freeLanes[w] + Cardinality(assigned[w]) + Cardinality(filling[w])
    + Cardinality(FromWorker(w, posted))
LanesCounted == \A w \in Workers : Lanes(w) <= LanesPerWorker

(* The parts of OneOwner, without sets of projections.                       *)
HandlersApart ==
  \A v, w \in Workers : \A x \in filling[v], y \in filling[w] :
    x[2] = y[2] => v = w /\ x = y
ChunksApart == \A m, n \in Main : m[2] = n[2] => m = n
HandlerNotMain == \A w \in Workers, b \in Parts : WithHandler(w, b) => ~OnMain(b)
ListNotUsed ==
  \A v, w \in Workers, b \in Parts : OnList(v, b) => ~OnMain(b) /\ ~WithHandler(w, b)
ListsApart ==
  /\ \A v, w \in Workers : returning[v] \cap returnedBufs[w] = {}
  /\ \A v, w \in Workers : v # w =>
       returning[v] \cap returning[w] = {} /\ returnedBufs[v] \cap returnedBufs[w] = {}
MainApart == posted \cap heldBuffers = {} /\ (posted \cup heldBuffers) \cap chunks = {}

Ownership ==
  /\ AssignedOnce /\ FreshUnused
  /\ HandlersApart /\ ChunksApart /\ HandlerNotMain /\ ListNotUsed /\ ListsApart /\ MainApart

ReturnInv == ReturnTypeOK /\ Ownership /\ HandlerFits /\ ChunkIsIntact /\ LanesCounted

-----------------------------------------------------------------------------
LEMMA OwnershipIsOneOwner == ReturnTypeOK /\ Ownership => OneOwner
  BY DEF ReturnTypeOK, Ownership, HandlersApart, ChunksApart, HandlerNotMain, ListNotUsed, ListsApart,
         MainApart, WithHandler, OnMain, OnList, OneOwner, Second, Triples, Main

(* What the lanes are counted by is finite.                                  *)
LEMMA LanesAreFinite ==
  ASSUME ReturnTypeOK, NEW w \in Workers
  PROVE  /\ IsFiniteSet(assigned[w]) /\ IsFiniteSet(filling[w])
         /\ IsFiniteSet(FromWorker(w, posted))
<1>1. assigned[w] \subseteq Parts /\ filling[w] \subseteq Parts \X Parts
  BY DEF ReturnTypeOK
<1>2. IsFiniteSet(Parts) /\ IsFiniteSet(Parts \X Parts)
  BY FS_Product, PartsAssumption
<1> DEFINE f == [x \in Parts \X Parts |-> <<x[1], x[2], w>>]
           all == {f[x] : x \in Parts \X Parts}
<1>3. FromWorker(w, posted) \subseteq all
  <2> SUFFICES ASSUME NEW m \in FromWorker(w, posted)
               PROVE  m \in all
    OBVIOUS
  <2>1. m = <<m[1], m[2], w>> /\ <<m[1], m[2]>> \in Parts \X Parts
    BY DEF ReturnTypeOK, Triples, FromWorker
  <2>2. m = f[<<m[1], m[2]>>]
    BY <2>1
  <2> QED
    BY <2>1, <2>2
<1>4. IsFiniteSet(all)
  <2>1. f \in [Parts \X Parts -> all]
    OBVIOUS
  <2>2. f \in Surjection(Parts \X Parts, all)
    BY <2>1 DEF Surjection
  <2> QED
    BY <2>2, <1>2, FS_Surjection
<1> QED
  BY <1>1, <1>2, <1>3, <1>4, FS_Subset

LEMMA AssignKeepsInv ==
  ASSUME ReturnInv, NEW w \in Workers, NEW p \in todo, AssignPart(w, p)
  PROVE  ReturnInv'
<1> USE DEF mainVars
<1>a. /\ p \in Parts /\ freeLanes[w] \in 0 .. LanesPerWorker /\ freeLanes[w] > 0
      /\ freeLanes' = [freeLanes EXCEPT ![w] = freeLanes[w] - 1]
      /\ LanesPerWorker \in Nat
  BY PoolAssumption DEF ReturnInv, ReturnTypeOK, AssignPart, LanesLeft
<1>1. ReturnTypeOK'
  <2>1. freeLanes' \in [Workers -> 0 .. LanesPerWorker]
    BY <1>a DEF ReturnInv, ReturnTypeOK
  <2> QED
    BY <1>a, <2>1 DEF ReturnInv, AssignPart, ReturnTypeOK, Triples
<1>2. AssignedOnce'
  BY DEF ReturnInv, Ownership, AssignPart, ReturnTypeOK, Triples, AssignedOnce
<1>3. FreshUnused'
  BY DEF ReturnInv, Ownership, AssignPart, ReturnTypeOK, Triples, FreshUnused, Fresh, OnMain, WithHandler, OnList, Main
<1>4. HandlersApart'
  BY DEF ReturnInv, Ownership, AssignPart, ReturnTypeOK, Triples, HandlersApart
<1>5. ChunksApart'
  BY DEF ReturnInv, Ownership, AssignPart, ReturnTypeOK, Triples, ChunksApart, Main
<1>6. HandlerNotMain'
  BY DEF ReturnInv, Ownership, AssignPart, ReturnTypeOK, Triples, HandlerNotMain, WithHandler, OnMain, Main
<1>7. ListNotUsed'
  BY DEF ReturnInv, Ownership, AssignPart, ReturnTypeOK, Triples, ListNotUsed, OnList, WithHandler, OnMain, Main
<1>8. ListsApart'
  BY DEF ReturnInv, Ownership, AssignPart, ReturnTypeOK, Triples, ListsApart, OnList
<1>9. MainApart'
  BY DEF ReturnInv, Ownership, AssignPart, ReturnTypeOK, Triples, MainApart, Main
<1>10. HandlerFits'
  BY DEF ReturnInv, Ownership, AssignPart, ReturnTypeOK, Triples, HandlerFits
<1>11. ChunkIsIntact'
  BY DEF ReturnInv, Ownership, AssignPart, ReturnTypeOK, Triples, ChunkIsIntact, Main
<1>12. LanesCounted'
  <2> SUFFICES ASSUME NEW u \in Workers
               PROVE  Lanes(u)' <= LanesPerWorker
    BY DEF LanesCounted
  <2>1. filling'[u] = filling[u] /\ FromWorker(u, posted)' = FromWorker(u, posted)
    BY DEF AssignPart, FromWorker
  <2>2. Lanes(u) <= LanesPerWorker /\ IsFiniteSet(assigned[u]) /\ IsFiniteSet(filling[u])
        /\ IsFiniteSet(FromWorker(u, posted)) /\ freeLanes[u] \in Nat
    BY LanesAreFinite, PoolAssumption DEF ReturnInv, LanesCounted, ReturnTypeOK
  <2>3. /\ Cardinality(assigned[u]) \in Nat /\ Cardinality(filling[u]) \in Nat
        /\ Cardinality(FromWorker(u, posted)) \in Nat
    BY <2>2, FS_CardinalityType
  <2>4. CASE u = w
    <3>1. assigned'[u] = assigned[u] \cup {p} /\ freeLanes'[u] = freeLanes[u] - 1
      BY <1>a, <2>4 DEF ReturnInv, ReturnTypeOK, AssignPart
    <3>2. /\ Cardinality(assigned[u] \cup {p}) <= Cardinality(assigned[u]) + 1
          /\ Cardinality(assigned[u] \cup {p}) \in Nat
      BY <2>2, AddedSize
    <3> QED
      BY <2>1, <2>2, <2>3, <3>1, <3>2, PoolAssumption DEF Lanes
  <2>5. CASE u # w
    <3>1. assigned'[u] = assigned[u] /\ freeLanes'[u] = freeLanes[u]
      BY <1>a, <2>5 DEF ReturnInv, ReturnTypeOK, AssignPart
    <3> QED
      BY <2>1, <2>2, <3>1 DEF Lanes
  <2> QED
    BY <2>4, <2>5
<1> QED
  BY <1>1, <1>2, <1>3, <1>4, <1>5, <1>6, <1>7, <1>8, <1>9, <1>10, <1>11, <1>12 DEF ReturnInv, Ownership

LEMMA StartPartKeepsInv ==
  ASSUME ReturnInv, NEW w \in Workers, NEW p \in assigned[w], StartPart(w, p)
  PROVE  ReturnInv'
<1> USE DEF mainVars
<1>a. PICK b \in IF LargeEnough(w, p) = {} THEN {p} ELSE LargeEnough(w, p) :
        /\ filling' = [filling EXCEPT ![w] = @ \cup {<<p, b>>}]
        /\ returnedBufs' = [returnedBufs EXCEPT ![w] = @ \ {b}]
        /\ contents' = [contents EXCEPT ![b] = {}]
        /\ peak' = [peak EXCEPT ![w] = IF Cardinality(InUse(w) \cup {b}) > @
                                       THEN Cardinality(InUse(w) \cup {b}) ELSE @]
  BY DEF StartPart, TakenFromList
<1>b. p \in Parts /\ b \in Parts /\ BytesOf[b] >= BytesOf[p] /\ (b # p => b \in returnedBufs[w])
  <2>1. p \in Parts /\ returnedBufs[w] \subseteq Parts /\ BytesOf[p] \in Nat
    BY PartsAssumption DEF ReturnInv, ReturnTypeOK
  <2>2. CASE LargeEnough(w, p) = {}
    BY <1>a, <2>1, <2>2
  <2>3. CASE LargeEnough(w, p) # {}
    <3>1. b \in LargeEnough(w, p)
      BY <1>a, <2>3
    <3> QED
      BY <2>1, <3>1 DEF LargeEnough
  <2> QED
    BY <2>2, <2>3
<1>c. /\ assigned' = [assigned EXCEPT ![w] = @ \ {p}]
      /\ UNCHANGED <<todo, freeLanes, posted, heldBuffers, chunks, detached, returning>>
  BY DEF StartPart
<1>d. /\ ~OnMain(b) /\ \A v \in Workers : ~WithHandler(v, b)
      /\ \A v \in Workers : b \notin returning[v]
      /\ \A v \in Workers : v # w => b \notin returnedBufs[v]
  <2>1. CASE b = p
    BY <1>b, <2>1 DEF ReturnInv, Ownership, FreshUnused, Fresh, OnList
  <2>2. CASE b # p
    <3>1. OnList(w, b)
      BY <1>b, <2>2 DEF OnList
    <3> QED
      BY <1>b, <2>2, <3>1 DEF ReturnInv, Ownership, ListNotUsed, ListsApart
  <2> QED
    BY <2>1, <2>2
<1>e. ~Fresh(b)'
  <2>1. CASE b = p
    BY <1>b, <1>c, <2>1 DEF ReturnInv, Ownership, AssignedOnce, Fresh, ReturnTypeOK
  <2>2. CASE b # p
    <3>1. OnList(w, b)
      BY <1>b, <2>2 DEF OnList
    <3>2. ~Fresh(b)
      BY <1>b, <3>1 DEF ReturnInv, Ownership, FreshUnused
    <3> QED
      BY <1>c, <3>2 DEF ReturnInv, ReturnTypeOK, Fresh
  <2> QED
    BY <2>1, <2>2
<1>1. ReturnTypeOK'
  <2>1. Cardinality(InUse(w) \cup {b}) \in Nat
    <3>1. InUse(w) \cup {b} \subseteq Parts
      BY <1>b DEF ReturnInv, ReturnTypeOK, InUse, Second, FromWorker, Main, Triples
    <3> QED
      BY <3>1, PartsAssumption, FS_Subset, FS_CardinalityType
  <2>2. peak' \in [Workers -> Nat]
    BY <1>a, <2>1 DEF ReturnInv, ReturnTypeOK
  <2>3. contents' \in [Parts -> SUBSET Parts] /\ filling' \in [Workers -> SUBSET (Parts \X Parts)]
    BY <1>a, <1>b DEF ReturnInv, ReturnTypeOK
  <2> QED
    BY <1>a, <1>c, <2>2, <2>3 DEF ReturnInv, ReturnTypeOK, Triples
<1>2. AssignedOnce'
  BY DEF ReturnInv, Ownership, StartPart, ReturnTypeOK, Triples, AssignedOnce
<1>3. FreshUnused'
  <2> SUFFICES ASSUME NEW q \in Parts, Fresh(q)'
               PROVE  /\ ~OnMain(q)'
                      /\ \A v \in Workers : ~WithHandler(v, q)' /\ ~OnList(v, q)'
    BY DEF FreshUnused
  <2>1. Fresh(q) /\ q # b
    BY <1>c, <1>e DEF Fresh, ReturnInv, ReturnTypeOK
  <2> QED
    BY <1>a, <1>c, <2>1 DEF ReturnInv, Ownership, ReturnTypeOK, FreshUnused, OnMain, WithHandler, OnList, Main
<1>4. HandlersApart'
  BY <1>a, <1>b, <1>d DEF ReturnInv, Ownership, ReturnTypeOK, HandlersApart, WithHandler
<1>5. ChunksApart'
  BY DEF ReturnInv, Ownership, StartPart, ReturnTypeOK, Triples, ChunksApart, Main
<1>6. HandlerNotMain'
  BY <1>a, <1>b, <1>c, <1>d DEF ReturnInv, Ownership, ReturnTypeOK, HandlerNotMain, WithHandler, OnMain, Main
<1>7. ListNotUsed'
  BY <1>a, <1>b, <1>c, <1>d DEF ReturnInv, Ownership, ReturnTypeOK, ListNotUsed, OnList, WithHandler, OnMain, Main
<1>8. ListsApart'
  BY <1>a, <1>c DEF ReturnInv, Ownership, ReturnTypeOK, ListsApart
<1>9. MainApart'
  BY DEF ReturnInv, Ownership, StartPart, ReturnTypeOK, Triples, MainApart, Main
<1>10. HandlerFits'
  BY <1>a, <1>b DEF ReturnInv, ReturnTypeOK, HandlerFits
<1>11. ChunkIsIntact'
  BY <1>a, <1>b, <1>c, <1>d DEF ReturnInv, ReturnTypeOK, Triples, ChunkIsIntact, OnMain, Main
<1>12. LanesCounted'
  <2> SUFFICES ASSUME NEW u \in Workers
               PROVE  Lanes(u)' <= LanesPerWorker
    BY DEF LanesCounted
  <2>1. freeLanes'[u] = freeLanes[u] /\ FromWorker(u, posted)' = FromWorker(u, posted)
    BY <1>c DEF FromWorker
  <2>2. Lanes(u) <= LanesPerWorker /\ IsFiniteSet(assigned[u]) /\ IsFiniteSet(filling[u])
        /\ IsFiniteSet(FromWorker(u, posted)) /\ freeLanes[u] \in Nat
    BY LanesAreFinite, PoolAssumption DEF ReturnInv, LanesCounted, ReturnTypeOK
  <2>3. /\ Cardinality(assigned[u]) \in Nat /\ Cardinality(filling[u]) \in Nat
        /\ Cardinality(FromWorker(u, posted)) \in Nat
    BY <2>2, FS_CardinalityType
  <2>4. CASE u = w
    <3>1. assigned'[u] = assigned[u] \ {p} /\ filling'[u] = filling[u] \cup {<<p, b>>}
      BY <1>a, <1>c, <2>4 DEF ReturnInv, ReturnTypeOK
    <3>2. /\ Cardinality(filling[u] \cup {<<p, b>>}) <= Cardinality(filling[u]) + 1
          /\ Cardinality(filling[u] \cup {<<p, b>>}) \in Nat
      BY <2>2, AddedSize
    <3>3. Cardinality(assigned[u] \ {p}) = Cardinality(assigned[u]) - 1
      BY <2>2, <2>4, RemovedSize
    <3> QED
      BY <2>1, <2>2, <2>3, <3>1, <3>2, <3>3, PoolAssumption DEF Lanes
  <2>5. CASE u # w
    <3>1. assigned'[u] = assigned[u] /\ filling'[u] = filling[u]
      BY <1>a, <1>c, <2>5 DEF ReturnInv, ReturnTypeOK
    <3> QED
      BY <2>1, <2>2, <3>1 DEF Lanes
  <2> QED
    BY <2>4, <2>5
<1> QED
  BY <1>1, <1>2, <1>3, <1>4, <1>5, <1>6, <1>7, <1>8, <1>9, <1>10, <1>11, <1>12 DEF ReturnInv, Ownership

LEMMA PostPartKeepsInv ==
  ASSUME ReturnInv, NEW w \in Workers, NEW x \in filling[w], PostPart(w, x[1], x[2])
  PROVE  ReturnInv'
<1> USE DEF mainVars
<1>a. /\ x = <<x[1], x[2]>> /\ x[1] \in Parts /\ x[2] \in Parts
      /\ filling' = [filling EXCEPT ![w] = @ \ {x}]
      /\ posted' = posted \cup {<<x[1], x[2], w>>}
      /\ UNCHANGED <<todo, freeLanes, assigned, returnedBufs, heldBuffers, chunks, detached, returning, peak>>
  <2>1. filling[w] \subseteq Parts \X Parts
    BY DEF ReturnInv, ReturnTypeOK
  <2>2. x = <<x[1], x[2]>> /\ x[1] \in Parts /\ x[2] \in Parts
    BY <2>1
  <2>3. <<x[1], x[2]>> = x
    BY <2>2
  <2> QED
    BY <2>2, <2>3 DEF PostPart
<1>b. contents' = [contents EXCEPT ![x[2]] = {x[1]}]
  BY <1>a DEF ReturnInv, HandlerFits, PostPart
<1>c. WithHandler(w, x[2]) /\ ~OnMain(x[2]) /\ \A v \in Workers : ~OnList(v, x[2])
  BY <1>a DEF ReturnInv, Ownership, HandlerNotMain, ListNotUsed, WithHandler
<1>1. ReturnTypeOK'
  BY DEF ReturnInv, Ownership, PostPart, ReturnTypeOK, Triples
<1>2. AssignedOnce'
  BY DEF ReturnInv, Ownership, PostPart, ReturnTypeOK, Triples, AssignedOnce
<1>3. FreshUnused'
  BY DEF ReturnInv, Ownership, PostPart, ReturnTypeOK, Triples, FreshUnused, Fresh, OnMain, WithHandler, OnList, Main
<1>4. HandlersApart'
  BY DEF ReturnInv, Ownership, PostPart, ReturnTypeOK, Triples, HandlersApart
<1>5. ChunksApart'
  BY <1>a, <1>c DEF ReturnInv, Ownership, ChunksApart, OnMain, Main
<1>6. HandlerNotMain'
  <2>1. \A v \in Workers : ~WithHandler(v, x[2])'
    BY <1>a DEF ReturnInv, Ownership, ReturnTypeOK, HandlersApart, WithHandler
  <2>2. \A v \in Workers, b \in Parts : WithHandler(v, b)' => WithHandler(v, b)
    BY <1>a DEF ReturnInv, ReturnTypeOK, WithHandler
  <2>3. \A b \in Parts : OnMain(b)' => OnMain(b) \/ b = x[2]
    BY <1>a DEF OnMain, Main
  <2> QED
    BY <2>1, <2>2, <2>3 DEF ReturnInv, Ownership, HandlerNotMain
<1>7. ListNotUsed'
  BY DEF ReturnInv, Ownership, PostPart, ReturnTypeOK, Triples, ListNotUsed, OnList, WithHandler, OnMain, Main
<1>8. ListsApart'
  BY DEF ReturnInv, Ownership, PostPart, ReturnTypeOK, Triples, ListsApart, OnList
<1>9. MainApart'
  BY <1>a, <1>c DEF ReturnInv, Ownership, MainApart, OnMain, Main
<1>10. HandlerFits'
  BY DEF ReturnInv, Ownership, PostPart, ReturnTypeOK, Triples, HandlerFits
<1>11. ChunkIsIntact'
  BY <1>a, <1>b, <1>c DEF ReturnInv, ReturnTypeOK, Triples, ChunkIsIntact, OnMain, Main
<1>12. LanesCounted'
  <2> SUFFICES ASSUME NEW u \in Workers
               PROVE  Lanes(u)' <= LanesPerWorker
    BY DEF LanesCounted
  <2>1. freeLanes'[u] = freeLanes[u] /\ assigned'[u] = assigned[u]
    BY <1>a
  <2>2. Lanes(u) <= LanesPerWorker /\ IsFiniteSet(assigned[u]) /\ IsFiniteSet(filling[u])
        /\ IsFiniteSet(FromWorker(u, posted)) /\ freeLanes[u] \in Nat
    BY LanesAreFinite, PoolAssumption DEF ReturnInv, LanesCounted, ReturnTypeOK
  <2>3. /\ Cardinality(assigned[u]) \in Nat /\ Cardinality(filling[u]) \in Nat
        /\ Cardinality(FromWorker(u, posted)) \in Nat
    BY <2>2, FS_CardinalityType
  <2>4. CASE u = w
    <3> DEFINE m == <<x[1], x[2], w>>
    <3>1. filling'[u] = filling[u] \ {x} /\ FromWorker(u, posted)' = FromWorker(u, posted) \cup {m}
      BY <1>a, <2>4 DEF ReturnInv, ReturnTypeOK, FromWorker
    <3> HIDE DEF m
    <3>2. /\ Cardinality(FromWorker(u, posted) \cup {m}) <= Cardinality(FromWorker(u, posted)) + 1
          /\ Cardinality(FromWorker(u, posted) \cup {m}) \in Nat
      BY <2>2, AddedSize
    <3>3. Cardinality(filling[u] \ {x}) = Cardinality(filling[u]) - 1
      BY <2>2, <2>4, RemovedSize
    <3> QED
      BY <2>1, <2>2, <2>3, <3>1, <3>2, <3>3, PoolAssumption DEF Lanes
  <2>5. CASE u # w
    <3>1. filling'[u] = filling[u] /\ FromWorker(u, posted)' = FromWorker(u, posted)
      BY <1>a, <2>5 DEF ReturnInv, ReturnTypeOK, FromWorker
    <3> QED
      BY <2>1, <2>2, <3>1 DEF Lanes
  <2> QED
    BY <2>4, <2>5
<1> QED
  BY <1>1, <1>2, <1>3, <1>4, <1>5, <1>6, <1>7, <1>8, <1>9, <1>10, <1>11, <1>12 DEF ReturnInv, Ownership

LEMMA PartFailsKeepsInv ==
  ASSUME ReturnInv, NEW w \in Workers, NEW x \in filling[w], PartFails(w, x[1], x[2])
  PROVE  ReturnInv'
<1> USE DEF mainVars
<1>1. ReturnTypeOK'
  BY DEF ReturnInv, Ownership, PartFails, ReturnTypeOK, Triples
<1>2. AssignedOnce'
  BY DEF ReturnInv, Ownership, PartFails, ReturnTypeOK, Triples, AssignedOnce
<1>3. FreshUnused'
  BY DEF ReturnInv, Ownership, PartFails, ReturnTypeOK, Triples, FreshUnused, Fresh, OnMain, WithHandler, OnList, Main
<1>4. HandlersApart'
  BY DEF ReturnInv, Ownership, PartFails, ReturnTypeOK, Triples, HandlersApart
<1>5. ChunksApart'
  BY DEF ReturnInv, Ownership, PartFails, ReturnTypeOK, Triples, ChunksApart, Main
<1>6. HandlerNotMain'
  BY DEF ReturnInv, Ownership, PartFails, ReturnTypeOK, Triples, HandlerNotMain, WithHandler, OnMain, Main
<1>7. ListNotUsed'
  BY DEF ReturnInv, Ownership, PartFails, ReturnTypeOK, Triples, ListNotUsed, OnList, WithHandler, OnMain, Main
<1>8. ListsApart'
  BY DEF ReturnInv, Ownership, PartFails, ReturnTypeOK, Triples, ListsApart, OnList
<1>9. MainApart'
  BY DEF ReturnInv, Ownership, PartFails, ReturnTypeOK, Triples, MainApart, Main
<1>10. HandlerFits'
  BY DEF ReturnInv, Ownership, PartFails, ReturnTypeOK, Triples, HandlerFits
<1>11. ChunkIsIntact'
  BY DEF ReturnInv, Ownership, PartFails, ReturnTypeOK, Triples, ChunkIsIntact, Main
<1>12. LanesCounted'
  <2> SUFFICES ASSUME NEW u \in Workers
               PROVE  Lanes(u)' <= LanesPerWorker
    BY DEF LanesCounted
  <2>1. /\ freeLanes'[u] = freeLanes[u] /\ assigned'[u] = assigned[u]
        /\ FromWorker(u, posted)' = FromWorker(u, posted)
    BY DEF PartFails, FromWorker
  <2>2. Lanes(u) <= LanesPerWorker /\ IsFiniteSet(assigned[u]) /\ IsFiniteSet(filling[u])
        /\ IsFiniteSet(FromWorker(u, posted)) /\ freeLanes[u] \in Nat
    BY LanesAreFinite, PoolAssumption DEF ReturnInv, LanesCounted, ReturnTypeOK
  <2>3. /\ Cardinality(assigned[u]) \in Nat /\ Cardinality(filling[u]) \in Nat
        /\ Cardinality(FromWorker(u, posted)) \in Nat
    BY <2>2, FS_CardinalityType
  <2>4. filling'[u] \subseteq filling[u]
    BY DEF PartFails, ReturnInv, ReturnTypeOK
  <2>5. Cardinality(filling'[u]) <= Cardinality(filling[u]) /\ Cardinality(filling'[u]) \in Nat
    BY <2>2, <2>4, FS_Subset, FS_CardinalityType
  <2> QED
    BY <2>1, <2>2, <2>3, <2>5, PoolAssumption DEF Lanes
<1> QED
  BY <1>1, <1>2, <1>3, <1>4, <1>5, <1>6, <1>7, <1>8, <1>9, <1>10, <1>11, <1>12 DEF ReturnInv, Ownership

LEMMA PartArrivesKeepsInv ==
  ASSUME ReturnInv, NEW m \in posted, PartArrives(m)
  PROVE  ReturnInv'
<1> USE DEF mainVars
<1>a. /\ m[3] \in Workers
      /\ freeLanes' = [freeLanes EXCEPT ![m[3]] = @ + 1]
      /\ posted' = posted \ {m} /\ UNCHANGED <<assigned, filling>>
  BY DEF ReturnInv, ReturnTypeOK, Triples, PartArrives
<1>b. freeLanes[m[3]] + 1 <= LanesPerWorker
  <2> DEFINE w == m[3]
  <2>1. m \in FromWorker(w, posted)
    BY DEF FromWorker
  <2> HIDE DEF w
  <2>2. w \in Workers
    BY <1>a DEF w
  <2>3. Lanes(w) <= LanesPerWorker /\ IsFiniteSet(assigned[w]) /\ IsFiniteSet(filling[w])
        /\ IsFiniteSet(FromWorker(w, posted)) /\ freeLanes[w] \in Nat
    BY <2>2, LanesAreFinite, PoolAssumption DEF ReturnInv, LanesCounted, ReturnTypeOK
  <2>4. /\ Cardinality(assigned[w]) \in Nat /\ Cardinality(filling[w]) \in Nat
        /\ Cardinality(FromWorker(w, posted)) \in Nat
    BY <2>3, FS_CardinalityType
  <2>5. Cardinality(FromWorker(w, posted) \ {m}) = Cardinality(FromWorker(w, posted)) - 1
        /\ Cardinality(FromWorker(w, posted) \ {m}) \in Nat
    BY <2>1, <2>3, RemovedSize
  <2>6. freeLanes[w] + 1 <= LanesPerWorker
    BY <2>3, <2>4, <2>5, PoolAssumption DEF Lanes
  <2> QED
    BY <2>6 DEF w
<1>1. ReturnTypeOK'
  <2>1. freeLanes' \in [Workers -> 0 .. LanesPerWorker]
    BY <1>a, <1>b, PoolAssumption DEF ReturnInv, ReturnTypeOK
  <2> QED
    BY <2>1 DEF ReturnInv, PartArrives, ReturnTypeOK, Triples
<1>2. AssignedOnce'
  BY DEF ReturnInv, Ownership, PartArrives, ReturnTypeOK, Triples, AssignedOnce
<1>3. FreshUnused'
  BY DEF ReturnInv, Ownership, PartArrives, ReturnTypeOK, Triples, FreshUnused, Fresh, OnMain, WithHandler, OnList, Main
<1>4. HandlersApart'
  BY DEF ReturnInv, Ownership, PartArrives, ReturnTypeOK, Triples, HandlersApart
<1>5. ChunksApart'
  BY DEF ReturnInv, Ownership, PartArrives, ReturnTypeOK, Triples, ChunksApart, Main
<1>6. HandlerNotMain'
  BY DEF ReturnInv, Ownership, PartArrives, ReturnTypeOK, Triples, HandlerNotMain, WithHandler, OnMain, Main
<1>7. ListNotUsed'
  BY DEF ReturnInv, Ownership, PartArrives, ReturnTypeOK, Triples, ListNotUsed, OnList, WithHandler, OnMain, Main
<1>8. ListsApart'
  BY DEF ReturnInv, Ownership, PartArrives, ReturnTypeOK, Triples, ListsApart, OnList
<1>9. MainApart'
  BY DEF ReturnInv, Ownership, PartArrives, ReturnTypeOK, Triples, MainApart, Main
<1>10. HandlerFits'
  BY DEF ReturnInv, Ownership, PartArrives, ReturnTypeOK, Triples, HandlerFits
<1>11. ChunkIsIntact'
  BY DEF ReturnInv, Ownership, PartArrives, ReturnTypeOK, Triples, ChunkIsIntact, Main
<1>12. LanesCounted'
  <2> SUFFICES ASSUME NEW u \in Workers
               PROVE  Lanes(u)' <= LanesPerWorker
    BY DEF LanesCounted
  <2>1. filling'[u] = filling[u] /\ assigned'[u] = assigned[u]
    BY <1>a
  <2>2. Lanes(u) <= LanesPerWorker /\ IsFiniteSet(assigned[u]) /\ IsFiniteSet(filling[u])
        /\ IsFiniteSet(FromWorker(u, posted)) /\ freeLanes[u] \in Nat
    BY LanesAreFinite, PoolAssumption DEF ReturnInv, LanesCounted, ReturnTypeOK
  <2>3. /\ Cardinality(assigned[u]) \in Nat /\ Cardinality(filling[u]) \in Nat
        /\ Cardinality(FromWorker(u, posted)) \in Nat
    BY <2>2, FS_CardinalityType
  <2>4. CASE u = m[3]
    <3>1. freeLanes'[u] = freeLanes[u] + 1 /\ FromWorker(u, posted)' = FromWorker(u, posted) \ {m}
          /\ m \in FromWorker(u, posted)
      BY <1>a, <2>4 DEF ReturnInv, ReturnTypeOK, FromWorker
    <3>2. Cardinality(FromWorker(u, posted) \ {m}) = Cardinality(FromWorker(u, posted)) - 1
      BY <2>2, <3>1, RemovedSize
    <3> QED
      BY <2>1, <2>2, <2>3, <3>1, <3>2, PoolAssumption DEF Lanes
  <2>5. CASE u # m[3]
    <3>1. freeLanes'[u] = freeLanes[u] /\ FromWorker(u, posted)' = FromWorker(u, posted)
      BY <1>a, <2>5 DEF ReturnInv, ReturnTypeOK, FromWorker
    <3> QED
      BY <2>1, <2>2, <3>1 DEF Lanes
  <2> QED
    BY <2>4, <2>5
<1> QED
  BY <1>1, <1>2, <1>3, <1>4, <1>5, <1>6, <1>7, <1>8, <1>9, <1>10, <1>11, <1>12 DEF ReturnInv, Ownership

LEMMA DeliverKeepsInv ==
  ASSUME ReturnInv, NEW m \in heldBuffers, Deliver(m)
  PROVE  ReturnInv'
<1> USE DEF mainVars
<1>1. ReturnTypeOK'
  BY DEF ReturnInv, Ownership, Deliver, ReturnTypeOK, Triples
<1>2. AssignedOnce'
  BY DEF ReturnInv, Ownership, Deliver, ReturnTypeOK, Triples, AssignedOnce
<1>3. FreshUnused'
  BY DEF ReturnInv, Ownership, Deliver, ReturnTypeOK, Triples, FreshUnused, Fresh, OnMain, WithHandler, OnList, Main
<1>4. HandlersApart'
  BY DEF ReturnInv, Ownership, Deliver, ReturnTypeOK, Triples, HandlersApart
<1>5. ChunksApart'
  BY DEF ReturnInv, Ownership, Deliver, ReturnTypeOK, Triples, ChunksApart, Main
<1>6. HandlerNotMain'
  BY DEF ReturnInv, Ownership, Deliver, ReturnTypeOK, Triples, HandlerNotMain, WithHandler, OnMain, Main
<1>7. ListNotUsed'
  BY DEF ReturnInv, Ownership, Deliver, ReturnTypeOK, Triples, ListNotUsed, OnList, WithHandler, OnMain, Main
<1>8. ListsApart'
  BY DEF ReturnInv, Ownership, Deliver, ReturnTypeOK, Triples, ListsApart, OnList
<1>9. MainApart'
  BY DEF ReturnInv, Ownership, Deliver, ReturnTypeOK, Triples, MainApart, Main
<1>10. HandlerFits'
  BY DEF ReturnInv, Ownership, Deliver, ReturnTypeOK, Triples, HandlerFits
<1>11. ChunkIsIntact'
  BY DEF ReturnInv, Ownership, Deliver, ReturnTypeOK, Triples, ChunkIsIntact, Main
<1>12. LanesCounted'
  BY DEF ReturnInv, Ownership, Deliver, ReturnTypeOK, Triples, LanesCounted, Lanes, FromWorker
<1> QED
  BY <1>1, <1>2, <1>3, <1>4, <1>5, <1>6, <1>7, <1>8, <1>9, <1>10, <1>11, <1>12 DEF ReturnInv, Ownership

LEMMA RecycleKeepsInv ==
  ASSUME ReturnInv, NEW m \in chunks, Recycle(m)
  PROVE  ReturnInv'
<1> USE DEF mainVars
<1>a. /\ m[2] \in Parts /\ m[3] \in Workers /\ m \in Main
      /\ chunks' = chunks \ {m}
      /\ returning' = [returning EXCEPT ![m[3]] = @ \cup {m[2]}]
      /\ UNCHANGED <<todo, freeLanes, assigned, filling, returnedBufs, posted, heldBuffers, contents, peak>>
  BY DEF ReturnInv, ReturnTypeOK, Triples, Recycle, Transfers, HomeOf, Main
<1>b. OnMain(m[2]) /\ (\A v \in Workers : ~OnList(v, m[2]) /\ ~WithHandler(v, m[2])) /\ ~OnMain(m[2])'
  BY <1>a DEF ReturnInv, Ownership, ListNotUsed, HandlerNotMain, ChunksApart, MainApart, OnMain, Main
<1>1. ReturnTypeOK'
  BY DEF ReturnInv, Ownership, Recycle, ReturnTypeOK, Triples
<1>2. AssignedOnce'
  BY DEF ReturnInv, Ownership, Recycle, ReturnTypeOK, Triples, AssignedOnce
<1>3. FreshUnused'
  BY DEF ReturnInv, Ownership, Recycle, ReturnTypeOK, Triples, FreshUnused, Fresh, OnMain, WithHandler, OnList, Main
<1>4. HandlersApart'
  BY DEF ReturnInv, Ownership, Recycle, ReturnTypeOK, Triples, HandlersApart
<1>5. ChunksApart'
  BY DEF ReturnInv, Ownership, Recycle, ReturnTypeOK, Triples, ChunksApart, Main
<1>6. HandlerNotMain'
  BY DEF ReturnInv, Ownership, Recycle, ReturnTypeOK, Triples, HandlerNotMain, WithHandler, OnMain, Main
<1>7. ListNotUsed'
  <2>1. \A v \in Workers, b \in Parts : OnList(v, b)' => OnList(v, b) \/ b = m[2]
    BY <1>a DEF OnList, ReturnInv, ReturnTypeOK
  <2>2. \A b \in Parts : OnMain(b)' => OnMain(b)
    BY <1>a DEF OnMain, Main
  <2>3. \A v \in Workers, b \in Parts : WithHandler(v, b)' = WithHandler(v, b)
    BY <1>a DEF WithHandler
  <2> QED
    BY <1>b, <2>1, <2>2, <2>3 DEF ReturnInv, Ownership, ListNotUsed
<1>8. ListsApart'
  BY <1>a, <1>b DEF ReturnInv, Ownership, ReturnTypeOK, ListsApart, OnList
<1>9. MainApart'
  BY DEF ReturnInv, Ownership, Recycle, ReturnTypeOK, Triples, MainApart, Main
<1>10. HandlerFits'
  BY DEF ReturnInv, Ownership, Recycle, ReturnTypeOK, Triples, HandlerFits
<1>11. ChunkIsIntact'
  BY DEF ReturnInv, Ownership, Recycle, ReturnTypeOK, Triples, ChunkIsIntact, Main
<1>12. LanesCounted'
  BY DEF ReturnInv, Ownership, Recycle, ReturnTypeOK, Triples, LanesCounted, Lanes, FromWorker
<1> QED
  BY <1>1, <1>2, <1>3, <1>4, <1>5, <1>6, <1>7, <1>8, <1>9, <1>10, <1>11, <1>12 DEF ReturnInv, Ownership

LEMMA DropKeepsInv ==
  ASSUME ReturnInv, NEW m \in chunks, Drop(m)
  PROVE  ReturnInv'
<1> USE DEF mainVars
<1>1. ReturnTypeOK'
  BY DEF ReturnInv, Ownership, Drop, ReturnTypeOK, Triples
<1>2. AssignedOnce'
  BY DEF ReturnInv, Ownership, Drop, ReturnTypeOK, Triples, AssignedOnce
<1>3. FreshUnused'
  BY DEF ReturnInv, Ownership, Drop, ReturnTypeOK, Triples, FreshUnused, Fresh, OnMain, WithHandler, OnList, Main
<1>4. HandlersApart'
  BY DEF ReturnInv, Ownership, Drop, ReturnTypeOK, Triples, HandlersApart
<1>5. ChunksApart'
  BY DEF ReturnInv, Ownership, Drop, ReturnTypeOK, Triples, ChunksApart, Main
<1>6. HandlerNotMain'
  BY DEF ReturnInv, Ownership, Drop, ReturnTypeOK, Triples, HandlerNotMain, WithHandler, OnMain, Main
<1>7. ListNotUsed'
  BY DEF ReturnInv, Ownership, Drop, ReturnTypeOK, Triples, ListNotUsed, OnList, WithHandler, OnMain, Main
<1>8. ListsApart'
  BY DEF ReturnInv, Ownership, Drop, ReturnTypeOK, Triples, ListsApart, OnList
<1>9. MainApart'
  BY DEF ReturnInv, Ownership, Drop, ReturnTypeOK, Triples, MainApart, Main
<1>10. HandlerFits'
  BY DEF ReturnInv, Ownership, Drop, ReturnTypeOK, Triples, HandlerFits
<1>11. ChunkIsIntact'
  BY DEF ReturnInv, Ownership, Drop, ReturnTypeOK, Triples, ChunkIsIntact, Main
<1>12. LanesCounted'
  BY DEF ReturnInv, Ownership, Drop, ReturnTypeOK, Triples, LanesCounted, Lanes, FromWorker
<1> QED
  BY <1>1, <1>2, <1>3, <1>4, <1>5, <1>6, <1>7, <1>8, <1>9, <1>10, <1>11, <1>12 DEF ReturnInv, Ownership

LEMMA ReturnedKeepsInv ==
  ASSUME ReturnInv, NEW w \in Workers, NEW b \in returning[w], Returned(w, b)
  PROVE  ReturnInv'
<1> USE DEF mainVars
<1>1. ReturnTypeOK'
  BY DEF ReturnInv, Ownership, Returned, ReturnTypeOK, Triples
<1>2. AssignedOnce'
  BY DEF ReturnInv, Ownership, Returned, ReturnTypeOK, Triples, AssignedOnce
<1>3. FreshUnused'
  BY DEF ReturnInv, Ownership, Returned, ReturnTypeOK, Triples, FreshUnused, Fresh, OnMain, WithHandler, OnList, Main
<1>4. HandlersApart'
  BY DEF ReturnInv, Ownership, Returned, ReturnTypeOK, Triples, HandlersApart
<1>5. ChunksApart'
  BY DEF ReturnInv, Ownership, Returned, ReturnTypeOK, Triples, ChunksApart, Main
<1>6. HandlerNotMain'
  BY DEF ReturnInv, Ownership, Returned, ReturnTypeOK, Triples, HandlerNotMain, WithHandler, OnMain, Main
<1>7. ListNotUsed'
  BY DEF ReturnInv, Ownership, Returned, ReturnTypeOK, Triples, ListNotUsed, OnList, WithHandler, OnMain, Main
<1>8. ListsApart'
  BY DEF ReturnInv, Ownership, Returned, ReturnTypeOK, Triples, ListsApart, OnList
<1>9. MainApart'
  BY DEF ReturnInv, Ownership, Returned, ReturnTypeOK, Triples, MainApart, Main
<1>10. HandlerFits'
  BY DEF ReturnInv, Ownership, Returned, ReturnTypeOK, Triples, HandlerFits
<1>11. ChunkIsIntact'
  BY DEF ReturnInv, Ownership, Returned, ReturnTypeOK, Triples, ChunkIsIntact, Main
<1>12. LanesCounted'
  BY DEF ReturnInv, Ownership, Returned, ReturnTypeOK, Triples, LanesCounted, Lanes, FromWorker
<1> QED
  BY <1>1, <1>2, <1>3, <1>4, <1>5, <1>6, <1>7, <1>8, <1>9, <1>10, <1>11, <1>12 DEF ReturnInv, Ownership

LEMMA InitEstablishesReturnInv == ReturnInit => ReturnInv
<1> SUFFICES ASSUME ReturnInit PROVE ReturnInv
  OBVIOUS
<1>1. ReturnTypeOK
  BY PoolAssumption DEF ReturnInit, ReturnTypeOK, Triples
<1>2. Ownership
  BY DEF ReturnInit, Ownership, AssignedOnce, FreshUnused, HandlersApart, ChunksApart, HandlerNotMain,
         ListNotUsed, ListsApart, MainApart, OnMain, OnList, WithHandler, Main
<1>3. HandlerFits /\ ChunkIsIntact
  BY DEF ReturnInit, HandlerFits, ChunkIsIntact, Main
<1>4. LanesCounted
  <2> SUFFICES ASSUME NEW w \in Workers PROVE Lanes(w) <= LanesPerWorker
    BY DEF LanesCounted
  <2>1. /\ assigned[w] = {} /\ filling[w] = {} /\ FromWorker(w, posted) = {}
        /\ freeLanes[w] = LanesPerWorker
    BY DEF ReturnInit, FromWorker
  <2>2. Cardinality({}) = 0
    BY FS_EmptySet
  <2> QED
    BY <2>1, <2>2, PoolAssumption DEF Lanes
<1> QED
  BY <1>1, <1>2, <1>3, <1>4 DEF ReturnInv

LEMMA ReturnStepKeepsInv == ReturnInv /\ [ReturnNext]_returnVars => ReturnInv'
<1> SUFFICES ASSUME ReturnInv, [ReturnNext]_returnVars PROVE ReturnInv'
  OBVIOUS
<1>1. ASSUME NEW w \in Workers, WorkerStep(w) PROVE ReturnInv'
  <2>1. ASSUME NEW p \in todo, AssignPart(w, p) PROVE ReturnInv'
    BY <2>1, AssignKeepsInv
  <2>2. ASSUME NEW p \in assigned[w], StartPart(w, p) PROVE ReturnInv'
    BY <2>2, StartPartKeepsInv
  <2>3. ASSUME NEW x \in filling[w], PostPart(w, x[1], x[2]) PROVE ReturnInv'
    BY <2>3, PostPartKeepsInv
  <2>4. ASSUME NEW x \in filling[w], PartFails(w, x[1], x[2]) PROVE ReturnInv'
    BY <2>4, PartFailsKeepsInv
  <2>5. ASSUME NEW b \in returning[w], Returned(w, b) PROVE ReturnInv'
    BY <2>5, ReturnedKeepsInv
  <2> QED
    BY <1>1, <2>1, <2>2, <2>3, <2>4, <2>5 DEF WorkerStep
<1>2. ASSUME MainStep PROVE ReturnInv'
  <2>1. ASSUME NEW m \in posted, PartArrives(m) PROVE ReturnInv'
    BY <2>1, PartArrivesKeepsInv
  <2>2. ASSUME NEW m \in heldBuffers, Deliver(m) PROVE ReturnInv'
    BY <2>2, DeliverKeepsInv
  <2>3. ASSUME NEW m \in chunks \cup detached, Recycle(m) PROVE ReturnInv'
    <3>1. m \in chunks
      BY <2>3 DEF Recycle, Transfers
    <3> QED
      BY <2>3, <3>1, RecycleKeepsInv
  <2>4. ASSUME NEW m \in chunks, Drop(m) PROVE ReturnInv'
    BY <2>4, DropKeepsInv
  <2> QED
    BY <1>2, <2>1, <2>2, <2>3, <2>4 DEF MainStep
<1>3. CASE UNCHANGED returnVars
  BY <1>3 DEF returnVars, mainVars, ReturnInv, ReturnTypeOK, Triples, Ownership, AssignedOnce, FreshUnused, Fresh,
              HandlersApart, ChunksApart, HandlerNotMain, ListNotUsed, ListsApart, MainApart,
              OnMain, OnList, WithHandler, Main, HandlerFits, ChunkIsIntact, LanesCounted, Lanes,
              FromWorker
<1> QED
  BY <1>1, <1>2, <1>3 DEF ReturnNext

-----------------------------------------------------------------------------
(* How many buffers of one size a worker has.                                *)
Have(w) == InUse(w) \cup returnedBufs[w]
OfSize(w, n) == {b \in Have(w) : BytesOf[b] = n}

LEMMA BuffersAreFinite ==
  ASSUME ReturnTypeOK, NEW w \in Workers
  PROVE  InUse(w) \subseteq Parts /\ Have(w) \subseteq Parts /\ IsFiniteSet(Have(w))
<1>1. InUse(w) \subseteq Parts /\ Have(w) \subseteq Parts
  BY DEF ReturnTypeOK, InUse, Have, Second, FromWorker, Main, Triples
<1> QED
  BY <1>1, PartsAssumption, FS_Subset

LEMMA SecondOfMore ==
  ASSUME NEW pairs, NEW p, NEW b
  PROVE  Second(pairs \cup {<<p, b>>}) = Second(pairs) \cup {b}
<1>1. ASSUME NEW c \in Second(pairs \cup {<<p, b>>}) PROVE c \in Second(pairs) \cup {b}
  <2>1. PICK x \in pairs \cup {<<p, b>>} : c = x[2]
    BY DEF Second
  <2>2. CASE x \in pairs
    BY <2>1, <2>2 DEF Second
  <2>3. CASE x = <<p, b>>
    BY <2>1, <2>3
  <2> QED
    BY <2>2, <2>3
<1>2. b \in Second(pairs \cup {<<p, b>>})
  <2>1. <<p, b>> \in pairs \cup {<<p, b>>} /\ <<p, b>>[2] = b
    OBVIOUS
  <2> QED
    BY <2>1, Zenon DEF Second
<1>3. Second(pairs) \subseteq Second(pairs \cup {<<p, b>>})
  BY DEF Second
<1> QED
  BY <1>1, <1>2, <1>3

(* Only the start of a part can add a buffer to those a worker has.          *)
LEMMA HaveShrinks ==
  ASSUME ReturnInv, ReturnNext, NEW u \in Workers,
         ~\E w \in Workers : \E p \in assigned[w] : StartPart(w, p)
  PROVE  Have(u)' \subseteq Have(u) /\ peak'[u] = peak[u]
<1> USE DEF Have, InUse, Second, FromWorker, Main, mainVars
<1>1. ASSUME NEW w \in Workers, WorkerStep(w)
      PROVE  Have(u)' \subseteq Have(u) /\ peak'[u] = peak[u]
  <2>1. ASSUME NEW p \in todo, AssignPart(w, p) PROVE Have(u)' \subseteq Have(u) /\ peak'[u] = peak[u]
    BY <2>1 DEF AssignPart
  <2>2. ASSUME NEW x \in filling[w], PostPart(w, x[1], x[2])
        PROVE  Have(u)' \subseteq Have(u) /\ peak'[u] = peak[u]
    BY <2>2 DEF PostPart, ReturnInv, ReturnTypeOK
  <2>3. ASSUME NEW x \in filling[w], PartFails(w, x[1], x[2])
        PROVE  Have(u)' \subseteq Have(u) /\ peak'[u] = peak[u]
    BY <2>3 DEF PartFails, ReturnInv, ReturnTypeOK
  <2>4. ASSUME NEW b \in returning[w], Returned(w, b)
        PROVE  Have(u)' \subseteq Have(u) /\ peak'[u] = peak[u]
    BY <2>4 DEF Returned, ReturnInv, ReturnTypeOK
  <2> QED
    BY <1>1, <2>1, <2>2, <2>3, <2>4 DEF WorkerStep
<1>2. ASSUME MainStep PROVE Have(u)' \subseteq Have(u) /\ peak'[u] = peak[u]
  <2>1. ASSUME NEW m \in posted, PartArrives(m)
        PROVE  Have(u)' \subseteq Have(u) /\ peak'[u] = peak[u]
    BY <2>1 DEF PartArrives
  <2>2. ASSUME NEW m \in heldBuffers, Deliver(m)
        PROVE  Have(u)' \subseteq Have(u) /\ peak'[u] = peak[u]
    BY <2>2 DEF Deliver
  <2>3. ASSUME NEW m \in chunks \cup detached, Recycle(m)
        PROVE  Have(u)' \subseteq Have(u) /\ peak'[u] = peak[u]
    BY <2>3 DEF Recycle, Transfers, HomeOf, ReturnInv, ReturnTypeOK
  <2>4. ASSUME NEW m \in chunks, Drop(m)
        PROVE  Have(u)' \subseteq Have(u) /\ peak'[u] = peak[u]
    BY <2>4 DEF Drop
  <2> QED
    BY <1>2, <2>1, <2>2, <2>3, <2>4 DEF MainStep
<1> QED
  BY <1>1, <1>2 DEF ReturnNext

(* A part that is started adds one only when none on the list is as large as *)
(* the part, and then no buffer of its size is left unused.                  *)
LEMMA StartKeepsAllocation ==
  ASSUME ReturnInv, AllocationBounded, NEW w \in Workers, NEW p \in assigned[w], StartPart(w, p)
  PROVE  AllocationBounded'
<1>1. PICK b \in IF LargeEnough(w, p) = {} THEN {p} ELSE LargeEnough(w, p) :
        /\ filling' = [filling EXCEPT ![w] = @ \cup {<<p, b>>}]
        /\ returnedBufs' = [returnedBufs EXCEPT ![w] = @ \ {b}]
        /\ peak' = [peak EXCEPT ![w] = IF Cardinality(InUse(w) \cup {b}) > @
                                       THEN Cardinality(InUse(w) \cup {b}) ELSE @]
  BY DEF StartPart, TakenFromList
<1>2. UNCHANGED <<posted, heldBuffers, chunks, returning>> /\ ReturnTypeOK
  BY DEF StartPart, mainVars, ReturnInv
<1>3. b \in Parts
  BY <1>1 DEF ReturnInv, ReturnTypeOK, LargeEnough
<1>4. InUse(w)' = InUse(w) \cup {b} /\ Have(w)' = Have(w) \cup {b}
  <2>1. filling'[w] = filling[w] \cup {<<p, b>>} /\ returnedBufs'[w] = returnedBufs[w] \ {b}
    BY <1>1, <1>2 DEF ReturnTypeOK
  <2>2. Second(filling'[w]) = Second(filling[w]) \cup {b}
    <3>1. Second(filling[w] \cup {<<p, b>>}) = Second(filling[w]) \cup {b}
      BY SecondOfMore, Zenon
    <3> QED
      BY <2>1, <3>1
  <2>3. Second(FromWorker(w, Main))' = Second(FromWorker(w, Main)) /\ returning'[w] = returning[w]
    BY <1>2 DEF Second, FromWorker, Main
  <2>4. InUse(w)' = InUse(w) \cup {b}
    BY <2>2, <2>3 DEF InUse
  <2> QED
    BY <2>1, <2>4 DEF Have
<1>5. \A u \in Workers \ {w} : Have(u)' = Have(u) /\ peak'[u] = peak[u]
  BY <1>1, <1>2 DEF ReturnTypeOK, InUse, Have, Second, FromWorker, Main
<1>6. /\ IsFiniteSet(Have(w)) /\ IsFiniteSet(InUse(w) \cup {b})
      /\ Cardinality(InUse(w) \cup {b}) \in Nat
  <2>1. Have(w) \subseteq Parts /\ InUse(w) \cup {b} \subseteq Parts
    BY <1>2, <1>3, BuffersAreFinite
  <2> QED
    BY <2>1, PartsAssumption, FS_Subset, FS_CardinalityType
<1>7. peak[w] \in Nat /\ peak'[w] \in Nat /\ peak[w] <= peak'[w]
      /\ Cardinality(InUse(w) \cup {b}) <= peak'[w]
  <2>1. peak'[w] = IF Cardinality(InUse(w) \cup {b}) > peak[w]
                   THEN Cardinality(InUse(w) \cup {b}) ELSE peak[w]
    BY <1>1, <1>2 DEF ReturnTypeOK
  <2>2. peak[w] \in Nat
    BY <1>2 DEF ReturnTypeOK
  <2> QED
    BY <1>6, <2>1, <2>2
<1>8. ASSUME NEW u \in Workers, NEW n \in {BytesOf[q] : q \in Parts}
      PROVE  Cardinality(OfSize(u, n)') <= peak'[u]
  <2>0. Cardinality(OfSize(u, n)) <= peak[u]
    BY <1>8 DEF AllocationBounded, OfSize, Have
  <2>1. CASE u # w
    <3>1. OfSize(u, n)' = OfSize(u, n)
      BY <1>5, <2>1 DEF OfSize
    <3> QED
      BY <1>5, <2>0, <2>1, <3>1
  <2>2. CASE u = w /\ (b \in Have(w) \/ BytesOf[b] # n)
    <3>1. OfSize(u, n)' = OfSize(u, n)
      BY <1>4, <2>2 DEF OfSize
    <3>2. OfSize(u, n) \subseteq Have(w)
      BY <2>2 DEF OfSize
    <3>3. Cardinality(OfSize(u, n)) \in Nat
      BY <1>6, <3>2, FS_Subset, FS_CardinalityType
    <3> QED
      BY <1>7, <2>0, <2>2, <3>1, <3>3
  <2>3. CASE u = w /\ b \notin Have(w) /\ BytesOf[b] = n
    <3>1. LargeEnough(w, p) = {} /\ b = p
      BY <1>1, <2>3 DEF LargeEnough, Have
    <3>2. BytesOf[p] \in Nat
      BY <1>3, <3>1, PartsAssumption
    <3>3. \A c \in returnedBufs[w] : BytesOf[c] # n
      BY <2>3, <3>1, <3>2 DEF LargeEnough
    <3>4. OfSize(u, n)' \subseteq InUse(w) \cup {b}
      BY <1>4, <2>3, <3>3 DEF OfSize, Have
    <3>5. /\ Cardinality(OfSize(u, n)') \in Nat
          /\ Cardinality(OfSize(u, n)') <= Cardinality(InUse(w) \cup {b})
      BY <1>6, <3>4, FS_Subset, FS_CardinalityType
    <3> QED
      BY <1>6, <1>7, <2>3, <3>5
  <2> QED
    BY <2>1, <2>2, <2>3
<1> QED
  BY <1>8 DEF AllocationBounded, OfSize, Have

LEMMA NextKeepsAllocation == ReturnInv /\ AllocationBounded /\ [ReturnNext]_returnVars => AllocationBounded'
<1> SUFFICES ASSUME ReturnInv, AllocationBounded, [ReturnNext]_returnVars PROVE AllocationBounded'
  OBVIOUS
<1>1. CASE \E w \in Workers : \E p \in assigned[w] : StartPart(w, p)
  BY <1>1, StartKeepsAllocation
<1>2. CASE UNCHANGED returnVars
  BY <1>2 DEF returnVars, mainVars, AllocationBounded, InUse, Second, FromWorker, Main
<1>3. CASE ReturnNext /\ ~\E w \in Workers : \E p \in assigned[w] : StartPart(w, p)
  <2> SUFFICES ASSUME NEW u \in Workers, NEW n \in {BytesOf[q] : q \in Parts}
               PROVE  Cardinality(OfSize(u, n)') <= peak'[u]
    BY DEF AllocationBounded, OfSize, Have
  <2>1. Have(u)' \subseteq Have(u) /\ peak'[u] = peak[u]
    BY <1>3, HaveShrinks
  <2>2. IsFiniteSet(OfSize(u, n)) /\ OfSize(u, n)' \subseteq OfSize(u, n)
    <3>1. IsFiniteSet(Have(u))
      BY BuffersAreFinite DEF ReturnInv
    <3> QED
      BY <2>1, <3>1, FS_Subset DEF OfSize
  <2>3. Cardinality(OfSize(u, n)') <= Cardinality(OfSize(u, n))
        /\ Cardinality(OfSize(u, n)') \in Nat /\ Cardinality(OfSize(u, n)) \in Nat
    BY <2>2, FS_Subset, FS_CardinalityType
  <2>4. Cardinality(OfSize(u, n)) <= peak[u] /\ peak[u] \in Nat
    BY DEF AllocationBounded, OfSize, Have, ReturnInv, ReturnTypeOK
  <2> QED
    BY <2>1, <2>3, <2>4
<1> QED
  BY <1>1, <1>2, <1>3

LEMMA InitBoundsAllocation == ReturnInit => AllocationBounded
<1> SUFFICES ASSUME ReturnInit, NEW w \in Workers, NEW n \in {BytesOf[p] : p \in Parts}
             PROVE  Cardinality({b \in InUse(w) \cup returnedBufs[w] : BytesOf[b] = n}) <= peak[w]
  BY DEF AllocationBounded
<1>1. InUse(w) \cup returnedBufs[w] = {} /\ peak[w] = 0
  BY DEF ReturnInit, InUse, Second, FromWorker, Main
<1>2. {b \in InUse(w) \cup returnedBufs[w] : BytesOf[b] = n} = {}
  BY <1>1
<1> QED
  BY <1>1, <1>2, FS_EmptySet

-----------------------------------------------------------------------------
(* Every reachable state satisfies the inductive invariant, for every set of *)
(* parts of any sizes, every pool and every number of lanes.                 *)
THEOREM ReturnInvHolds == ReturnSpec => []ReturnInv
BY InitEstablishesReturnInv, ReturnStepKeepsInv, PTL DEF ReturnSpec

(* A buffer is in one place: with one handler, in one message, held or in    *)
(* one chunk, or on one free list.                                           *)
THEOREM BuffersHaveOneOwner == ReturnSpec => []OneOwner
<1>1. ReturnInv => OneOwner
  BY OwnershipIsOneOwner DEF ReturnInv
<1> QED
  BY <1>1, ReturnInvHolds, PTL

(* A chunk that is not given back holds the bytes of its part.               *)
THEOREM ChunksStayIntact == ReturnSpec => []ChunkIsIntact
<1>1. ReturnInv => ChunkIsIntact
  BY DEF ReturnInv
<1> QED
  BY <1>1, ReturnInvHolds, PTL

(* Of the buffers of one size a worker never keeps more than it has had in   *)
(* use at a time.                                                            *)
THEOREM AllocationIsBounded == ReturnSpec => []AllocationBounded
BY InitEstablishesReturnInv, ReturnStepKeepsInv, InitBoundsAllocation, NextKeepsAllocation, PTL DEF ReturnSpec

=============================================================================
