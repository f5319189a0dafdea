------------------------------- MODULE Ranges -------------------------------
(***************************************************************************)
(* The planning functions: how an object is cut into the ranges (or parts) *)
(* that are fetched and put together again.  They are loops in the code;   *)
(* each is stated here by what its i-th turn adds.  Bytes are numbered     *)
(* from 0, ranges from 1.                                                  *)
(***************************************************************************)
EXTENDS Integers

Least(a, b) == IF a < b THEN a ELSE b
CeilDiv(a, b) == (a + b - 1) \div b

(* buildRanges, its rs: an object is one range if no size is set.            *)
Step(total, rangeSize) ==
  IF rangeSize > 0 THEN rangeSize ELSE IF total > 0 THEN total ELSE 1

(* buildRanges, its n: an empty object still makes one range, of no byte.    *)
RangeCount(total, step) == IF total = 0 THEN 1 ELSE CeilDiv(total, step)

RangeOffset(i, step) == (i - 1) * step
RangeSize(total, i, step) == Least(step, total - RangeOffset(i, step))

(* The bytes that the request of range i asks for.                           *)
RangeBytes(total, i, step) ==
  {RangeOffset(i, step) + k : k \in 0 .. RangeSize(total, i, step) - 1}

(* buildParts: the parts of a multipart object are as large as its first     *)
(* one, but for the last.                                                    *)
PartSize(total, count, first, p) ==
  IF p < count THEN first ELSE total - RangeOffset(p, first)
=============================================================================
