--------------------------- MODULE MCBufferReturn ---------------------------
(* A small instance of BufferReturn for TLC: parts of two sizes, so that a   *)
(* buffer made for a last range is too small for the others.                *)
EXTENDS BufferReturn
CONSTANTS v, w
MCParts == 1 .. 4
MCSize == [p \in MCParts |-> IF p <= 2 THEN 1 ELSE 2]
MCWorkers == {v, w}
=============================================================================
