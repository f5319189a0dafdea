----------------------------- MODULE MCSliceRun -----------------------------
(* A small instance of SliceRun for TLC.                                    *)
EXTENDS SliceRun
MCPools == {<<2, 1>>, <<1, 2>>}
MCModes == {"discard", "file"}
=============================================================================
