-------------------------- MODULE MCStreamDownload --------------------------
(* Small instances of StreamDownload for TLC.                               *)
EXTENDS StreamDownload, TLC
CONSTANTS a, b
MCKeys == {a, b}
MCParts == a :> 5 @@ b :> 2
=============================================================================
