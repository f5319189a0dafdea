--------------------------- MODULE MCDownloadPool ---------------------------
(* Small instances of DownloadPool for TLC.                                 *)
EXTENDS DownloadPool, TLC
CONSTANTS a, b
MCKeys == {a, b}
MCParts == a :> 2 @@ b :> 1
MCModes == {"file", "ordered-stream"}
MCFile == {"file"}
MCStream == {"ordered-stream"}
=============================================================================
