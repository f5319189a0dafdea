--------------------------- MODULE MCUploadManager ---------------------------
(* A small instance of UploadManager for TLC.                               *)
EXTENDS UploadManager, TLC
CONSTANTS a, b
MCKeys == {a, b}
MCParts == a :> 3 @@ b :> 2
MCSources == {a :> "stream" @@ b :> "stream", a :> "stream" @@ b :> "file",
              a :> "parts" @@ b :> "sab"}
=============================================================================
