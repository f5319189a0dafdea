--------------------------- MODULE MCUploadStaging ---------------------------
(* A small instance of UploadStaging for TLC: the second group has two       *)
(* objects, and the volume has no room for both sources.                     *)
EXTENDS UploadStaging
CONSTANTS k1, k2, k3
MCKeys == <<{k1}, {k2, k3}>>
MCBytes == <<2, 3>>
MCConfigs == {[partSize |-> p, forceUpload |-> f, deliveryMode |-> d] :
                p \in {1, 2}, f \in BOOLEAN, d \in {"file", "memory"}}
MCOlder == {[size |-> 2, first |-> 2], [size |-> 3, first |-> 1]}
=============================================================================
