--------------------------- MODULE MCUploadWorker ---------------------------
(* A small instance of UploadWorker for TLC: two whole parts and a shorter.  *)
EXTENDS UploadWorker
MCKinds == {"upload", "upload-sab", "upload-file"}
MCFile == {"upload-file"}
=============================================================================
