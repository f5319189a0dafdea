---------------------------- MODULE MCOrderedRun ----------------------------
(* A small instance of OrderedRun for TLC.                                  *)
EXTENDS OrderedRun
MCParts == <<4, 2>>
MCSinks == {"ordered-drop", "ordered-stream"}
=============================================================================
