--------------------------- MODULE MCBenchmarkRun ---------------------------
(* A small instance of BenchmarkRun for TLC.                                *)
EXTENDS BenchmarkRun
CONSTANTS a, b
MCParts == {a, b}
MCDrivers == {"upload", "download", "legacy"}
=============================================================================
