---------------------------- MODULE MCFileWriter ----------------------------
(* Small instances of FileWriter for TLC.                                   *)
EXTENDS FileWriter, TLC
CONSTANTS a, b
MCDests == {a, b}
MCTotal == a :> 5 @@ b :> 1
MCTwoRanges == a :> 10 @@ b :> 0
Config(total, rangeSize, fileChunk, direct, discard) ==
  [total |-> total, rangeSize |-> rangeSize, fileChunk |-> fileChunk, direct |-> direct,
   discard |-> discard]
(* Align = 2: but for the last, the ranges or the pieces are whole blocks,   *)
(* as they are by default.                                                   *)
MCConfigs == {Config(MCTotal, 4, 2, TRUE, FALSE), Config(MCTotal, 3, 2, TRUE, FALSE),
              Config(MCTotal, 4, 3, FALSE, FALSE), Config(MCTotal, 3, 2, TRUE, TRUE),
              Config(MCTwoRanges, 5, 3, TRUE, FALSE)}
=============================================================================
