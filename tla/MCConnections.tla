---------------------------- MODULE MCConnections ----------------------------
(* A small instance of Connections for TLC.                                 *)
EXTENDS Connections, TLC
CONSTANTS v, w
MCThreads == {v, w}
MCAnswers == {<<0, 1>>, <<1, 2, 0>>}
MCConfigs == {[receiver |-> "run", https |-> FALSE, sockets |-> v :> 3 @@ w :> 0, bytes |-> 0],
              [receiver |-> "run", https |-> FALSE, sockets |-> v :> 2 @@ w :> 1, bytes |-> 1],
              [receiver |-> "run", https |-> TRUE, sockets |-> v :> 1 @@ w :> 1, bytes |-> 1],
              [receiver |-> "manager", https |-> TRUE, sockets |-> v :> 1 @@ w :> 1, bytes |-> 1]}
=============================================================================
