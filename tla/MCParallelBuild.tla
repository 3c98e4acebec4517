-------------------------- MODULE MCParallelBuild ---------------------------
(* ParallelBuild for TLC: five rows, one of them null, and a sixth that     *)
(* may arrive during a concurrent build, two workers, lists of two on level 0.      *)
EXTENDS ParallelBuild

MCPos == <<3, 1, 4, 2, 6, 8>>
MCPosOf == [r \in 0 .. 6 |-> IF r = 0 THEN 9 ELSE MCPos[r]]
MCLevel == [n \in 0 .. 6 |-> IF n \in {1, 3} THEN 1 ELSE 0]
MCKey == [n \in 0 .. 6 |-> (n * 3 + 2) % 7]
MCWorkers == {"w1", "w2"}
MCRows == 1 .. 6
MCIndexable == Rows \ {4}
MCInitialHeaps == {{1, 2, 3, 4, 6}}
=============================================================================
