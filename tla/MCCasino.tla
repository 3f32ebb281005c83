------------------------------ MODULE MCCasino ------------------------------
(* Instances of Casino for TLC: one player, one network thread.            *)
EXTENDS Casino

CONSTANTS me, net

MCGuid == {me}
MCThread == {net}

\* A losing matrix and one with a winning line of three slots (ten times).
MCMatrices  == {"losing", "winning"}
MCLineCount == [m \in {"losing", "winning", "zeros"} |->
                   CASE m = "losing" -> 0 [] m = "winning" -> 1 [] m = "zeros" -> 20]
MCLineUnits == [m \in {"losing", "winning", "zeros"} |->
                   CASE m = "losing" -> 0 [] m = "winning" -> 5 [] m = "zeros" -> 300]
MCValues == {}
=============================================================================
