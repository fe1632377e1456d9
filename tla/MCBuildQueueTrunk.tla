------------------------- MODULE MCBuildQueueTrunk -------------------------
(* Model values for the trunk builder: the layouts of MCBuildQueue. *)
EXTENDS BuildQueueTrunk, TLC

CONSTANTS dA, dB, orig, fa, fb

MCPkgs == {dA, dB}
MCFiles == {orig, fa, fb}

FilesOfShared == [d \in MCPkgs |-> IF d = dA THEN <<orig, fa>> ELSE <<orig, fb>>]
=============================================================================
