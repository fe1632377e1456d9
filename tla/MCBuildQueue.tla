---------------------------- MODULE MCBuildQueue ----------------------------
(* Model values for the build-queue runs: two descriptors dA and dB, and   *)
(* three listed files.  In the shared layout both descriptors list orig,   *)
(* as two Debian revisions of one upstream version share .orig.tar.gz.     *)
EXTENDS BuildQueue, TLC

CONSTANTS dA, dB, orig, fa, fb

MCPkgs == {dA, dB}
MCFiles == {orig, fa, fb}

FilesOfShared == [d \in MCPkgs |-> IF d = dA THEN <<orig, fa>> ELSE <<orig, fb>>]
FilesOfDisjoint == [d \in MCPkgs |-> IF d = dA THEN <<orig, fa>> ELSE <<fb>>]

ProcSymmetry == Permutations(Procs)
=============================================================================
