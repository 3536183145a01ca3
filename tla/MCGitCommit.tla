---------------------------- MODULE MCGitCommit ----------------------------
(* Instances of GitCommit for TLC.  Processes are interchangeable: no       *)
(* definition tells one from another.                                       *)
EXTENDS GitCommit, TLC

ProcSymmetry == Permutations(Proc)
=============================================================================
