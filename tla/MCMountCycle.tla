---------------------------- MODULE MCMountCycle ----------------------------
(* One archive as it is and one compressed, two commands at a time.         *)
EXTENDS MountCycle, TLC

Commands == Permutations(Procs)
=============================================================================
