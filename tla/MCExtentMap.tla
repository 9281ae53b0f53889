---------------------------- MODULE MCExtentMap ----------------------------
(* Two directories and the free inode; one direct extent and two per        *)
(* indirect block, chunks of two: maps reach a second indirect block.       *)
EXTENDS ExtentMap

MCBulks == [m \in Managers |-> IF m = "dir" THEN 3 ELSE 2]
=============================================================================
