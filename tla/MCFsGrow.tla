------------------------------ MODULE MCFsGrow ------------------------------
(* Names of 255 characters, of which a directory block holds one or two:    *)
(* the root and one subdirectory grow block by block in every order, their  *)
(* maps reach a second indirect block, and dinode chunks are refilled       *)
(* in between; and an archive with a path through a link.                   *)
EXTENDS FsTree

MCBulks == [m \in Managers |-> 2]
MCNameLen == [n \in {"d", "x", "y", "z", "w"} |-> IF n = "d" THEN 1 ELSE 255]

Link(path) == [path |-> path, ftype |-> "lnk", size |-> 1]
Inner == <<Link(<<"d", "x">>), Link(<<"d", "y">>), Link(<<"d", "z">>), Link(<<"d", "w">>)>>
Outer == <<Link(<<"x">>), Link(<<"y">>), Link(<<"z">>), Link(<<"w">>)>>

(* The ways to merge the two sequences.                                     *)
MCArchives ==
    {[i \in 1..8 |->
        LET inner == Cardinality(S \intersect 1..i)
        IN  IF i \in S THEN Inner[inner] ELSE Outer[i - inner]]
     : S \in {T \in SUBSET (1..8) : Cardinality(T) = 4}}
    \union {<<Link(<<"x">>), Link(<<"x", "y">>)>>}
=============================================================================
