----------------------------- MODULE MCTarfsMount -----------------------------
(* A directory of two blocks (a file of two blocks, a link, an empty file,  *)
(* with long names) whose second block is mapped by an indirect block, as   *)
(* are the last inodes; and a longer archive whose free inode overflows     *)
(* fill_super's copy.                                                       *)
EXTENDS TarfsMount

MCBulks == [m \in Managers |-> IF m = "dinode" THEN 3 ELSE 2]
MCNameLen == [n \in {"d", "x", "y", "z", "w", "none"} |-> IF n = "d" THEN 1 ELSE 200]

Member(path, ftype, size) == [path |-> path, ftype |-> ftype, size |-> size]
Small == <<Member(<<"d", "x">>, "reg", 513), Member(<<"d", "y">>, "lnk", 1),
           Member(<<"d", "z">>, "reg", 0)>>
Large == Small \o <<Member(<<"d", "w">>, "reg", 1)>>

MCArchives == {Small, Large}
=============================================================================
