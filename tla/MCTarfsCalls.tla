----------------------------- MODULE MCTarfsCalls -----------------------------
(* Two processes in two directories, inodes in two chunks of dinodes of     *)
(* which the second is mapped by an indirect block.                         *)
EXTENDS TarfsMount

MCBulks == [m \in Managers |-> 2]
MCNameLen == [n \in {"d", "x"} |-> 1]
MCArchives == {<<[path |-> <<"d", "x">>, ftype |-> "reg", size |-> 1]>>}
=============================================================================
