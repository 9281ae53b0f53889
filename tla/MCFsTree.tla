------------------------------ MODULE MCFsTree ------------------------------
(* Archives of up to three members drawn from a file that appears in two    *)
(* sizes, a symbolic link, explicit and implied directories, and a path     *)
(* below the link; and of up to four that give a path one type and then     *)
(* another.                                                                 *)
EXTENDS FsTree

MCBulks == [m \in Managers |-> IF m = "dinode" THEN 3 ELSE 2]
MCNameLen == [n \in {"a", "d", "e"} |-> 1]

Member(path, ftype, size) == [path |-> path, ftype |-> ftype, size |-> size]
Members == {Member(<<"d">>, "dir", 0),
            Member(<<"d", "a">>, "reg", 1),
            Member(<<"d", "a">>, "reg", 513),
            Member(<<"a">>, "lnk", 5),
            Member(<<"a", "e">>, "reg", 0),
            Member(<<"d", "e">>, "dir", 0),
            Member(<<"d", "e", "a">>, "reg", 0)}

Changing == {Member(<<"d">>, "dir", 0),
             Member(<<"d">>, "reg", 0),
             Member(<<"d">>, "reg", 513),
             Member(<<"d">>, "lnk", 5),
             Member(<<"d", "e">>, "dir", 0),
             Member(<<"d", "e">>, "reg", 513)}

MCArchives == UNION {[1..n -> Members] : n \in 0..3}
              \union UNION {[1..n -> Changing] : n \in 2..4}
=============================================================================
