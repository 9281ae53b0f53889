------------------------------ MODULE MCMkfsTar ------------------------------
(* Archives of up to three members, two names long enough to fill a         *)
(* directory block, plain, below "." and "..", twice the same, of every     *)
(* type; chunks of two, one direct extent and one per indirect block.       *)
EXTENDS MkfsTarTree

MCNameLen == [n \in {"", "a", "d", "x", "y"} |-> IF n \in {"x", "y"} THEN 240
                                                ELSE IF n = "" THEN 0 ELSE 1]

Member(path, flag, size) == [path |-> path, flag |-> flag, size |-> size, long |-> FALSE]
Core == {Member(<<"a">>, "REG", 513), Member(<<".", "/", "a">>, "SYM", 3),
         Member(<<"d", "/", "x">>, "REG", 0),
         [Member(<<"d", "/", ".", "/", "y">>, "DIR", 0) EXCEPT !.long = TRUE],
         Member(<<"d", "/", "..", "/", "x">>, "REG", 2),
         Member(<<".", "/", "y", "/">>, "DIR", 0)}
Others == {Member(<<"a">>, "REG", 1), Member(<<"d", "/">>, "DIR", 0),
           Member(<<"d", "/", "a", "/", "x">>, "LNK", 0), Member(<<"/", "d">>, "DIR", 0),
           Member(<<"a", "/", "x">>, "REG", 0), Member(<<"y">>, "DIR", 0),
           Member(<<"x">>, "LONGLINK", 0)}

(* No path goes on below a regular file or one of unknown type: the code    *)
(* takes its data for directory blocks.                                     *)
NoFileParents(fs) ==
    LET names == [k \in DOMAIN fs |-> AllFnames(fs[k].path)]
    IN  \A j, k \in DOMAIN fs :
           fs[j].flag \in {"REG", "LNK"} =>
              \A n \in 1..Len(names[k])-1 : Norm(SubSeq(names[k], 1, n)) # Norm(names[j])

MCTars == {fs \in UNION {[1..n -> Core \union Others] : n \in 0..2} \union [1..3 -> Core] :
              NoFileParents(fs)}
=============================================================================
