------------------------------- MODULE MCParser -------------------------------
(* Every path of up to four characters in an archive of its own, and every  *)
(* archive of up to three members of all kinds.                             *)
EXTENDS Parser

Member(path, flag, size, long) == [path |-> path, flag |-> flag, size |-> size, long |-> long]
Paths == UNION {[1..n -> {"a", ".", "/"}] : n \in 1..4}
a == <<"a">>
Members == {Member(a, "REG", 0, FALSE), Member(a, "REG", 2, FALSE),
            Member(a, "REG", 1, TRUE), Member(a, "DIR", 0, FALSE),
            Member(a, "SYM", 0, TRUE), Member(a, "CHR", 0, FALSE),
            Member(a, "LONGLINK", 0, TRUE), Member(a, "LONGLINK", 0, FALSE),
            Member(a, "CONT", 1, FALSE), Member(<<".", "/">>, "DIR", 0, FALSE)}
MCTars == {<<Member(p, "REG", 1, FALSE)>> : p \in Paths}
          \union UNION {[1..n -> Members] : n \in 0..3}
=============================================================================
