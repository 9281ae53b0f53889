-------------------------------- MODULE Parser --------------------------------
(***************************************************************************)
(* Parser::get on an archive, block by block, until it returns NULL, and   *)
(* Parser::parsePath on the names in it.  A path is a sequence of          *)
(* characters, of which only "/" and "." matter.                           *)
(***************************************************************************)
EXTENDS Integers, FiniteSets, SequencesExt

CONSTANTS
    Tars    \* archives as tar(1) was told to write them: sequences of
            \* members [path, flag, size in blocks, long: path in an 'L' member]

VARIABLES
    members,    \* the archive's members ...
    tar,        \* ... and its blocks
    curoff,     \* Parser::curoff
    out,        \* the Files get has returned
    at          \* "open", or why get returned NULL: "eof", "flag", "path", "read"

vars == <<members, tar, curoff, out, at>>

(* typeflags: those the code has a File type for, the other POSIX ones, and *)
(* GNU's.                                                                   *)
Supported == {"REG", "SYM", "DIR"}
Unsupported == {"AREG", "LNK", "CHR", "BLK", "FIFO", "CONT", "LONGLINK"}
PosixOnly == Supported \union (Unsupported \ {"LONGLINK"})
LONGNAME == "LONGNAME"

(* What tar(1) is given has a path and one of these typeflags.              *)
ASSUME TarsAssumption ==
    \A ms \in Tars :
        ms \in Seq([path : Seq(STRING) \ {<<>>}, flag : Supported \union Unsupported,
                   size : Nat, long : BOOLEAN])
-----------------------------------------------------------------------------
(* tar(1): headers, names that are too long in a member of their own, data. *)
Header(m) == [flag |-> m.flag, path |-> m.path, size |-> m.size]
LongHeader == [flag |-> LONGNAME, path |-> <<"@">>, size |-> 1]
Text == [flag |-> "?", path |-> <<"t">>, size |-> 0]    \* a block of data
Zeros == [flag |-> "AREG", path |-> <<>>, size |-> 0]

HasData(m) == m.flag \in {"REG", "AREG", "CONT"}
Written(m) ==
    (IF m.long THEN <<LongHeader, [Text EXCEPT !.path = m.path]>> ELSE <<>>)
    \o <<Header(m)>>
    \o [i \in 1..(IF HasData(m) THEN m.size ELSE 0) |-> Text]
WrittenAll(ms) == FlattenSeq([i \in DOMAIN ms |-> Written(ms[i])])

Init ==
    /\ members \in Tars
    /\ tar = WrittenAll(members) \o <<Zeros, Zeros>>
    /\ curoff = 0 /\ out = <<>> /\ at = "open"
-----------------------------------------------------------------------------
Slash(path, i) == path[i] = "/"

(* Parser::parsePath from position s on: the name that starts at s ends at  *)
(* the next slash, be it at s itself; nothing is left when only slashes are.*)
NamesFrom_LosesLast(path) ==
    LET n == Len(path)
        slashes(s) == {i \in s..n : Slash(path, i)}
        names[s \in 1..n+2] ==
            IF slashes(s) = {} THEN <<>>
            ELSE LET q == CHOOSE i \in slashes(s) : \A j \in slashes(s) : i <= j
                 IN  <<SubSeq(path, s, q - 1)>> \o names[q + 1]
    IN  names

NamesFrom(path) ==
    LET n == Len(path)
        slashes(s) == {i \in s..n : Slash(path, i)}
        names[s \in 1..n+2] ==
            IF \A i \in s..n : Slash(path, i) THEN <<>>
            ELSE LET q == CHOOSE i \in slashes(s) \union {n + 1} :
                             \A j \in slashes(s) : i <= j
                 IN  <<SubSeq(path, s, q - 1)>> \o names[q + 1]
    IN  names

Invalid(name) == name \in {<<".">>, <<".", ".">>}
NULL == <<>>

(* NULL for a path with an invalid name, and for one without names.         *)
parsePath(path) ==
    LET names == NamesFrom(path)[IF path # <<>> /\ Slash(path, 1) THEN 2 ELSE 1]
    IN  IF \E i \in DOMAIN names : Invalid(names[i]) THEN NULL ELSE names

(* Util::getFtype: the other typeflags give -1, every bit of a mode.        *)
getFtype(flag) ==
    CASE flag = "REG" -> "reg" [] flag = "DIR" -> "dir" [] flag = "SYM" -> "lnk"
      [] OTHER -> "-1"

(* What get makes of header h in block b: the File, and how far it moves.   *)
DataBlks(h) == IF h.flag = "REG" THEN h.size ELSE 0
FileOf(h, names, b) ==
    [names |-> names, flag |-> h.flag, ftype |-> getFtype(h.flag), header |-> b,
     data |-> b + 1, nblks |-> DataBlks(h)]
-----------------------------------------------------------------------------
Blk(b) == tar[b + 1]
InFile(b) == b < Len(tar)
Stop(why) == at' = why /\ UNCHANGED <<members, tar, curoff, out>>

(* The rest of get, once it has a path and the header in block b.           *)
Deliver_DataParsed(path, b) ==
    LET names == parsePath(path) IN
    IF names = NULL THEN Stop("path")
    ELSE /\ out' = Append(out, FileOf(Blk(b), names, b))
         /\ curoff' = b + 1
         /\ UNCHANGED <<members, tar, at>>

Deliver_Rereads(path, b) ==
    LET names == parsePath(path) IN
    IF names = NULL THEN Stop("path")
    ELSE /\ out' = IF \E i \in DOMAIN out : out[i].header = b THEN out
                   ELSE Append(out, FileOf(Blk(b), names, b))
         /\ curoff' = b
         /\ UNCHANGED <<members, tar, at>>

Deliver(path, b) ==
    LET names == parsePath(path) IN
    IF names = NULL THEN Stop("path")
    ELSE /\ out' = Append(out, FileOf(Blk(b), names, b))
         /\ curoff' = b + DataBlks(Blk(b)) + 1
         /\ UNCHANGED <<members, tar, at>>

Open(b) == at = "open" /\ InFile(b)

GetEof == Open(curoff) /\ Blk(curoff).path = <<>> /\ Stop("eof")

GetPosix ==
    /\ Open(curoff) /\ Blk(curoff).path # <<>>
    /\ Blk(curoff).flag \in PosixOnly
    /\ Deliver(Blk(curoff).path, curoff)

GetLongname_FirstHeader ==
    /\ Open(curoff) /\ Blk(curoff).flag = LONGNAME
    /\ LET b == curoff + 1 + Blk(curoff).size
       IN  IF InFile(b) THEN Deliver(Blk(curoff + 1).path, curoff) ELSE Stop("read")

(* A long name: its blocks, then the real header, whatever its typeflag is. *)
GetLongname ==
    /\ Open(curoff) /\ Blk(curoff).flag = LONGNAME
    /\ LET b == curoff + 1 + Blk(curoff).size
       IN  IF InFile(b) THEN Deliver(Blk(curoff + 1).path, b) ELSE Stop("read")

GetUnsupported ==
    /\ Open(curoff) /\ Blk(curoff).path # <<>>
    /\ Blk(curoff).flag \notin PosixOnly \union {LONGNAME}
    /\ Stop("flag")

(* pread fails, or there is no block to read.                               *)
GetReadError == at = "open" /\ Stop("read")

get == GetEof \/ GetPosix \/ GetLongname \/ GetUnsupported \/ GetReadError

Next == get
Spec == Init /\ [][Next]_vars
(* main's loop calls get until it returns NULL.                             *)
FairSpec == Spec /\ WF_vars(GetEof \/ GetPosix \/ GetLongname \/ GetUnsupported)
-----------------------------------------------------------------------------
(* Where member k's own header is, by what tar(1) wrote before it.          *)
HeaderOf(k) ==
    Len(WrittenAll(SubSeq(members, 1, k - 1))) + (IF members[k].long THEN 2 ELSE 0)

(* The names of a path: what stands between slashes.                        *)
Runs(path) ==
    {r \in (1..Len(path)) \X (1..Len(path)) :
        /\ r[1] <= r[2] /\ \A i \in r[1]..r[2] : ~Slash(path, i)
        /\ r[1] = 1 \/ Slash(path, r[1] - 1)
        /\ r[2] = Len(path) \/ Slash(path, r[2] + 1)}
Split(path) ==
    LET runs == SetToSortSeq(Runs(path), LAMBDA r, s : r[1] < s[1])
        names == [i \in DOMAIN runs |-> SubSeq(path, runs[i][1], runs[i][2])]
    IN  IF \E i \in DOMAIN names : Invalid(names[i]) THEN NULL ELSE names
DoubleSlash(path) == \E i \in 1..Len(path)-1 : Slash(path, i) /\ Slash(path, i + 1)

(* parsePath splits at the slashes and refuses "." and ".."; only where two *)
(* slashes meet does it give an empty name as well.                         *)
NamesRight ==
    \A k \in DOMAIN members :
        LET p == members[k].path IN
        /\ SelectSeq(parsePath(p), LAMBDA n : n # <<>>) = Split(p)
        /\ ~DoubleSlash(p) => parsePath(p) = Split(p)

(* The data of a member get took for one without data would be parsed.      *)
DataSkipped == \A k \in DOMAIN members :
                  HasData(members[k]) /\ members[k].size > 0 => members[k].flag = "REG"

(* Each File is the next member, with its own header block and data blocks: *)
(* data and long names are never taken for headers.                         *)
MembersInOrder ==
    DataSkipped =>
        /\ Len(out) <= Len(members)
        /\ \A k \in DOMAIN out :
              /\ out[k].header = HeaderOf(k)
              /\ out[k].flag = members[k].flag
              /\ out[k].names = parsePath(members[k].path)
              /\ out[k].nblks = IF members[k].flag = "REG" THEN members[k].size ELSE 0

(* Where parsing stops: after the last member, or at the first that has an  *)
(* unsupported type or no valid path, or at a read error.                   *)
Taken(m) == /\ parsePath(m.path) # NULL
            /\ m.long \/ m.flag \in PosixOnly
StopsRight ==
    DataSkipped =>
        /\ \A k \in DOMAIN out : Taken(members[k])
        /\ at = "eof" => Len(out) = Len(members)
        /\ at \in {"flag", "path"} =>
              Len(out) < Len(members) /\ ~Taken(members[Len(out) + 1])

(* mkfs's loop over get ends.                                               *)
ParseEnds == <>(at # "open")

(* As a comment in parsePath has it, slashes are skipped: no name is empty. *)
SlashesSkipped ==
    \A k \in DOMAIN out : \A i \in DOMAIN out[k].names : out[k].names[i] # <<>>

(* As tarfs_meta.h has it, only these typeflags are supported: get returns  *)
(* no File of another.                                                      *)
OnlySupported == \A k \in DOMAIN out : out[k].flag \in Supported
=============================================================================
