----------------------------- MODULE AndroidMkfs -----------------------------
(***************************************************************************)
(* mkfs_tarfs of the Android port.  Its logic is that of cmd_c++            *)
(* (SpaceManager to FsMaker); what differs is every read and write, which   *)
(* go through TARFS_IO.  The macro compares what read(2) or write(2) returned *)
(* with the offset, where the size is meant, and falls back on errno: as   *)
(* long as no call has failed errno is 0 and anything passes, a transfer   *)
(* that was cut short too; once one has failed hardly anything does.       *)
(*                                                                         *)
(* What add does to the file is any order of chunks appended, blocks read   *)
(* and blocks written.                                                      *)
(***************************************************************************)
EXTENDS Integers

CONSTANTS
    Sizes,      \* lengths of archives in blocks, the zero blocks at the end one
    Bulks,      \* blocks in a chunk, of the managers
    MaxBlks     \* what the medium holds at most

ASSUME AndroidAssumption ==
    MaxBlks \in Nat /\ Sizes \subseteq 0..MaxBlks /\ Bulks \subseteq Nat \ {0, 1}

VARIABLES
    size,       \* blocks in the file
    good,       \* those past the archive that hold what was last meant for them
    super,      \* where a superblock was written, -1 before
    orgblks, blks,  \* as in FsMaker
    cur,        \* Parser::curoff
    pc,         \* where create, get, add or complete stand
    room,       \* blocks the medium has for this file, others' files aside
    errno,
    failed,     \* history: a call has failed
    refused,    \* history: get has come to a type or a path it does not take
    regained    \* history: room was made after a write had been cut short

fileVars == <<size, good, super, orgblks, blks>>
ioVars == <<errno, failed>>
vars == <<fileVars, cur, pc, room, ioVars, refused, regained>>
-----------------------------------------------------------------------------
EIO == 5
ENOMEM == 12

TARFS_IO_Failed(off, count) == IF count = -1 THEN EIO ELSE 0

(* The macro's result for count blocks transferred at off, -1 for a call that *)
(* fails (which is no offset in bytes); what it does to errno.              *)
TARFS_IO(off, count) ==
    IF count = -1 THEN EIO ELSE IF count = off THEN 0 ELSE errno
Called(count) ==
    /\ errno' = IF count = -1 THEN EIO ELSE errno
    /\ failed' = (failed \/ count = -1)
Uncalled == UNCHANGED ioVars
NoMemory == errno' = ENOMEM /\ failed' = TRUE

(* What read(2) may return for n blocks at off; nothing past the end.       *)
Reads(off, n) ==
    {-1} \union {IF off + n <= size THEN n ELSE IF off < size THEN size - off ELSE 0}
(* What write(2) may return: all, what there is room for, or an error.      *)
Writes(off, n) ==
    {-1} \union (IF off + n <= room THEN {n} ELSE IF off < room THEN {room - off} ELSE {})

Init ==
    /\ orgblks \in Sizes
    /\ size = orgblks /\ blks = orgblks
    /\ good = {} /\ super = -1
    /\ cur = 0 /\ pc = "create"
    /\ room \in orgblks..MaxBlks
    /\ errno = 0 /\ failed = FALSE /\ refused = FALSE /\ regained = FALSE

At(label) == pc = label
Goto(label) == pc' = label
Running == pc \notin {"end", "failed", "killed"}
-----------------------------------------------------------------------------
(* readBlock and writeBlock of n blocks at off: go on to label, or to        *)
(* rollback.                                                                *)
readBlock(off, n, label) ==
    \E count \in Reads(off, n) :
        /\ Called(count)
        /\ Goto(IF TARFS_IO(off, count) = 0 THEN label ELSE "rollback")
        /\ UNCHANGED <<fileVars, cur, room, refused, regained>>

writeBlock(off, n, label) ==
    \E count \in Writes(off, n) :
        /\ Called(count)
        /\ blks' = IF off + n > blks THEN off + n ELSE blks
        /\ size' = IF count > 0 /\ off + count > size THEN off + count ELSE size
        /\ good' = ((good \ (off..off+n-1)) \union (off..off+count-1)) \ (0..orgblks-1)
        /\ Goto(IF TARFS_IO(off, count) = 0 THEN label ELSE "rollback")
        /\ UNCHANGED <<orgblks, cur, room, refused, regained>>

(* FsMaker::create: the last block; lseek fails where there is none.        *)
Create ==
    /\ At("create")
    /\ \E count \in IF orgblks = 0 THEN {-1} ELSE Reads(orgblks - 1, 1) :
          /\ Called(count)
          /\ Goto(IF TARFS_IO(orgblks - 1, count) = 0 THEN "init" ELSE "end")
    /\ UNCHANGED <<fileVars, cur, room, refused, regained>>

AppendChunk ==
    /\ At("init") \/ At("add")
    /\ \E n \in Bulks : blks + n <= MaxBlks /\ writeBlock(blks, n, "add")
    /\ UNCHANGED super
-----------------------------------------------------------------------------
(* Parser::get makes one to three reads: the header, and after that of a    *)
(* long name the name and another header.  NULL, after a read that does     *)
(* not pass, a type it does not know or a path parsePath does not take, is  *)
(* to mkfs what the zeros are: the end of the archive.                      *)
Null == Goto("syncRoot") /\ UNCHANGED cur
Member ==
    \/ /\ cur' \in cur+1..orgblks-1 /\ Goto("add") /\ Uncalled
       /\ UNCHANGED refused
    \/ refused' = TRUE /\ Null /\ (Uncalled \/ NoMemory)

Get ==
    /\ At("get")
    /\ \E count \in Reads(cur, 1) :
          /\ Called(count)
          /\ \/ TARFS_IO(cur, count) # 0 /\ Null
             \/ TARFS_IO(cur, count) = 0 /\ cur = orgblks - 1 /\ Null
             \/ TARFS_IO(cur, count) = 0 /\ cur < orgblks - 1 /\ Goto("header") /\ UNCHANGED cur
    /\ UNCHANGED <<fileVars, room, refused, regained>>

Header == At("header") /\ Member /\ UNCHANGED <<fileVars, room, regained>>

LongName ==
    /\ At("header")
    /\ \E k \in 1..orgblks-3-cur : \E count \in Reads(cur + 1, k) :
          /\ Called(count)
          /\ IF TARFS_IO(cur + 1, count) = 0
             THEN cur' = cur + 1 + k /\ Goto("realHeader")
             ELSE cur' = cur + 1 /\ Goto("syncRoot")
    /\ UNCHANGED <<fileVars, room, refused, regained>>

RealHeader ==
    /\ At("realHeader")
    /\ \E count \in Reads(cur, 1) :
          /\ Called(count)
          /\ IF TARFS_IO(cur, count) = 0 THEN Goto("named") ELSE Goto("syncRoot")
    /\ UNCHANGED <<fileVars, cur, room, refused, regained>>

Named == At("named") /\ Member /\ UNCHANGED <<fileVars, room, regained>>
-----------------------------------------------------------------------------
(* add, and before the first member the making of the root.  Blocks that    *)
(* are not there may be read for all that TARFS_IO says, and the link in    *)
(* one is then any number; data taken for entries leads into the archive    *)
(* (see FsMaker).                                                           *)
Read ==
    /\ At("add")
    /\ \E b \in 0..MaxBlks : readBlock(b, 1, "add")
Write ==
    /\ At("add")
    /\ \E b \in 0..MaxBlks-1 :
          /\ b < blks \/ size < blks \/ regained
          /\ writeBlock(b, 1, "add")
    /\ UNCHANGED super
Added ==
    /\ At("add")
    /\ Goto("get")
    /\ UNCHANGED <<fileVars, cur, room, ioVars, refused, regained>>

(* allocBlock has no memory, or the path goes through what is no directory. *)
GiveUp ==
    /\ \/ (At("init") \/ At("add")) /\ NoMemory
       \/ At("add") /\ Uncalled
    /\ Goto("rollback")
    /\ UNCHANGED <<fileVars, cur, room, refused, regained>>

(* complete: root dinode, free dinode, superblock.                          *)
SyncRoot ==
    /\ At("syncRoot")
    /\ writeBlock(orgblks + 1, 1, "syncFree")
    /\ UNCHANGED super
SyncFree ==
    /\ At("syncFree")
    /\ writeBlock(orgblks, 1, "super")
    /\ UNCHANGED super
Super ==
    /\ At("super")
    /\ writeBlock(blks, 1, "end")
    /\ super' = IF blks \in good' THEN blks ELSE super

(* rollback, which does not look at what ftruncate says; and a kill, also   *)
(* between the transfer and this.                                           *)
Rollback ==
    /\ At("rollback")
    /\ \/ size' = orgblks /\ good' = {} /\ super' = -1
       \/ UNCHANGED <<size, good, super>>
    /\ Goto("failed")
    /\ UNCHANGED <<orgblks, blks, cur, room, ioVars, refused, regained>>

Kill ==
    /\ Running
    /\ Goto("killed")
    /\ UNCHANGED <<fileVars, cur, room, ioVars, refused, regained>>

(* Others take room on the medium or make some.                             *)
Others ==
    /\ Running
    /\ room' \in size..MaxBlks
    /\ regained' = (regained \/ (good # orgblks..blks-1 /\ room' > room))
    /\ UNCHANGED <<fileVars, cur, pc, ioVars, refused>>

Next ==
    \/ Create \/ AppendChunk
    \/ Get \/ Header \/ LongName \/ RealHeader \/ Named
    \/ Read \/ Write \/ Added \/ GiveUp
    \/ SyncRoot \/ SyncFree \/ Super \/ Rollback \/ Kill \/ Others

Spec == Init /\ [][Next]_vars
-----------------------------------------------------------------------------
(* A file that ends in a superblock has the whole of its metadata, and the  *)
(* archive was read to its end or to a member get does not take: unlike on  *)
(* the other platform a read that fails in Parser::get, which nobody looks  *)
(* at, does not pass, because errno outlasts it; nor does a path there was  *)
(* no memory for; and a write cut short does not, because the medium is     *)
(* full for the ones that follow, unless room is made meanwhile.            *)
CompletedIsWhole ==
    super = size - 1 /\ super # -1 =>
        /\ ~failed
        /\ cur = orgblks - 1 \/ refused
        /\ regained \/ good = orgblks..size-1
=============================================================================
