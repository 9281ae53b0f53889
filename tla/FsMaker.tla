------------------------------- MODULE FsMaker -------------------------------
(***************************************************************************)
(* mkfs.tarfs after parsing: FsMaker::create, add (once per archive        *)
(* member) and complete, with InodeFactory and the Dir operations that     *)
(* write.  Every step is the code up to its next block write or            *)
(* allocation, so a failure or a kill may come between any two.            *)
(*                                                                         *)
(* A dinode exists twice while an object for it is in memory: core is the  *)
(* memory, disk the file, and sync copies one to the other.                *)
(***************************************************************************)
EXTENDS Dir, FiniteSets

CONSTANTS
    Archives,   \* archives as sequences of members [path, ftype, size]
    MaxBlks     \* what fits on the medium

VARIABLES
    files,      \* the archive being processed
    pc,         \* where create / add / complete stand
    cur,        \* members returned by Parser::get so far
    comp,       \* i in add: the path component being looked up
    dirh,       \* dir in add: "root" or "dir"
    dirblk,     \* the directory block just allocated (dfs.blkno)
    inodeNum,   \* InodeFactory::inodeNum
    dataSize,   \* InodeFactory::totalDataSize
    mapped,     \* history: the blocks in the map of each inode, in order
    phase       \* as in BlockClients, or "astray" (LookupData)

addVars == <<files, cur, comp, dirh>>
countVars == <<inodeNum, dataSize>>
progVars == <<addVars, countVars, pc, dirblk, phase>>
vars == <<spaceVars, inodeVars, progVars, mapped>>
-----------------------------------------------------------------------------
(* Members as Parser::get returns them: a header block, then the data.      *)
HeaderBlk(fs, k) ==
    LET at[j \in 1..k] == IF j = 1 THEN 0 ELSE at[j-1] + 1 + Blocks(fs[j-1])
    IN  at[k]

(* With the two zero blocks that end the archive.                           *)
TarBlks(fs) == (IF fs = <<>> THEN 0
                ELSE HeaderBlk(fs, Len(fs)) + 1 + Blocks(fs[Len(fs)])) + 2

(* Archives that make a directory of a path that had a size before.         *)
DataAsDir(fs) ==
    \E i, j \in DOMAIN fs : /\ i < j /\ fs[i].path = fs[j].path
                             /\ fs[i].size > 0 /\ fs[j].ftype = "dir"

(* Archives that fit on the medium, of members Parser::get returns: their   *)
(* paths have no component "." or "..", and none too long for a record in a *)
(* directory block.                                                         *)
ASSUME NamesAssumption ==
    /\ {".", ".."} \intersect DOMAIN NameLen = {}
    /\ \A n \in DOMAIN NameLen : NameLen[n] \in Nat /\ DIRENT_SIZE(NameLen[n]) <= TAR_BLOCKSIZE

ASSUME ArchivesAssumption ==
    \A fs \in Archives :
        /\ fs \in Seq([path : Seq(DOMAIN NameLen) \ {<<>>}, ftype : STRING \ {"none"}, size : Nat])
        /\ TarBlks(fs) \in 1..MaxBlks

ASSUME ManagersAssumption == {"dir", "dinode"} \subseteq Managers /\ MaxBlks \in Nat \ {0}

File == files[cur]
LastComp == comp = Len(File.path)
Name == File.path[comp]
DirObj == core[dirh]
NextObj == core["next"]

(* FsMaker::create up to InodeFactory::init.                                *)
Init ==
    /\ files \in Archives
    /\ SpaceInit(TarBlks(files))
    /\ core = [h \in {"free", "root", "dir", "next"} |-> NoObject]
    /\ ins = NoFrame
    /\ pc = "init" /\ cur = 0 /\ comp = 0 /\ dirh = "root" /\ dirblk = 0
    /\ inodeNum = 0 /\ dataSize = 0
    /\ mapped = [ino \in 0..MaxBlks |-> <<>>]
    /\ phase = "run"

At(label) == phase = "run" /\ ins = NoFrame /\ pc = label
Goto(label) == pc' = label
Fits(m) == HasFree(m) \/ blks + Bulks[m] <= MaxBlks
write(c, b) == writeBlock([i \in 0..0 |-> c], b, 1)
-----------------------------------------------------------------------------
(* InodeFactory::init: the free inode maps the chunk its dinode is in.      *)
InitFree ==
    /\ At("init") /\ Fits("dinode")
    /\ allocBlock("dinode")
    /\ core' = [core EXCEPT !["free"] =
                    NewInode(TARFS_FREE_INO, TARFS_FREE_INO, NextBlock("dinode"), "none")]
    /\ Call("free", Extent(0, NextBlock("dinode"), Bulks["dinode"]))
    /\ inodeNum' = 1 /\ dataSize' = 0
    /\ Goto("allocRoot")
    /\ UNCHANGED <<addVars, dirblk, phase>>

(* InodeFactory::allocInode for object o = fresh(..): the next dinode block  *)
(* and inode number; a refill extends the free inode's map.                 *)
fresh(pino, ftype) == NewInode(inodeNum, pino, NextBlock("dinode"), ftype)

allocInode(h, o) ==
    /\ Fits("dinode")
    /\ allocBlock("dinode")
    /\ core' = [core EXCEPT ![h] = o]
    /\ IF HasFree("dinode") THEN UNCHANGED ins
       ELSE Call("free", Extent(inodeNum, NextBlock("dinode"), Bulks["dinode"]))
    /\ inodeNum' = inodeNum + 1
    /\ Goto(IF isDir(o) THEN "dirInit" ELSE "addEntry")

AllocRoot ==
    /\ At("allocRoot")
    /\ allocInode("root", fresh(TARFS_ROOT_INO, "dir"))
    /\ UNCHANGED <<addVars, dataSize, dirblk, phase>>

(* Dir::dirInit for the object just allocated: its first block.             *)
newh == IF cur = 0 THEN "root" ELSE "next"

DirInit ==
    /\ At("dirInit") /\ Fits("dir")
    /\ allocBlock("dir")
    /\ Call(newh, Extent(core[newh].di_blocks, NextBlock("dir"), 1))
    /\ dirblk' = NextBlock("dir")
    /\ Goto("dots")
    /\ UNCHANGED <<core, addVars, countVars, phase>>

Dots ==
    /\ At("dots")
    /\ LET o == core[newh]
           dot == DIRENT_SIZE(1)
       IN  write(DirBlock(<<Entry(o.ino, dot, ".", "dir"),
                            Entry(o.pino, TAR_BLOCKSIZE - dot, "..", "dir")>>),
                 dirblk)
    /\ core' = [core EXCEPT ![newh].di_nlink = @ + 1,
                            ![newh].di_blocks = 1,
                            ![newh].di_size = TAR_BLOCKSIZE]
    /\ Goto(IF newh = "root" THEN "get" ELSE "addEntry")
    /\ UNCHANGED <<orgblks, head, used, calls, ins, addVars, countVars, dirblk, phase>>
-----------------------------------------------------------------------------
(* main's loop: the next member, or the end of the archive.                 *)
Get ==
    /\ At("get") /\ cur < Len(files)
    /\ cur' = cur + 1 /\ comp' = 1 /\ dirh' = "root"
    /\ Goto("lookup")
    /\ UNCHANGED <<spaceVars, inodeVars, files, countVars, dirblk, phase>>

Eof ==
    /\ At("get") /\ cur = Len(files)
    /\ Goto("syncRoot")
    /\ UNCHANGED <<spaceVars, inodeVars, addVars, countVars, dirblk, phase>>

(* What setFile makes a directory of keeps its size and extents: to lookup  *)
(* its blocks are those of the data, or, if it had none, whatever number    *)
(* getBlock leaves in dirblkno.                                             *)
HoldsData(o) == isDir(o) /\ o.di_size > 0 /\ GetBlock(o, 0) \notin orgblks..blks-1
DataBlks(o) ==
    IF o.di_nExtents = 0 THEN DOMAIN disk
    ELSE {GetBlock(o, off) : off \in 0..TARFS_BLOCKS(o.di_size)-1} \intersect DOMAIN disk

(* Lookup takes that for entries: by their lengths it may loop, read past    *)
(* its buffer, find any inode, or find room, and addDirEntry then writes to  *)
(* the archive.  The model follows mkfs no further.                         *)
LookupData ==
    /\ At("lookup") /\ HoldsData(DirObj)
    /\ \/ UNCHANGED disk
       \/ \E b \in DataBlks(DirObj) :
             disk' = [disk EXCEPT ![b] =
                         DirBlock(<<Entry(inodeNum, TAR_BLOCKSIZE, Name, File.ftype)>>)]
    /\ phase' = "astray"
    /\ UNCHANGED <<orgblks, blks, head, used, calls, inodeVars, addVars, countVars, pc, dirblk>>

(* FsMaker::add, one component: a missing one is made by Dir::mkdir, or by  *)
(* Dir::create if it is the last.                                           *)
LooksUp == At("lookup") /\ ~HoldsData(DirObj)

LookupMiss ==
    /\ LooksUp /\ ~Has(DirObj, Name)
    /\ IF LastComp
       THEN /\ allocInode("next", setFile(fresh(DirObj.ino, File.ftype), File,
                                     HeaderBlk(files, cur)))
            /\ dataSize' = dataSize + Blocks(File)
       ELSE /\ allocInode("next", fresh(DirObj.ino, "dir"))
            /\ UNCHANGED dataSize
    /\ UNCHANGED <<addVars, dirblk, phase>>

Found == lookup(core["free"], DirObj, Name)

(* An object just read is the same as its dinode: syncing it, which the     *)
(* code does or not as its isMod happens to be, writes nothing new.         *)
LookupDir ==
    /\ LooksUp /\ Has(DirObj, Name) /\ ~LastComp
    /\ isDir(Found)
    /\ core' = [core EXCEPT !["next"] = Found]
    /\ Goto("syncDir")
    /\ UNCHANGED <<spaceVars, ins, addVars, countVars, dirblk, phase>>

LookupNotDir ==
    /\ LooksUp /\ Has(DirObj, Name) /\ ~LastComp
    /\ ~isDir(Found)
    /\ rollback
    /\ phase' = "failed"
    /\ UNCHANGED <<inodeVars, addVars, countVars, pc, dirblk>>

LookupAgain ==
    /\ LooksUp /\ Has(DirObj, Name) /\ LastComp
    /\ core' = [core EXCEPT !["next"] = setFile(Found, File, HeaderBlk(files, cur))]
    /\ Goto("sync")
    /\ UNCHANGED <<spaceVars, ins, addVars, countVars, dirblk, phase>>
-----------------------------------------------------------------------------
(* Dir::addDirEntry, into the room behind an existing entry ...             *)
Linked(nlink) == IF isDir(NextObj) THEN nlink + 1 ELSE nlink

AddEntry ==
    /\ At("addEntry")
    /\ Slots(DirObj, Name) # {}
    /\ LET s == FirstSlot(Slots(DirObj, Name))
           b == DirBlks(DirObj)[s[1]]
       IN  write(DirBlock(Split(disk[b].ents, s[2], NextObj.ino, Name, NextObj.di_mode)), b)
    /\ core' = [core EXCEPT ![dirh].di_nlink = Linked(@)]
    /\ Goto("sync")
    /\ UNCHANGED <<orgblks, head, used, calls, ins, addVars, countVars, dirblk, phase>>

(* ... or as the only entry of a new block.                                 *)
AddBlock ==
    /\ At("addEntry")
    /\ Slots(DirObj, Name) = {}
    /\ Fits("dir")
    /\ allocBlock("dir")
    /\ Call(dirh, Extent(DirObj.di_blocks, NextBlock("dir"), 1))
    /\ core' = [core EXCEPT ![dirh].di_nlink = Linked(@)]
    /\ dirblk' = NextBlock("dir")
    /\ Goto("newBlock")
    /\ UNCHANGED <<addVars, countVars, phase>>

NewBlock ==
    /\ At("newBlock")
    /\ write(DirBlock(<<Entry(NextObj.ino, TAR_BLOCKSIZE, Name, NextObj.di_mode)>>), dirblk)
    /\ core' = [core EXCEPT ![dirh].di_blocks = @ + 1,
                            ![dirh].di_size = @ + TAR_BLOCKSIZE]
    /\ Goto("sync")
    /\ UNCHANGED <<orgblks, head, used, calls, ins, addVars, countVars, dirblk, phase>>

(* nextDir->sync or inode->sync, then dir->sync unless dir is the root.     *)
sync(h) == write(Dinode(core[h]), core[h].blkno)

Sync ==
    /\ At("sync")
    /\ sync("next")
    /\ Goto("syncDir")
    /\ UNCHANGED <<orgblks, head, used, calls, inodeVars, addVars, countVars, dirblk, phase>>

SyncDir_NotWritten ==
    /\ At("syncDir")
    /\ IF LastComp
       THEN /\ core' = [core EXCEPT !["dir"] = NoObject, !["next"] = NoObject]
            /\ Goto("get")
            /\ UNCHANGED <<comp, dirh>>
       ELSE /\ core' = [core EXCEPT !["dir"] = NextObj, !["next"] = NoObject]
            /\ comp' = comp + 1 /\ dirh' = "dir"
            /\ Goto("lookup")
    /\ UNCHANGED <<spaceVars, ins, files, cur, countVars, dirblk, phase>>

SyncDir_LastNotLast ==
    /\ At("syncDir")
    /\ IF dirh = "root" THEN UNCHANGED <<blks, disk>> ELSE sync("dir")
    /\ IF LastComp THEN UNCHANGED <<comp, dirh, core>>
       ELSE /\ core' = [core EXCEPT !["dir"] = NextObj, !["next"] = NoObject]
            /\ comp' = comp + 1 /\ dirh' = "dir"
    /\ Goto("lookup")
    /\ UNCHANGED <<orgblks, head, used, calls, ins, files, cur, countVars, dirblk, phase>>

SyncDir ==
    /\ At("syncDir")
    /\ IF dirh = "root" THEN UNCHANGED <<blks, disk>> ELSE sync("dir")
    /\ IF LastComp
       THEN /\ core' = [core EXCEPT !["dir"] = NoObject, !["next"] = NoObject]
            /\ Goto("get")
            /\ UNCHANGED <<comp, dirh>>
       ELSE /\ core' = [core EXCEPT !["dir"] = NextObj, !["next"] = NoObject]
            /\ comp' = comp + 1 /\ dirh' = "dir"
            /\ Goto("lookup")
    /\ UNCHANGED <<orgblks, head, used, calls, ins, files, cur, countVars, dirblk, phase>>
-----------------------------------------------------------------------------
(* FsMaker::complete: the root, the free inode, and last the superblock,    *)
(* whose own block counts in tarfs_size.                                    *)
SyncRoot_FreeForgotten ==
    /\ At("syncRoot")
    /\ sync("root")
    /\ Goto("super")
    /\ UNCHANGED <<orgblks, head, used, calls, inodeVars, addVars, countVars, dirblk, phase>>

SyncRoot ==
    /\ At("syncRoot")
    /\ sync("root")
    /\ Goto("syncFree")
    /\ UNCHANGED <<orgblks, head, used, calls, inodeVars, addVars, countVars, dirblk, phase>>

SyncFree ==
    /\ At("syncFree")
    /\ sync("free")
    /\ Goto("super")
    /\ UNCHANGED <<orgblks, head, used, calls, inodeVars, addVars, countVars, dirblk, phase>>

Super_NotItself ==
    [kind |-> "super",
     tarfs_inodes |-> inodeNum, tarfs_maxino |-> inodeNum,
     tarfs_dsize |-> dataSize, tarfs_size |-> blks - orgblks,
     tarfs_flist |-> head,
     tarfs_free |-> orgblks, tarfs_root |-> orgblks + 1]

Super ==
    [kind |-> "super",
     tarfs_inodes |-> inodeNum, tarfs_maxino |-> inodeNum,
     tarfs_dsize |-> dataSize, tarfs_size |-> blks + 1 - orgblks,
     tarfs_flist |-> head,
     tarfs_free |-> orgblks, tarfs_root |-> orgblks + 1]

WriteSuper_OverLastBlock ==
    /\ At("super")
    /\ write(Super, blks - 1)
    /\ phase' = "done"
    /\ UNCHANGED <<orgblks, head, used, calls, inodeVars, addVars, countVars, pc, dirblk>>

WriteSuper ==
    /\ At("super") /\ blks < MaxBlks
    /\ write(Super, blks)
    /\ phase' = "done"
    /\ UNCHANGED <<orgblks, head, used, calls, inodeVars, addVars, countVars, pc, dirblk>>
-----------------------------------------------------------------------------
InsStep ==
    /\ phase = "run" /\ ins # NoFrame
    /\ \/ InsOther
       \/ Fits("iex") /\ InsAlloc
    /\ UNCHANGED progVars

(* What insBlock puts into a map, and setFile throws away.                  *)
Remember ==
    mapped' =
        IF ins # NoFrame /\ ins' = NoFrame
        THEN [mapped EXCEPT ![core[ins.obj].ino] = @ \o Grown(ins.de)]
        ELSE IF pc = "lookup" /\ pc' = "sync" /\ File.ftype # "dir"
        THEN [mapped EXCEPT ![core'["next"].ino] = <<>>]
        ELSE mapped

Work ==
    /\ \/ InitFree \/ AllocRoot \/ DirInit \/ Dots
       \/ Get \/ Eof \/ LookupData \/ LookupMiss
       \/ LookupDir \/ LookupNotDir \/ LookupAgain
       \/ AddEntry \/ AddBlock \/ NewBlock \/ Sync \/ SyncDir
       \/ SyncRoot \/ SyncFree \/ WriteSuper
       \/ InsStep
    /\ Remember

(* Any block read or write may fail, and the process may be killed.         *)
Fail ==
    /\ phase = "run"
    /\ rollback
    /\ phase' = "failed"
    /\ UNCHANGED <<inodeVars, addVars, countVars, pc, dirblk, mapped>>

Kill ==
    /\ phase = "run"
    /\ phase' = "killed"
    /\ UNCHANGED <<spaceVars, inodeVars, addVars, countVars, pc, dirblk, mapped>>

Next == Kill \/ Fail \/ Work

Spec == Init /\ [][Next]_vars

(* The process keeps running until it exits or is killed.                   *)
FairSpec == Spec /\ WF_vars(Next)
=============================================================================
