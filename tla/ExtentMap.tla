------------------------------ MODULE ExtentMap ------------------------------
(***************************************************************************)
(* The block maps of mkfs.tarfs growing under every interleaving: any      *)
(* number of directories take blocks one at a time from the directory      *)
(* manager, the free inode (inode 0, whose map translates inode numbers)   *)
(* takes a whole chunk of dinode blocks whenever that manager refills, and *)
(* insBlock itself takes indirect blocks.  Runs of one map are merged or   *)
(* broken up by what the others did in between.                            *)
(***************************************************************************)
EXTENDS Inode

CONSTANTS
    Dirs,       \* handles of directory inodes
    MaxBlks     \* what fits on the medium

ASSUME ExtentMapAssumption == /\ {"dir", "dinode"} \subseteq Managers
                              /\ TARFS_FREE_INO \notin Dirs
                              /\ MaxBlks \in Nat \ {0}

VARIABLES
    inodeNum,   \* InodeFactory::inodeNum
    mapped,     \* history: the blocks given to insBlock, in order, by handle
    phase       \* as in BlockClients

vars == <<spaceVars, inodeVars, inodeNum, mapped, phase>>

Handles == Dirs \union {TARFS_FREE_INO}

Init ==
    /\ SpaceInit(1)
    /\ core = [h \in Handles |-> EmptyMap]
    /\ ins = NoFrame
    /\ inodeNum = 0
    /\ mapped = [h \in Handles |-> <<>>]
    /\ phase = "run"

Fits(m) == HasFree(m) \/ blks + Bulks[m] <= MaxBlks

(* Dir::dirInit and the growing case of Dir::addDirEntry.                   *)
GrowDir(h) ==
    /\ ins = NoFrame
    /\ Fits("dir")
    /\ allocBlock("dir")
    /\ Call(h, Extent(Len(mapped[h]), NextBlock("dir"), 1))
    /\ UNCHANGED <<core, inodeNum>>

(* InodeFactory::init and allocInode: a dinode, and for the first one of a  *)
(* chunk the extent of the free inode that covers the chunk.                *)
GrowFree ==
    /\ ins = NoFrame
    /\ Fits("dinode")
    /\ allocBlock("dinode")
    /\ IF HasFree("dinode") THEN UNCHANGED ins
       ELSE Call(TARFS_FREE_INO, Extent(inodeNum, NextBlock("dinode"), Bulks["dinode"]))
    /\ inodeNum' = inodeNum + 1
    /\ UNCHANGED core

InsStep ==
    /\ \/ InsOther
       \/ Fits("iex") /\ InsAlloc
    /\ UNCHANGED inodeNum

Work ==
    /\ phase = "run"
    /\ (\E h \in Dirs : GrowDir(h)) \/ GrowFree \/ InsStep
    /\ mapped' = IF ins # NoFrame /\ ins' = NoFrame
                 THEN [mapped EXCEPT ![ins.obj] = @ \o Grown(ins.de)]
                 ELSE mapped
    /\ UNCHANGED phase

(* Any I/O may fail: rollback.                                              *)
Fail ==
    /\ phase = "run"
    /\ rollback
    /\ phase' = "failed"
    /\ UNCHANGED <<inodeVars, inodeNum, mapped>>

(* The write of a chunk that does not fit does fail.                        *)
NoRoom == phase = "run" /\ (NeedsFirst \/ NeedsNext) /\ ~Fits("iex") /\ Fail

Next == Work \/ Fail

Spec == Init /\ [][Next]_vars

(* insBlock is straight-line code between I/O calls: it keeps going.  A     *)
(* failure is only certain when the medium is full.                         *)
FairSpec == Spec /\ WF_vars(ins # NoFrame /\ Work) /\ WF_vars(NoRoom)
-----------------------------------------------------------------------------
Settled(h) == phase = "run" /\ (ins = NoFrame \/ ins.obj # h)

(* Whatever the interleaving, each map translates the k-th block offset to  *)
(* the k-th block that was inserted and has nothing beyond: a merge, which  *)
(* looks at block numbers only, never joins runs apart in the file.         *)
MapCorrect ==
    \A h \in Handles : Settled(h) =>
        \A off \in 0..Len(mapped[h]) :
            GetBlock(core[h], off) = IF off < Len(mapped[h]) THEN mapped[h][off + 1]
                                     ELSE TARBLK_NONE

(* The free inode's map reaches every inode number given out so far, which  *)
(* InodeFactory::getInode relies on without a check.                        *)
InodesMapped ==
    Settled(TARFS_FREE_INO) => \A ino \in 0..inodeNum-1 : GetBlock(core[TARFS_FREE_INO], ino) \in used["dinode"]

Image(s) == {s[i] : i \in DOMAIN s}
Inds(h) == Image(IndBlocks(core[h]))

(* Indirect blocks: di_nExtents counts them, only the last of a map may     *)
(* have room, no block serves two maps or twice in one, and none that was   *)
(* allocated is lost.                                                       *)
IndirectsOwned ==
    (phase = "run" /\ ins = NoFrame) =>
        /\ \A h \in Handles :
              LET inds == IndBlocks(core[h]) IN
              /\ Len(inds) = IF core[h].di_nExtents > MAX_DINODE_DIRECT
                             THEN core[h].di_nExtents - MAX_DINODE_DIRECT ELSE 0
              /\ \A i, j \in DOMAIN inds : i # j => inds[i] # inds[j]
              /\ \A i \in 1..Len(inds)-1 : Len(disk[inds[i]].ie_dext) = MAX_INDEXT
        /\ \A g, h \in Handles : g # h => Inds(g) \intersect Inds(h) = {}
        /\ used["iex"] = UNION {Inds(h) : h \in Handles}

(* Every insBlock comes to an end, if only by a rollback: the walk along    *)
(* the indirect blocks never runs in a circle.                                 *)
InsReturns == ins # NoFrame ~> (ins = NoFrame \/ phase = "failed")

Blocks == INSTANCE BlockClients WITH disk <- [b \in DOMAIN disk |-> Abstract(disk[b])]

(* insBlock is a client the block layer allows: it writes only blocks that  *)
(* were handed out to mkfs.                                                 *)
ObeysBlockLayer == Blocks!ClientSpec
=============================================================================
