------------------------------- MODULE Inode -------------------------------
(***************************************************************************)
(* Block maps of inodes: Inode::insBlock adds an extent to the map of an   *)
(* inode object in memory, Inode::getBlock and the kernel's                *)
(* tarfs_getDataBlock translate a block offset.  A map is an array of      *)
(* direct extents followed by a linked list of indirect extent blocks.     *)
(*                                                                         *)
(* insBlock reads and writes several blocks and calls allocBlock in        *)
(* between, so it is a frame (variable ins) that advances by one block     *)
(* operation per step; the caller waits until the frame is gone.           *)
(***************************************************************************)
EXTENDS SpaceManager, Sequences

CONSTANTS
    MAX_DINODE_DIRECT,  \* direct extents of a dinode (17)
    MAX_INDEXT          \* extents of an indirect extent block (20)

ASSUME IndExtAssumption == /\ MAX_DINODE_DIRECT \in Nat \ {0}
                           /\ MAX_INDEXT \in Nat \ {0}
                           /\ "iex" \in Managers

VARIABLES
    core,   \* inode objects in memory: handle -> object with the di_ fields
    ins     \* the running insBlock, or NoFrame

inodeVars == <<core, ins>>

NoFrame == [at |-> "none"]

(* The part of a new dinode this module looks at.  di_nExtents counts the   *)
(* direct extents and then the indirect blocks, not their extents.          *)
EmptyMap == [di_nExtents |-> 0, di_directExtent |-> <<>>, di_rootIndExt |-> 0]

Follows_AtAnyDistance(e, de) == e.de_blkno + e.de_nblks <= de.de_blkno

(* The blocks an extent stands for, in order.                               *)
Grown(de) == [i \in 1..de.de_nblks |-> de.de_blkno + i - 1]

(* insBlock merges de into the first extent it follows on the disk.         *)
Follows(e, de) == e.de_blkno + e.de_nblks = de.de_blkno
Merges(exts, de) == \E i \in DOMAIN exts : Follows(exts[i], de)
Merge(exts, de) ==
    LET i == CHOOSE i \in DOMAIN exts :
                /\ Follows(exts[i], de)
                /\ \A j \in 1..i-1 : ~Follows(exts[j], de)
    IN  [exts EXCEPT ![i].de_nblks = @ + de.de_nblks]
-----------------------------------------------------------------------------
(* The call insBlock(fs, de) on the object with handle h.                   *)
Call(h, de) == ins' = [at |-> "direct", obj |-> h, de |-> de, ind_off |-> 0, new |-> 0]
Return == ins' = NoFrame

Running(at) == ins.at = at
Obj == core[ins.obj]
writeIex(c, b) == writeBlock([i \in 0..0 |-> c], b, 1)

InsDirectMerge ==
    /\ Running("direct")
    /\ Merges(Obj.di_directExtent, ins.de)
    /\ core' = [core EXCEPT ![ins.obj].di_directExtent = Merge(@, ins.de)]
    /\ Return
    /\ UNCHANGED spaceVars

InsDirectAppend ==
    /\ Running("direct")
    /\ ~Merges(Obj.di_directExtent, ins.de)
    /\ Obj.di_nExtents < MAX_DINODE_DIRECT
    /\ core' = [core EXCEPT ![ins.obj].di_directExtent = Append(@, ins.de),
                            ![ins.obj].di_nExtents = @ + 1]
    /\ Return
    /\ UNCHANGED spaceVars

(* The direct extents are full and there is no indirect block yet.          *)
NeedsFirst ==
    /\ Running("direct")
    /\ ~Merges(Obj.di_directExtent, ins.de)
    /\ Obj.di_nExtents = MAX_DINODE_DIRECT

InsFirstIndirect_NotTaken ==
    /\ NeedsFirst
    /\ UNCHANGED spaceVars
    /\ core' = [core EXCEPT ![ins.obj].di_rootIndExt = NextBlock("iex")]
    /\ ins' = [ins EXCEPT !.at = "fill", !.new = NextBlock("iex")]

InsFirstIndirect ==
    /\ NeedsFirst
    /\ allocBlock("iex")
    /\ core' = [core EXCEPT ![ins.obj].di_rootIndExt = NextBlock("iex")]
    /\ ins' = [ins EXCEPT !.at = "fill", !.new = NextBlock("iex")]

InsDescend ==
    /\ Running("direct")
    /\ ~Merges(Obj.di_directExtent, ins.de)
    /\ Obj.di_nExtents > MAX_DINODE_DIRECT
    /\ ins' = [ins EXCEPT !.at = "walk", !.ind_off = Obj.di_rootIndExt]
    /\ UNCHANGED <<spaceVars, core>>

(* The walk along the indirect blocks, one block at a time.                 *)
indExt == disk[ins.ind_off]

InsWalkMerge ==
    /\ Running("walk")
    /\ Merges(indExt.ie_dext, ins.de)
    /\ writeIex([indExt EXCEPT !.ie_dext = Merge(@, ins.de)], ins.ind_off)
    /\ Return
    /\ UNCHANGED <<orgblks, head, used, calls, core>>

InsWalkNext_Stays ==
    /\ Running("walk")
    /\ ~Merges(indExt.ie_dext, ins.de)
    /\ indExt.ie_next # TARBLK_NONE
    /\ UNCHANGED <<spaceVars, core, ins>>

InsWalkNext ==
    /\ Running("walk")
    /\ ~Merges(indExt.ie_dext, ins.de)
    /\ indExt.ie_next # TARBLK_NONE
    /\ ins' = [ins EXCEPT !.ind_off = indExt.ie_next]
    /\ UNCHANGED <<spaceVars, core>>

InsWalkAppend ==
    /\ Running("walk")
    /\ ~Merges(indExt.ie_dext, ins.de)
    /\ indExt.ie_next = TARBLK_NONE
    /\ Len(indExt.ie_dext) < MAX_INDEXT
    /\ writeIex([indExt EXCEPT !.ie_dext = Append(@, ins.de)], ins.ind_off)
    /\ Return
    /\ UNCHANGED <<orgblks, head, used, calls, core>>

(* The last indirect block is full.                                         *)
NeedsNext ==
    /\ Running("walk")
    /\ ~Merges(indExt.ie_dext, ins.de)
    /\ indExt.ie_next = TARBLK_NONE
    /\ Len(indExt.ie_dext) = MAX_INDEXT

InsWalkFull ==
    /\ NeedsNext
    /\ allocBlock("iex")
    /\ ins' = [ins EXCEPT !.at = "link", !.new = NextBlock("iex")]
    /\ UNCHANGED core

InsLink_Unlinked ==
    /\ Running("link")
    /\ ins' = [ins EXCEPT !.at = "fill"]
    /\ UNCHANGED <<spaceVars, core>>

InsLink ==
    /\ Running("link")
    /\ writeIex([indExt EXCEPT !.ie_next = ins.new], ins.ind_off)
    /\ ins' = [ins EXCEPT !.at = "fill"]
    /\ UNCHANGED <<orgblks, head, used, calls, core>>

InsFill_NotCounted ==
    /\ Running("fill")
    /\ writeIex(IndExt(<<ins.de>>, TARBLK_NONE), ins.new)
    /\ Return
    /\ UNCHANGED <<orgblks, head, used, calls, core>>

InsFill ==
    /\ Running("fill")
    /\ writeIex(IndExt(<<ins.de>>, TARBLK_NONE), ins.new)
    /\ core' = [core EXCEPT ![ins.obj].di_nExtents = @ + 1]
    /\ Return
    /\ UNCHANGED <<orgblks, head, used, calls>>

(* Steps that allocate are apart: they need room on the medium.             *)
InsAlloc == InsFirstIndirect \/ InsWalkFull
InsOther ==
    \/ InsDirectMerge \/ InsDirectAppend
    \/ InsDescend \/ InsWalkMerge \/ InsWalkNext \/ InsWalkAppend
    \/ InsLink \/ InsFill
-----------------------------------------------------------------------------
Covers(e, off) == e.de_off <= off /\ off < e.de_off + e.de_nblks
Finds(exts, off) == \E i \in DOMAIN exts : Covers(exts[i], off)
Translate(exts, off) ==
    LET e == exts[CHOOSE i \in DOMAIN exts :
                     Covers(exts[i], off) /\ \A j \in 1..i-1 : ~Covers(exts[j], off)]
    IN  e.de_blkno + (off - e.de_off)

(* The indirect blocks of an object in the order they are linked; ind_off[n] *)
(* is the n-th block the loop of getBlock reads, as long as there is one.   *)
(* Each holds extents, so that there are fewer than the object has.         *)
IndBlocks(d) ==
    LET ind_off[n \in 1..d.di_nExtents] ==
            IF n = 1 THEN d.di_rootIndExt
            ELSE LET b == ind_off[n-1] IN IF b = TARBLK_NONE THEN b ELSE disk[b].ie_next
    IN  IF d.di_nExtents > MAX_DINODE_DIRECT
        THEN [n \in {i \in 1..d.di_nExtents : ind_off[i] # TARBLK_NONE} |-> ind_off[n]]
        ELSE <<>>

(* Inode::getBlock and tarfs_getDataBlock: the direct extents, then the     *)
(* indirect blocks inds.  Where nothing covers off the kernel returns       *)
(* -EINVAL and getBlock leaves the caller's variable unset: TARBLK_NONE.    *)
SearchIndirect(inds, off) ==
    LET hits == {i \in DOMAIN inds : Finds(disk[inds[i]].ie_dext, off)}
    IN  IF hits = {} THEN TARBLK_NONE
        ELSE Translate(disk[inds[CHOOSE i \in hits : \A j \in hits : i <= j]].ie_dext, off)

GetBlock(d, off) ==
    IF Finds(d.di_directExtent, off) THEN Translate(d.di_directExtent, off)
    ELSE SearchIndirect(IndBlocks(d), off)
=============================================================================
