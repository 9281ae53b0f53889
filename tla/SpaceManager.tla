---------------------------- MODULE SpaceManager ----------------------------
(***************************************************************************)
(* The block layer of mkfs.tarfs: FsMaker::readBlock / writeBlock on the   *)
(* archive file and the three SpaceManagers (directory blocks, indirect    *)
(* extent blocks, dinodes) that hand out the blocks appended to it.        *)
(*                                                                         *)
(* This module has the state and the operations; BlockClients closes them  *)
(* with the most general client, FsMaker with the real one.                *)
(*                                                                         *)
(* In all modules, a definition X_Bug that precedes X is a faulty variant  *)
(* of X.  No specification uses it: it is there to see that a property     *)
(* fails when X is replaced by it.                                         *)
(***************************************************************************)
EXTENDS TarfsMeta

CONSTANTS
    Managers,   \* the SpaceManager objects: FsMaker's dirmgr, iexmgr, dinodemgr
    Bulks       \* SpaceManager::bulks, the blocks a manager appends at a time

(* ALLOC_DIRDATA_NUM, ALLOC_IEXDATA_NUM and ALLOC_DINODE_NUM are all 256.   *)
(* allocBlock needs two: with one block per chunk it would point the head   *)
(* one past the end of the file.                                            *)
ASSUME BulksAssumption == /\ Bulks \in [Managers -> Nat]
                          /\ \A m \in Managers : Bulks[m] >= 2

VARIABLES
    orgblks,    \* length in blocks of the archive when mkfs opened it
    blks,       \* FsIO::blks, the length of the file with what was appended
                \* (after rollback, when the process is gone: the length only)
    disk,       \* the file: block number -> contents
    head,       \* SpaceManager::blkno, the first free block of each manager
    used,       \* history: the blocks each manager has handed out ...
    calls       \* ... and how often it has handed one out

spaceVars == <<orgblks, blks, disk, head, used, calls>>

TarBlock == [kind |-> "tar"]            \* a block of the archive itself

AllUsed == UNION {used[m] : m \in Managers}
-----------------------------------------------------------------------------
(* The file as FsMaker::create finds it: n blocks of archive, no manager    *)
(* owns anything.                                                           *)
SpaceInit(n) ==
    /\ orgblks = n
    /\ blks = n
    /\ disk = [b \in 0..n-1 |-> TarBlock]
    /\ head = [m \in Managers |-> TARBLK_NONE]
    /\ used = [m \in Managers |-> {}]
    /\ calls = [m \in Managers |-> 0]

writeBlock_KeepsSize(bufp, blkno, nblks) ==
    /\ blks' = blks
    /\ disk' = [b \in 0..blks-1 |-> IF b \in blkno..blkno+nblks-1
                                    THEN bufp[b - blkno] ELSE disk[b]]

(* FsMaker::writeBlock of nblks blocks from blkno on.                       *)
writeBlock(bufp, blkno, nblks) ==
    /\ blks' = IF blkno + nblks > blks THEN blkno + nblks ELSE blks
    /\ disk' = [b \in 0..blks'-1 |-> IF b \in blkno..blkno+nblks-1
                                     THEN bufp[b - blkno] ELSE disk[b]]

FreeChunk_Unterminated(first, n) == [i \in 0..n-1 |-> Free(first + i + 1)]

(* The chunk a refill appends: n free blocks from first on, each naming its *)
(* successor and the last one none.                                         *)
FreeChunk(first, n) ==
    [i \in 0..n-1 |-> Free(IF i = n - 1 THEN TARBLK_NONE ELSE first + i + 1)]

(* The block the next allocBlock of manager m returns.                      *)
NextBlock(m) == IF head[m] = TARBLK_NONE THEN blks ELSE head[m]

HandOut(m) == /\ used' = [used EXCEPT ![m] = @ \union {NextBlock(m)}]
              /\ calls' = [calls EXCEPT ![m] = @ + 1]

Refill_FirstStaysFree(m) ==
    /\ head[m] = TARBLK_NONE
    /\ head' = [head EXCEPT ![m] = blks]
    /\ writeBlock(FreeChunk(blks, Bulks[m]), blks, Bulks[m])

Refill(m) ==
    /\ head[m] = TARBLK_NONE
    /\ head' = [head EXCEPT ![m] = blks + 1]
    /\ writeBlock(FreeChunk(blks, Bulks[m]), blks, Bulks[m])

PopFree_HeadStays(m) ==
    /\ head[m] # TARBLK_NONE
    /\ UNCHANGED <<head, blks, disk>>

PopFree(m) ==
    /\ head[m] # TARBLK_NONE
    /\ head' = [head EXCEPT ![m] = disk[head[m]].f_nextblkno]
    /\ UNCHANGED <<blks, disk>>

(* SpaceManager::allocBlock; the block it returns is NextBlock(m).          *)
allocBlock(m) ==
    /\ Refill(m) \/ PopFree(m)
    /\ HandOut(m)
    /\ UNCHANGED orgblks

rollback_CutsTooMuch ==
    /\ disk' = [b \in 0..orgblks-2 |-> disk[b]]
    /\ blks' = orgblks - 1
    /\ UNCHANGED <<orgblks, head, used, calls>>

(* FsMaker::rollback: cut the file back to the archive; the process exits.  *)
rollback ==
    /\ disk' = [b \in 0..orgblks-1 |-> disk[b]]
    /\ blks' = orgblks
    /\ UNCHANGED <<orgblks, head, used, calls>>
-----------------------------------------------------------------------------
(* The free blocks of manager m run from its head to block e, in order.     *)
Chain(m, e) ==
    /\ head[m] <= e
    /\ e < blks
    /\ \A b \in head[m]..e :
          disk[b] = Free(IF b = e THEN TARBLK_NONE ELSE b + 1)

HasFree(m) == head[m] # TARBLK_NONE

(* What the block layer sees of a block: free, the archive's, the           *)
(* superblock, or somebody's.                                               *)
Abstract(c) ==
    IF c.kind \in {"tar", "free"} THEN c
    ELSE [kind |-> IF c.kind = "super" THEN "super" ELSE "data"]
=============================================================================
