---------------------------- MODULE BlockClients ----------------------------
(***************************************************************************)
(* SpaceManager under its most general client: a mkfs process that, in any *)
(* order, allocates from any manager, overwrites blocks it was handed,     *)
(* writes the superblock past the end when it completes, and may be undone *)
(* by an I/O error or killed at any point, also halfway through the write  *)
(* of a chunk.  FsMaker is shown to be such a client.                      *)
(***************************************************************************)
EXTENDS SpaceManager

CONSTANT MaxBlks    \* what fits on the medium: a write past it fails

VARIABLE phase      \* "run", "done" (completed), "failed" (rolled back),
                    \* "killed"

vars == <<orgblks, blks, disk, head, used, calls, phase>>

ASSUME MediumAssumption == MaxBlks \in Nat

DataBlock == [kind |-> "data"]      \* a dinode, directory or indirect block
SuperBlock == [kind |-> "super"]

ClientInit ==
    /\ \E n \in 1..MaxBlks : SpaceInit(n)
    /\ phase = "run"

Fits(n) == blks + n <= MaxBlks

Alloc(m) ==
    /\ phase = "run"
    /\ HasFree(m) \/ Fits(Bulks[m])
    /\ allocBlock(m)
    /\ UNCHANGED phase

(* A client writes only blocks some allocBlock returned.                    *)
WriteUsed(b) ==
    /\ phase = "run"
    /\ writeBlock([i \in 0..0 |-> DataBlock], b, 1)
    /\ UNCHANGED <<orgblks, head, used, calls, phase>>

(* FsMaker::complete: the superblock becomes the last block of the file.    *)
Complete ==
    /\ phase = "run"
    /\ Fits(1)
    /\ writeBlock([i \in 0..0 |-> SuperBlock], blks, 1)
    /\ phase' = "done"
    /\ UNCHANGED <<orgblks, head, used, calls>>

(* Any readBlock or writeBlock, or malloc in allocBlock, may fail.          *)
Fail ==
    /\ phase = "run"
    /\ rollback
    /\ phase' = "failed"

Kill ==
    /\ phase = "run"
    /\ phase' = "killed"
    /\ UNCHANGED spaceVars

(* The process dies when k blocks of a chunk have reached the file.         *)
KillInRefill(m, k) ==
    /\ phase = "run"
    /\ ~HasFree(m)
    /\ Fits(k)
    /\ writeBlock(FreeChunk(blks, Bulks[m]), blks, k)
    /\ phase' = "killed"
    /\ UNCHANGED <<orgblks, head, used, calls>>

ClientNext ==
    \/ \E m \in Managers : Alloc(m)
    \/ \E b \in AllUsed : WriteUsed(b)
    \/ Complete
    \/ Fail
    \/ Kill
    \/ \E m \in Managers : \E k \in 1..Bulks[m]-1 : KillInRefill(m, k)

ClientSpec == ClientInit /\ [][ClientNext]_vars
-----------------------------------------------------------------------------
Contents == {TarBlock, DataBlock, SuperBlock}
                \union [kind : {"free"}, f_nextblkno : Nat \union {TARBLK_NONE}]

(* Type invariant: the file has blks blocks, and what was handed out lies   *)
(* between the archive and its end.                                         *)
TypeOK ==
    /\ orgblks \in Nat
    /\ blks \in Nat
    /\ orgblks <= blks
    /\ blks <= MaxBlks
    /\ disk \in [0..blks-1 -> Contents]
    /\ head \in [Managers -> Nat \union {TARBLK_NONE}]
    /\ used \in [Managers -> SUBSET (orgblks..MaxBlks-1)]
    /\ calls \in [Managers -> Nat]
    /\ phase \in {"run", "done", "failed", "killed"}
    /\ phase = "run" => used \in [Managers -> SUBSET (orgblks..blks-1)]

(* Every manager's free list in the file is one ascending run of linked     *)
(* free blocks that ends with TARBLK_NONE.                                  *)
ChainsEnd == \A m \in Managers : HasFree(m) => \E e \in 0..blks-1 : Chain(m, e)

(* A block on a manager's free list is past the archive, was handed out by  *)
(* no manager, and comes after all that its own manager has handed out.     *)
ChainsFresh ==
    \A m \in Managers : HasFree(m) =>
        \A e \in 0..blks-1 : Chain(m, e) =>
            \A b \in head[m]..e :
                /\ b >= orgblks
                /\ \A k \in Managers : b \notin used[k]
                /\ \A c \in used[m] : c < b

(* No block is on the free lists of two managers.                           *)
ChainsDisjoint ==
    \A m, k \in Managers : (m # k /\ HasFree(m) /\ HasFree(k)) =>
        \A e, f \in 0..blks-1 :
            (Chain(m, e) /\ Chain(k, f)) => (e < head[k] \/ f < head[m])

(* While mkfs runs, the free lists stored in the file stay well formed,     *)
(* disjoint and unused, whatever order the three managers refill in.        *)
ChainsIntact == phase = "run" => ChainsEnd /\ ChainsFresh /\ ChainsDisjoint

(* allocBlock never returns a block it, or another manager, has handed out  *)
(* before, nor one of the archive, nor one that is not in the file.         *)
FreshBlock ==
    [][\A m \in Managers : Alloc(m) =>
          NextBlock(m) \in orgblks..blks'-1 /\ NextBlock(m) \notin AllUsed]_vars

(* mkfs, also when it fails or is killed, leaves the archive's own blocks   *)
(* as they were and never shortens the file below them.                     *)
TarUntouched ==
    [][/\ orgblks' = orgblks
       /\ \A b \in 0..orgblks-1 : b \in DOMAIN disk' /\ disk'[b] = disk[b]]_vars

(* The block layer implements the abstract pool of fresh blocks.            *)
Pool == INSTANCE BlockPool WITH Blocks <- 0..MaxBlks
ImplementsPool == Pool!PoolSpec
=============================================================================
