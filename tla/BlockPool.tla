------------------------------ MODULE BlockPool ------------------------------
(***************************************************************************)
(* What the block layer promises to the rest of mkfs.tarfs, without chunks *)
(* or free chains: every allocation returns a block past the archive that  *)
(* nobody was given before, and the blocks one manager hands out only      *)
(* grow.  The merging of extents in Inode::insBlock relies on the latter:  *)
(* it compares physical block numbers and never logical offsets.           *)
(***************************************************************************)
EXTENDS Integers

CONSTANTS
    Managers,
    Blocks          \* block numbers

VARIABLES
    orgblks,        \* the archive is blocks 0..orgblks-1
    used,           \* the blocks handed out to each manager's clients
    calls           \* how often a block was handed out

PoolInit == /\ used = [m \in Managers |-> {}]
            /\ calls = [m \in Managers |-> 0]

Give(m, b) ==
    /\ b >= orgblks
    /\ \A k \in Managers : b \notin used[k]
    /\ \A c \in used[m] : c < b
    /\ used' = [used EXCEPT ![m] = @ \union {b}]
    /\ calls' = [calls EXCEPT ![m] = @ + 1]
    /\ UNCHANGED orgblks

PoolNext == \E m \in Managers, b \in Blocks : Give(m, b)

PoolSpec == PoolInit /\ [][PoolNext]_<<orgblks, used, calls>>
=============================================================================
