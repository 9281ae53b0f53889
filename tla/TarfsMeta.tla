------------------------------ MODULE TarfsMeta ------------------------------
(***************************************************************************)
(* include/tarfs_meta.h: the blocks of a tarfs file system and their        *)
(* sizes, as every program of the repository sees them.                     *)
(***************************************************************************)
EXTENDS Integers

TARBLK_NONE == -1                       \* (uint64_t)-1: no block
TARFS_FREE_INO == 0
TARFS_ROOT_INO == 1
TAR_BLOCKSIZE == 512
TARFS_BLOCKS(sz) == (sz + TAR_BLOCKSIZE - 1) \div TAR_BLOCKSIZE

Free(n) == [kind |-> "free", f_nextblkno |-> n]

(* tarfs_dext: de_nblks blocks from de_blkno on hold the file's blocks from *)
(* de_off on.                                                               *)
Extent(off, blkno, nblks) == [de_off |-> off, de_blkno |-> blkno, de_nblks |-> nblks]

(* tarfs_indExt; ie_num is the length of ie_dext.                           *)
IndExt(dext, next) == [kind |-> "iex", ie_dext |-> dext, ie_next |-> next]

Entry(ino, reclen, name, ftype) ==
    [d_ino |-> ino, d_reclen |-> reclen, d_name |-> name, d_ftype |-> ftype]
DirBlock(ents) == [kind |-> "dir", ents |-> ents]

(* Space a directory entry takes: DIRENT_SIZE when it is created or split   *)
(* off, DIRECT_SIZE when the room behind it is measured.                    *)
Round4(n) == (n + 3) - ((n + 3) % 4)
DIRENT_SIZE(len) == Round4(13 + len + 1)
DIRECT_SIZE(len) == 16 + Round4(len + 1)
=============================================================================
