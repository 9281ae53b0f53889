-------------------------------- MODULE Dir --------------------------------
(***************************************************************************)
(* Inode objects of mkfs.tarfs and directories: what the dinode and        *)
(* directory blocks hold, and the operations of Inode and Dir that compute *)
(* on them without writing (FsMaker has those that write).                 *)
(***************************************************************************)
EXTENDS Inode

CONSTANT NameLen    \* name -> strlen, for the names of the archives

strlen(name) == CASE name = "." -> 1 [] name = ".." -> 2 [] OTHER -> NameLen[name]

(* The blocks of a member's data: none but for a regular file.              *)
Blocks(f) == IF f.ftype = "reg" THEN TARFS_BLOCKS(f.size) ELSE 0
-----------------------------------------------------------------------------
DinodeFields == {"di_mode", "di_nlink", "di_size", "di_blocks", "di_header",
                 "di_nExtents", "di_directExtent", "di_rootIndExt"}

(* Inode::initialize.                                                       *)
NewInode(ino, pino, blkno, ftype) ==
    [ino |-> ino, pino |-> pino, blkno |-> blkno, ftype |-> ftype,
     di_mode |-> ftype, di_nlink |-> 1, di_size |-> 0, di_blocks |-> 0,
     di_header |-> TARBLK_NONE, di_nExtents |-> 0, di_directExtent |-> <<>>,
     di_rootIndExt |-> 0]

NoObject == NewInode(-1, -1, TARBLK_NONE, "none")

Dinode(o) == [kind |-> "dinode", di |-> [f \in DinodeFields |-> o[f]]]

(* The constructor that reads the dinode.                                   *)
LoadInode(ino, pino, blkno) ==
    LET di == disk[blkno].di
    IN  [ino |-> ino, pino |-> pino, blkno |-> blkno, ftype |-> di.di_mode,
         di_mode |-> di.di_mode, di_nlink |-> di.di_nlink, di_size |-> di.di_size,
         di_blocks |-> di.di_blocks, di_header |-> di.di_header,
         di_nExtents |-> di.di_nExtents, di_directExtent |-> di.di_directExtent,
         di_rootIndExt |-> di.di_rootIndExt]

(* InodeFactory::getInode, through the free inode's map.                    *)
getInode(free, ino, pino) == LoadInode(ino, pino, GetBlock(free, ino))

setFile_KeepsExtent(o, f, h) ==
    IF f.ftype = "dir" THEN [o EXCEPT !.di_header = h]
    ELSE [o EXCEPT !.di_header = h, !.di_mode = f.ftype,
                   !.di_size = f.size, !.di_blocks = Blocks(f)]

(* Inode::setFile, for member f with its header at block h.                 *)
setFile(o, f, h) ==
    LET o1 == [o EXCEPT !.di_header = h, !.di_mode = f.ftype]
    IN  IF f.ftype = "dir" THEN o1
        ELSE [o1 EXCEPT !.di_size = f.size,
                        !.di_blocks = Blocks(f),
                        !.di_nExtents = IF Blocks(f) > 0 THEN 1 ELSE 0,
                        !.di_directExtent = IF Blocks(f) > 0
                                            THEN <<Extent(0, h + 1, Blocks(f))>> ELSE <<>>]

isDir(o) == o.ftype = "dir"
-----------------------------------------------------------------------------
(* The blocks of a directory in the order lookup and searchFreeSpace read   *)
(* them, and all their entries.                                             *)
DirBlks(d) == [k \in 1..(d.di_size \div TAR_BLOCKSIZE) |-> GetBlock(d, k - 1)]
DirEnts(d) ==
    LET blk == DirBlks(d)
        upto[k \in 0..Len(blk)] == IF k = 0 THEN <<>> ELSE upto[k-1] \o disk[blk[k]].ents
    IN  upto[Len(blk)]

(* Dir::lookup.                                                             *)
Has(d, name) == LET es == DirEnts(d) IN \E j \in DOMAIN es : es[j].d_name = name
EntryOf(d, name) ==
    LET es == DirEnts(d)
    IN  es[CHOOSE j \in DOMAIN es : /\ es[j].d_name = name
                                    /\ \A i \in 1..j-1 : es[i].d_name # name]
lookup(free, d, name) == getInode(free, EntryOf(d, name).d_ino, d.ino)

(* Dir::searchFreeSpace: the first entry with enough room behind it.  (No   *)
(* entry is ever unused, so that branch of the code is dead.)               *)
HasRoom(e, name) == e.d_reclen - DIRECT_SIZE(strlen(e.d_name)) >= DIRENT_SIZE(strlen(name))
Slots(d, name) ==
    LET blk == DirBlks(d)
    IN  UNION {{<<k, j>> : j \in {j \in DOMAIN disk[blk[k]].ents :
                                     HasRoom(disk[blk[k]].ents[j], name)}}
               : k \in DOMAIN blk}
FirstSlot(S) == CHOOSE s \in S : \A t \in S : s[1] < t[1] \/ (s[1] = t[1] /\ s[2] <= t[2])

Split_ByDirectSize(es, j, ino, name, ftype) ==
    LET len == strlen(es[j].d_name)
    IN  SubSeq(es, 1, j-1)
        \o <<[es[j] EXCEPT !.d_reclen = DIRENT_SIZE(len)],
             Entry(ino, es[j].d_reclen - DIRECT_SIZE(len), name, ftype)>>
        \o SubSeq(es, j+1, Len(es))

(* addDirEntry splits entry j: it keeps DIRENT_SIZE, the new entry the rest. *)
Split(es, j, ino, name, ftype) ==
    LET keep == DIRENT_SIZE(strlen(es[j].d_name))
    IN  SubSeq(es, 1, j-1)
        \o <<[es[j] EXCEPT !.d_reclen = keep],
             Entry(ino, es[j].d_reclen - keep, name, ftype)>>
        \o SubSeq(es, j+1, Len(es))
=============================================================================
