------------------------------- MODULE FsTree -------------------------------
(***************************************************************************)
(* What mkfs.tarfs must have built: the file system a reader finds is the  *)
(* tree the archive describes.  The reader here follows the superblock,    *)
(* the free inode's map, dinodes and directory blocks as FsReader and the  *)
(* kernel do; the tree is computed from the archive alone.                 *)
(***************************************************************************)
EXTENDS FsMaker

Last(p) == p[Len(p)]
Front(p) == SubSeq(p, 1, Len(p) - 1)

(* The members that make path p or run through it, without those whose work *)
(* is out of reach: a later member made an ancestor of p something else.    *)
Prefix(p, n) == SubSeq(p, 1, n)
Through(k, p) ==
    {j \in 1..k :
        /\ Len(files[j].path) >= Len(p) /\ Prefix(files[j].path, Len(p)) = p
        /\ \A i \in j+1..k, n \in 1..Len(p)-1 :
              files[i].path = Prefix(p, n) => files[i].ftype = "dir"}

(* The tree after the first k members: every prefix of a path is there.     *)
Paths(k) == {p \in UNION {{Prefix(files[j].path, n) : n \in 1..Len(files[j].path)} : j \in 1..k} :
                Through(k, p) # {}}
Kids(k, p) == {q \in Paths(k) : Front(q) = p}

(* The last member with path p describes it; an ancestor no member names is *)
(* a directory without a header.                                            *)
Named(k, p) == {j \in Through(k, p) : files[j].path = p}
Described(k, p) == CHOOSE j \in Named(k, p) : \A i \in Named(k, p) : i <= j
RefType(k, p) == IF Named(k, p) = {} THEN "dir" ELSE files[Described(k, p)].ftype

(* The entry of a path and its parent's link count keep the type it was     *)
(* first made with; a directory that once was something else has lost the   *)
(* entries of its own, and what was below it.                               *)
FirstType(k, p) ==
    LET j == CHOOSE j \in Through(k, p) : \A i \in Through(k, p) : j <= i
    IN  IF files[j].path = p THEN files[j].ftype ELSE "dir"
Replaced(k, p) == \E j \in Named(k, p) : files[j].ftype # "dir"

(* What path p leads to from root, through the directories' entries.        *)
Absent == NoObject
Resolve(free, root, p) ==
    LET at[n \in 0..Len(p)] ==
            IF n = 0 THEN root
            ELSE LET d == at[n-1] IN
                 IF d.di_mode # "dir" \/ ~Has(d, p[n]) THEN Absent
                 ELSE lookup(free, d, p[n])
    IN  at[Len(p)]

SameFile(o, k, p) ==
    LET j == Described(k, p)
        h == HeaderBlk(files, j)
    IN  /\ o.di_header = h
        /\ o.di_size = files[j].size
        /\ \A off \in 0..Blocks(files[j])-1 : GetBlock(o, off) = h + 1 + off
        /\ GetBlock(o, Blocks(files[j])) = TARBLK_NONE

SameDir(o, free, root, k, p) ==
    LET es == DirEnts(o)
        names == {es[i].d_name : i \in DOMAIN es}
        parent == Resolve(free, root, IF p = <<>> THEN p ELSE Front(p))
    IN  /\ names = {Last(q) : q \in Kids(k, p)}
                     \union (IF Replaced(k, p) THEN {} ELSE {".", ".."})
        /\ Len(es) = Cardinality(names)
        /\ ~Replaced(k, p) => /\ EntryOf(o, ".").d_ino = o.ino
                              /\ EntryOf(o, "..").d_ino = parent.ino
        /\ \A q \in Kids(k, p) : EntryOf(o, Last(q)).d_ftype = FirstType(k, q)
        /\ o.di_header = IF p = <<>> \/ Named(k, p) = {} THEN TARBLK_NONE
                         ELSE HeaderBlk(files, Described(k, p))

IsTree(free, root, k) ==
    /\ \A p \in Paths(k) \union {<<>>} :
          LET o == Resolve(free, root, p) IN
          /\ o.di_mode = IF p = <<>> THEN "dir" ELSE RefType(k, p)
          /\ IF o.di_mode # "dir" THEN SameFile(o, k, p)
             ELSE IF HoldsData(o) THEN \E i \in Named(k, p) : files[i].size > 0
             ELSE SameDir(o, free, root, k, p)
    /\ \A p, q \in Paths(k) \union {<<>>} :
          p # q => Resolve(free, root, p).ino # Resolve(free, root, q).ino

(* The reader of the finished file starts from its last block.              *)
Sb == disk[blks - 1]
DiskFree == LoadInode(TARFS_FREE_INO, TARFS_FREE_INO, Sb.tarfs_free)
DiskRoot == LoadInode(TARFS_ROOT_INO, TARFS_ROOT_INO, Sb.tarfs_root)
Mountable == blks - 1 \in DOMAIN disk /\ Sb.kind = "super"
Between == At("get")
-----------------------------------------------------------------------------
(* Each time add returns, the members so far make exactly their tree, by    *)
(* the objects in memory over what is in the file: no dinode was read stale *)
(* or left unsynced, later members describe again what they name again,     *)
(* with another type too.  What had a size and was made a directory is none *)
(* that can be read: there the tree ends.                                   *)
TreeSoFar == Between => IsTree(core["free"], core["root"], cur)

(* A file that ends in a superblock holds the whole tree, with nothing left *)
(* to memory: whatever is killed or fails before that cannot be mounted.    *)
MountedIsWhole ==
    Mountable =>
        /\ disk[Sb.tarfs_free].kind = "dinode"
        /\ disk[Sb.tarfs_root].kind = "dinode"
        /\ IsTree(DiskFree, DiskRoot, Len(files))

(* The superblock: its pointers are where the map of inode 0 puts inodes 0  *)
(* and 1, cutting tarfs_size off the end leaves the archive (detachtarfs),  *)
(* every inode number is mapped, and the free lists are intact.             *)
SuperblockSound ==
    Mountable =>
        /\ blks - Sb.tarfs_size = orgblks
        /\ GetBlock(DiskFree, TARFS_FREE_INO) = Sb.tarfs_free
        /\ GetBlock(DiskFree, TARFS_ROOT_INO) = Sb.tarfs_root
        /\ \A ino \in 0..Sb.tarfs_inodes-1 :
              LET b == GetBlock(DiskFree, ino)
              IN  b \in orgblks..blks-2 /\ disk[b].kind = "dinode"
        /\ \A m \in Managers : Sb.tarfs_flist[m] # TARBLK_NONE =>
              \E e \in orgblks..blks-2 : Chain(m, e)

(* The file starts with the archive, unaltered, completed, failed, killed   *)
(* or at work, and what fails leaves nothing behind it; except where data   *)
(* has been taken for directory entries, which may be written over.         *)
ArchiveStays ==
    phase # "astray" =>
        /\ \A b \in 0..orgblks-1 : b \in DOMAIN disk /\ disk[b] = TarBlock
        /\ phase = "failed" => DOMAIN disk = 0..orgblks-1

(* Link counts: two for a directory and one per subdirectory, by the types  *)
(* paths were first made with; setFile leaves them alone.                   *)
LinkCounts ==
    Between =>
        \A p \in Paths(cur) \union {<<>>} :
            LET o == Resolve(core["free"], core["root"], p)
                isDirFirst == p = <<>> \/ FirstType(cur, p) = "dir"
            IN  (\A j \in Named(cur, p) : (files[j].ftype = "dir") = isDirFirst) =>
                    o.di_nlink = IF isDirFirst
                                 THEN 2 + Cardinality({q \in Kids(cur, p) : FirstType(cur, q) = "dir"})
                                 ELSE 1

(* Every directory block is filled to the byte by aligned records that have *)
(* room for their names, however entries were split.                        *)
DirBlocksFormed ==
    \A b \in DOMAIN disk : disk[b].kind = "dir" =>
        LET es == disk[b].ents
            sum[j \in 0..Len(es)] == IF j = 0 THEN 0 ELSE sum[j-1] + es[j].d_reclen
        IN  /\ sum[Len(es)] = TAR_BLOCKSIZE
            /\ \A j \in DOMAIN es : /\ es[j].d_reclen % 4 = 0
                                    /\ DIRENT_SIZE(strlen(es[j].d_name)) <= es[j].d_reclen

Objects(k) == {Resolve(core["free"], core["root"], p) : p \in Paths(k) \union {<<>>}}
Image(s) == {s[i] : i \in DOMAIN s}

(* Every block mkfs took has one place in the file system and none is lost: *)
(* dinodes by inode number, directory blocks, indirect blocks.              *)
BlocksOwnedOnce ==
    Between =>
        LET dirs == {o \in Objects(cur) : o.di_mode = "dir"}
            maps == dirs \union {core["free"]}
            inos == {o.ino : o \in Objects(cur)} \union {TARFS_FREE_INO}
        IN  /\ Cardinality(used["dinode"]) = inodeNum
            /\ inos = 0..inodeNum-1
            /\ used["dinode"] = {GetBlock(core["free"], ino) : ino \in inos}
            /\ used["dir"] = UNION {Image(DirBlks(d)) : d \in dirs}
            /\ \A d, e \in dirs : d # e => Image(DirBlks(d)) \intersect Image(DirBlks(e)) = {}
            /\ used["iex"] = UNION {Image(IndBlocks(d)) : d \in maps}
            /\ \A d, e \in maps : d # e => Image(IndBlocks(d)) \intersect Image(IndBlocks(e)) = {}

(* mkfs comes to an end: no archive sends lookups, walks along indirect     *)
(* blocks or directory scans round in circles, nobody need kill it.         *)
Terminates == <>(phase # "run")

BlockLayer == INSTANCE BlockClients WITH disk <- [b \in DOMAIN disk |-> Abstract(disk[b])]

(* mkfs.tarfs is a client the block layer allows: it writes only blocks it  *)
(* was handed and one superblock past the end, and so, by the theorems      *)
(* about BlockClients, never touches the archive.                           *)
ObeysBlockLayer == BlockLayer!ClientSpec
=============================================================================
