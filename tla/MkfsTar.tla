------------------------------- MODULE MkfsTar -------------------------------
(***************************************************************************)
(* The legacy mkfs.tarfs of cmd/: mkfs_tar.c over tarfs_common.c.  It       *)
(* builds the file system of cmd_c++ with one manager object (mp), names    *)
(* its directories by copies of their dinodes, and keeps but one of them,   *)
(* the root, in memory from one member to the next.                         *)
(*                                                                          *)
(* The operators follow the functions of tarfs_common.c from one mkfs_mgr   *)
(* to the next.  A step is one function of tarfs_common.c as tarfs_create   *)
(* calls it: a read or write that fails within one ends in do_rollback,     *)
(* which leaves no trace of how far it was.                                 *)
(***************************************************************************)
EXTENDS TarfsMeta, FiniteSets, SequencesExt

CONSTANTS
    MAX_DINODE_DIRECT, MAX_INDEXT,
    ALLOC_NUM,  \* ALLOC_DIRDATA_NUM, ALLOC_IEXDATA_NUM, ALLOC_DINODE_NUM: 128
    NameLen,    \* name -> strlen
    Tars,       \* archives: sequences of members [path, flag, size, long]
    MaxBlks,    \* what fits on the medium
    MaxRuns     \* bound on the runs of mkfs on one file

VARIABLES
    members,    \* the archive
    mp,         \* mkfs_mgr_t: the file and its size, free lists, inode count,
                \* the free inode's dinode and the root in memory
    at,         \* where mkfs stands; "new", "done", "failed", "killed"
    tarblk,     \* parse_tar's tarblk
    cur,        \* members getph returned
    fnames,     \* components mkFilePath has not come to
    parent,     \* the copy parentp points to, or RootItself
    ic,         \* the inode being made
    runs,
    unread      \* history: a run has gone on without the superblock it could
                \* not read

parseVars == <<members, tarblk, cur, runs, unread>>
vars == <<parseVars, mp, at, fnames, parent, ic>>

strlen(name) == CASE name = "." -> 1 [] name = ".." -> 2 [] OTHER -> NameLen[name]
Lists == {"dirdata", "iexdata", "dinode"}
NULL == [flag |-> "none"]               \* i_ph of a directory no member names
RootItself == [i_ino |-> -1]
-----------------------------------------------------------------------------
(* What tar(1) writes: two blocks of long name where the path needs them,   *)
(* a header, the data.                                                      *)
LongBlks(f) == IF f.long THEN 2 ELSE 0
datasz(f) == IF f.flag = "REG" THEN TARFS_BLOCKS(f.size) ELSE 0
FirstBlk(k) ==
    LET blk[j \in 1..k] == IF j = 1 THEN 0
                           ELSE blk[j-1] + LongBlks(members[j-1]) + 1 + datasz(members[j-1])
    IN  blk[k]
HeaderBlk(k) == FirstBlk(k) + LongBlks(members[k])
TarBlks == (IF members = <<>> THEN 0
            ELSE HeaderBlk(Len(members)) + 1 + datasz(Last(members))) + 2
-----------------------------------------------------------------------------
(* writeData.                                                               *)
writeData(m, bufp, blkno) ==
    LET sized(size) ==
            [m EXCEPT !.m_size = size,
                      !.disk = [b \in 0..size-1 |-> IF b - blkno + 1 \in DOMAIN bufp
                                                    THEN bufp[b - blkno + 1] ELSE @[b]]]
    IN  sized(Max({m.m_size, blkno + Len(bufp)}))

Dinode(d) == [kind |-> "dinode", di |-> d]

(* _allocData: a chunk at the end of the file becomes the free list.        *)
_allocData(m, list) ==
    LET chunk == [i \in 1..ALLOC_NUM |->
                     Free(IF i = ALLOC_NUM THEN TARBLK_NONE ELSE m.m_size + i)]
    IN  [writeData(m, chunk, m.m_size) EXCEPT !.flist[list] = m.m_size]

Pop(m, list) ==
    [m |-> [m EXCEPT !.flist[list] = m.disk[@].f_nextblkno], blkno |-> m.flist[list]]

allocData(m, list) ==
    Pop(IF m.flist[list] = TARBLK_NONE THEN _allocData(m, list) ELSE m, list)
-----------------------------------------------------------------------------
(* Extents.  d is a dinode; the operators that change one return it with    *)
(* the manager.                                                             *)
IndBlocks(m, d) ==
    LET chain[b \in DOMAIN m.disk] ==
            <<b>> \o (IF m.disk[b].ie_next = TARBLK_NONE THEN <<>>
                      ELSE chain[m.disk[b].ie_next])
    IN  IF d.di_nExtents > MAX_DINODE_DIRECT THEN chain[d.di_rootIndExt] ELSE <<>>

Precedes(e, de) == e.de_blkno + e.de_nblks = de.de_blkno
Merges(exts, de) == \E i \in DOMAIN exts : Precedes(exts[i], de)
Merge(exts, de) ==
    [exts EXCEPT ![SelectInSeq(exts, LAMBDA e : Precedes(e, de))].de_nblks = @ + de.de_nblks]

AddIndirect(m, d, de) ==
    LET filled(a) == writeData(a.m, <<IndExt(<<de>>, TARBLK_NONE)>>, a.blkno)
        linked(a, inds) ==
            IF inds = <<>>
            THEN [m |-> filled(a), d |-> [d EXCEPT !.di_rootIndExt = a.blkno, !.di_nExtents = @ + 1]]
            ELSE [m |-> writeData(filled(a), <<[m.disk[Last(inds)] EXCEPT !.ie_next = a.blkno]>>,
                                  Last(inds)),
                  d |-> [d EXCEPT !.di_nExtents = @ + 1]]
    IN  linked(allocData(m, "iexdata"), IndBlocks(m, d))

(* Into an extent it follows, among the direct ones, at the end of the last *)
(* indirect block, or into a new indirect block.                            *)
insertDataExtent(m, d, de) ==
    LET inds == IndBlocks(m, d)
        ext(b) == m.disk[b].ie_dext
        hit == SelectInSeq(inds, LAMBDA b : Merges(ext(b), de))
        put(b, exts) == [m |-> writeData(m, <<[m.disk[b] EXCEPT !.ie_dext = exts]>>, b), d |-> d]
    IN  CASE Merges(d.di_directExtent, de) ->
               [m |-> m, d |-> [d EXCEPT !.di_directExtent = Merge(@, de)]]
          [] ~Merges(d.di_directExtent, de) /\ d.di_nExtents < MAX_DINODE_DIRECT ->
               [m |-> m, d |-> [d EXCEPT !.di_directExtent = Append(@, de),
                                         !.di_nExtents = @ + 1]]
          [] OTHER ->
               IF hit # 0 THEN put(inds[hit], Merge(ext(inds[hit]), de))
               ELSE IF inds # <<>> /\ Len(ext(Last(inds))) < MAX_INDEXT
                    THEN put(Last(inds), Append(ext(Last(inds)), de))
                    ELSE AddIndirect(m, d, de)

(* getDataBlock; TARBLK_NONE where it returns EINVAL.                       *)
Covers(e, off) == e.de_off <= off /\ off < e.de_off + e.de_nblks
getDataBlock(m, d, off) ==
    LET inds == IndBlocks(m, d)
        exts == FoldLeft(LAMBDA es, b : es \o m.disk[b].ie_dext, d.di_directExtent, inds)
        hit == SelectInSeq(exts, LAMBDA e : Covers(e, off))
    IN  IF hit = 0 THEN TARBLK_NONE ELSE exts[hit].de_blkno + off - exts[hit].de_off
-----------------------------------------------------------------------------
(* Dinodes.  The block for a new one has been read over the di_header that  *)
(* parse_tar set, and is then cleared: no dinode keeps its header.          *)
Cleared(ftype) ==
    [di_mode |-> ftype, di_nlink |-> IF ftype = "dir" THEN 2 ELSE 1, di_size |-> 0,
     di_blocks |-> 0, di_header |-> 0, di_nExtents |-> 0, di_directExtent |-> <<>>,
     di_rootIndExt |-> 0]

getFtype(flag) ==
    CASE flag = "REG" -> "reg" [] flag \in {"DIR", "none"} -> "dir" [] flag = "SYM" -> "lnk"
      [] OTHER -> "-1"

NewDinode(f) ==
    LET d == Cleared(getFtype(f.flag))
    IN  CASE f.flag = "REG" ->
               [d EXCEPT !.di_size = f.size, !.di_blocks = datasz(f),
                         !.di_nExtents = IF datasz(f) > 0 THEN 1 ELSE 0,
                         !.di_directExtent = IF datasz(f) > 0
                                             THEN <<Extent(0, tarblk + 1, datasz(f))>> ELSE <<>>]
          [] f.flag = "SYM" -> [d EXCEPT !.di_size = f.size]
          [] OTHER -> d

writeDinode(m, c) == writeData(m, <<Dinode(c.i_dinode)>>, c.i_blkno)

Mapped(m) == insertDataExtent(m, m.m_free, Extent(m.maxino, m.flist["dinode"], ALLOC_NUM))

allocDinodeData_NotWritten(m) ==
    LET kept(r) == [r.m EXCEPT !.m_free = r.d]
    IN  Pop(IF m.flist["dinode"] = TARBLK_NONE THEN kept(Mapped(_allocData(m, "dinode"))) ELSE m,
            "dinode")

(* A refill extends the free inode's map, in memory and in the file.        *)
allocDinodeData(m) ==
    LET kept(r) == writeData([r.m EXCEPT !.m_free = r.d], <<Dinode(r.d)>>, m.m_orgsize)
    IN  Pop(IF m.flist["dinode"] = TARBLK_NONE THEN kept(Mapped(_allocData(m, "dinode"))) ELSE m,
            "dinode")

(* allocDinode up to setNewDirEntry: the inode in block a.                  *)
NewInode(m, a, pino, f) ==
    [i_ino |-> m.maxino, i_pino |-> pino, i_blkno |-> a.blkno, i_dinode |-> NewDinode(f)]
Numbered(m) == [m EXCEPT !.maxino = @ + 1]

(* The first block of a directory, with its dots.                           *)
setNewDirEntry(m, c) ==
    LET dots == DirBlock(<<Entry(c.i_ino, DIRENT_SIZE(1), ".", "dir"),
                           Entry(c.i_pino, TAR_BLOCKSIZE - DIRENT_SIZE(1), "..", "dir")>>)
        made(a, r) ==
            [m |-> writeData(r.m, <<dots>>, a.blkno),
             ic |-> [c EXCEPT !.i_dinode = [r.d EXCEPT !.di_blocks = 1, !.di_size = TAR_BLOCKSIZE]]]
        mapped(a) ==
            made(a, insertDataExtent(a.m, c.i_dinode, Extent(c.i_dinode.di_blocks, a.blkno, 1)))
    IN  mapped(allocData(m, "dirdata"))

(* The free inode is the first block of the first chunk, which it maps.     *)
allocFreeDinode(m) ==
    LET made(r, b) ==
            [writeData(r.m, <<Dinode(r.d)>>, b) EXCEPT !.m_free = r.d, !.maxino = @ + 1]
        mapped(a) ==
            made(insertDataExtent(a.m, [Cleared("reg") EXCEPT !.di_header = TARBLK_NONE],
                                  Extent(m.maxino, a.blkno, ALLOC_NUM)), a.blkno)
    IN  mapped(Pop(_allocData(m, "dinode"), "dinode"))

getDinode(m, ino, pino) ==
    LET b == getDataBlock(m, m.m_free, ino)
    IN  [i_ino |-> ino, i_pino |-> pino, i_blkno |-> b, i_dinode |-> m.disk[b].di]
-----------------------------------------------------------------------------
(* tarfs_lookup: an entry, or the first place with room for one.            *)
DirBlks(m, d) == [k \in 1..(d.di_size \div TAR_BLOCKSIZE) |-> getDataBlock(m, d, k - 1)]
DirEnts(m, d) == FoldLeft(LAMBDA es, b : es \o m.disk[b].ents, <<>>, DirBlks(m, d))
Find(m, d, name) == SelectInSeq(DirEnts(m, d), LAMBDA e : e.d_name = name)
HasRoom(e, name) == e.d_reclen - DIRECT_SIZE(strlen(e.d_name)) >= DIRENT_SIZE(strlen(name))
RoomIn(m, b, name) == SelectInSeq(m.disk[b].ents, LAMBDA e : HasRoom(e, name))
Invalid(m, d) == d.di_size > 0 /\ getDataBlock(m, d, 0) = TARBLK_NONE   \* EINVAL

(* tarfs_create puts the entry behind another of block b ...                *)
Split(es, j, new) ==
    LET keep == DIRENT_SIZE(strlen(es[j].d_name))
    IN  SubSeq(es, 1, j - 1)
        \o <<[es[j] EXCEPT !.d_reclen = keep], [new EXCEPT !.d_reclen = es[j].d_reclen - keep]>>
        \o SubSeq(es, j + 1, Len(es))

AddEntry(m, p, b, new) ==
    [m |-> writeDinode(writeData(m, <<DirBlock(Split(m.disk[b].ents, RoomIn(m, b, new.d_name),
                                                    new))>>, b), p),
     p |-> p]

(* ... or into a block of its own.                                          *)
AddBlock(m, p, new) ==
    LET grown(r) == [p EXCEPT !.i_dinode = [r.d EXCEPT !.di_blocks = @ + 1,
                                                       !.di_size = @ + TAR_BLOCKSIZE]]
        made(a, r) ==
            [m |-> writeDinode(writeData(r.m, <<DirBlock(<<new>>)>>, a.blkno), grown(r)),
             p |-> grown(r)]
        mapped(a) ==
            made(a, insertDataExtent(a.m, p.i_dinode, Extent(p.i_dinode.di_blocks, a.blkno, 1)))
    IN  mapped(allocData(m, "dirdata"))
-----------------------------------------------------------------------------
(* A write past the end of the medium fails: see do_rollback.               *)
Fits(m) == m.m_size <= MaxBlks
HasSuper(m) == m.disk[m.m_size - 1].kind = "super"

Running == at \notin {"new", "done", "failed", "killed"}

(* init_mkfs: the free inode, then the root.  On a file that ends in a      *)
(* superblock it returns; but where the read of that block fails it says so *)
(* and goes on, with whatever sb held, as if there were none.               *)
init_mkfs ==
    /\ ~Running /\ runs < MaxRuns
    /\ unread' = (unread \/ HasSuper(mp))
    /\ mp' = allocFreeDinode([mp EXCEPT !.m_orgsize = mp.m_size, !.maxino = 0,
                                        !.flist = [l \in Lists |-> TARBLK_NONE]])
    /\ Fits(mp')
    /\ at' = "root" /\ tarblk' = 0 /\ cur' = 0 /\ runs' = runs + 1
    /\ UNCHANGED <<members, fnames, parent, ic>>

AllocRoot ==
    /\ at = "root"
    /\ \E a \in {allocDinodeData(mp)} :
          /\ Fits(a.m) /\ mp' = a.m
          /\ ic' = NewInode(a.m, a, TARFS_ROOT_INO, NULL)
    /\ at' = "rootdots"
    /\ UNCHANGED <<parseVars, fnames, parent>>

RootDots ==
    /\ at = "rootdots"
    /\ \E s \in {setNewDirEntry(mp, ic)} :
          /\ Fits(s.m)
          /\ mp' = Numbered([writeDinode(s.m, s.ic) EXCEPT !.m_root = s.ic])
    /\ at' = "parse"
    /\ UNCHANGED <<parseVars, fnames, parent, ic>>

(* getFname, as often as mkFilePath calls it: what stands between slashes,  *)
(* the empty names too; a last slash ends the last name.                    *)
AllFnames(path) ==
    LET n == IF Last(path) = "/" THEN Len(path) - 1 ELSE Len(path)
        ends == SetToSortSeq({0, n + 1} \union {i \in 1..n : path[i] = "/"}, <)
    IN  [k \in 1..Len(ends)-1 |-> IF ends[k] + 1 = ends[k+1] THEN "" ELSE path[ends[k] + 1]]

(* parse_tar at the next header; getph passes a long name and takes the     *)
(* header behind it whatever its type is.                                   *)
Posix == {"REG", "DIR", "SYM", "LNK"}
Starts(k) == k \in DOMAIN members /\ FirstBlk(k) = tarblk

getph ==
    /\ at = "parse"
    /\ \E k \in DOMAIN members :
          /\ Starts(k) /\ (members[k].long \/ members[k].flag \in Posix)
          /\ cur' = k /\ tarblk' = tarblk + LongBlks(members[k])
          /\ fnames' = AllFnames(members[k].path)
    /\ parent' = RootItself /\ at' = "path"
    /\ UNCHANGED <<members, mp, runs, unread, ic>>

(* No header, or getph returns NULL: an unsupported type, or a long name or *)
(* the header behind it that cannot be read.  Each ends the archive.        *)
ParseEnds ==
    /\ at = "parse"
    /\ \A k \in DOMAIN members :
          Starts(k) => members[k].long \/ members[k].flag \notin Posix
    /\ at' = "super"
    /\ UNCHANGED <<parseVars, mp, fnames, parent, ic>>

(* mkFilePath, one component: tarfs_create reads the inode that has the     *)
(* name, or makes one.                                                      *)
LastName == Len(fnames) = 1
Dir == IF parent = RootItself THEN mp.m_root ELSE parent
Looked == Find(mp, Dir.i_dinode, Head(fnames))

(* On to the next name below inode c, or to the next member.                *)
mkFilePath(c) ==
    /\ fnames' = Tail(fnames)
    /\ IF LastName
       THEN at' = "parse" /\ tarblk' = tarblk + datasz(members[cur]) + 1 /\ UNCHANGED parent
       ELSE at' = "path" /\ parent' = c /\ UNCHANGED tarblk
    /\ UNCHANGED <<members, cur, runs, unread>>

CreateExists ==
    /\ at = "path" /\ ~Invalid(mp, Dir.i_dinode) /\ Looked # 0
    /\ mkFilePath(getDinode(mp, DirEnts(mp, Dir.i_dinode)[Looked].d_ino, Dir.i_ino))
    /\ UNCHANGED <<mp, ic>>

CreateInode ==
    /\ at = "path" /\ ~Invalid(mp, Dir.i_dinode) /\ Looked = 0
    /\ \E a \in {allocDinodeData(mp)},
          f \in {IF LastName THEN members[cur] ELSE NULL} :
          \E c \in {NewInode(a.m, a, Dir.i_ino, f)} :
             /\ Fits(a.m) /\ ic' = c
             /\ IF c.i_dinode.di_mode = "dir" THEN mp' = a.m /\ at' = "dots"
                ELSE mp' = Numbered(writeDinode(a.m, c)) /\ at' = "entry"
    /\ UNCHANGED <<parseVars, fnames, parent>>

CreateDots ==
    /\ at = "dots"
    /\ \E s \in {setNewDirEntry(mp, ic)} :
          /\ Fits(s.m) /\ ic' = s.ic
          /\ mp' = Numbered(writeDinode(s.m, s.ic))
    /\ at' = "entry"
    /\ UNCHANGED <<parseVars, fnames, parent>>

(* The parent with the link of a new directory, and back where it is kept.  *)
Linking == IF ic.i_dinode.di_mode = "dir" THEN [Dir EXCEPT !.i_dinode.di_nlink = @ + 1] ELSE Dir
NewEntry == Entry(ic.i_ino, TAR_BLOCKSIZE, Head(fnames), ic.i_dinode.di_mode)

KeepParent_RootDropped(e) == mp' = e.m

KeepParent(e) ==
    mp' = IF parent = RootItself THEN [e.m EXCEPT !.m_root = e.p] ELSE e.m

CreateEntry ==
    /\ at = "entry"
    /\ \E blks \in {DirBlks(mp, Dir.i_dinode)} :
          LET k == SelectInSeq(blks, LAMBDA b : RoomIn(mp, b, Head(fnames)) # 0)
          IN  IF k # 0 THEN KeepParent(AddEntry(mp, Linking, blks[k], NewEntry))
              ELSE \E e \in {AddBlock(mp, Linking, NewEntry)} : Fits(e.m) /\ KeepParent(e)
    /\ mkFilePath(ic)
    /\ UNCHANGED ic

(* main's last write.  tarfs_size does not count the superblock.            *)
Super ==
    [kind |-> "super", tarfs_flags |-> "OK", tarfs_free |-> mp.m_orgsize,
     tarfs_root |-> mp.m_orgsize + 1, tarfs_maxino |-> mp.maxino,
     tarfs_size |-> mp.m_size - mp.m_orgsize]

WriteSuper ==
    /\ at = "super" /\ mp.m_size < MaxBlks
    /\ mp' = writeData(mp, <<Super>>, mp.m_size)
    /\ at' = "done"
    /\ UNCHANGED <<parseVars, fnames, parent, ic>>

Cut(m) == [m EXCEPT !.m_size = m.m_orgsize, !.disk = [b \in 0..m.m_orgsize-1 |-> @[b]]]

do_rollback_NoExit ==
    /\ Running
    /\ mp' = Cut(mp)
    /\ at' = "super"
    /\ UNCHANGED <<parseVars, fnames, parent, ic>>

(* A read or write fails, or a path runs through what is not a directory.   *)
do_rollback ==
    /\ Running
    /\ mp' = Cut(mp)
    /\ at' = "failed"
    /\ UNCHANGED <<parseVars, fnames, parent, ic>>

Kill ==
    /\ Running /\ at' = "killed"
    /\ UNCHANGED <<parseVars, mp, fnames, parent, ic>>

Init ==
    /\ members \in Tars
    /\ mp = [m_orgsize |-> TarBlks, m_size |-> TarBlks,
             disk |-> [b \in 0..TarBlks-1 |-> [kind |-> "tar"]],
             flist |-> [l \in Lists |-> TARBLK_NONE], maxino |-> 0,
             m_free |-> Cleared("reg"), m_root |-> RootItself]
    /\ at = "new" /\ tarblk = 0 /\ cur = 0 /\ runs = 0 /\ unread = FALSE
    /\ fnames = <<>> /\ parent = RootItself /\ ic = RootItself

Next ==
    \/ init_mkfs \/ AllocRoot \/ RootDots \/ getph \/ ParseEnds
    \/ CreateExists \/ CreateInode \/ CreateDots \/ CreateEntry
    \/ WriteSuper \/ do_rollback \/ Kill
Spec == Init /\ [][Next]_vars
=============================================================================
