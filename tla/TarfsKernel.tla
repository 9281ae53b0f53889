----------------------------- MODULE TarfsKernel -----------------------------
(***************************************************************************)
(* The kernel module on the file mkfs.tarfs left: fill_super, iget with    *)
(* its inode cache, lookup, readdir, get_block and follow_link, each a     *)
(* frame (variable call) that advances from one block read to the next.    *)
(* Any read or allocation may fail.                                        *)
(*                                                                         *)
(* The VFS is the environment: it looks names up in cached directories,    *)
(* one call at a time per directory (i_mutex), keeps dentries, drops those *)
(* that nothing uses, and inodes that no dentry names.                     *)
(***************************************************************************)
EXTENDS Dir, FiniteSets

CONSTANTS
    Procs,      \* processes that call into the file system
    OpenFiles,  \* struct files of open directories
    Names,      \* names that are looked up
    MaxErrs     \* bound on the reads and allocations that fail

(* The VFS resolves "." and ".." itself.                                    *)
ASSUME KernelAssumption ==
    IsFiniteSet(Procs) /\ MaxErrs \in Nat /\ Names \intersect {".", ".."} = {}

VARIABLES
    mnt,        \* "no", "mounting", "yes"; "oops" when the kernel died
    fdinode,    \* tarfs_incore_sblock.free_dinode
    icache,     \* inode cache: number -> [new: I_NEW is set, private: i_private
                \* is set, di: the dinode it points to]
    dcache,     \* dentries: <<directory, name>> -> inode number
    leaked,     \* inodes whose reference iget took and never gave back
    slab,       \* objects allocated from tarfs_inode_cachep
    call,       \* the call each process is in
    file,       \* open directories: [dir, pos, got: names since the rewind]
    nbh,        \* buffer heads held
    errs, lost  \* history: failures so far, dinodes a failed read left behind

kernelVars == <<mnt, fdinode, icache, dcache, leaked, slab, call, file, nbh, errs, lost>>

ENOENT == -2
EIO == -5
ENOMEM == -12
EINVAL == -22

(* i_private of an inode that was not read: no mode, no operations.         *)
NoDinode == [NoObject EXCEPT !.di_mode = "none"]
Unread == [new |-> FALSE, private |-> FALSE, di |-> NoDinode]

(* A call: op on inode dir, where it stands, and its locals.  bh is <<b>>   *)
(* while it holds the buffer of block b from one step to the next and <<>>  *)
(* for NULL, reading says that it is in tarfs_read_inode, dp and moff are   *)
(* getDataBlock's arguments and bn its result or the indirect block it      *)
(* looks at.                                                                *)
Frame(op, at, dir) ==
    [op |-> op, at |-> at, dir |-> dir, name |-> "", f |-> "", ino |-> 0,
     off |-> 0, bh |-> <<>>, reading |-> FALSE,
     dp |-> dir, moff |-> 0, bn |-> TARBLK_NONE, res |-> 0]
Idle == Frame("idle", "idle", 0)
Closed == [dir |-> 0, pos |-> 0, got |-> <<>>]

KernelInit ==
    /\ mnt = "no" /\ fdinode = NoDinode
    /\ icache = <<>> /\ dcache = <<>> /\ leaked = {} /\ slab = 0
    /\ call = [p \in Procs |-> Idle]
    /\ file = [f \in OpenFiles |-> Closed]
    /\ nbh = 0 /\ errs = 0 /\ lost = 0

DentryInodes == {dcache[k] : k \in DOMAIN dcache}
DinodeOf(i) == IF i = TARFS_FREE_INO THEN fdinode ELSE icache[i].di
With(f, k, e) == [j \in DOMAIN f \union {k} |-> IF j = k THEN e ELSE f[j]]
Step(p, c) == call' = [call EXCEPT ![p] = c]
Oops == mnt' = "oops"
bput(c) == nbh' = nbh - Len(c.bh)
Put(c) == [c EXCEPT !.bh = <<>>]
-----------------------------------------------------------------------------
(* A call meets error e.  In tarfs_read_inode: the inode stays in the       *)
(* cache, unlocked and unread, with the reference iget holds, and dp is not *)
(* freed; iget returns the error as a pointer.  Elsewhere the call returns. *)
ErrDone_StaysNew(p, e) ==
    LET c == call[p] IN
    IF c.reading
    THEN /\ leaked' = leaked \union {c.ino}
         /\ lost' = lost + 1
         /\ Step(p, [c EXCEPT !.at = "splice", !.res = e, !.reading = FALSE])
         /\ UNCHANGED icache
    ELSE /\ Step(p, [c EXCEPT !.at = "ret", !.res = e])
         /\ UNCHANGED <<icache, leaked, lost>>

ErrDone(p, e) ==
    LET c == call[p] IN
    IF c.reading
    THEN /\ icache' = [icache EXCEPT ![c.ino] = Unread]
         /\ leaked' = leaked \union {c.ino}
         /\ lost' = lost + 1
         /\ Step(p, [c EXCEPT !.at = "splice", !.res = e, !.reading = FALSE])
    ELSE /\ Step(p, [c EXCEPT !.at = "ret", !.res = e])
         /\ UNCHANGED <<icache, leaked, lost>>

unread == <<mnt, fdinode, dcache, slab, file, errs, nbh>>
untouched == <<unread, icache, leaked, lost>>

(* tarfs_getDataBlock(io, DinodeOf(dp), moff): the direct extents ...       *)
MapDirect_FromSecond(p) ==
    LET c == call[p]
        exts == Tail(DinodeOf(c.dp).di_directExtent)
    IN
    /\ c.at = "map" /\ Finds(DinodeOf(c.dp).di_directExtent, c.moff)
    /\ IF Finds(exts, c.moff)
       THEN /\ Step(p, [c EXCEPT !.at = "mapped", !.bn = Translate(exts, c.moff)])
            /\ UNCHANGED <<icache, leaked, lost>>
       ELSE ErrDone(p, EINVAL)
    /\ UNCHANGED unread

MapDirect(p) ==
    LET c == call[p] IN
    /\ c.at = "map" /\ Finds(DinodeOf(c.dp).di_directExtent, c.moff)
    /\ Step(p, [c EXCEPT !.at = "mapped",
                         !.bn = Translate(DinodeOf(c.dp).di_directExtent, c.moff)])
    /\ UNCHANGED untouched

MapDescend_AtOrAbove(p) ==
    LET c == call[p] IN
    /\ c.at = "map" /\ ~Finds(DinodeOf(c.dp).di_directExtent, c.moff)
    /\ IF DinodeOf(c.dp).di_nExtents > MAX_DINODE_DIRECT + 1
       THEN /\ Step(p, [c EXCEPT !.at = "walk", !.bn = DinodeOf(c.dp).di_rootIndExt])
            /\ UNCHANGED <<icache, leaked, lost>>
       ELSE ErrDone(p, EINVAL)
    /\ UNCHANGED unread

MapDescend(p) ==
    LET c == call[p] IN
    /\ c.at = "map" /\ ~Finds(DinodeOf(c.dp).di_directExtent, c.moff)
    /\ IF DinodeOf(c.dp).di_nExtents > MAX_DINODE_DIRECT
       THEN /\ Step(p, [c EXCEPT !.at = "walk", !.bn = DinodeOf(c.dp).di_rootIndExt])
            /\ UNCHANGED <<icache, leaked, lost>>
       ELSE ErrDone(p, EINVAL)
    /\ UNCHANGED unread

(* ... and the indirect blocks, each read, searched and released.           *)
Indirect(c) == disk[c.bn]

WalkHit(p) ==
    LET c == call[p] IN
    /\ c.at = "walk" /\ Finds(Indirect(c).ie_dext, c.moff)
    /\ Step(p, [c EXCEPT !.at = "mapped", !.bn = Translate(Indirect(c).ie_dext, c.moff)])
    /\ UNCHANGED untouched

WalkNext_Kept(p) ==
    LET c == call[p] IN
    /\ c.at = "walk" /\ ~Finds(Indirect(c).ie_dext, c.moff)
    /\ IF Indirect(c).ie_next # TARBLK_NONE
       THEN /\ Step(p, [c EXCEPT !.bn = Indirect(c).ie_next])
            /\ nbh' = nbh + 1
            /\ UNCHANGED <<icache, leaked, lost>>
       ELSE ErrDone(p, EINVAL) /\ UNCHANGED nbh
    /\ UNCHANGED <<mnt, fdinode, dcache, slab, file, errs>>

WalkNext(p) ==
    LET c == call[p] IN
    /\ c.at = "walk" /\ ~Finds(Indirect(c).ie_dext, c.moff)
    /\ IF Indirect(c).ie_next # TARBLK_NONE
       THEN /\ Step(p, [c EXCEPT !.bn = Indirect(c).ie_next])
            /\ UNCHANGED <<icache, leaked, lost>>
       ELSE ErrDone(p, EINVAL)
    /\ UNCHANGED unread
-----------------------------------------------------------------------------
(* tarfs_fill_super, with the free dinode tarfsmount passes.  The loop      *)
(* copies di_nExtents extents into an array of MAX_DINODE_DIRECT: one more  *)
(* lands on the di_rootIndExt, di_flags and padding set next, a further one *)
(* behind the allocated object, with any outcome.                           *)
CopyFits(di) == di.di_nExtents <= MAX_DINODE_DIRECT + 1
GetRoot == [Frame("mount", "iget", TARFS_ROOT_INO) EXCEPT !.ino = TARFS_ROOT_INO]

tarfs_fill_super(p, di) ==
    /\ mnt = "no"
    /\ \/ /\ mnt' = "mounting"
          /\ fdinode' = [di EXCEPT !.di_header = TARBLK_NONE]
          /\ Step(p, GetRoot)
          /\ UNCHANGED errs
       \/ ~CopyFits(di) /\ Oops /\ UNCHANGED <<fdinode, call, errs>>
       \/ /\ errs < MaxErrs /\ errs' = errs + 1    \* kmalloc: -ENOMEM
          /\ UNCHANGED <<mnt, fdinode, call>>
    /\ UNCHANGED <<icache, dcache, leaked, slab, file, nbh, lost>>

(* tarfs_iget: an inode in the cache is returned as it is (iget_locked      *)
(* waits while it is I_NEW), a new one is read by tarfs_read_inode.         *)
IgetHit(p) ==
    LET c == call[p] IN
    /\ c.at = "iget" /\ c.ino \in DOMAIN icache /\ ~icache[c.ino].new
    /\ Step(p, [c EXCEPT !.at = "splice", !.res = c.ino])
    /\ UNCHANGED untouched

IgetNew(p) ==
    LET c == call[p] IN
    /\ c.at = "iget" /\ c.ino \notin DOMAIN icache
    /\ icache' = With(icache, c.ino, [Unread EXCEPT !.new = TRUE])
    /\ slab' = slab + 1
    /\ Step(p, [c EXCEPT !.at = "map", !.reading = TRUE,
                         !.dp = TARFS_FREE_INO, !.moff = c.ino])
    /\ UNCHANGED <<mnt, fdinode, dcache, leaked, file, nbh, errs, lost>>

ReadInode(p) ==
    LET c == call[p] IN
    /\ c.at = "mapped" /\ c.reading
    /\ icache' = [icache EXCEPT
          ![c.ino] = [new |-> FALSE, private |-> TRUE, di |-> disk[c.bn].di]]
    /\ Step(p, [c EXCEPT !.at = "splice", !.res = c.ino, !.reading = FALSE])
    /\ UNCHANGED <<unread, leaked, lost>>

(* No memory: unlock_new_inode(NULL), or errdone with an io that was never  *)
(* set, whose io_data is NULL or not.                                       *)
IgetNoMemory(p) ==
    LET c == call[p] IN
    /\ c.at = "iget" /\ c.ino \notin DOMAIN icache
    /\ errs < MaxErrs /\ errs' = errs + 1
    /\ \/ Oops /\ UNCHANGED <<icache, leaked, call>>
       \/ /\ icache' = With(icache, c.ino, Unread)
          /\ leaked' = leaked \union {c.ino}
          /\ Step(p, [c EXCEPT !.at = "splice", !.res = ENOMEM])
          /\ UNCHANGED mnt
    /\ UNCHANGED <<fdinode, dcache, slab, file, nbh, lost>>

(* What the caller does with iget's result: d_splice_alias makes a dentry   *)
(* of an inode; of an error it makes the call's result or, before it knew   *)
(* IS_ERR, a crash.  fill_super takes an error for an inode.                *)
SpliceInode(p) ==
    LET c == call[p] IN
    /\ c.at = "splice" /\ c.res >= 0
    /\ IF c.op = "mount"
       THEN mnt' = "yes" /\ UNCHANGED <<dcache, nbh>>
       ELSE /\ dcache' = With(dcache, <<c.dir, c.name>>, c.res)
            /\ bput(c) /\ UNCHANGED mnt
    /\ Step(p, [Put(c) EXCEPT !.at = "ret"])
    /\ UNCHANGED <<fdinode, icache, leaked, slab, file, errs, lost>>

SpliceError_TakenForInode(p) ==
    LET c == call[p] IN
    /\ c.at = "splice" /\ c.res < 0 /\ c.op = "lookup"
    /\ dcache' = With(dcache, <<c.dir, c.name>>, c.res)
    /\ bput(c) /\ Step(p, [Put(c) EXCEPT !.at = "ret"])
    /\ UNCHANGED <<mnt, fdinode, icache, leaked, slab, file, errs, lost>>

SpliceError(p) ==
    LET c == call[p] IN
    /\ c.at = "splice" /\ c.res < 0
    /\ \/ Oops /\ UNCHANGED <<call, nbh>>
       \/ /\ c.op = "lookup"
          /\ bput(c) /\ Step(p, [Put(c) EXCEPT !.at = "ret"])
          /\ UNCHANGED mnt
    /\ UNCHANGED <<fdinode, icache, dcache, leaked, slab, file, errs, lost>>
-----------------------------------------------------------------------------
(* The loop of __tarfs_lookup and of tarfs_readdir / tarfs_iterate.         *)
EndOff(c) == icache[c.dir].di.di_size

LoopEnd(p) ==
    LET c == call[p] IN
    /\ c.at = "loop" /\ c.off >= EndOff(c)
    /\ bput(c)
    /\ Step(p, [Put(c) EXCEPT !.at = "ret", !.res = IF c.op = "lookup" THEN ENOENT ELSE 0])
    /\ UNCHANGED <<mnt, fdinode, icache, dcache, leaked, slab, file, errs, lost>>

LoopBlock_NotPut(p) ==
    LET c == call[p] IN
    /\ c.at = "loop" /\ c.off < EndOff(c) /\ c.off % TAR_BLOCKSIZE = 0
    /\ Step(p, [Put(c) EXCEPT !.at = "map", !.dp = c.dir,
                              !.moff = c.off \div TAR_BLOCKSIZE])
    /\ UNCHANGED untouched

LoopBlock(p) ==
    LET c == call[p] IN
    /\ c.at = "loop" /\ c.off < EndOff(c) /\ c.off % TAR_BLOCKSIZE = 0
    /\ bput(c)
    /\ Step(p, [Put(c) EXCEPT !.at = "map", !.dp = c.dir,
                              !.moff = c.off \div TAR_BLOCKSIZE])
    /\ UNCHANGED <<mnt, fdinode, icache, dcache, leaked, slab, file, errs, lost>>

ReadDirBlock(p) ==
    LET c == call[p] IN
    /\ c.at = "mapped" /\ ~c.reading /\ c.op \in {"lookup", "iterate"}
    /\ nbh' = nbh + 1
    /\ Step(p, [c EXCEPT !.at = "rec", !.bh = <<c.bn>>])
    /\ UNCHANGED <<mnt, fdinode, icache, dcache, leaked, slab, file, errs, lost>>

(* dep: the record at off, in the block that was read last.                 *)
AtRecord(c) ==
    \/ c.at = "rec"
    \/ c.at = "loop" /\ c.off < EndOff(c) /\ c.off % TAR_BLOCKSIZE # 0
Record(c) ==
    LET es == disk[c.bh[1]].ents
        start[j \in DOMAIN es] == IF j = 1 THEN 0 ELSE start[j-1] + es[j-1].d_reclen
    IN  es[CHOOSE j \in DOMAIN es : start[j] = c.off % TAR_BLOCKSIZE]
Used(e) == e.d_ino # TARBLK_NONE
PastRecord(c) == [c EXCEPT !.at = "loop", !.off = @ + Record(c).d_reclen]

Match_ByLength(p) ==
    LET c == call[p] IN
    /\ c.op = "lookup" /\ AtRecord(c)
    /\ IF Used(Record(c)) /\ strlen(Record(c).d_name) = strlen(c.name)
       THEN Step(p, [c EXCEPT !.at = "iget", !.ino = Record(c).d_ino])
       ELSE Step(p, PastRecord(c))
    /\ UNCHANGED untouched

Match(p) ==
    LET c == call[p] IN
    /\ c.op = "lookup" /\ AtRecord(c)
    /\ IF Used(Record(c)) /\ Record(c).d_name = c.name
       THEN Step(p, [c EXCEPT !.at = "iget", !.ino = Record(c).d_ino])
       ELSE Step(p, PastRecord(c))
    /\ UNCHANGED untouched

(* readdir: entries at or after the position are offered to the caller ...  *)
Emit(p) ==
    LET c == call[p] IN
    /\ c.op = "iterate" /\ AtRecord(c)
    /\ IF c.off >= file[c.f].pos
       THEN file' = [file EXCEPT
                ![c.f].got = IF Used(Record(c)) THEN Append(@, Record(c).d_name) ELSE @,
                ![c.f].pos = @ + Record(c).d_reclen]
       ELSE UNCHANGED file
    /\ Step(p, PastRecord(c))
    /\ UNCHANGED <<mnt, fdinode, icache, dcache, leaked, slab, nbh, errs, lost>>

(* ... which refuses one that does not fit its buffer.                      *)
EmitFull(p) ==
    LET c == call[p] IN
    /\ c.op = "iterate" /\ AtRecord(c)
    /\ c.off >= file[c.f].pos /\ Used(Record(c))
    /\ bput(c) /\ Step(p, [Put(c) EXCEPT !.at = "ret"])
    /\ UNCHANGED <<mnt, fdinode, icache, dcache, leaked, slab, file, errs, lost>>

(* tarfs_get_block and tarfs_follow_link, which hands its buffer to the VFS.*)
GetBlockDone(p) ==
    LET c == call[p] IN
    /\ c.at = "mapped" /\ c.op = "read"
    /\ Step(p, [c EXCEPT !.at = "ret", !.res = c.bn])
    /\ UNCHANGED untouched

FollowLink(p) ==
    LET c == call[p]
        h == DinodeOf(c.dir).di_header
    IN
    /\ c.at = "link"
    /\ nbh' = nbh + 1
    /\ Step(p, [c EXCEPT !.at = "ret", !.bh = <<h>>, !.res = h])
    /\ UNCHANGED <<mnt, fdinode, icache, dcache, leaked, slab, file, errs, lost>>

(* The VFS takes the result (and gives a link's buffer to tarfs_put_link).  *)
Leave(p) ==
    LET c == call[p] IN
    /\ c.at = "ret"
    /\ bput(c) /\ Step(p, Idle)
    /\ UNCHANGED <<mnt, fdinode, icache, dcache, leaked, slab, file, errs, lost>>

(* lnx_bread fails.                                                         *)
Reads(c) == c.at \in {"walk", "link"} \/ (c.at = "mapped" /\ (c.reading \/ c.op # "read"))

ReadError(p) ==
    /\ Reads(call[p])
    /\ errs < MaxErrs /\ errs' = errs + 1
    /\ ErrDone(p, EIO)
    /\ UNCHANGED <<mnt, fdinode, dcache, slab, file, nbh>>
-----------------------------------------------------------------------------
(* The VFS.                                                                 *)
Dentried(i) == mnt = "yes" /\ i \in DentryInodes \union {TARFS_ROOT_INO}
Locked(d) == \E p \in Procs : call[p].op \in {"lookup", "iterate"} /\ call[p].dir = d
Mode(i) == icache[i].di.di_mode
InUse(i) ==
    \/ \E k \in DOMAIN dcache : k[1] = i
    \/ \E f \in OpenFiles : file[f].dir = i
    \/ \E p \in Procs :
          \/ call[p].dir = i
          \/ call[p].at \in {"splice", "ret"} /\ call[p].op = "lookup" /\ call[p].res = i

CallLookup(p, d, n) ==
    /\ call[p] = Idle /\ Dentried(d) /\ Mode(d) = "dir" /\ ~Locked(d)
    /\ <<d, n>> \notin DOMAIN dcache
    /\ Step(p, [Frame("lookup", "loop", d) EXCEPT !.name = n])
    /\ UNCHANGED untouched

(* readdir starts at the block of the position.                             *)
CallIterate_AtPos(p, f) ==
    /\ call[p] = Idle /\ file[f].dir # 0 /\ ~Locked(file[f].dir)
    /\ Step(p, [Frame("iterate", "loop", file[f].dir) EXCEPT
                    !.f = f, !.off = TAR_BLOCKSIZE * TARFS_BLOCKS(file[f].pos)])
    /\ UNCHANGED untouched

CallIterate(p, f) ==
    /\ call[p] = Idle /\ file[f].dir # 0 /\ ~Locked(file[f].dir)
    /\ Step(p, [Frame("iterate", "loop", file[f].dir) EXCEPT
                    !.f = f, !.off = file[f].pos - (file[f].pos % TAR_BLOCKSIZE)])
    /\ UNCHANGED untouched

CallGetBlock(p, i, off) ==
    /\ call[p] = Idle /\ Dentried(i) /\ Mode(i) = "reg"
    /\ off < TARFS_BLOCKS(icache[i].di.di_size)
    /\ Step(p, [Frame("read", "map", i) EXCEPT !.moff = off])
    /\ UNCHANGED untouched

CallFollowLink(p, i) ==
    /\ call[p] = Idle /\ Dentried(i) /\ Mode(i) = "lnk"
    /\ Step(p, Frame("link", "link", i))
    /\ UNCHANGED untouched

OpenDir(f, d) ==
    /\ file[f].dir = 0 /\ Dentried(d) /\ Mode(d) = "dir"
    /\ file' = [file EXCEPT ![f].dir = d]
    /\ UNCHANGED <<mnt, fdinode, icache, dcache, leaked, slab, call, nbh, errs, lost>>

FileIdle(f) == file[f].dir # 0 /\ \A p \in Procs : call[p].f # f

Rewind(f) ==
    /\ FileIdle(f)
    /\ file' = [file EXCEPT ![f].pos = 0, ![f].got = <<>>]
    /\ UNCHANGED <<mnt, fdinode, icache, dcache, leaked, slab, call, nbh, errs, lost>>

CloseDir(f) ==
    /\ FileIdle(f)
    /\ file' = [file EXCEPT ![f] = Closed]
    /\ UNCHANGED <<mnt, fdinode, icache, dcache, leaked, slab, call, nbh, errs, lost>>

DropDentry(k) ==
    /\ ~InUse(dcache[k])
    /\ dcache' = [j \in DOMAIN dcache \ {k} |-> dcache[j]]
    /\ UNCHANGED <<mnt, fdinode, icache, leaked, slab, call, file, nbh, errs, lost>>

(* tarfs_evict_inode frees i_private, which an unread inode does not have.  *)
Private(i) == IF icache[i].private THEN 1 ELSE 0
Unreferenced(i) ==
    /\ ~icache[i].new /\ ~Dentried(i) /\ i \notin leaked
    /\ ~InUse(i)

Evict_NotFreed(i) ==
    /\ Unreferenced(i)
    /\ icache' = [j \in DOMAIN icache \ {i} |-> icache[j]]
    /\ UNCHANGED <<mnt, fdinode, dcache, leaked, slab, call, file, nbh, errs, lost>>

Evict(i) ==
    /\ Unreferenced(i)
    /\ icache' = [j \in DOMAIN icache \ {i} |-> icache[j]]
    /\ slab' = slab - Private(i)
    /\ UNCHANGED <<mnt, fdinode, dcache, leaked, call, file, nbh, errs, lost>>

(* umount: the dentries go, then every inode, then tarfs_put_super.  Inodes *)
(* with a leaked reference stay behind in memory, unreachable.              *)
Umount ==
    /\ mnt = "yes"
    /\ \A p \in Procs : call[p] = Idle
    /\ \A f \in OpenFiles : file[f].dir = 0
    /\ mnt' = "no" /\ fdinode' = NoDinode
    /\ icache' = <<>> /\ dcache' = <<>> /\ leaked' = {}
    /\ slab' = slab - Cardinality({i \in DOMAIN icache : Private(i) = 1})
    /\ UNCHANGED <<call, file, nbh, errs, lost>>
-----------------------------------------------------------------------------
(* What a call does once started, and what may happen to it.                *)
CallStep(p) ==
    /\ mnt # "oops"
    /\ \/ MapDirect(p) \/ MapDescend(p) \/ WalkHit(p) \/ WalkNext(p)
       \/ IgetHit(p) \/ IgetNew(p) \/ ReadInode(p) \/ SpliceInode(p) \/ SpliceError(p)
       \/ LoopEnd(p) \/ LoopBlock(p) \/ ReadDirBlock(p) \/ Match(p)
       \/ Emit(p) \/ EmitFull(p) \/ GetBlockDone(p) \/ FollowLink(p) \/ Leave(p)

CallFails(p) == mnt # "oops" /\ (ReadError(p) \/ IgetNoMemory(p))

CallStarts(p) ==
    /\ mnt = "yes"
    /\ \/ \E d \in DOMAIN icache, n \in Names : CallLookup(p, d, n)
       \/ \E f \in OpenFiles : CallIterate(p, f)
       \/ \E i \in DOMAIN icache : CallFollowLink(p, i)
       \/ \E i \in DOMAIN icache : \E off \in 0..TARFS_BLOCKS(icache[i].di.di_size)-1 :
             CallGetBlock(p, i, off)

VFS ==
    /\ mnt = "yes"
    /\ \/ \E f \in OpenFiles : (\E d \in DOMAIN icache : OpenDir(f, d)) \/ Rewind(f) \/ CloseDir(f)
       \/ \E k \in DOMAIN dcache : DropDentry(k)
       \/ \E i \in DOMAIN icache : Evict(i)
       \/ Umount
=============================================================================
