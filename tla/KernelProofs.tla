---------------------------- MODULE KernelProofs ----------------------------
(***************************************************************************)
(* Proofs about the kernel module for any number of processes, open        *)
(* directories and failures, and for whatever mkfs.tarfs has left in the   *)
(* file: what a call holds is given back on every path through the loops   *)
(* and their error exits.                                                  *)
(*                                                                         *)
(* A step of a call replaces one frame.  Each action is shown to be one of *)
(* five kinds of step, by what it does to the inode being read; the        *)
(* invariant is then proved for the kinds.                                 *)
(*                                                                         *)
(* The second part is about the file: from the invariant of FsMaker, what  *)
(* the kernel may rely on in it (FsSound), and from that, what each call   *)
(* knows while it walks through it (KnownInv), so that without a failure   *)
(* no lookup meets an error.                                               *)
(***************************************************************************)
EXTENDS TarfsMount, FsTreeProofs, FiniteSetTheorems

(* A frame, and where it may hold a buffer: never while a block of the      *)
(* directory itself or a link's header is still to come.                    *)
Fields == {"op", "at", "dir", "name", "f", "ino", "off", "bh", "reading",
           "dp", "moff", "bn", "res"}
Maps(at) == at \in {"map", "walk", "mapped"}
FrameOK(c) ==
    /\ DOMAIN c = Fields
    /\ c.bh = <<>> \/ \E b : c.bh = <<b>>
    /\ c.reading \in BOOLEAN /\ (c.reading => Maps(c.at))
    /\ c.reading \/ c.at = "iget" => c.op \in {"lookup", "mount"}
    /\ Maps(c.at) /\ ~c.reading => c.bh = <<>>
    /\ c.at = "link" => c.op = "link" /\ c.bh = <<>>
    /\ c.op = "mount" => c.bh = <<>>

FramesOK == DOMAIN call = Procs /\ \A p \in Procs : FrameOK(call[p])

(* Without a file system nobody is in a call.                               *)
NoCalls == mnt = "no" => \A p \in Procs : call[p] = Idle

(* An inode is locked by the one call that reads it.                        *)
Reading(p, i) == call[p].reading /\ call[p].ino = i
Entries == \A i \in DOMAIN icache : icache[i].new \in BOOLEAN /\ icache[i].private \in BOOLEAN
LockedByReader == \A i \in DOMAIN icache : icache[i].new => \E p \in Procs : Reading(p, i)
ReadersLock ==
    \A p \in Procs : call[p].reading =>
        /\ call[p].ino \in DOMAIN icache /\ icache[call[p].ino].new
        /\ \A q \in Procs : Reading(q, call[p].ino) => q = p

Locks == Entries /\ LockedByReader /\ ReadersLock
Tallies ==
    /\ IsFiniteSet(DOMAIN icache) /\ lost \in Nat /\ nbh \in Nat
    /\ BuffersBalanced /\ SlabAccounted
KInv == FramesOK /\ NoCalls /\ Locks /\ Tallies
-----------------------------------------------------------------------------
(* The kinds of step: p's frame becomes c, the buffers are counted, and the *)
(* inode cache changes by the inode that p reads.                           *)
Advances(p, c) ==
    /\ call' = [call EXCEPT ![p] = c] /\ FrameOK(c)
    /\ nbh' = nbh - Len(call[p].bh) + Len(c.bh)
    /\ mnt # "no" /\ mnt' # "no"

Stays(p, c) ==
    /\ c.reading = call[p].reading /\ (c.reading => c.ino = call[p].ino)
    /\ UNCHANGED <<icache, slab, lost>>
Begins(p, c) ==
    /\ ~call[p].reading /\ c.reading /\ c.ino \notin DOMAIN icache
    /\ icache' = With(icache, c.ino, [Unread EXCEPT !.new = TRUE])
    /\ slab' = slab + 1 /\ lost' = lost
Adds(p, c) ==
    /\ ~call[p].reading /\ ~c.reading
    /\ \E i : i \notin DOMAIN icache /\ icache' = With(icache, i, Unread)
    /\ UNCHANGED <<slab, lost>>
Succeeds(p, c) ==
    /\ call[p].reading /\ ~c.reading
    /\ \E d : icache' = [icache EXCEPT ![call[p].ino] = [new |-> FALSE, private |-> TRUE, di |-> d]]
    /\ UNCHANGED <<slab, lost>>
Gives(p, c) ==
    /\ call[p].reading /\ ~c.reading
    /\ icache' = [icache EXCEPT ![call[p].ino] = Unread]
    /\ slab' = slab /\ lost' = lost + 1

Kinds(p, c) == Stays(p, c) \/ Begins(p, c) \/ Adds(p, c) \/ Succeeds(p, c) \/ Gives(p, c)
Kind(p) == \E c : Advances(p, c) /\ Kinds(p, c)

(* The kernel dies: nothing is counted any more.                            *)
Dies == mnt' = "oops" /\ UNCHANGED <<call, nbh, icache, slab, lost>>
-----------------------------------------------------------------------------
(* Frames: a new one, and one field changed.                                *)
LEMMA NewFrame ==
    ASSUME NEW op, NEW at, NEW dir,
           at = "link" => op = "link", at = "iget" => op = "mount"
    PROVE  FrameOK(Frame(op, at, dir)) /\ Frame(op, at, dir).bh = <<>>
BY DEF FrameOK, Frame, Fields, Maps

(* A step of p that leaves no other trace in the inode cache.               *)
LEMMA NoTrace ==
    ASSUME NEW p \in Procs, KInv, mnt # "no", mnt' # "no", NEW c,
           Step(p, c), FrameOK(c), nbh' = nbh - Len(call[p].bh) + Len(c.bh),
           UNCHANGED <<icache, slab, lost>>,
           c.reading = call[p].reading, c.ino = call[p].ino \/ ~c.reading
    PROVE  Kind(p)
BY DEF Kind, Kinds, Advances, Stays, Step

LEMMA Kept ==
    ASSUME NEW p \in Procs, KInv, NEW c, nbh' = nbh, c.bh = call[p].bh
    PROVE  nbh' = nbh - Len(call[p].bh) + Len(c.bh)
<1>1. FrameOK(call[p]) /\ nbh \in Nat
  BY DEF KInv, FramesOK, Tallies
<1>2. Len(call[p].bh) \in Nat
  BY <1>1 DEF FrameOK
<1> QED
  BY <1>1, <1>2

LEMMA ErrDoneIs ==
    ASSUME NEW p \in Procs, KInv, mnt # "no", mnt' # "no", NEW e, ErrDone(p, e),
           UNCHANGED <<slab, nbh>>, Maps(call[p].at) \/ call[p].at = "link"
    PROVE  Kind(p)
<1> DEFINE c == call[p]
<1>1. FrameOK(c)
  BY DEF KInv, FramesOK
<1>2. CASE c.reading
  <2> DEFINE d == [c EXCEPT !.at = "splice", !.res = e, !.reading = FALSE]
  <2>1. FrameOK(d) /\ d.bh = c.bh /\ ~d.reading
    BY <1>1 DEF FrameOK, Fields, Maps
  <2>2. call' = [call EXCEPT ![p] = d] /\ Gives(p, d)
    BY <1>2, <2>1 DEF ErrDone, Step, Gives
  <2>3. Advances(p, d)
    BY <2>1, <2>2, Kept DEF Advances
  <2> QED
    BY <2>2, <2>3 DEF Kind, Kinds
<1>3. CASE ~c.reading
  <2> DEFINE d == [c EXCEPT !.at = "ret", !.res = e]
  <2>1. FrameOK(d) /\ d.bh = c.bh /\ d.reading = c.reading
    BY <1>1, <1>3 DEF FrameOK, Fields, Maps
  <2>2. Step(p, d) /\ UNCHANGED <<icache, lost>>
    BY <1>3 DEF ErrDone
  <2> QED
    BY <1>3, <2>1, <2>2, Kept, NoTrace
<1> QED
  BY <1>2, <1>3

(* What an action does to p's frame c; the kind of step this is.            *)
LEMMA BlockMap ==
    ASSUME NEW p \in Procs, KInv, mnt # "no",
           MapDirect(p) \/ MapDescend(p) \/ WalkHit(p) \/ WalkNext(p)
    PROVE  Kind(p)
<1> DEFINE c == call[p]
<1>1. FrameOK(c) /\ Maps(c.at) /\ UNCHANGED <<mnt, slab, nbh>>
  BY DEF KInv, FramesOK, MapDirect, MapDescend, WalkHit, WalkNext, Maps, untouched, unread
<1>2. ASSUME NEW at \in {"walk", "mapped"}, NEW bn, UNCHANGED <<icache, lost>>,
             Step(p, [c EXCEPT !.at = at, !.bn = bn])
      PROVE  Kind(p)
  <2> DEFINE d == [c EXCEPT !.at = at, !.bn = bn]
  <2>1. FrameOK(d) /\ d.bh = c.bh /\ d.reading = c.reading /\ d.ino = c.ino
    BY <1>1 DEF FrameOK, Fields, Maps
  <2> QED
    BY <1>1, <1>2, <2>1, Kept, NoTrace
<1>3. ASSUME NEW bn, UNCHANGED <<icache, lost>>, Step(p, [c EXCEPT !.bn = bn])
      PROVE  Kind(p)
  <2> DEFINE d == [c EXCEPT !.bn = bn]
  <2>1. FrameOK(d) /\ d.bh = c.bh /\ d.reading = c.reading /\ d.ino = c.ino
    BY <1>1 DEF FrameOK, Fields, Maps
  <2> QED
    BY <1>1, <1>3, <2>1, Kept, NoTrace
<1>4. ASSUME ErrDone(p, EINVAL) PROVE Kind(p)
  BY <1>1, <1>4, ErrDoneIs
<1>5. CASE MapDirect(p)
  BY <1>2, <1>5 DEF MapDirect, untouched, unread
<1>6. CASE MapDescend(p)
  BY <1>2, <1>4, <1>6 DEF MapDescend
<1>7. CASE WalkHit(p)
  BY <1>2, <1>7 DEF WalkHit, untouched, unread
<1>8. CASE WalkNext(p)
  BY <1>3, <1>4, <1>8 DEF WalkNext
<1> QED
  BY <1>5, <1>6, <1>7, <1>8

(* iget: the inode of the cache, or one that is added to it and read.       *)
LEMMA Iget ==
    ASSUME NEW p \in Procs, KInv, mnt # "no",
           IgetHit(p) \/ IgetNew(p) \/ ReadInode(p) \/ IgetNoMemory(p)
    PROVE  Kind(p) \/ Dies
<1> DEFINE c == call[p]
<1>1. FrameOK(c)
  BY DEF KInv, FramesOK
<1>2. ASSUME IgetHit(p) PROVE Kind(p)
  <2> DEFINE d == [c EXCEPT !.at = "splice", !.res = c.ino]
  <2>1. FrameOK(d) /\ d.bh = c.bh /\ d.reading = c.reading /\ d.ino = c.ino
    BY <1>1, <1>2 DEF FrameOK, Fields, Maps, IgetHit
  <2> QED
    BY <1>2, <2>1, Kept, NoTrace DEF IgetHit, untouched, unread
<1>3. ASSUME IgetNew(p) PROVE Kind(p)
  <2> DEFINE d == [c EXCEPT !.at = "map", !.reading = TRUE,
                            !.dp = TARFS_FREE_INO, !.moff = c.ino]
  <2>1. FrameOK(d) /\ d.bh = c.bh /\ d.reading /\ d.ino = c.ino /\ ~c.reading
    BY <1>1, <1>3 DEF FrameOK, Fields, Maps, IgetNew
  <2>2. Advances(p, d)
    BY <1>3, <2>1, Kept DEF Advances, IgetNew, Step
  <2>3. Begins(p, d)
    BY <1>3, <2>1 DEF Begins, IgetNew
  <2> QED
    BY <2>2, <2>3 DEF Kind, Kinds
<1>4. ASSUME ReadInode(p) PROVE Kind(p)
  <2> DEFINE d == [c EXCEPT !.at = "splice", !.res = c.ino, !.reading = FALSE]
  <2>1. FrameOK(d) /\ d.bh = c.bh /\ ~d.reading /\ c.reading
    BY <1>1, <1>4 DEF FrameOK, Fields, Maps, ReadInode
  <2>2. Advances(p, d)
    BY <1>4, <2>1, Kept DEF Advances, ReadInode, Step, unread
  <2>3. Succeeds(p, d)
    BY <1>4, <2>1 DEF Succeeds, ReadInode, unread
  <2> QED
    BY <2>2, <2>3 DEF Kind, Kinds
<1>5. ASSUME IgetNoMemory(p) PROVE Kind(p) \/ Dies
  <2> DEFINE d == [c EXCEPT !.at = "splice", !.res = ENOMEM]
  <2>1. FrameOK(d) /\ d.bh = c.bh /\ ~d.reading /\ ~c.reading
    BY <1>1, <1>5 DEF FrameOK, Fields, Maps, IgetNoMemory
  <2>2. CASE Oops /\ UNCHANGED <<icache, leaked, call>>
    BY <1>5, <2>2 DEF Dies, Oops, IgetNoMemory
  <2>3. CASE /\ icache' = With(icache, c.ino, Unread)
             /\ Step(p, d)
             /\ UNCHANGED mnt
    <3>1. Advances(p, d)
      BY <1>5, <2>1, <2>3, Kept DEF Advances, IgetNoMemory, Step
    <3>2. Adds(p, d)
      BY <1>5, <2>1, <2>3 DEF Adds, IgetNoMemory
    <3> QED
      BY <3>1, <3>2 DEF Kind, Kinds
  <2> QED
    BY <1>5, <2>2, <2>3 DEF IgetNoMemory
<1> QED
  BY <1>2, <1>3, <1>4, <1>5

(* A buffer is given back, or one is taken where none was held.             *)
LEMMA PutBack ==
    ASSUME NEW p \in Procs, KInv, NEW c, bput(call[p]), c.bh = <<>>
    PROVE  nbh' = nbh - Len(call[p].bh) + Len(c.bh)
<1>1. FrameOK(call[p]) /\ nbh \in Nat
  BY DEF KInv, FramesOK, Tallies
<1>2. Len(call[p].bh) \in Nat
  BY <1>1 DEF FrameOK
<1> QED
  BY <1>1, <1>2 DEF bput

LEMMA BufferTaken ==
    ASSUME NEW p \in Procs, KInv, NEW c, NEW b, nbh' = nbh + 1,
           call[p].bh = <<>>, c.bh = <<b>>
    PROVE  nbh' = nbh - Len(call[p].bh) + Len(c.bh)
BY DEF KInv, Tallies

LEMMA Splice ==
    ASSUME NEW p \in Procs, KInv, mnt # "no", SpliceInode(p) \/ SpliceError(p)
    PROVE  Kind(p) \/ Dies
<1> DEFINE c == call[p]
           d == [Put(c) EXCEPT !.at = "ret"]
<1>1. FrameOK(c) /\ c.at = "splice"
  BY DEF KInv, FramesOK, SpliceInode, SpliceError
<1>2. FrameOK(d) /\ d.bh = <<>> /\ ~d.reading /\ d.reading = c.reading
  BY <1>1 DEF FrameOK, Fields, Maps, Put
<1>3. ASSUME SpliceInode(p) PROVE Kind(p)
  <2>1. nbh' = nbh - Len(c.bh) + Len(d.bh)
    <3>1. CASE c.op = "mount"
      <4>1. nbh' = nbh /\ c.bh = d.bh
        BY <1>1, <1>2, <1>3, <3>1 DEF SpliceInode, FrameOK
      <4> QED
        BY <4>1, Kept
    <3>2. CASE c.op # "mount"
      BY <1>2, <1>3, <3>2, PutBack DEF SpliceInode
    <3> QED
      BY <3>1, <3>2
  <2>2. mnt' # "no" /\ Step(p, d) /\ UNCHANGED <<icache, slab, lost>>
    BY <1>3 DEF SpliceInode
  <2> QED
    BY <1>2, <2>1, <2>2, NoTrace
<1>4. ASSUME SpliceError(p) PROVE Kind(p) \/ Dies
  <2>1. CASE Oops /\ UNCHANGED <<call, nbh>>
    BY <1>4, <2>1 DEF Dies, Oops, SpliceError
  <2>2. CASE bput(c) /\ Step(p, d) /\ UNCHANGED mnt
    <3>1. nbh' = nbh - Len(c.bh) + Len(d.bh)
      BY <1>2, <2>2, PutBack
    <3>2. UNCHANGED <<icache, slab, lost>>
      BY <1>4 DEF SpliceError
    <3> QED
      BY <1>2, <2>2, <3>1, <3>2, NoTrace
  <2> QED
    BY <1>4, <2>1, <2>2 DEF SpliceError
<1> QED
  BY <1>3, <1>4

(* The loop over a directory: between two blocks no buffer is held.         *)
LEMMA Loop ==
    ASSUME NEW p \in Procs, KInv, mnt # "no",
           \/ LoopEnd(p) \/ LoopBlock(p) \/ ReadDirBlock(p)
           \/ Match(p) \/ Emit(p) \/ EmitFull(p)
    PROVE  Kind(p)
<1> DEFINE c == call[p]
<1>1. /\ FrameOK(c) /\ UNCHANGED <<mnt, icache, slab, lost>>
      /\ ~c.reading
  BY DEF KInv, FramesOK, FrameOK, Maps, AtRecord, untouched, unread,
         LoopEnd, LoopBlock, ReadDirBlock, Match, Emit, EmitFull
<1>2. ASSUME NEW d, FrameOK(d), d.bh = <<>>, ~d.reading, bput(c), Step(p, d) PROVE Kind(p)
  BY <1>1, <1>2, PutBack, NoTrace DEF FrameOK
<1>3. ASSUME NEW d, FrameOK(d), d.bh = c.bh, ~d.reading, nbh' = nbh, Step(p, d) PROVE Kind(p)
  BY <1>1, <1>3, Kept, NoTrace DEF FrameOK
<1>4. CASE LoopEnd(p)
  <2>1. PICK r : Step(p, [Put(c) EXCEPT !.at = "ret", !.res = r])
    BY <1>4 DEF LoopEnd
  <2> DEFINE d == [Put(c) EXCEPT !.at = "ret", !.res = r]
  <2>2. FrameOK(d) /\ d.bh = <<>> /\ ~d.reading
    BY <1>1 DEF FrameOK, Fields, Maps, Put
  <2>3. bput(c)
    BY <1>4 DEF LoopEnd
  <2> QED
    BY <1>2, <2>1, <2>2, <2>3
<1>5. CASE LoopBlock(p)
  <2>1. PICK dp, m : Step(p, [Put(c) EXCEPT !.at = "map", !.dp = dp, !.moff = m])
    BY <1>5 DEF LoopBlock
  <2> DEFINE d == [Put(c) EXCEPT !.at = "map", !.dp = dp, !.moff = m]
  <2>2. FrameOK(d) /\ d.bh = <<>> /\ ~d.reading
    BY <1>1 DEF FrameOK, Fields, Maps, Put
  <2>3. bput(c)
    BY <1>5 DEF LoopBlock
  <2> QED
    BY <1>2, <2>1, <2>2, <2>3
<1>6. CASE ReadDirBlock(p)
  <2> DEFINE d == [c EXCEPT !.at = "rec", !.bh = <<c.bn>>]
  <2>1. FrameOK(d) /\ c.bh = <<>> /\ d.bh = <<c.bn>> /\ ~d.reading
    BY <1>1, <1>6 DEF FrameOK, Fields, Maps, ReadDirBlock
  <2>2. Step(p, d) /\ nbh' = nbh + 1
    BY <1>6 DEF ReadDirBlock
  <2> QED
    BY <1>1, <2>1, <2>2, BufferTaken, NoTrace DEF FrameOK
<1>7. ASSUME NEW at \in {"iget", "loop"}, NEW i, NEW o, nbh' = nbh,
             c.op = "lookup" \/ at = "loop",
             Step(p, [c EXCEPT !.at = at, !.ino = i]) \/ Step(p, [c EXCEPT !.at = at, !.off = o])
      PROVE  Kind(p)
  <2> DEFINE d == [c EXCEPT !.at = at, !.ino = i]
             e == [c EXCEPT !.at = at, !.off = o]
  <2>1. /\ FrameOK(d) /\ d.bh = c.bh /\ ~d.reading
        /\ FrameOK(e) /\ e.bh = c.bh /\ ~e.reading
    BY <1>1, <1>7 DEF FrameOK, Fields, Maps
  <2> QED
    BY <1>3, <1>7, <2>1
<1>8. CASE Match(p)
  BY <1>7, <1>8, Zenon DEF Match, PastRecord, untouched, unread
<1>9. CASE Emit(p)
  BY <1>7, <1>9, Zenon DEF Emit, PastRecord
<1>10. CASE EmitFull(p)
  <2> DEFINE d == [Put(c) EXCEPT !.at = "ret"]
  <2>1. FrameOK(d) /\ d.bh = <<>> /\ ~d.reading
    BY <1>1 DEF FrameOK, Fields, Maps, Put
  <2>2. bput(c) /\ Step(p, d)
    BY <1>10 DEF EmitFull
  <2> QED
    BY <1>2, <2>1, <2>2
<1> QED
  BY <1>4, <1>5, <1>6, <1>8, <1>9, <1>10

(* get_block, follow_link and the end of a call.                            *)
LEMMA Ends ==
    ASSUME NEW p \in Procs, KInv, mnt # "no", GetBlockDone(p) \/ FollowLink(p) \/ Leave(p)
    PROVE  Kind(p)
<1> DEFINE c == call[p]
<1>1. FrameOK(c) /\ UNCHANGED <<mnt, icache, slab, lost>>
  BY DEF KInv, FramesOK, GetBlockDone, FollowLink, Leave, untouched, unread
<1>2. ASSUME GetBlockDone(p) PROVE Kind(p)
  <2> DEFINE d == [c EXCEPT !.at = "ret", !.res = c.bn]
  <2>1. FrameOK(d) /\ d.bh = c.bh /\ d.reading = c.reading /\ ~d.reading
    BY <1>1, <1>2 DEF FrameOK, Fields, Maps, GetBlockDone
  <2>2. Step(p, d) /\ nbh' = nbh
    BY <1>2 DEF GetBlockDone, untouched, unread
  <2> QED
    BY <1>1, <2>1, <2>2, Kept, NoTrace
<1>3. ASSUME FollowLink(p) PROVE Kind(p)
  <2>1. PICK h : Step(p, [c EXCEPT !.at = "ret", !.bh = <<h>>, !.res = h]) /\ nbh' = nbh + 1
    BY <1>3 DEF FollowLink
  <2> DEFINE d == [c EXCEPT !.at = "ret", !.bh = <<h>>, !.res = h]
  <2>2. FrameOK(d) /\ c.bh = <<>> /\ d.bh = <<h>> /\ d.reading = c.reading /\ ~d.reading
    BY <1>1, <1>3 DEF FrameOK, Fields, Maps, FollowLink
  <2> QED
    BY <1>1, <2>1, <2>2, BufferTaken, NoTrace
<1>4. ASSUME Leave(p) PROVE Kind(p)
  <2>1. FrameOK(Idle) /\ Idle.bh = <<>> /\ Idle.reading = c.reading /\ ~Idle.reading
    BY <1>1, <1>4 DEF FrameOK, Fields, Maps, Idle, Frame, Leave
  <2>2. bput(c) /\ Step(p, Idle)
    BY <1>4 DEF Leave
  <2> QED
    BY <1>1, <2>1, <2>2, PutBack, NoTrace
<1> QED
  BY <1>2, <1>3, <1>4

LEMMA ReadFails ==
    ASSUME NEW p \in Procs, KInv, mnt # "no", ReadError(p)
    PROVE  Kind(p)
<1>1. ErrDone(p, EIO) /\ UNCHANGED <<mnt, slab, nbh>>
  BY DEF ReadError
<1>2. Maps(call[p].at) \/ call[p].at = "link"
  BY DEF ReadError, Reads, Maps
<1> QED
  BY <1>1, <1>2, ErrDoneIs

(* The VFS makes a call.                                                    *)
LEMMA Starts ==
    ASSUME NEW p \in Procs, KInv, CallStarts(p)
    PROVE  Kind(p)
<1> DEFINE StartsNew(d) == /\ FrameOK(d) /\ d.bh = <<>> /\ ~d.reading /\ d.reading \in BOOLEAN
                     /\ call[p] = Idle /\ Step(p, d)
                     /\ UNCHANGED <<mnt, icache, slab, lost, nbh>>
<1>1. ASSUME NEW d, NEW n, CallLookup(p, d, n) PROVE \E c : StartsNew(c)
  <2> DEFINE c == [Frame("lookup", "loop", d) EXCEPT !.name = n]
  <2>1. FrameOK(c) /\ c.bh = <<>> /\ ~c.reading
    BY DEF FrameOK, Frame, Fields, Maps
  <2>2. StartsNew(c)
    BY <1>1, <2>1 DEF CallLookup, untouched, unread, FrameOK
  <2> QED
    BY <2>2
<1>2. ASSUME NEW f, CallIterate(p, f) PROVE \E c : StartsNew(c)
  <2>1. PICK o : Step(p, [Frame("iterate", "loop", file[f].dir) EXCEPT !.f = f, !.off = o])
    BY <1>2 DEF CallIterate
  <2> DEFINE c == [Frame("iterate", "loop", file[f].dir) EXCEPT !.f = f, !.off = o]
  <2>2. FrameOK(c) /\ c.bh = <<>> /\ ~c.reading
    BY DEF FrameOK, Frame, Fields, Maps
  <2>3. StartsNew(c)
    BY <1>2, <2>1, <2>2 DEF CallIterate, untouched, unread, FrameOK
  <2> QED
    BY <2>3
<1>3. ASSUME NEW i, CallFollowLink(p, i) PROVE \E c : StartsNew(c)
  <2> DEFINE c == Frame("link", "link", i)
  <2>1. FrameOK(c) /\ c.bh = <<>> /\ ~c.reading
    BY DEF FrameOK, Frame, Fields, Maps
  <2>2. StartsNew(c)
    BY <1>3, <2>1 DEF CallFollowLink, untouched, unread, FrameOK
  <2> QED
    BY <2>2
<1>4. ASSUME NEW i, NEW off, CallGetBlock(p, i, off) PROVE \E c : StartsNew(c)
  <2> DEFINE c == [Frame("read", "map", i) EXCEPT !.moff = off]
  <2>1. FrameOK(c) /\ c.bh = <<>> /\ ~c.reading
    BY DEF FrameOK, Frame, Fields, Maps
  <2>2. StartsNew(c)
    BY <1>4, <2>1 DEF CallGetBlock, untouched, unread, FrameOK
  <2> QED
    BY <2>2
<1>5. mnt = "yes" /\ \E c : StartsNew(c)
  BY <1>1, <1>2, <1>3, <1>4 DEF CallStarts
<1>6. PICK c : StartsNew(c)
  BY <1>5
<1>7. call[p].bh = <<>> /\ ~call[p].reading /\ call[p].reading \in BOOLEAN
  <2>1. Idle.bh = <<>> /\ Idle.reading = FALSE
    BY DEF Idle, Frame
  <2>2. call[p] = Idle
    BY <1>6
  <2> QED
    BY <2>1, <2>2, Zenon
<1> QED
  BY <1>5, <1>6, <1>7, Kept, NoTrace

LEMMA FillSuper ==
    ASSUME NEW p \in Procs, KInv, NEW di, tarfs_fill_super(p, di)
    PROVE  KInv'
<1>1. /\ mnt = "no" /\ \A q \in Procs : call[q] = Idle
      /\ UNCHANGED <<icache, slab, lost, nbh>>
  BY DEF tarfs_fill_super, KInv, NoCalls
<1>2. Idle.bh = <<>> /\ Idle.reading = FALSE
  BY DEF Idle, Frame
<1>3. CASE Step(p, GetRoot) /\ mnt' = "mounting"
  <2>1. FrameOK(GetRoot) /\ GetRoot.bh = <<>> /\ GetRoot.reading = FALSE
    BY DEF FrameOK, GetRoot, Frame, Fields, Maps
  <2>2. /\ DOMAIN call' = Procs /\ FramesOK'
        /\ \A q \in Procs : call[q].bh = <<>> /\ call'[q].bh = <<>>
        /\ \A q \in Procs : call[q].reading = FALSE /\ call'[q].reading = FALSE
    BY <1>1, <1>2, <1>3, <2>1 DEF KInv, FramesOK, Step
  <2>3. BuffersBalanced'
    <3>1. {q \in Procs : call[q].bh # <<>>} = {q \in Procs : call'[q].bh # <<>>}
      BY <2>2
    <3> QED
      BY <1>1, <3>1 DEF KInv, Tallies, BuffersBalanced
  <2>4. Locks'
    BY <1>1, <2>2 DEF KInv, Locks, Entries, LockedByReader, ReadersLock, Reading
  <2>5. Tallies'
    BY <1>1, <2>3 DEF KInv, Tallies, SlabAccounted
  <2> QED
    BY <1>3, <2>2, <2>4, <2>5 DEF KInv, NoCalls
<1>4. CASE UNCHANGED call
  BY <1>1, <1>4 DEF KInv, FramesOK, NoCalls, Locks, Entries, LockedByReader, ReadersLock,
                    Reading, Tallies, BuffersBalanced, SlabAccounted
<1> QED
  BY <1>3, <1>4 DEF tarfs_fill_super
-----------------------------------------------------------------------------
(* The kinds of step keep the invariant.                                    *)
LEMMA Balanced ==
    ASSUME NEW p \in Procs, NEW c, KInv, Advances(p, c)
    PROVE  FramesOK' /\ NoCalls' /\ nbh' \in Nat /\ BuffersBalanced'
<1> DEFINE H == {q \in Procs : call[q].bh # <<>>}
           G == {q \in Procs : call'[q].bh # <<>>}
<1>1. FramesOK' /\ NoCalls' /\ call'[p] = c /\ \A q \in Procs \ {p} : call'[q] = call[q]
  BY DEF KInv, FramesOK, Advances, NoCalls
<1>2. IsFiniteSet(H) /\ IsFiniteSet(H \ {p}) /\ nbh = Cardinality(H) /\ nbh \in Nat
  <2>1. IsFiniteSet(H)
    BY KernelAssumption, FS_Subset
  <2> QED
    BY <2>1, FS_Subset DEF KInv, Tallies, BuffersBalanced
<1>3. G \ {p} = H \ {p}
  BY <1>1
<1>4. Cardinality(H) = Cardinality(H \ {p}) + Len(call[p].bh) /\ Len(call[p].bh) \in Nat
  <2>1. FrameOK(call[p])
    BY DEF KInv, FramesOK
  <2>2. CASE p \in H
    <3>1. Cardinality(H \ {p}) = Cardinality(H) - 1
      BY <1>2, <2>2, FS_RemoveElement
    <3>0. call[p].bh # <<>>
      BY <2>2
    <3>2. PICK b : call[p].bh = <<b>>
      BY <2>1, <3>0 DEF FrameOK
    <3>3. Len(<<b>>) = 1
      OBVIOUS
    <3> HIDE DEF H
    <3> QED
      BY <1>2, <3>1, <3>2, <3>3
  <2>3. CASE p \notin H
    <3>0. H \ {p} = H
      BY <2>3
    <3>1. Cardinality(H \ {p}) = Cardinality(H)
      BY <3>0, Zenon
    <3>2. Len(call[p].bh) = 0
      BY <2>1, <2>3 DEF FrameOK
    <3> HIDE DEF H
    <3> QED
      BY <1>2, <3>1, <3>2
  <2> QED
    BY <2>2, <2>3
<1>5. Cardinality(G) = Cardinality(H \ {p}) + Len(c.bh) /\ Len(c.bh) \in Nat
  <2>1. FrameOK(c) /\ Cardinality(H \ {p}) \in Nat
    BY <1>2, FS_CardinalityType DEF Advances
  <2>2. CASE p \in G
    <3>1. G = (H \ {p}) \union {p}
      BY <1>3, <2>2
    <3>2. Cardinality((H \ {p}) \union {p}) = Cardinality(H \ {p}) + 1
      BY <1>2, FS_AddElement
    <3>3. Len(c.bh) = 1
      BY <1>1, <2>1, <2>2 DEF FrameOK
    <3> HIDE DEF H, G
    <3> QED
      BY <3>1, <3>2, <3>3
  <2>3. CASE p \notin G
    <3>1. G = H \ {p}
      BY <1>3, <2>3
    <3>2. Len(c.bh) = 0
      BY <1>1, <2>1, <2>3 DEF FrameOK
    <3> HIDE DEF H, G
    <3> QED
      BY <2>1, <3>1, <3>2
  <2> QED
    BY <2>2, <2>3
<1>6. nbh' = nbh - Len(call[p].bh) + Len(c.bh)
  BY DEF Advances
<1>7. nbh' = Cardinality(G) /\ nbh' \in Nat
  <2>1. Cardinality(H \ {p}) \in Nat
    BY <1>2, FS_CardinalityType
  <2> HIDE DEF H, G
  <2> QED
    BY <1>2, <1>4, <1>5, <1>6, <2>1
<1> QED
  BY <1>1, <1>7 DEF BuffersBalanced

(* The inodes that count in slab.                                           *)
Counted(f) == {i \in DOMAIN f : f[i].new \/ f[i].private}

(* An inode that nobody reads joins the cache.                              *)
LEMMA Joins ==
    ASSUME NEW i, i \notin DOMAIN icache, NEW e, icache' = With(icache, i, e), Tallies
    PROVE  /\ DOMAIN icache' = DOMAIN icache \union {i} /\ icache'[i] = e
           /\ \A j \in DOMAIN icache : icache'[j] = icache[j]
           /\ IsFiniteSet(DOMAIN icache')
           /\ Cardinality(Counted(icache)) \in Nat
           /\ Cardinality(Counted(icache')) = IF e.new \/ e.private
                                             THEN Cardinality(Counted(icache)) + 1
                                             ELSE Cardinality(Counted(icache))
<1>1. /\ DOMAIN icache' = DOMAIN icache \union {i} /\ icache'[i] = e
      /\ \A j \in DOMAIN icache : icache'[j] = icache[j]
  BY DEF With
<1>2. IsFiniteSet(DOMAIN icache') /\ IsFiniteSet(Counted(icache))
  BY <1>1, FS_AddElement, FS_Subset DEF Tallies, Counted
<1>3. Cardinality(Counted(icache)) \in Nat /\ i \notin Counted(icache)
  BY <1>2, FS_CardinalityType DEF Counted
<1>4. CASE e.new \/ e.private
  <2>1. Counted(icache') = Counted(icache) \union {i}
    BY <1>1, <1>4 DEF Counted
  <2>2. Cardinality(Counted(icache) \union {i}) = Cardinality(Counted(icache)) + 1
    BY <1>2, <1>3, FS_AddElement
  <2> QED
    BY <1>1, <1>2, <1>3, <1>4, <2>1, <2>2
<1>5. CASE ~(e.new \/ e.private)
  <2>1. Counted(icache') = Counted(icache)
    BY <1>1, <1>5 DEF Counted
  <2> QED
    BY <1>1, <1>2, <1>3, <1>5, <2>1
<1> QED
  BY <1>4, <1>5

(* The inode that p reads is not new any more.                              *)
LEMMA Unlocks ==
    ASSUME NEW p \in Procs, KInv, call[p].reading,
           NEW e, e.new = FALSE, e.private \in BOOLEAN,
           icache' = [icache EXCEPT ![call[p].ino] = e]
    PROVE  /\ DOMAIN icache' = DOMAIN icache /\ icache'[call[p].ino] = e
           /\ \A j \in DOMAIN icache \ {call[p].ino} : icache'[j] = icache[j]
           /\ Cardinality(Counted(icache)) \in Nat
           /\ Cardinality(Counted(icache')) = IF e.private THEN Cardinality(Counted(icache))
                                             ELSE Cardinality(Counted(icache)) - 1
<1> DEFINE i == call[p].ino
<1>1. /\ i \in DOMAIN icache /\ icache[i].new
      /\ DOMAIN icache' = DOMAIN icache /\ icache'[i] = e
      /\ \A j \in DOMAIN icache \ {i} : icache'[j] = icache[j]
  BY DEF KInv, Locks, ReadersLock
<1>2. IsFiniteSet(Counted(icache)) /\ i \in Counted(icache)
  BY <1>1, FS_Subset DEF KInv, Tallies, Counted
<1>3. Cardinality(Counted(icache)) \in Nat
  BY <1>2, FS_CardinalityType
<1>4. CASE e.private
  <2>1. Counted(icache') = Counted(icache)
    BY <1>1, <1>2, <1>4 DEF Counted
  <2> QED
    BY <1>1, <1>3, <1>4, <2>1
<1>5. CASE ~e.private
  <2>1. Counted(icache') = Counted(icache) \ {i}
    BY <1>1, <1>5 DEF Counted
  <2>2. Cardinality(Counted(icache) \ {i}) = Cardinality(Counted(icache)) - 1
    BY <1>2, FS_RemoveElement
  <2> QED
    BY <1>1, <1>3, <1>5, <2>1, <2>2
<1> QED
  BY <1>4, <1>5

(* Where no frame but p's changed, and p does not read as before or now.    *)
LEMMA Others ==
    ASSUME NEW p \in Procs, NEW c, KInv, Advances(p, c)
    PROVE  \A q \in Procs : call'[q] = IF q = p THEN c ELSE call[q]
BY DEF KInv, FramesOK, Advances

LEMMA KindKeeps ==
    ASSUME NEW p \in Procs, KInv, Kind(p)
    PROVE  KInv'
<1>1. PICK c : Advances(p, c) /\ Kinds(p, c)
  BY DEF Kind
<1>2. FramesOK' /\ NoCalls' /\ nbh' \in Nat /\ BuffersBalanced'
  BY <1>1, Balanced
<1>3. \A q \in Procs : call'[q] = IF q = p THEN c ELSE call[q]
  BY <1>1, Others
<1>4. /\ slab = lost + Cardinality(Counted(icache)) /\ lost \in Nat
      /\ IsFiniteSet(DOMAIN icache) /\ Locks
  BY DEF KInv, Tallies, SlabAccounted, Counted
<1>5. SUFFICES /\ Locks'
               /\ slab' = lost' + Cardinality(Counted(icache')) /\ lost' \in Nat
               /\ IsFiniteSet(DOMAIN icache')
  BY <1>2 DEF KInv, Tallies, SlabAccounted, Counted
<1>6. CASE Stays(p, c)
  <2>1. \A q \in Procs : \A i : (call'[q].reading /\ call'[q].ino = i) = (call[q].reading /\ call[q].ino = i)
    BY <1>3, <1>6 DEF Stays
  <2> QED
    BY <1>3, <1>4, <1>6, <2>1 DEF Stays, Locks, Entries, LockedByReader, ReadersLock, Reading
<1>7. CASE Begins(p, c)
  <2> DEFINE e == [Unread EXCEPT !.new = TRUE]
  <2>1. e.new = TRUE /\ e.private = FALSE
    BY DEF Unread
  <2>2. /\ ~call[p].reading /\ c.reading /\ c.ino \notin DOMAIN icache
        /\ icache' = With(icache, c.ino, e) /\ slab' = slab + 1 /\ lost' = lost
    BY <1>7 DEF Begins
  <2> HIDE DEF e
  <2>3. /\ DOMAIN icache' = DOMAIN icache \union {c.ino} /\ icache'[c.ino] = e
        /\ \A j \in DOMAIN icache : icache'[j] = icache[j]
        /\ IsFiniteSet(DOMAIN icache')
        /\ Cardinality(Counted(icache)) \in Nat
        /\ Cardinality(Counted(icache')) = Cardinality(Counted(icache)) + 1
    BY <2>1, <2>2, Joins DEF KInv
  <2>7. call'[p] = c /\ \A q \in Procs \ {p} : call'[q] = call[q]
    BY <1>3
  <2>8. \A q \in Procs \ {p} : call[q].reading => call[q].ino # c.ino
    BY <1>4, <2>2 DEF Locks, ReadersLock
  <2>4. Entries'
    BY <1>4, <2>1, <2>3 DEF Locks, Entries
  <2>5. LockedByReader'
    <3> SUFFICES ASSUME NEW i \in DOMAIN icache', icache'[i].new
                 PROVE  \E q \in Procs : call'[q].reading /\ call'[q].ino = i
      BY DEF LockedByReader, Reading
    <3>1. CASE i = c.ino
      BY <2>2, <2>7, <3>1
    <3>2. CASE i # c.ino
      <4>1. PICK q \in Procs : call[q].reading /\ call[q].ino = i
        BY <1>4, <2>3, <3>2 DEF Locks, LockedByReader, Reading
      <4> QED
        BY <2>2, <2>7, <4>1
    <3> QED
      BY <3>1, <3>2
  <2>6. ReadersLock'
    <3> SUFFICES ASSUME NEW q \in Procs, call'[q].reading
                 PROVE  /\ call'[q].ino \in DOMAIN icache' /\ icache'[call'[q].ino].new
                        /\ \A r \in Procs : call'[r].reading /\ call'[r].ino = call'[q].ino => r = q
      BY DEF ReadersLock, Reading
    <3>1. CASE q = p
      <4>1. c.ino \in DOMAIN icache' /\ icache'[c.ino].new
        BY <2>1, <2>3
      <4>2. \A r \in Procs : call'[r].reading /\ call'[r].ino = c.ino => r = p
        BY <2>7, <2>8
      <4> QED
        BY <2>7, <3>1, <4>1, <4>2
    <3>2. CASE q # p
      <4>1. /\ call[q].ino \in DOMAIN icache /\ icache[call[q].ino].new
            /\ \A r \in Procs : call[r].reading /\ call[r].ino = call[q].ino => r = q
        BY <1>4, <2>7, <3>2 DEF Locks, ReadersLock, Reading
      <4>2. call'[q] = call[q] /\ call[q].ino # c.ino
        BY <2>7, <2>8, <3>2
      <4>3. call'[q].ino \in DOMAIN icache' /\ icache'[call'[q].ino].new
        BY <2>3, <4>1, <4>2
      <4>4. \A r \in Procs : call'[r].reading /\ call'[r].ino = call'[q].ino => r = q
        BY <2>7, <4>1, <4>2
      <4> QED
        BY <4>3, <4>4
    <3> QED
      BY <3>1, <3>2
  <2> QED
    BY <1>4, <2>2, <2>3, <2>4, <2>5, <2>6 DEF Locks
<1>8. CASE Adds(p, c)
  <2>1. PICK i : i \notin DOMAIN icache /\ icache' = With(icache, i, Unread)
    BY <1>8 DEF Adds
  <2>2. ~Unread.new /\ ~Unread.private /\ Unread.new \in BOOLEAN /\ Unread.private \in BOOLEAN
    BY DEF Unread
  <2>3. /\ DOMAIN icache' = DOMAIN icache \union {i} /\ icache'[i] = Unread
        /\ \A j \in DOMAIN icache : icache'[j] = icache[j]
        /\ IsFiniteSet(DOMAIN icache')
        /\ Cardinality(Counted(icache')) = Cardinality(Counted(icache))
    BY <2>1, <2>2, Joins DEF KInv
  <2>7. \A q \in Procs : call'[q].reading => call[q].reading /\ call'[q].ino = call[q].ino
    BY <1>3, <1>8 DEF Adds
  <2>8. \A q \in Procs : call[q].reading => call'[q].reading /\ call'[q].ino = call[q].ino
    BY <1>3, <1>8 DEF Adds
  <2>4. Entries'
    BY <1>4, <2>1, <2>2, <2>3, <2>7, <2>8 DEF Locks, Entries
  <2>5. LockedByReader'
    BY <1>4, <2>1, <2>2, <2>3, <2>7, <2>8 DEF Locks, LockedByReader, ReadersLock, Reading
  <2>6. ReadersLock'
    BY <1>4, <2>1, <2>2, <2>3, <2>7, <2>8 DEF Locks, LockedByReader, ReadersLock, Reading
  <2> QED
    BY <1>4, <1>8, <2>3, <2>4, <2>5, <2>6 DEF Locks, Adds
<1>9. ASSUME NEW e, e.new = FALSE, e.private \in BOOLEAN, call[p].reading, ~c.reading,
             icache' = [icache EXCEPT ![call[p].ino] = e]
      PROVE  /\ Locks' /\ IsFiniteSet(DOMAIN icache')
             /\ Cardinality(Counted(icache)) \in Nat
             /\ Cardinality(Counted(icache')) = IF e.private THEN Cardinality(Counted(icache))
                                               ELSE Cardinality(Counted(icache)) - 1
  <2>1. /\ DOMAIN icache' = DOMAIN icache /\ icache'[call[p].ino] = e
        /\ \A j \in DOMAIN icache \ {call[p].ino} : icache'[j] = icache[j]
        /\ Cardinality(Counted(icache)) \in Nat
        /\ Cardinality(Counted(icache')) = IF e.private THEN Cardinality(Counted(icache))
                                          ELSE Cardinality(Counted(icache)) - 1
    BY <1>9, Unlocks
  <2>2. \A q \in Procs : call'[q].reading => q # p /\ call[q].reading /\ call'[q].ino = call[q].ino
    BY <1>3, <1>9
  <2>3. \A q \in Procs \ {p} : call'[q] = call[q]
    BY <1>3
  <2>4. Entries'
    BY <1>4, <1>9, <2>1, <2>2, <2>3 DEF Locks, Entries
  <2>5. LockedByReader'
    BY <1>4, <1>9, <2>1, <2>2, <2>3 DEF Locks, LockedByReader, ReadersLock, Reading
  <2>6. ReadersLock'
    BY <1>4, <1>9, <2>1, <2>2, <2>3 DEF Locks, LockedByReader, ReadersLock, Reading
  <2> QED
    BY <1>4, <2>1, <2>4, <2>5, <2>6 DEF Locks
<1>10. CASE Succeeds(p, c)
  <2>1. PICK d : icache' = [icache EXCEPT ![call[p].ino] = [new |-> FALSE, private |-> TRUE, di |-> d]]
    BY <1>10 DEF Succeeds
  <2> DEFINE e == [new |-> FALSE, private |-> TRUE, di |-> d]
  <2>2. e.new = FALSE /\ e.private \in BOOLEAN /\ e.private
    OBVIOUS
  <2>3. call[p].reading /\ ~c.reading /\ UNCHANGED <<slab, lost>>
    BY <1>10 DEF Succeeds
  <2> HIDE DEF e
  <2>4. Locks' /\ IsFiniteSet(DOMAIN icache') /\ Cardinality(Counted(icache')) = Cardinality(Counted(icache))
    BY <1>9, <2>1, <2>2, <2>3 DEF e
  <2> QED
    BY <1>4, <2>3, <2>4
<1>11. CASE Gives(p, c)
  <2>1. Unread.new = FALSE /\ Unread.private = FALSE
    BY DEF Unread
  <2>2. /\ call[p].reading /\ ~c.reading /\ slab' = slab /\ lost' = lost + 1
        /\ icache' = [icache EXCEPT ![call[p].ino] = Unread]
    BY <1>11 DEF Gives
  <2>3. /\ Locks' /\ IsFiniteSet(DOMAIN icache') /\ Cardinality(Counted(icache)) \in Nat
        /\ Cardinality(Counted(icache')) = Cardinality(Counted(icache)) - 1
    BY <1>9, <2>1, <2>2
  <2> QED
    BY <1>4, <2>2, <2>3
<1> QED
  BY <1>1, <1>6, <1>7, <1>8, <1>10, <1>11 DEF Kinds

LEMMA Unmoved ==
    ASSUME KInv, UNCHANGED <<call, nbh, icache, slab, lost>>, mnt' = mnt \/ mnt' # "no"
    PROVE  KInv'
<1>1. FramesOK' /\ NoCalls' /\ Locks'
  BY DEF KInv, FramesOK, NoCalls, Locks, Entries, LockedByReader, ReadersLock, Reading
<1>2. Tallies'
  BY DEF KInv, Tallies, BuffersBalanced, SlabAccounted
<1> QED
  BY <1>1, <1>2 DEF KInv

(* Inodes leave the cache, one or all, with their dinodes.                  *)
LEMMA EvictKeeps ==
    ASSUME KInv, NEW i \in DOMAIN icache, Evict(i)
    PROVE  KInv'
<1>1. /\ ~icache[i].new /\ UNCHANGED <<mnt, call, nbh, lost>>
      /\ icache' = [j \in DOMAIN icache \ {i} |-> icache[j]]
      /\ slab' = slab - Private(i)
  BY DEF Evict, Unreferenced
<1>2. DOMAIN icache' = DOMAIN icache \ {i} /\ \A j \in DOMAIN icache \ {i} : icache'[j] = icache[j]
  BY <1>1
<1>3. \A p \in Procs : call[p].reading => call[p].ino # i
  BY <1>1 DEF KInv, Locks, ReadersLock
<1>4. FramesOK' /\ NoCalls' /\ BuffersBalanced'
  BY <1>1 DEF KInv, FramesOK, NoCalls, Tallies, BuffersBalanced
<1>5. Locks'
  <2>1. Entries'
    BY <1>2 DEF KInv, Locks, Entries
  <2>2. LockedByReader'
    BY <1>1, <1>2 DEF KInv, Locks, LockedByReader, Reading
  <2>3. ReadersLock'
    BY <1>1, <1>2, <1>3 DEF KInv, Locks, ReadersLock, Reading
  <2> QED
    BY <2>1, <2>2, <2>3 DEF Locks
<1>6. IsFiniteSet(DOMAIN icache') /\ IsFiniteSet(Counted(icache))
  BY <1>2, FS_Subset, FS_RemoveElement DEF KInv, Tallies, Counted
<1>7. slab' = lost' + Cardinality(Counted(icache'))
  <2>1. /\ slab = lost + Cardinality(Counted(icache)) /\ lost \in Nat
        /\ Cardinality(Counted(icache)) \in Nat
    BY <1>6, FS_CardinalityType DEF KInv, Tallies, SlabAccounted, Counted
  <2>2. CASE icache[i].private
    <3>1. Counted(icache') = Counted(icache) \ {i} /\ i \in Counted(icache)
      BY <1>2, <2>2 DEF Counted
    <3>2. Cardinality(Counted(icache) \ {i}) = Cardinality(Counted(icache)) - 1
      BY <1>6, <3>1, FS_RemoveElement
    <3>3. slab' = slab - 1 /\ lost' = lost
      BY <1>1, <2>2 DEF Private
    <3>4. Cardinality(Counted(icache')) = Cardinality(Counted(icache)) - 1
      BY <3>1, <3>2, Zenon
    <3> QED
      BY <2>1, <3>3, <3>4
  <2>3. CASE ~icache[i].private
    <3>1. Counted(icache') = Counted(icache)
      BY <1>1, <1>2, <2>3 DEF Counted
    <3>2. Private(i) = 0
      BY <2>3 DEF Private
    <3> QED
      BY <1>1, <2>1, <3>1, <3>2
  <2> QED
    BY <2>2, <2>3
<1>8. Tallies'
  BY <1>1, <1>4, <1>6, <1>7 DEF KInv, Tallies, SlabAccounted, Counted
<1> QED
  BY <1>4, <1>5, <1>8 DEF KInv

LEMMA UmountKeeps ==
    ASSUME KInv, Umount
    PROVE  KInv'
<1>1. /\ \A p \in Procs : call[p] = Idle
      /\ icache' = <<>> /\ UNCHANGED <<call, nbh, lost>>
      /\ slab' = slab - Cardinality({i \in DOMAIN icache : Private(i) = 1})
  BY DEF Umount
<1>2. \A p \in Procs : call[p].reading = FALSE
  <2>1. Idle.reading = FALSE
    BY DEF Idle, Frame
  <2> QED
    BY <1>1, <2>1, Zenon
<1>3. FramesOK' /\ NoCalls' /\ BuffersBalanced'
  BY <1>1 DEF KInv, FramesOK, NoCalls, Tallies, BuffersBalanced
<1>4. DOMAIN icache' = {}
  BY <1>1
<1>5. Locks'
  BY <1>1, <1>2, <1>4 DEF Locks, Entries, LockedByReader, ReadersLock, Reading
<1>6. {i \in DOMAIN icache : Private(i) = 1} = Counted(icache)
  <2>1. \A i \in DOMAIN icache : ~icache[i].new
    BY <1>2 DEF KInv, Locks, LockedByReader, Reading
  <2> QED
    BY <2>1 DEF Counted, Private
<1>7. slab' = lost' + 0
  <2>1. IsFiniteSet(Counted(icache))
    BY FS_Subset DEF KInv, Tallies, Counted
  <2>2. Cardinality(Counted(icache)) \in Nat
    BY <2>1, FS_CardinalityType
  <2>3. slab = lost + Cardinality(Counted(icache)) /\ lost \in Nat
    BY DEF KInv, Tallies, SlabAccounted, Counted
  <2>4. slab' = slab - Cardinality(Counted(icache)) /\ lost' = lost
    <3>1. slab' = slab - Cardinality({i \in DOMAIN icache : Private(i) = 1}) /\ lost' = lost
      BY <1>1
    <3> QED
      BY <1>6, <3>1, Zenon
  <2> QED
    BY <2>2, <2>3, <2>4
<1>8. Tallies'
  <2>1. Cardinality(Counted(icache')) = 0 /\ IsFiniteSet(DOMAIN icache')
    BY <1>4, FS_EmptySet DEF Counted
  <2>2. SlabAccounted'
    <3> DEFINE n == Cardinality(Counted(icache'))
    <3>1. slab' = lost' + n
      <4>1. n = 0
        BY <2>1
      <4> HIDE DEF n
      <4> QED
        BY <1>7, <4>1, Zenon
    <3> QED
      BY <3>1 DEF SlabAccounted, Counted
  <2> QED
    BY <1>1, <1>3, <2>1, <2>2 DEF KInv, Tallies
<1> QED
  BY <1>3, <1>5, <1>8 DEF KInv
-----------------------------------------------------------------------------
LEMMA InitOK == MountInit => KInv
<1> SUFFICES ASSUME MountInit PROVE KInv
  OBVIOUS
<1>1. /\ mnt = "no" /\ call = [p \in Procs |-> Idle] /\ icache = <<>>
      /\ slab = 0 /\ nbh = 0 /\ lost = 0
  BY DEF MountInit, KernelInit
<1>2. FrameOK(Idle) /\ Idle.bh = <<>> /\ Idle.reading = FALSE
  BY DEF Idle, Frame, FrameOK, Fields, Maps
<1>3. DOMAIN icache = {}
  BY <1>1
<1>4. Cardinality({}) = 0 /\ IsFiniteSet({})
  BY FS_EmptySet
<1>5. FramesOK /\ NoCalls
  BY <1>1, <1>2 DEF FramesOK, NoCalls
<1>6. Locks
  BY <1>1, <1>2, <1>3 DEF Locks, Entries, LockedByReader, ReadersLock, Reading
<1>7. BuffersBalanced
  <2>1. {p \in Procs : call[p].bh # <<>>} = {}
    BY <1>1, <1>2
  <2> QED
    BY <1>1, <1>4, <2>1 DEF BuffersBalanced
<1>8. SlabAccounted
  <2>1. {i \in DOMAIN icache : icache[i].new \/ icache[i].private} = {}
    BY <1>3
  <2> QED
    BY <1>1, <1>4, <2>1 DEF SlabAccounted
<1> QED
  BY <1>1, <1>3, <1>4, <1>5, <1>6, <1>7, <1>8 DEF KInv, Tallies

(* A process that is in no call takes no step of one.                       *)
LEMMA InCall ==
    ASSUME NEW p \in Procs, KInv, CallStep(p) \/ CallFails(p)
    PROVE  mnt # "no"
<1> SUFFICES ASSUME mnt = "no" PROVE FALSE
  OBVIOUS
<1>1. call[p].at = "idle" /\ call[p].op = "idle"
  <2>1. Idle.at = "idle" /\ Idle.op = "idle"
    BY DEF Idle, Frame
  <2>2. call[p] = Idle
    BY DEF KInv, NoCalls
  <2> QED
    BY <2>1, <2>2, Zenon
<1> QED
  BY <1>1 DEF CallStep, CallFails, MapDirect, MapDescend, WalkHit, WalkNext, IgetHit, IgetNew,
              ReadInode, SpliceInode, SpliceError, LoopEnd, LoopBlock, ReadDirBlock, Match,
              Emit, EmitFull, GetBlockDone, FollowLink, Leave, ReadError, Reads, IgetNoMemory

LEMMA StepKeeps == KInv /\ [MountNext]_mountVars => KInv'
<1> SUFFICES ASSUME KInv, [MountNext]_mountVars PROVE KInv'
  OBVIOUS
<1>1. ASSUME NEW p \in Procs, CallStep(p) \/ CallFails(p) PROVE KInv'
  <2>1. mnt # "no"
    BY <1>1, InCall
  <2>2. Kind(p) \/ Dies
    <3>1. CASE CallStep(p)
      BY <2>1, <3>1, BlockMap, Iget, Splice, Loop, Ends DEF CallStep
    <3>2. CASE CallFails(p)
      BY <2>1, <3>2, ReadFails, Iget DEF CallFails
    <3> QED
      BY <1>1, <3>1, <3>2
  <2>3. CASE Dies
    BY <2>3, Unmoved DEF Dies
  <2> QED
    BY <2>2, <2>3, KindKeeps
<1>2. ASSUME NEW p \in Procs, CallStarts(p) PROVE KInv'
  BY <1>2, Starts, KindKeeps
<1>3. ASSUME NEW p \in Procs, Mount(p) PROVE KInv'
  BY <1>3, FillSuper DEF Mount
<1>4. ASSUME VFS PROVE KInv'
  <2>1. ASSUME NEW f, NEW d, OpenDir(f, d) PROVE KInv'
    BY <2>1, Unmoved DEF OpenDir
  <2>2. ASSUME NEW f, Rewind(f) \/ CloseDir(f) PROVE KInv'
    BY <2>2, Unmoved DEF Rewind, CloseDir
  <2>3. ASSUME NEW k, DropDentry(k) PROVE KInv'
    BY <2>3, Unmoved DEF DropDentry
  <2> QED
    BY <1>4, <2>1, <2>2, <2>3, EvictKeeps, UmountKeeps DEF VFS
<1>5. CASE UNCHANGED kernelVars
  BY <1>5, Unmoved DEF kernelVars
<1> QED
  BY <1>1, <1>2, <1>3, <1>4, <1>5 DEF MountNext, mountVars

THEOREM KernelInductive == MountSpec => []KInv
<1>1. MountInit => KInv
  BY InitOK
<1>2. KInv /\ [MountNext]_mountVars => KInv'
  BY StepKeeps
<1> QED
  BY <1>1, <1>2, PTL DEF MountSpec

(* Every buffer is given back: a block read in a loop before the next is    *)
(* read or the call returns, a link's header when the VFS has followed it,  *)
(* whichever of the reads on the way fail.                                  *)
THEOREM Buffers == MountSpec => []BuffersBalanced
<1>1. KInv => BuffersBalanced
  BY DEF KInv, Tallies
<1> QED
  BY <1>1, KernelInductive, PTL

(* Every dinode of the slab has its inode in the cache, and is freed with   *)
(* it, but for one per read that failed.                                    *)
THEOREM Slab == MountSpec => []SlabAccounted
<1>1. KInv => SlabAccounted
  BY DEF KInv, Tallies
<1> QED
  BY <1>1, KernelInductive, PTL

(* An inode that is locked (I_NEW) is being read by a call that will unlock *)
(* it, and by one only: a failed read leaves none for iget_locked to wait   *)
(* on, and no two processes read the same inode.                            *)
THEOREM LockHeld == MountSpec => [](LockedByReader /\ ReadersLock)
<1>1. KInv => LockedByReader /\ ReadersLock
  BY DEF KInv, Locks
<1> QED
  BY <1>1, KernelInductive, PTL
-----------------------------------------------------------------------------
(* What the finished file is to the kernel: fs has the number n of inodes   *)
(* and, for each directory and for inode 0, the blocks M[i] it maps and     *)
(* those T[i] of its indirect extents.  A map is right where it finds       *)
(* something, and finds every block.                                        *)
FileMap(d, di, s, t) ==
    /\ s \in Seq(Nat) /\ t \in Seq(Nat)
    /\ \A off \in Nat : Finds(di.di_directExtent, off) =>
          off < Len(s) /\ Translate(di.di_directExtent, off) = s[off + 1]
    /\ \A k \in 1..Len(t) : \A off \in Nat : Finds(d[t[k]].ie_dext, off) =>
          off < Len(s) /\ Translate(d[t[k]].ie_dext, off) = s[off + 1]
    /\ \A off \in 0..Len(s)-1 :
          Finds(di.di_directExtent, off) \/ \E k \in 1..Len(t) : Finds(d[t[k]].ie_dext, off)
    /\ Len(t) > 0 => di.di_nExtents > MAX_DINODE_DIRECT /\ di.di_rootIndExt = t[1]
    /\ \A k \in 1..Len(t) : d[t[k]].ie_next = IF k < Len(t) THEN t[k + 1] ELSE TARBLK_NONE

(* The records of a directory block fill it, and lead to inodes.            *)
Laid(es, f) ==
    /\ es \in Seq(Ents) /\ f \in [0..Len(es) -> 0..TAR_BLOCKSIZE]
    /\ Sum(f, es) /\ f[Len(es)] = TAR_BLOCKSIZE
Records(es, n) ==
    /\ \E f : Laid(es, f)
    /\ \A j \in 1..Len(es) : es[j].d_name \notin Dots2 => es[j].d_ino \in 1..n-1

DinodeAt(d, fs, i) == d[fs.M[TARFS_FREE_INO][i + 1]].di
DirAt(d, fs, i) ==
    LET s == fs.M[i]
    IN  /\ FileMap(d, DinodeAt(d, fs, i), s, fs.T[i])
        /\ DinodeAt(d, fs, i).di_size = TAR_BLOCKSIZE * Len(s)
        /\ \A k \in 1..Len(s) : Records(d[s[k]].ents, fs.n)

Served(d, fs) ==
    /\ fs.n \in Nat /\ fs.n > 1 /\ fs.n <= Len(fs.M[TARFS_FREE_INO])
    /\ FileMap(d, DinodeAt(d, fs, TARFS_FREE_INO), fs.M[TARFS_FREE_INO], fs.T[TARFS_FREE_INO])
    /\ \A i \in 1..fs.n-1 : /\ DinodeFields = DOMAIN DinodeAt(d, fs, i)
                            /\ DinodeAt(d, fs, i).di_mode = "dir" => DirAt(d, fs, i)

FsSound == phase = "done" => \E fs : Served(disk, fs) /\ fs.M[TARFS_FREE_INO][1] = Sb.tarfs_free
-----------------------------------------------------------------------------
(* A map holds on to what its blocks are.                                   *)
LEMMA FileMapStays ==
    ASSUME NEW d, NEW d2, NEW di, NEW s, NEW t, FileMap(d, di, s, t),
           \A k \in 1..Len(t) : d2[t[k]] = d[t[k]]
    PROVE  FileMap(d2, di, s, t)
BY Zenon DEF FileMap

(* The map of a directory, or of inode 0, with nobody at work on it.        *)
LEMMA MapsWhole ==
    ASSUME NEW inds, NEW h, EM!Whole(inds, h), NEW di, MapFields(di, MapCore[h])
    PROVE  FileMap(disk, di, mapped[h], inds[h])
<1> DEFINE s == mapped[h]
           t == inds[h]
           o == MapCore[h]
<1>1. /\ t \in Seq(Nat) /\ o \in EM!Objects /\ s \in Seq(Nat)
      /\ EM!CoreOf(inds, h) /\ EM!ExtentsOf(inds, h)
      /\ \A k \in 1..Len(t) :
            /\ disk[t[k]] \in EM!IndExts
            /\ disk[t[k]].ie_next = IF k < Len(t) THEN t[k + 1] ELSE EM!TARBLK_NONE
  BY DEF EM!Whole
<1>2. /\ di.di_nExtents = o.di_nExtents /\ di.di_directExtent = o.di_directExtent
      /\ di.di_rootIndExt = o.di_rootIndExt
  BY DEF MapFields
<1>3. EM!Direct(h) = di.di_directExtent /\ di.di_directExtent \in Seq(EM!Extents)
  BY <1>1, <1>2 DEF EM!Direct, EM!Objects
<1>4. ASSUME NEW k \in 1..Len(t)
      PROVE  EM!Dext(t[k]) = disk[t[k]].ie_dext /\ disk[t[k]].ie_dext \in Seq(EM!Extents)
  BY <1>1 DEF EM!Dext, EM!IndExts
<1>5. /\ EM!AllRight(di.di_directExtent, s)
      /\ \A k \in 1..Len(t) : EM!AllRight(disk[t[k]].ie_dext, s)
  <2>1. \A k \in 0..Len(t) : EM!AllRight(EM!Exts(inds, h, k), s)
    BY <1>1 DEF EM!ExtentsOf
  <2>2. 0 \in 0..Len(t) /\ EM!Exts(inds, h, 0) = di.di_directExtent
    BY <1>1, <1>3 DEF EM!Exts
  <2>3. ASSUME NEW k \in 1..Len(t)
        PROVE  k \in 0..Len(t) /\ EM!Exts(inds, h, k) = disk[t[k]].ie_dext
    BY <1>1, <1>4, <2>3 DEF EM!Exts
  <2> QED
    BY <2>1, <2>2, <2>3
<1>6. ASSUME NEW exts \in Seq(EM!Extents), EM!AllRight(exts, s), NEW off \in Nat, Finds(exts, off)
      PROVE  off < Len(s) /\ Translate(exts, off) = s[off + 1]
  <2>1. EM!Finds(exts, off) /\ EM!Translate(exts, off) = Translate(exts, off)
    BY <1>6 DEF Finds, EM!Finds, Translate, EM!Translate, Covers, EM!Covers
  <2> HIDE DEF s
  <2> QED
    BY <1>1, <1>6, <2>1, Given, BulksAssumption, IndExtAssumption, EM!TranslateIs
<1>7. ASSUME NEW off \in 0..Len(s)-1
      PROVE  Finds(di.di_directExtent, off) \/ \E k \in 1..Len(t) : Finds(disk[t[k]].ie_dext, off)
  <2>1. PICK k \in 0..Len(t) : EM!Somewhere(EM!Exts(inds, h, k), off)
    BY <1>1 DEF EM!ExtentsOf
  <2>2. CASE k = 0
    <3>1. EM!Somewhere(di.di_directExtent, off)
      BY <1>3, <2>1, <2>2 DEF EM!Exts
    <3> QED
      BY <1>3, <3>1 DEF EM!Somewhere, Finds, Covers, EM!Covers
  <2>3. CASE k # 0
    <3>1. k \in 1..Len(t)
      BY <1>1, <2>3
    <3>2. EM!Somewhere(disk[t[k]].ie_dext, off)
      BY <1>4, <2>1, <2>3, <3>1 DEF EM!Exts
    <3>3. Finds(disk[t[k]].ie_dext, off)
      BY <1>4, <3>1, <3>2 DEF EM!Somewhere, Finds, Covers, EM!Covers
    <3> QED
      BY <3>1, <3>3
  <2> QED
    BY <2>2, <2>3
<1>8. Len(t) > 0 => di.di_nExtents > MAX_DINODE_DIRECT /\ di.di_rootIndExt = t[1]
  <2> HAVE Len(t) > 0
  <2>1. /\ Len(di.di_directExtent) = MAX_DINODE_DIRECT /\ di.di_rootIndExt = t[1]
        /\ di.di_nExtents = Len(di.di_directExtent) + Len(t)
    BY <1>1, <1>2, <1>3 DEF EM!CoreOf
  <2>2. Len(t) \in Nat /\ MAX_DINODE_DIRECT \in Nat
    BY <1>1, IndExtAssumption
  <2> QED
    BY <2>1, <2>2
<1>9. EM!TARBLK_NONE = TARBLK_NONE
  BY DEF EM!TARBLK_NONE, TARBLK_NONE
<1>10. /\ \A off \in Nat : Finds(di.di_directExtent, off) =>
            off < Len(s) /\ Translate(di.di_directExtent, off) = s[off + 1]
       /\ \A k \in 1..Len(t) : \A off \in Nat : Finds(disk[t[k]].ie_dext, off) =>
            off < Len(s) /\ Translate(disk[t[k]].ie_dext, off) = s[off + 1]
  BY <1>3, <1>4, <1>5, <1>6
<1> HIDE DEF s, t, o
<1>11. FileMap(disk, di, s, t)
  BY <1>1, <1>7, <1>8, <1>9, <1>10 DEF FileMap
<1> QED
  BY <1>11 DEF s, t

(* The records of a block, each where the ones before it end.               *)
LEMMA LaidIs ==
    ASSUME NEW c, Formed(c)
    PROVE  \E f : Laid(c.ents, f)
<1> DEFINE es == c.ents
           n == Len(es)
<1>1. PICK f \in [0..n -> Nat] : Sum(f, es) /\ f[n] = TAR_BLOCKSIZE
  BY DEF Formed
<1>2. es \in Seq(Ents) /\ n \in Nat
  BY DEF Formed
<1>3. ASSUME NEW j \in 1..n PROVE f[j] = f[j-1] + es[j].d_reclen /\ es[j].d_reclen \in Nat
  <2>1. es[j] \in Ents
    BY <1>2
  <2> QED
    BY <1>1, <2>1 DEF Sum, Ents
<1> HIDE DEF es, n
<1>4. \A j \in 0..n : f[j] <= TAR_BLOCKSIZE
  <2> DEFINE T == {k \in 0..n : f[n - k] <= TAR_BLOCKSIZE}
  <2>1. 0 \in T
    BY <1>1, <1>2 DEF TAR_BLOCKSIZE
  <2>2. ASSUME NEW k \in 1..n, k - 1 \in T PROVE k \in T
    <3>1. n - k + 1 \in 1..n /\ n - (k - 1) = n - k + 1 /\ n - k \in 0..n /\ (n - k + 1) - 1 = n - k
      BY <1>2
    <3>2. f[n - k + 1] = f[n - k] + es[n - k + 1].d_reclen /\ es[n - k + 1].d_reclen \in Nat
      BY <1>3, <3>1
    <3>3. f[n - k + 1] <= TAR_BLOCKSIZE /\ f[n - k] \in Nat
      BY <1>1, <2>2, <3>1
    <3>4. f[n - k] <= TAR_BLOCKSIZE
      BY <3>2, <3>3 DEF TAR_BLOCKSIZE
    <3> QED
      BY <3>4
  <2> HIDE DEF T
  <2>3. 0..n \subseteq T
    BY <1>2, <2>1, <2>2, UpTo
  <2>4. ASSUME NEW j \in 0..n PROVE f[j] <= TAR_BLOCKSIZE
    <3>1. n - j \in 0..n /\ n - (n - j) = j
      BY <1>2
    <3> QED
      BY <2>3, <3>1 DEF T
  <2> QED
    BY <2>4
<1>5. f \in [0..n -> 0..TAR_BLOCKSIZE]
  <2>1. ASSUME NEW j \in 0..n PROVE f[j] \in 0..TAR_BLOCKSIZE
    <3>1. PICK x : x = f[j]
      BY Zenon
    <3>2. x \in Nat /\ x <= TAR_BLOCKSIZE
      BY <1>1, <1>4, <3>1
    <3>3. x \in 0..TAR_BLOCKSIZE
      BY <3>2 DEF TAR_BLOCKSIZE
    <3> QED
      BY <3>1, <3>3
  <2> QED
    BY <1>1, <2>1
<1>6. Laid(es, f)
  BY <1>1, <1>2, <1>5 DEF Laid, n
<1> QED
  BY <1>6 DEF es

(* When only the superblock is missing, the file is as the kernel needs it: *)
(* every dinode ...                                                         *)
LEMMA DinodesServe ==
    ASSUME NEW inds, NEW thrown, NEW P, Active(inds, thrown, P), WriteSuper, Remember
    PROVE  LET s == mapped[TARFS_FREE_INO]
           IN  /\ \A i \in 0..inodeNum-1 : /\ s[i + 1] \in 0..blks-1
                                           /\ Latest(i) = disk[s[i + 1]].di /\ Latest(i) \in Di
               /\ s \in Seq(Nat) /\ inodeNum <= Len(s) /\ s[1] = orgblks
<1> DEFINE s == mapped[TARFS_FREE_INO]
<1>1. /\ ins = NoFrame /\ inodeNum > 1 /\ ~Loaded("dir") /\ ~Loaded("next")
      /\ Synced("root") /\ Synced("free") /\ First
  BY WriteSuperIs
<1>2. /\ orgblks \in Nat /\ blks \in Nat /\ inodeNum \in Nat /\ Mem /\ OnDisk
  BY StateIs
<1>3. /\ s \in Seq(Nat) /\ inodeNum <= Len(s) /\ s[1] = orgblks
      /\ \A i \in 1..inodeNum : s[i] \in orgblks..blks-1
  BY <1>1, AllSynced
<1>4. Dinodes = s
  BY <1>1 DEF Dinodes
<1> HIDE DEF s
<1>5. ASSUME NEW h \in {"free", "root"}
      PROVE  LET i == core[h].ino
             IN  i \in 0..1 /\ Latest(i) = disk[s[i + 1]].di /\ h = IF i = 0 THEN "free" ELSE "root"
  <2>1. /\ h \in Handles /\ core[h].ino = (IF h = "free" THEN 0 ELSE 1) /\ Loaded(h)
        /\ core[h].blkno = s[core[h].ino + 1]
    <3>1. h \in Handles /\ core[h].ino = (IF h = "free" THEN 0 ELSE 1)
      BY <1>1, <1>2 DEF Mem, Handles
    <3>2. Loaded(h)
      BY <3>1 DEF Loaded
    <3> QED
      BY <1>2, <1>4, <3>1, <3>2 DEF Mem
  <2>2. Latest(core[h].ino) = DiOf(core[h]) /\ core[h] \in Obj12
    BY <1>2, <2>1, LatestMem
  <2>3. disk[core[h].blkno] = Dinode(core[h])
    BY <1>1 DEF Synced
  <2>4. disk[core[h].blkno].di = DiOf(core[h])
    BY <2>2, <2>3, DinodeIs
  <2> QED
    BY <2>1, <2>2, <2>4
<1>6. ASSUME NEW i \in 0..inodeNum-1
      PROVE  s[i + 1] \in 0..blks-1 /\ Latest(i) = disk[s[i + 1]].di /\ Latest(i) \in Di
  <2>1. i + 1 \in 1..inodeNum
    BY <1>2
  <2>2. s[i + 1] \in 0..blks-1
    <3>1. s[i + 1] \in orgblks..blks-1
      BY <1>3, <2>1
    <3> QED
      BY <1>2, <3>1
  <2>3. Latest(i) \in Di
    BY <1>2, LatestType
  <2>4. Latest(i) = disk[s[i + 1]].di
    <3>1. CASE InMem(i)
      <4>1. PICK h \in Handles : core[h].ino = i
        BY <3>1 DEF InMem
      <4>2. core["dir"].ino = -1 /\ core["next"].ino = -1 /\ i # -1
        BY <1>1, <1>2 DEF Loaded
      <4>3. h \in {"free", "root"}
        BY <4>1, <4>2 DEF Handles
      <4> QED
        BY <1>5, <4>1, <4>3
    <3>2. CASE ~InMem(i)
      BY <1>2, <1>4, <3>2, LatestDisk
    <3> QED
      BY <3>1, <3>2
  <2> QED
    BY <2>2, <2>3, <2>4
<1> QED
  BY <1>3, <1>6 DEF s

(* ... and every directory, ...                                             *)
LEMMA DirsServe ==
    ASSUME NEW inds, NEW thrown, NEW P, Active(inds, thrown, P), WriteSuper, Remember,
           NEW i \in 1..inodeNum-1, Latest(i).di_mode = "dir"
    PROVE  /\ i \in Inos /\ MapCore[i] = MapOf(i, Latest(i))
           /\ Latest(i).di_size = TAR_BLOCKSIZE * Len(mapped[i])
           /\ \A k \in 1..Len(mapped[i]) : /\ mapped[i][k] \in 0..blks-1
                                           /\ Records(disk[mapped[i][k]].ents, inodeNum)
<1> DEFINE s == mapped[i]
<1>1. pc = "super"
  BY DEF WriteSuper, At
<1>2. /\ inodeNum \in Nat /\ DOMAIN disk = 0..blks-1 /\ Inodes(P) /\ DirsOf(P) /\ AllFormed
      /\ mapped \in [Inos -> Seq(Nat)] /\ Inos = 0..MaxBlks /\ MaxBlks \in Nat
  BY StateIs DEF Active
<1>3. i \in 1..MaxBlks /\ i \in Inos
  <2>1. inodeNum <= MaxBlks
    BY InosFit
  <2> QED
    BY <1>2, <2>1
<1>4. MapCore[i] = MapOf(i, Latest(i))
  BY <1>3 DEF MapCore
<1>5. Latest(i).di_size = TAR_BLOCKSIZE * Len(s)
  <2>1. /\ Latest(i).di_size = TAR_BLOCKSIZE * Latest(i).di_blocks
        /\ Len(s) = Latest(i).di_blocks + Extra(i)
    BY <1>2 DEF Inodes, InodeOf
  <2>2. Extra(i) = 0
    BY <1>1 DEF Extra, AtTarget
  <2>3. s \in Seq(Nat)
    BY <1>2, <1>3
  <2>4. Latest(i).di_blocks \in Nat
    <3>1. i \in 0..inodeNum-1
      BY <1>2
    <3>2. Latest(i) \in Di
      BY <3>1, StateIs, LatestType
    <3> QED
      BY <3>2 DEF Di
  <2>5. Len(s) = Latest(i).di_blocks
    BY <2>1, <2>2, <2>3, <2>4
  <2> QED
    BY <2>1, <2>5
<1>6. ASSUME NEW k \in 1..Len(s)
      PROVE  s[k] \in 0..blks-1 /\ Records(disk[s[k]].ents, inodeNum)
  <2>1. s[k] \in 0..blks-1
    BY <1>3, MapsAre
  <2>2. DirBlk(P, i, s[k])
    BY <1>1, <1>2 DEF DirsOf, Pending
  <2>3. Formed(disk[s[k]])
    BY <1>2, <2>1, <2>2 DEF AllFormed, DirBlk
  <2>4. \E f : Laid(disk[s[k]].ents, f)
    BY <2>3, LaidIs
  <2>5. ASSUME NEW j \in 1..Len(disk[s[k]].ents), disk[s[k]].ents[j].d_name \notin Dots2
        PROVE  disk[s[k]].ents[j].d_ino \in 1..inodeNum-1
    <3>1. PICK o : o = disk[s[k]].ents[j].d_ino
      BY Zenon
    <3>2. o \in i+1..inodeNum-1
      BY <2>2, <2>5, <3>1 DEF DirBlk
    <3>3. o \in 1..inodeNum-1
      BY <1>2, <3>2
    <3> QED
      BY <3>1, <3>3
  <2> QED
    BY <2>1, <2>4, <2>5 DEF Records
<1> QED
  BY <1>3, <1>4, <1>5, <1>6

(* ... so that the file it ends with serves.                                *)
LEMMA SuperServes ==
    ASSUME NEW inds, NEW thrown, NEW P, Active(inds, thrown, P), WriteSuper, Remember
    PROVE  FsSound'
<1> DEFINE s == mapped[TARFS_FREE_INO]
           fs == [n |-> inodeNum, M |-> mapped, T |-> inds]
<1>1. /\ ins = NoFrame /\ inodeNum > 1 /\ mapped' = mapped /\ blks' = blks + 1
      /\ \A b \in 0..blks-1 : disk'[b] = disk[b]
  BY WriteSuperIs
<1>2. /\ EM!Alive(inds, thrown) /\ blks \in Nat /\ inodeNum \in Nat /\ Mem
  BY StateIs
<1>3. /\ \A i \in 0..inodeNum-1 : /\ s[i + 1] \in 0..blks-1
                                  /\ Latest(i) = disk[s[i + 1]].di /\ Latest(i) \in Di
      /\ s \in Seq(Nat) /\ inodeNum <= Len(s) /\ s[1] = orgblks
  BY DinodesServe
<1>4. Sb'.tarfs_free = orgblks
  <2>1. Ended(inds)' /\ orgblks' = orgblks
    BY WriteSuperIs, SuperEnds
  <2> QED
    BY <2>1 DEF Ended
<1>5. ASSUME NEW i \in Inos, NEW di, MapFields(di, MapCore[i])
      PROVE  FileMap(disk', di, mapped[i], inds[i])
  <2>1. i \in EM!Handles
    BY InosAre
  <2>2. EM!Settled(i)
    BY <1>1, FrameSeen, StateIs DEF EM!Settled
  <2>3. EM!Whole(inds, i)
    BY <1>2, <2>1, <2>2, Given, BulksAssumption, IndExtAssumption, EM!WholeIs
  <2>4. FileMap(disk, di, mapped[i], inds[i])
    BY <1>5, <2>3, MapsWhole
  <2>5. \A k \in 1..Len(inds[i]) : disk'[inds[i][k]] = disk[inds[i][k]]
    BY <1>1, <1>2, <2>1, Given, BulksAssumption, IndExtAssumption, EM!ChainsAre
  <2> QED
    BY <2>4, <2>5, FileMapStays
<1>6. ASSUME NEW i \in 0..inodeNum-1
      PROVE  DinodeAt(disk', fs, i) = Latest(i)
  <2>1. DinodeAt(disk', fs, i) = disk'[s[i + 1]].di
    BY DEF DinodeAt
  <2> HIDE DEF s, fs
  <2> QED
    BY <1>1, <1>3, <2>1
<1> HIDE DEF s
<1>7. FileMap(disk', DinodeAt(disk', fs, TARFS_FREE_INO), fs.M[TARFS_FREE_INO], fs.T[TARFS_FREE_INO])
  <2>1. TARFS_FREE_INO \in Inos /\ TARFS_FREE_INO \in 0..inodeNum-1
    BY <1>1, <1>2, Given DEF Inos, TARFS_FREE_INO
  <2>2. MapCore[TARFS_FREE_INO] = MapOf(TARFS_FREE_INO, Latest(TARFS_FREE_INO))
    BY <2>1 DEF MapCore
  <2>3. MapFields(Latest(TARFS_FREE_INO), MapCore[TARFS_FREE_INO])
    BY <2>2 DEF MapOf, MapFields
  <2> QED
    BY <1>5, <1>6, <2>1, <2>3
<1>8. ASSUME NEW i \in 1..inodeNum-1
      PROVE  /\ DinodeFields = DOMAIN DinodeAt(disk', fs, i)
             /\ DinodeAt(disk', fs, i).di_mode = "dir" => DirAt(disk', fs, i)
  <2>1. i \in 0..inodeNum-1
    BY <1>2
  <2>2. DinodeAt(disk', fs, i) = Latest(i)
    BY <1>6, <2>1
  <2>3. DinodeFields = DOMAIN Latest(i)
    BY <1>3, <2>1 DEF Di, DinodeFields
  <2>4. ASSUME Latest(i).di_mode = "dir" PROVE DirAt(disk', fs, i)
    <3>1. /\ i \in Inos /\ MapCore[i] = MapOf(i, Latest(i))
          /\ Latest(i).di_size = TAR_BLOCKSIZE * Len(mapped[i])
          /\ \A k \in 1..Len(mapped[i]) : /\ mapped[i][k] \in 0..blks-1
                                          /\ Records(disk[mapped[i][k]].ents, inodeNum)
      BY <2>4, DirsServe
    <3>2. MapFields(Latest(i), MapCore[i])
      BY <2>4, <3>1 DEF MapOf, MapFields
    <3>3. FileMap(disk', Latest(i), mapped[i], inds[i])
      BY <1>5, <3>1, <3>2
    <3>4. \A k \in 1..Len(mapped[i]) : Records(disk'[mapped[i][k]].ents, inodeNum)
      BY <1>1, <3>1
    <3>5. fs.M[i] = mapped[i] /\ fs.T[i] = inds[i] /\ fs.n = inodeNum
      OBVIOUS
    <3> HIDE DEF fs
    <3> QED
      BY <2>2, <3>1, <3>3, <3>4, <3>5 DEF DirAt
  <2> QED
    BY <2>2, <2>3, <2>4
<1>9. fs.n = inodeNum /\ fs.M[TARFS_FREE_INO] = s
  BY DEF s
<1> HIDE DEF fs
<1>10. Served(disk', fs)
  BY <1>1, <1>2, <1>3, <1>7, <1>8, <1>9 DEF Served
<1> QED
  BY <1>3, <1>4, <1>9, <1>10 DEF FsSound

LEMMA FsStays == ASSUME FsSound, UNCHANGED vars PROVE FsSound'
<1>1. UNCHANGED <<disk, blks, phase>>
  BY DEF vars, spaceVars, progVars
<1> QED
  BY <1>1 DEF FsSound, Sb

LEMMA StepServes == ASSUME IInv, FsSound, [Next]_vars PROVE FsSound'
<1>1. CASE Work
  <2>1. phase = "run" /\ Remember
    BY <1>1 DEF Work, InitFree, AllocRoot, DirInit, Dots, Get, Eof, LookupData, LookupMiss, LookupDir,
       LookupNotDir, LookupAgain, AddEntry, AddBlock, NewBlock, Sync, SyncDir, SyncRoot, SyncFree,
       WriteSuper, InsStep, LooksUp, At
  <2>2. PICK inds, thrown, P : Active(inds, thrown, P)
    BY <2>1 DEF IInv, Active
  <2>3. CASE WriteSuper
    BY <2>1, <2>2, <2>3, SuperServes
  <2>4. CASE ~WriteSuper
    <3>1. phase' # "done"
      BY <1>1, <2>1, <2>4 DEF Work, InitFree, AllocRoot, DirInit, Dots, Get, Eof, LookupData, LookupMiss,
         LookupDir, LookupNotDir, LookupAgain, AddEntry, AddBlock, NewBlock, Sync, SyncDir, SyncRoot,
         SyncFree, InsStep, LooksUp, At, progVars
    <3> QED
      BY <3>1 DEF FsSound
  <2> QED
    BY <2>3, <2>4
<1>2. CASE Fail \/ Kill
  BY <1>2 DEF Fail, Kill, FsSound
<1>3. CASE UNCHANGED vars
  BY <1>3, FsStays
<1> QED
  BY <1>1, <1>2, <1>3 DEF Next

(* However mkfs.tarfs gets to its end, the kernel finds its way about.      *)
LEMMA FileServes == Spec /\ ~DataAsDir(files) => [](IInv /\ FsSound)
<1>1. Init /\ ~DataAsDir(files) => IInv /\ FsSound
  BY InitIs DEF Init, FsSound
<1>2. IInv /\ FsSound /\ [Next]_vars => (IInv /\ FsSound)'
  BY StepIs, StepServes
<1> QED
  BY <1>1, <1>2, PTL DEF Spec

LEMMA MountIsMake == MountSpec => Spec
<1>1. MountInit => Init
  BY DEF MountInit
<1>2. [MountNext]_mountVars => [Next]_vars
  BY DEF MountNext, mountVars, Next
<1> QED
  BY <1>1, <1>2, PTL DEF MountSpec, Spec
-----------------------------------------------------------------------------
(* What the kernel knows of the file.  The block of an offset is being      *)
(* looked for in map s: at the k-th indirect block, those before it do not  *)
(* have it.                                                                 *)
Past(d, di, t, off, k) ==
    /\ k \in 1..Len(t) /\ ~Finds(di.di_directExtent, off)
    /\ \A j \in 1..k-1 : ~Finds(d[t[j]].ie_dext, off)
Translating(d, di, s, t, c) ==
    /\ c.moff \in 0..Len(s)-1
    /\ c.at = "walk" => \E k : Past(d, di, t, c.moff, k) /\ c.bn = t[k]
    /\ c.at = "mapped" => c.bn = s[c.moff + 1]

(* A lookup goes from block to block of its directory, and from record to   *)
(* record of the block it holds.                                            *)
AtBlock(s, c) == \E q \in 0..Len(s) : c.off = TAR_BLOCKSIZE * q
InBlock(d, s, c) ==
    \E q \in 0..Len(s)-1 : \E f : \E j \in 1..Len(d[s[q + 1]].ents) :
        /\ Laid(d[s[q + 1]].ents, f) /\ f[j-1] < TAR_BLOCKSIZE
        /\ c.off = TAR_BLOCKSIZE * q + f[j-1] /\ c.bh = <<s[q + 1]>>
LookupAt(d, fs, c) ==
    LET s == fs.M[c.dir]
    IN  /\ c.at = "loop" => AtBlock(s, c) \/ InBlock(d, s, c)
        /\ c.at = "rec" => InBlock(d, s, c)
        /\ Maps(c.at) /\ ~c.reading =>
              /\ c.dp = c.dir /\ c.off = TAR_BLOCKSIZE * c.moff
              /\ Translating(d, DinodeAt(d, fs, c.dir), s, fs.T[c.dir], c)

(* An inode is only ever a number mkfs.tarfs gave out, an error only one of *)
(* the device or of memory, and a directory looked into stays in the cache. *)
HasDir(d, fs, ic, i) ==
    i \in DOMAIN ic /\ ~ic[i].new /\ ic[i].private /\ DinodeAt(d, fs, i).di_mode = "dir"
Ops == {"idle", "mount", "lookup", "iterate", "read", "link"}
CallKnown(d, fs, ic, er, c) ==
    /\ c.op \in Ops
    /\ c.at = "iget" \/ c.reading => c.ino \in 1..fs.n-1
    /\ c.reading => /\ c.dp = TARFS_FREE_INO /\ c.moff = c.ino
                    /\ Translating(d, DinodeAt(d, fs, TARFS_FREE_INO), fs.M[TARFS_FREE_INO],
                                   fs.T[TARFS_FREE_INO], c)
    /\ c.at = "splice" => /\ c.op \in {"lookup", "mount"}
                          /\ c.res \in DOMAIN ic \/ (c.res \in Int /\ c.res < 0 /\ er > 0)
    /\ c.op = "mount" => c.at \in {"iget", "splice", "ret"} \/ c.reading
    /\ c.op = "lookup" => c.name \in Names /\ HasDir(d, fs, ic, c.dir) /\ LookupAt(d, fs, c)

Cached(d, fs, ic) ==
    \A i \in DOMAIN ic :
        /\ i \in 1..fs.n-1 /\ ic[i].new \in BOOLEAN /\ ic[i].private \in BOOLEAN
        /\ ic[i].new => ~ic[i].private
        /\ ic[i].di = IF ic[i].private THEN DinodeAt(d, fs, i) ELSE NoDinode

Knows(fs) ==
    /\ MapFields(fdinode, DinodeAt(disk, fs, TARFS_FREE_INO))
    /\ Cached(disk, fs, icache)
    /\ \A p \in Procs : CallKnown(disk, fs, icache, errs, call[p])

(* There is one mount at a time, and nothing else before it is through.     *)
Live == mnt \in {"mounting", "yes"}
OneMount ==
    /\ \A p \in Procs : call[p].op = "mount" /\ call[p].at # "ret" => mnt # "yes"
    /\ \A p, q \in Procs : call[p].op = "mount" /\ call[q].op = "mount" => p = q

KnownInv ==
    /\ KernelTypeOK /\ OopsExplained /\ OneMount
    /\ mnt = "no" => icache = <<>> /\ dcache = <<>> /\ leaked = {}
    /\ mnt # "no" => phase = "done"
    /\ Live => \E fs : Served(disk, fs) /\ Knows(fs)
-----------------------------------------------------------------------------
(* The cache grows, and what was read stays.                                *)
CacheGrows(ic, ic2) == DOMAIN ic \subseteq DOMAIN ic2 /\ \A i \in DOMAIN ic : ~ic[i].new => ic2[i] = ic[i]

LEMMA CallStays ==
    ASSUME NEW d, NEW fs, NEW ic, NEW ic2, NEW er \in Nat, NEW er2 \in Nat, NEW c,
           CallKnown(d, fs, ic, er, c), CacheGrows(ic, ic2), er <= er2
    PROVE  CallKnown(d, fs, ic2, er2, c)
<1>1. c.at = "splice" =>
         /\ c.op \in {"lookup", "mount"}
         /\ c.res \in DOMAIN ic2 \/ (c.res \in Int /\ c.res < 0 /\ er2 > 0)
  <2> HAVE c.at = "splice"
  <2>1. c.op \in {"lookup", "mount"} /\ (c.res \in DOMAIN ic \/ (c.res \in Int /\ c.res < 0 /\ er > 0))
    BY DEF CallKnown
  <2>2. er > 0 => er2 > 0
    OBVIOUS
  <2> QED
    BY <2>1, <2>2 DEF CacheGrows
<1>2. ASSUME NEW i, HasDir(d, fs, ic, i) PROVE HasDir(d, fs, ic2, i)
  BY <1>2 DEF HasDir, CacheGrows
<1> QED
  BY <1>1, <1>2 DEF CallKnown

(* The counts stay counts, and the types follow from what is known.         *)
LEMMA Counting == ASSUME KInv' PROVE slab' \in Nat /\ nbh' \in Nat
<1>1. IsFiniteSet(DOMAIN icache') /\ lost' \in Nat /\ nbh' \in Nat /\ SlabAccounted'
  BY DEF KInv, Tallies
<1> DEFINE T == {i \in DOMAIN icache' : icache'[i].new \/ icache'[i].private}
<1>2. T \subseteq DOMAIN icache' /\ slab' = lost' + Cardinality(T)
  BY <1>1 DEF SlabAccounted
<1> HIDE DEF T
<1>3. Cardinality(T) \in Nat
  BY <1>1, <1>2, FS_Subset, FS_CardinalityType
<1> QED
  BY <1>1, <1>2, <1>3

LEMMA TypeFollows ==
    ASSUME KInv', NEW fs, NEW d, Served(d, fs), Cached(d, fs, icache'),
           mnt' \in {"no", "mounting", "yes", "oops"}, errs' \in 0..MaxErrs,
           DentryInodes' \union leaked' \subseteq DOMAIN icache',
           \A p \in Procs : call'[p].op \in Ops
    PROVE  KernelTypeOK'
<1>1. ASSUME NEW i \in DOMAIN icache'
      PROVE  icache'[i].new \in BOOLEAN /\ DinodeFields \subseteq DOMAIN icache'[i].di
  <2>1. /\ icache'[i].new \in BOOLEAN /\ i \in 1..fs.n-1
        /\ icache'[i].di = IF icache'[i].private THEN DinodeAt(d, fs, i) ELSE NoDinode
    BY DEF Cached
  <2>2. DinodeFields = DOMAIN DinodeAt(d, fs, i)
    BY <2>1 DEF Served
  <2>3. DinodeFields \subseteq DOMAIN NoDinode
    BY DEF DinodeFields, NoDinode, NoObject, NewInode
  <2> QED
    BY <2>1, <2>2, <2>3
<1>2. slab' \in Nat /\ nbh' \in Nat
  BY Counting
<1> QED
  BY <1>1, <1>2 DEF KernelTypeOK, Ops

(* A step of p's call on a file system in use, by what is known before and  *)
(* after it.                                                                *)
Using(fs) ==
    /\ KInv /\ KnownInv /\ Live /\ Served(disk, fs) /\ Knows(fs)
    /\ phase = "done" /\ UNCHANGED vars

LEMMA KnowsOn ==
    ASSUME NEW fs, Using(fs), NEW p \in Procs, NEW c,
           call' = [call EXCEPT ![p] = c], CallKnown(disk, fs, icache', errs', c),
           Cached(disk, fs, icache'), CacheGrows(icache, icache'),
           errs' \in 0..MaxErrs, errs <= errs', fdinode' = fdinode
    PROVE  /\ Served(disk', fs) /\ Knows(fs)' /\ phase' = "done"
           /\ DiskFree' = DiskFree /\ \A q \in Procs : call'[q].op \in Ops
<1>1. disk' = disk /\ blks' = blks /\ phase' = "done" /\ errs \in 0..MaxErrs
  BY DEF Using, vars, spaceVars, progVars, KnownInv, KernelTypeOK
<1>2. errs \in Nat /\ errs' \in Nat
  BY <1>1
<1>3. ASSUME NEW q \in Procs PROVE CallKnown(disk, fs, icache', errs', call'[q])
  <2>1. DOMAIN call = Procs
    BY DEF Using, KInv, FramesOK
  <2>2. CASE q = p
    BY <2>1, <2>2
  <2>3. CASE q # p
    <3>1. call'[q] = call[q]
      BY <2>1, <2>3
    <3>2. CallKnown(disk, fs, icache, errs, call[q])
      BY DEF Using, Knows
    <3>3. CallKnown(disk, fs, icache', errs', call[q])
      BY <1>2, <3>2, CallStays
    <3> QED
      BY <3>1, <3>3
  <2> QED
    BY <2>2, <2>3
<1>4. \A q \in Procs : call'[q].op \in Ops
  BY <1>3 DEF CallKnown
<1>5. MapFields(fdinode', DinodeAt(disk, fs, TARFS_FREE_INO))
  BY DEF Using, Knows
<1>6. Knows(fs)'
  BY <1>1, <1>3, <1>5 DEF Knows
<1>7. DiskFree' = DiskFree
  BY <1>1 DEF DiskFree, Sb, LoadInode
<1> QED
  BY <1>1, <1>4, <1>6, <1>7 DEF Using

LEMMA CallGoes ==
    ASSUME NEW fs, Using(fs), KInv', NEW p \in Procs, NEW c,
           call' = [call EXCEPT ![p] = c], CallKnown(disk, fs, icache', errs', c),
           Cached(disk, fs, icache'), CacheGrows(icache, icache'),
           errs' \in 0..MaxErrs, errs <= errs', lost' <= errs', fdinode' = fdinode,
           DentryInodes' \union leaked' \subseteq DOMAIN icache',
           c.op = "mount" => call[p].op = "mount" /\ (c.at # "ret" => mnt' # "yes"),
           mnt' = mnt \/ (mnt' = "yes" /\ call[p].op = "mount")
    PROVE  KnownInv'
<1>1. /\ Served(disk', fs) /\ Knows(fs)' /\ phase' = "done" /\ DiskFree' = DiskFree
      /\ \A q \in Procs : call'[q].op \in Ops
  BY KnowsOn
<1>2. mnt' \in {"mounting", "yes"}
  BY DEF Using, Live
<1>3. KernelTypeOK'
  BY <1>1, <1>2, TypeFollows DEF Using
<1>4. OopsExplained'
  BY <1>2 DEF OopsExplained
<1>5. OneMount'
  <2>1. DOMAIN call = Procs /\ OneMount
    BY DEF Using, KInv, FramesOK, KnownInv
  <2>2. \A q \in Procs : call'[q] = IF q = p THEN c ELSE call[q]
    BY <2>1
  <2>3. ASSUME NEW q \in Procs, call'[q].op = "mount" PROVE call[q].op = "mount"
    BY <2>2, <2>3
  <2>4. ASSUME NEW q \in Procs, call'[q].op = "mount", call'[q].at # "ret" PROVE mnt' # "yes"
    <3>1. CASE q = p
      BY <2>2, <2>4, <3>1
    <3>2. CASE q # p
      <4>1. call[q].op = "mount" /\ call[q].at # "ret"
        BY <2>2, <2>4, <3>2
      <4>2. mnt # "yes" /\ call[p].op # "mount"
        BY <2>1, <3>2, <4>1 DEF OneMount
      <4> QED
        BY <4>2
    <3> QED
      BY <3>1, <3>2
  <2> QED
    BY <2>1, <2>3, <2>4 DEF OneMount
<1> QED
  BY <1>1, <1>2, <1>3, <1>4, <1>5 DEF KnownInv, Live

(* ... that changes nothing but the frame, ...                              *)
LEMMA FrameGoes ==
    ASSUME NEW fs, Using(fs), KInv', NEW p \in Procs, NEW c, Step(p, c),
           CallKnown(disk, fs, icache, errs, c),
           UNCHANGED <<mnt, fdinode, icache, dcache, leaked, errs, lost>>,
           c.op = "mount" => call[p].op = "mount" /\ (c.at # "ret" => call[p].at # "ret")
    PROVE  KnownInv'
<1>1. /\ errs \in 0..MaxErrs /\ lost <= errs /\ DentryInodes \union leaked \subseteq DOMAIN icache
      /\ OneMount /\ Cached(disk, fs, icache)
  BY DEF Using, KnownInv, KernelTypeOK, OopsExplained, Knows
<1>2. /\ CallKnown(disk, fs, icache', errs', c) /\ Cached(disk, fs, icache')
      /\ CacheGrows(icache, icache') /\ errs' \in 0..MaxErrs /\ lost' <= errs' /\ fdinode' = fdinode
      /\ mnt' = mnt
  BY <1>1 DEF CacheGrows
<1>3. errs <= errs'
  BY <1>1
<1>4. DentryInodes' \union leaked' \subseteq DOMAIN icache'
  BY <1>1 DEF DentryInodes
<1>5. c.op = "mount" => call[p].op = "mount" /\ (c.at # "ret" => mnt' # "yes")
  BY <1>1 DEF OneMount
<1> QED
  BY <1>2, <1>3, <1>4, <1>5, CallGoes DEF Step

(* ... and the kernel's death by a failure.                                 *)
LEMMA Died ==
    ASSUME KInv', KnownInv, phase = "done", UNCHANGED vars, mnt' = "oops",
           errs' \in 0..MaxErrs, errs <= errs', errs' > 0 \/ ~CopyFits(Dinode(DiskFree).di),
           UNCHANGED <<icache, dcache, leaked, lost>>,
           \A p \in Procs : call'[p].op = call[p].op /\ (call'[p].at = call[p].at)
    PROVE  KnownInv'
<1>1. disk' = disk /\ blks' = blks /\ phase' = "done" /\ errs \in 0..MaxErrs
  BY DEF vars, spaceVars, progVars, KnownInv, KernelTypeOK
<1>2. DiskFree' = DiskFree
  BY <1>1 DEF DiskFree, Sb, LoadInode
<1>3. KernelTypeOK /\ OneMount /\ lost <= errs
  BY DEF KnownInv, OopsExplained
<1>4. KernelTypeOK'
  <2>1. slab' \in Nat /\ nbh' \in Nat
    BY Counting
  <2>2. DentryInodes' = DentryInodes
    BY DEF DentryInodes
  <2> QED
    BY <1>3, <2>1, <2>2 DEF KernelTypeOK
<1>5. lost' <= errs'
  <2>1. lost \in Nat
    BY DEF KInv, Tallies
  <2> QED
    BY <1>1, <1>3, <2>1
<1>6. OopsExplained'
  BY <1>2, <1>5 DEF OopsExplained, Dinode, CopyFits
<1>7. OneMount'
  BY <1>3 DEF OneMount
<1> QED
  BY <1>1, <1>4, <1>6, <1>7 DEF KnownInv, Live
-----------------------------------------------------------------------------
(* The walk along a map finds what is in it.                                *)
LEMMA WalkFinds ==
    ASSUME NEW d, NEW di, NEW s, NEW t, FileMap(d, di, s, t), NEW off \in 0..Len(s)-1
    PROVE  /\ Finds(di.di_directExtent, off) => Translate(di.di_directExtent, off) = s[off + 1]
           /\ ~Finds(di.di_directExtent, off) =>
                 di.di_nExtents > MAX_DINODE_DIRECT /\ di.di_rootIndExt = t[1] /\ Past(d, di, t, off, 1)
           /\ \A k : Past(d, di, t, off, k) =>
                 IF Finds(d[t[k]].ie_dext, off) THEN Translate(d[t[k]].ie_dext, off) = s[off + 1]
                 ELSE d[t[k]].ie_next # TARBLK_NONE /\ d[t[k]].ie_next = t[k + 1] /\ Past(d, di, t, off, k + 1)
<1>1. off \in Nat /\ Len(t) \in Nat /\ t \in Seq(Nat)
  BY DEF FileMap
<1>2. Finds(di.di_directExtent, off) => Translate(di.di_directExtent, off) = s[off + 1]
  BY <1>1 DEF FileMap
<1>3. ASSUME ~Finds(di.di_directExtent, off)
      PROVE  di.di_nExtents > MAX_DINODE_DIRECT /\ di.di_rootIndExt = t[1] /\ Past(d, di, t, off, 1)
  <2>1. \E k \in 1..Len(t) : Finds(d[t[k]].ie_dext, off)
    BY <1>3 DEF FileMap
  <2>2. Len(t) > 0
    BY <1>1, <2>1
  <2>3. di.di_nExtents > MAX_DINODE_DIRECT /\ di.di_rootIndExt = t[1]
    BY <2>2 DEF FileMap
  <2>4. 1 \in 1..Len(t) /\ 1..1-1 = {}
    BY <1>1, <2>2
  <2> QED
    BY <1>3, <2>3, <2>4 DEF Past
<1>4. ASSUME NEW k, Past(d, di, t, off, k), Finds(d[t[k]].ie_dext, off)
      PROVE  Translate(d[t[k]].ie_dext, off) = s[off + 1]
  BY <1>1, <1>4 DEF FileMap, Past
<1>5. ASSUME NEW k, Past(d, di, t, off, k), ~Finds(d[t[k]].ie_dext, off)
      PROVE  d[t[k]].ie_next # TARBLK_NONE /\ d[t[k]].ie_next = t[k + 1] /\ Past(d, di, t, off, k + 1)
  <2>1. /\ k \in 1..Len(t) /\ ~Finds(di.di_directExtent, off)
        /\ \A j \in 1..k-1 : ~Finds(d[t[j]].ie_dext, off)
    BY <1>5 DEF Past
  <2>2. PICK j \in 1..Len(t) : Finds(d[t[j]].ie_dext, off)
    BY <2>1 DEF FileMap
  <2>3. j \notin 1..k-1 /\ j # k
    BY <1>5, <2>1, <2>2
  <2>4. k < Len(t)
    BY <1>1, <2>1, <2>2, <2>3
  <2>5. d[t[k]].ie_next = t[k + 1]
    BY <2>1, <2>4 DEF FileMap
  <2>6. k + 1 \in 1..Len(t)
    BY <1>1, <2>1, <2>4
  <2>7. t[k + 1] \in Nat
    BY <1>1, <2>6
  <2>8. t[k + 1] # TARBLK_NONE
    BY <2>7 DEF TARBLK_NONE
  <2>9. \A i \in 1..(k+1)-1 : ~Finds(d[t[i]].ie_dext, off)
    <3>1. \A i \in 1..(k+1)-1 : i \in 1..k-1 \/ i = k
      BY <2>1
    <3> QED
      BY <1>5, <2>1, <3>1
  <2> QED
    BY <2>1, <2>5, <2>6, <2>8, <2>9 DEF Past
<1> QED
  BY <1>2, <1>3, <1>4, <1>5

(* A frame that returns, and one of a call that looks nothing up.           *)
LEMMA ReturnKnown ==
    ASSUME NEW d, NEW fs, NEW ic, NEW er, NEW c, CallKnown(d, fs, ic, er, c),
           NEW e, e.op = c.op, e.at = "ret", ~e.reading, e.name = c.name, e.dir = c.dir
    PROVE  CallKnown(d, fs, ic, er, e)
BY DEF CallKnown, LookupAt, Maps

LEMMA OtherKnown ==
    ASSUME NEW d, NEW fs, NEW ic, NEW er, NEW e,
           e.op \in {"idle", "iterate", "read", "link"}, ~e.reading, e.at \notin {"iget", "splice"}
    PROVE  CallKnown(d, fs, ic, er, e)
BY DEF CallKnown, Ops

(* The map a lookup or the reading of an inode walks along, and the frame   *)
(* it goes on with.                                                         *)
LEMMA Walking ==
    ASSUME NEW fs, Using(fs), NEW p \in Procs, Maps(call[p].at),
           call[p].op = "lookup" \/ call[p].reading
    PROVE  \E di, s, t :
              /\ FileMap(disk, di, s, t) /\ Translating(disk, di, s, t, call[p])
              /\ MapFields(DinodeOf(call[p].dp), di)
              /\ \A at \in {"walk", "mapped"} : \A b :
                    LET e == [call[p] EXCEPT !.at = at, !.bn = b]
                    IN  Translating(disk, di, s, t, e) => CallKnown(disk, fs, icache, errs, e)
<1> DEFINE c == call[p]
           e(at, b) == [c EXCEPT !.at = at, !.bn = b]
<1>1. CallKnown(disk, fs, icache, errs, c) /\ FrameOK(c) /\ Served(disk, fs)
  BY DEF Using, Knows, KInv, FramesOK
<1>2. ASSUME NEW at \in {"walk", "mapped"}, NEW b
      PROVE  /\ e(at, b).op = c.op /\ e(at, b).at = at /\ e(at, b).bn = b /\ e(at, b).reading = c.reading
             /\ e(at, b).ino = c.ino /\ e(at, b).dp = c.dp /\ e(at, b).moff = c.moff
             /\ e(at, b).name = c.name /\ e(at, b).dir = c.dir /\ e(at, b).off = c.off /\ Maps(at)
  BY <1>1 DEF FrameOK, Fields, Maps
<1> HIDE DEF c, e
<1>3. CASE c.reading
  <2> DEFINE di == DinodeAt(disk, fs, TARFS_FREE_INO)
             s == fs.M[TARFS_FREE_INO]
             t == fs.T[TARFS_FREE_INO]
  <2>1. /\ c.dp = TARFS_FREE_INO /\ c.moff = c.ino /\ Translating(disk, di, s, t, c)
        /\ c.ino \in 1..fs.n-1 /\ c.op \in Ops /\ c.op # "idle"
        /\ c.op = "lookup" => c.name \in Names /\ HasDir(disk, fs, icache, c.dir)
    BY <1>1, <1>3 DEF CallKnown, FrameOK
  <2>2. FileMap(disk, di, s, t)
    BY <1>1 DEF Served
  <2>3. MapFields(DinodeOf(c.dp), di)
    BY <2>1 DEF Using, Knows, DinodeOf
  <2> HIDE DEF di, s, t
  <2>4. ASSUME NEW at \in {"walk", "mapped"}, NEW b, Translating(disk, di, s, t, e(at, b))
        PROVE  CallKnown(disk, fs, icache, errs, e(at, b))
    <3>1. e(at, b).at \in {"walk", "mapped"} /\ e(at, b).reading
      <4>1. e(at, b).at = at /\ e(at, b).reading = c.reading
        BY <1>2
      <4> QED
        BY <1>3, <4>1, Zenon
    <3>3. e(at, b).ino \in 1..fs.n-1 /\ e(at, b).dp = TARFS_FREE_INO /\ e(at, b).moff = e(at, b).ino
      BY <1>2, <2>1
    <3>4. e(at, b).op \in Ops /\ e(at, b).at \notin {"splice", "iget"}
      BY <1>2, <2>1
    <3>5. e(at, b).op = "lookup" => e(at, b).name \in Names /\ HasDir(disk, fs, icache, e(at, b).dir)
      BY <1>2, <2>1
    <3>2. e(at, b).op = "lookup" => LookupAt(disk, fs, e(at, b))
      BY <3>1 DEF LookupAt
    <3> QED
      BY <2>4, <3>1, <3>2, <3>3, <3>4, <3>5 DEF CallKnown, di, s, t
  <2> QED
    BY <2>1, <2>2, <2>3, <2>4 DEF c, e
<1>4. CASE ~c.reading
  <2> DEFINE di == DinodeAt(disk, fs, c.dir)
             s == fs.M[c.dir]
             t == fs.T[c.dir]
  <2>1. c.op = "lookup" /\ Maps(c.at)
    BY <1>4 DEF c
  <2>2. c.name \in Names /\ HasDir(disk, fs, icache, c.dir) /\ LookupAt(disk, fs, c)
    BY <1>1, <2>1 DEF CallKnown
  <2>3. c.dp = c.dir /\ c.off = TAR_BLOCKSIZE * c.moff /\ Translating(disk, di, s, t, c)
    BY <1>4, <2>1, <2>2 DEF LookupAt
  <2>4. c.dir \in 1..fs.n-1 /\ icache[c.dir].di = di /\ di.di_mode = "dir"
    BY <2>2 DEF HasDir, Using, Knows, Cached
  <2>5. FileMap(disk, di, s, t)
    BY <1>1, <2>4 DEF Served, DirAt
  <2>6. MapFields(DinodeOf(c.dp), di)
    <3>1. c.dir # TARFS_FREE_INO
      BY <2>4 DEF TARFS_FREE_INO
    <3> QED
      BY <2>3, <2>4, <3>1 DEF MapFields, DinodeOf
  <2> HIDE DEF di, s, t
  <2>7. ASSUME NEW at \in {"walk", "mapped"}, NEW b, Translating(disk, di, s, t, e(at, b))
        PROVE  CallKnown(disk, fs, icache, errs, e(at, b))
    <3>1. e(at, b).at \in {"walk", "mapped"} /\ ~e(at, b).reading
      BY <1>2, <1>4
    <3>2. LookupAt(disk, fs, e(at, b))
      BY <1>2, <2>3, <2>7, <3>1 DEF LookupAt, di, s, t
    <3> QED
      BY <1>2, <2>1, <2>2, <3>1, <3>2 DEF CallKnown, Ops
  <2> QED
    BY <2>3, <2>5, <2>6, <2>7 DEF c, e
<1> QED
  BY <1>3, <1>4
-----------------------------------------------------------------------------
(* The actions on a file system in use.  The walk along a map ...           *)
LEMMA MapKnown ==
    ASSUME NEW fs, Using(fs), KInv', NEW p \in Procs,
           MapDirect(p) \/ MapDescend(p) \/ WalkHit(p) \/ WalkNext(p)
    PROVE  KnownInv'
<1> DEFINE c == call[p]
           e(at, b) == [c EXCEPT !.at = at, !.bn = b]
           r(x) == [c EXCEPT !.at = "ret", !.res = x]
<1>1. CallKnown(disk, fs, icache, errs, c) /\ FrameOK(c) /\ Maps(c.at)
  BY DEF Using, Knows, KInv, FramesOK, Maps, MapDirect, MapDescend, WalkHit, WalkNext
<1>2. ASSUME NEW at \in {"walk", "mapped"}, NEW b, CallKnown(disk, fs, icache, errs, e(at, b)),
             Step(p, e(at, b)), UNCHANGED untouched
      PROVE  KnownInv'
  <2>1. e(at, b).op = c.op /\ c.at # "ret"
    BY <1>1 DEF FrameOK, Fields, Maps
  <2>2. UNCHANGED <<mnt, fdinode, icache, dcache, leaked, errs, lost>>
    BY <1>2 DEF untouched, unread
  <2> HIDE DEF e
  <2> QED
    BY <1>2, <2>1, <2>2, FrameGoes
<1>3. ASSUME NEW b PROVE e("walk", b) = [c EXCEPT !.bn = b] \/ c.at # "walk"
  BY <1>1 DEF FrameOK, Fields
<1>4. /\ MapDirect(p) => /\ c.at = "map" /\ Finds(DinodeOf(c.dp).di_directExtent, c.moff)
                         /\ Step(p, e("mapped", Translate(DinodeOf(c.dp).di_directExtent, c.moff)))
                         /\ UNCHANGED untouched
      /\ MapDescend(p) => /\ c.at = "map" /\ ~Finds(DinodeOf(c.dp).di_directExtent, c.moff)
                          /\ IF DinodeOf(c.dp).di_nExtents > MAX_DINODE_DIRECT
                             THEN Step(p, e("walk", DinodeOf(c.dp).di_rootIndExt)) /\ UNCHANGED untouched
                             ELSE ErrDone(p, EINVAL) /\ UNCHANGED unread
      /\ WalkHit(p) => /\ c.at = "walk" /\ Finds(disk[c.bn].ie_dext, c.moff)
                       /\ Step(p, e("mapped", Translate(disk[c.bn].ie_dext, c.moff)))
                       /\ UNCHANGED untouched
      /\ WalkNext(p) => /\ c.at = "walk" /\ ~Finds(disk[c.bn].ie_dext, c.moff)
                        /\ IF disk[c.bn].ie_next # TARBLK_NONE
                           THEN Step(p, e("walk", disk[c.bn].ie_next)) /\ UNCHANGED untouched
                           ELSE ErrDone(p, EINVAL) /\ UNCHANGED unread
  <2>1. WalkNext(p) => /\ c.at = "walk" /\ ~Finds(disk[c.bn].ie_dext, c.moff)
                       /\ IF disk[c.bn].ie_next # TARBLK_NONE
                          THEN Step(p, e("walk", disk[c.bn].ie_next)) /\ UNCHANGED untouched
                          ELSE ErrDone(p, EINVAL) /\ UNCHANGED unread
    <3> HAVE WalkNext(p)
    <3>1. /\ c.at = "walk" /\ ~Finds(disk[c.bn].ie_dext, c.moff)
          /\ IF disk[c.bn].ie_next # TARBLK_NONE
             THEN Step(p, [c EXCEPT !.bn = disk[c.bn].ie_next]) /\ UNCHANGED <<icache, leaked, lost>>
             ELSE ErrDone(p, EINVAL)
          /\ UNCHANGED unread
      BY DEF WalkNext, Indirect
    <3>2. e("walk", disk[c.bn].ie_next) = [c EXCEPT !.bn = disk[c.bn].ie_next]
      BY <1>3, <3>1
    <3> QED
      BY <3>1, <3>2 DEF untouched
  <2> QED
    BY <2>1 DEF MapDirect, MapDescend, WalkHit, Indirect, untouched
<1>5. CASE c.op = "lookup" \/ c.reading
  <2>1. PICK di, s, t :
           /\ FileMap(disk, di, s, t) /\ Translating(disk, di, s, t, c)
           /\ MapFields(DinodeOf(c.dp), di)
           /\ \A at \in {"walk", "mapped"} : \A b :
                 Translating(disk, di, s, t, e(at, b)) => CallKnown(disk, fs, icache, errs, e(at, b))
    BY <1>1, <1>5, Walking
  <2>2. ASSUME NEW at \in {"walk", "mapped"}, NEW b
        PROVE  e(at, b).at = at /\ e(at, b).bn = b /\ e(at, b).moff = c.moff
    BY <1>1 DEF FrameOK, Fields
  <2> HIDE DEF e, c
  <2>3. /\ c.moff \in 0..Len(s)-1
        /\ c.at = "walk" => \E k : Past(disk, di, t, c.moff, k) /\ c.bn = t[k]
    BY <2>1 DEF Translating
  <2>4. ASSUME NEW b, b = s[c.moff + 1], Step(p, e("mapped", b)), UNCHANGED untouched PROVE KnownInv'
    <3>1. Translating(disk, di, s, t, e("mapped", b))
      BY <2>2, <2>3, <2>4 DEF Translating
    <3> QED
      BY <1>2, <2>1, <2>4, <3>1
  <2>5. ASSUME NEW b, NEW k, b = t[k], Past(disk, di, t, c.moff, k), Step(p, e("walk", b)),
               UNCHANGED untouched
        PROVE  KnownInv'
    <3>1. Translating(disk, di, s, t, e("walk", b))
      BY <2>2, <2>3, <2>5 DEF Translating
    <3> QED
      BY <1>2, <2>1, <2>5, <3>1
  <2>6. /\ DinodeOf(c.dp).di_directExtent = di.di_directExtent
        /\ DinodeOf(c.dp).di_nExtents = di.di_nExtents
        /\ DinodeOf(c.dp).di_rootIndExt = di.di_rootIndExt
    BY <2>1 DEF MapFields
  <2>7. /\ Finds(di.di_directExtent, c.moff) => Translate(di.di_directExtent, c.moff) = s[c.moff + 1]
        /\ ~Finds(di.di_directExtent, c.moff) =>
              di.di_nExtents > MAX_DINODE_DIRECT /\ di.di_rootIndExt = t[1] /\ Past(disk, di, t, c.moff, 1)
        /\ \A k : Past(disk, di, t, c.moff, k) =>
              IF Finds(disk[t[k]].ie_dext, c.moff)
              THEN Translate(disk[t[k]].ie_dext, c.moff) = s[c.moff + 1]
              ELSE /\ disk[t[k]].ie_next # TARBLK_NONE /\ disk[t[k]].ie_next = t[k + 1]
                   /\ Past(disk, di, t, c.moff, k + 1)
    BY <2>1, <2>3, WalkFinds
  <2>8. CASE MapDirect(p)
    BY <1>4, <2>4, <2>6, <2>7, <2>8
  <2>9. CASE MapDescend(p)
    BY <1>4, <2>5, <2>6, <2>7, <2>9
  <2>10. CASE WalkHit(p) \/ WalkNext(p)
    <3>1. PICK k : Past(disk, di, t, c.moff, k) /\ c.bn = t[k]
      BY <1>4, <2>3, <2>10
    <3>2. CASE WalkHit(p)
      BY <1>4, <2>4, <2>7, <3>1, <3>2
    <3>3. CASE WalkNext(p)
      BY <1>4, <2>5, <2>7, <3>1, <3>3
    <3> QED
      BY <2>10, <3>2, <3>3
  <2> QED
    BY <2>8, <2>9, <2>10
<1>6. CASE ~(c.op = "lookup" \/ c.reading)
  <2>1. c.op \in {"idle", "iterate", "read", "link"} /\ ~c.reading
    BY <1>1, <1>6 DEF CallKnown, Ops, Maps
  <2>2. ASSUME NEW at \in {"walk", "mapped"}, NEW b PROVE CallKnown(disk, fs, icache, errs, e(at, b))
    <3>1. e(at, b).op = c.op /\ ~e(at, b).reading /\ e(at, b).at = at
      BY <1>1, <2>1 DEF FrameOK, Fields
    <3> HIDE DEF e, c
    <3> QED
      BY <2>1, <3>1, OtherKnown
  <2>3. ASSUME ErrDone(p, EINVAL), UNCHANGED unread PROVE KnownInv'
    <3>1. Step(p, r(EINVAL)) /\ UNCHANGED <<icache, leaked, lost>>
      BY <1>6, <2>3 DEF ErrDone
    <3>2. r(EINVAL).op = c.op /\ ~r(EINVAL).reading /\ r(EINVAL).at = "ret"
      BY <1>1, <2>1 DEF FrameOK, Fields
    <3> HIDE DEF r, c
    <3>3. CallKnown(disk, fs, icache, errs, r(EINVAL))
      BY <2>1, <3>2, OtherKnown
    <3> QED
      BY <2>1, <2>3, <3>1, <3>2, <3>3, FrameGoes DEF unread
  <2> HIDE DEF e, r
  <2> QED
    BY <1>2, <1>4, <2>2, <2>3
<1> QED
  BY <1>5, <1>6

(* ... and reading an inode, which is as it was on its block when it is in  *)
(* the cache, or stays there unread.                                        *)
LEMMA FrameKnown ==
    ASSUME NEW fs, Using(fs), NEW p \in Procs
    PROVE  /\ CallKnown(disk, fs, icache, errs, call[p]) /\ FrameOK(call[p])
           /\ Cached(disk, fs, icache) /\ DOMAIN call = Procs
           /\ errs \in Nat /\ errs <= MaxErrs /\ lost \in Nat /\ lost <= errs
           /\ DentryInodes \union leaked \subseteq DOMAIN icache
           /\ OneMount /\ fs.n \in Nat
<1>1. CallKnown(disk, fs, icache, errs, call[p]) /\ Cached(disk, fs, icache) /\ fs.n \in Nat
  BY DEF Using, Knows, Served
<1>2. KInv /\ KernelTypeOK /\ OopsExplained /\ OneMount
  BY DEF Using, KnownInv
<1>3. FrameOK(call[p]) /\ DOMAIN call = Procs /\ lost \in Nat
  BY <1>2 DEF KInv, FramesOK, Tallies
<1>4. errs \in 0..MaxErrs
  BY <1>2 DEF KernelTypeOK
<1>5. errs \in Nat /\ errs <= MaxErrs
  BY <1>4
<1>6. lost <= errs /\ DentryInodes \union leaked \subseteq DOMAIN icache
  BY <1>2 DEF KernelTypeOK, OopsExplained
<1> QED
  BY <1>1, <1>2, <1>3, <1>5, <1>6

(* An entry that is new to the cache, or that was locked, takes its place.  *)
LEMMA Enters ==
    ASSUME NEW fs, Using(fs), NEW i \in 1..fs.n-1, i \notin DOMAIN icache \/ icache[i].new,
           NEW x, icache' = With(icache, i, x),
           x.new \in BOOLEAN, x.private \in BOOLEAN, x.new => ~x.private,
           x.di = IF x.private THEN DinodeAt(disk, fs, i) ELSE NoDinode
    PROVE  /\ Cached(disk, fs, icache') /\ CacheGrows(icache, icache')
           /\ DOMAIN icache' = DOMAIN icache \union {i} /\ icache'[i] = x
<1>1. /\ DOMAIN icache' = DOMAIN icache \union {i} /\ icache'[i] = x
      /\ \A j \in DOMAIN icache : j # i => icache'[j] = icache[j]
  BY DEF With
<1>2. Cached(disk, fs, icache)
  BY DEF Using, Knows
<1>3. Cached(disk, fs, icache')
  <2>1. ASSUME NEW j \in DOMAIN icache'
        PROVE  /\ j \in 1..fs.n-1 /\ icache'[j].new \in BOOLEAN /\ icache'[j].private \in BOOLEAN
               /\ icache'[j].new => ~icache'[j].private
               /\ icache'[j].di = IF icache'[j].private THEN DinodeAt(disk, fs, j) ELSE NoDinode
    <3>1. CASE j = i
      BY <1>1, <3>1
    <3>2. CASE j # i
      BY <1>1, <1>2, <2>1, <3>2 DEF Cached
    <3> QED
      BY <3>1, <3>2
  <2> QED
    BY <2>1 DEF Cached
<1>4. CacheGrows(icache, icache')
  BY <1>1 DEF CacheGrows
<1> QED
  BY <1>1, <1>3, <1>4

(* A frame of iget that has its result.                                     *)
LEMMA Spliced ==
    ASSUME NEW d, NEW fs, NEW ic, NEW er, NEW c, CallKnown(d, fs, ic, er, c), FrameOK(c),
           c.at = "iget" \/ c.reading, NEW e, e.op = c.op, e.at = "splice", ~e.reading,
           e.name = c.name, e.dir = c.dir,
           e.res \in DOMAIN ic \/ (e.res \in Int /\ e.res < 0 /\ er > 0)
    PROVE  CallKnown(d, fs, ic, er, e)
BY DEF CallKnown, LookupAt, Maps, FrameOK

LEMMA LeftUnread ==
    ASSUME NEW fs, Using(fs), KInv', NEW p \in Procs, NEW x \in Int, x < 0,
           call[p].at = "iget" \/ call[p].reading,
           call[p].ino \notin DOMAIN icache \/ icache[call[p].ino].new,
           icache' = With(icache, call[p].ino, Unread), leaked' = leaked \union {call[p].ino},
           Step(p, [call[p] EXCEPT !.at = "splice", !.res = x, !.reading = FALSE]),
           errs < MaxErrs, errs' = errs + 1, lost' \in {lost, lost + 1},
           UNCHANGED <<mnt, fdinode, dcache>>
    PROVE  KnownInv'
<1> DEFINE c == call[p]
           e == [c EXCEPT !.at = "splice", !.res = x, !.reading = FALSE]
<1>1. /\ CallKnown(disk, fs, icache, errs, c) /\ FrameOK(c)
      /\ errs \in Nat /\ lost \in Nat /\ lost <= errs
      /\ DentryInodes \union leaked \subseteq DOMAIN icache /\ OneMount
  BY FrameKnown
<1>2. /\ e.op = c.op /\ e.at = "splice" /\ e.reading = FALSE /\ e.name = c.name /\ e.dir = c.dir
      /\ e.res = x /\ c.at # "ret"
  BY <1>1 DEF FrameOK, Fields, Maps
<1>3. c.ino \in 1..fs.n-1
  BY <1>1 DEF CallKnown
<1>4. /\ Unread.new = FALSE /\ Unread.private = FALSE /\ Unread.di = NoDinode
      /\ Unread.new \in BOOLEAN /\ Unread.private \in BOOLEAN
  BY DEF Unread
<1>5. /\ Cached(disk, fs, icache') /\ CacheGrows(icache, icache')
      /\ DOMAIN icache' = DOMAIN icache \union {c.ino}
  <2>1. Unread.di = IF Unread.private THEN DinodeAt(disk, fs, c.ino) ELSE NoDinode
    BY <1>4
  <2>2. Unread.new => ~Unread.private
    BY <1>4
  <2> QED
    BY <1>3, <1>4, <2>1, <2>2, Enters, Zenon
<1>6. errs' \in Nat /\ errs <= errs' /\ errs' > 0 /\ errs' \in 0..MaxErrs /\ lost' <= errs'
  BY <1>1, KernelAssumption
<1> HIDE DEF e, c
<1>7. CallKnown(disk, fs, icache', errs', c)
  BY <1>1, <1>5, <1>6, CallStays
<1>8. CallKnown(disk, fs, icache', errs', e)
  <2>1. c.at = "iget" \/ c.reading
    BY DEF c
  <2>2. e.res \in Int /\ e.res < 0
    BY <1>2
  <2> QED
    BY <1>1, <1>2, <1>6, <1>7, <2>1, <2>2, Spliced
<1>9. DentryInodes' \union leaked' \subseteq DOMAIN icache'
  BY <1>1, <1>5 DEF DentryInodes, c
<1>10. e.op = "mount" => call[p].op = "mount" /\ (e.at # "ret" => mnt' # "yes")
  BY <1>1, <1>2 DEF OneMount, c
<1>11. call' = [call EXCEPT ![p] = e]
  BY DEF Step, e, c
<1> QED
  BY <1>5, <1>6, <1>8, <1>9, <1>10, <1>11, CallGoes

LEMMA ReadErrorKnown ==
    ASSUME NEW fs, Using(fs), KInv', NEW p \in Procs, ReadError(p)
    PROVE  KnownInv'
<1> DEFINE c == call[p]
           e == [c EXCEPT !.at = "ret", !.res = EIO]
<1>1. /\ CallKnown(disk, fs, icache, errs, c) /\ FrameOK(c) /\ Cached(disk, fs, icache)
      /\ errs \in Nat /\ lost \in Nat /\ lost <= errs
      /\ DentryInodes \union leaked \subseteq DOMAIN icache /\ OneMount
  BY FrameKnown
<1>2. /\ errs < MaxErrs /\ errs' = errs + 1 /\ ErrDone(p, EIO)
      /\ UNCHANGED <<mnt, fdinode, dcache, slab, file, nbh>>
      /\ EIO \in Int /\ EIO < 0
  BY DEF ReadError, EIO
<1>3. CASE c.reading
  <2>1. c.ino \in DOMAIN icache /\ icache[c.ino].new
    BY <1>3 DEF Using, KInv, Locks, ReadersLock
  <2>2. [icache EXCEPT ![c.ino] = Unread] = With(icache, c.ino, Unread)
    BY <2>1 DEF With
  <2>3. /\ icache' = With(icache, c.ino, Unread) /\ leaked' = leaked \union {c.ino}
        /\ lost' = lost + 1
        /\ Step(p, [c EXCEPT !.at = "splice", !.res = EIO, !.reading = FALSE])
    BY <1>2, <1>3, <2>2 DEF ErrDone
  <2> QED
    BY <1>2, <1>3, <2>1, <2>3, LeftUnread
<1>4. CASE ~c.reading
  <2>1. Step(p, e) /\ UNCHANGED <<icache, leaked, lost>>
    BY <1>2, <1>4 DEF ErrDone
  <2>2. e.op = c.op /\ e.at = "ret" /\ e.reading = FALSE /\ e.name = c.name /\ e.dir = c.dir
    BY <1>1, <1>4 DEF FrameOK, Fields
  <2>3. errs' \in Nat /\ errs <= errs' /\ errs' \in 0..MaxErrs /\ lost' <= errs'
    BY <1>1, <1>2, <2>1, KernelAssumption
  <2>4. CacheGrows(icache, icache') /\ Cached(disk, fs, icache')
    BY <1>1, <2>1 DEF CacheGrows
  <2> HIDE DEF e
  <2>5. CallKnown(disk, fs, icache', errs', c)
    BY <1>1, <2>3, <2>4, CallStays
  <2>6. CallKnown(disk, fs, icache', errs', e)
    BY <2>2, <2>5, ReturnKnown
  <2>7. DentryInodes' \union leaked' \subseteq DOMAIN icache'
    BY <1>1, <1>2, <2>1 DEF DentryInodes
  <2> QED
    BY <1>2, <2>1, <2>2, <2>3, <2>4, <2>6, <2>7, CallGoes DEF Step
<1> QED
  BY <1>3, <1>4

LEMMA IgetKnown ==
    ASSUME NEW fs, Using(fs), KInv', NEW p \in Procs, IgetHit(p) \/ IgetNew(p) \/ ReadInode(p)
    PROVE  KnownInv'
<1> DEFINE c == call[p]
<1>1. /\ CallKnown(disk, fs, icache, errs, c) /\ FrameOK(c) /\ Cached(disk, fs, icache)
      /\ errs \in Nat /\ errs <= MaxErrs /\ lost \in Nat /\ lost <= errs
      /\ DentryInodes \union leaked \subseteq DOMAIN icache /\ OneMount /\ fs.n \in Nat
  BY FrameKnown
<1>2. ASSUME NEW e, e.op = c.op, c.at # "ret", Step(p, e), CallKnown(disk, fs, icache', errs, e),
             Cached(disk, fs, icache'), CacheGrows(icache, icache'),
             UNCHANGED <<mnt, fdinode, dcache, leaked, errs, lost>>
      PROVE  KnownInv'
  <2>1. errs' \in 0..MaxErrs /\ errs <= errs' /\ lost' <= errs'
    BY <1>1, <1>2, KernelAssumption
  <2>2. DentryInodes' \union leaked' \subseteq DOMAIN icache'
    BY <1>1, <1>2 DEF DentryInodes, CacheGrows
  <2>3. e.op = "mount" => call[p].op = "mount" /\ (e.at # "ret" => mnt' # "yes")
    BY <1>1, <1>2 DEF OneMount
  <2>4. CallKnown(disk, fs, icache', errs', e) /\ fdinode' = fdinode /\ mnt' = mnt
    BY <1>2
  <2> HIDE DEF c
  <2> QED
    BY <1>2, <2>1, <2>2, <2>3, <2>4, CallGoes DEF Step
<1>3. ASSUME IgetHit(p) PROVE KnownInv'
  <2> DEFINE e == [c EXCEPT !.at = "splice", !.res = c.ino]
  <2>1. /\ e.op = c.op /\ e.at = "splice" /\ e.reading = FALSE /\ e.name = c.name
        /\ e.dir = c.dir /\ e.res = c.ino
    BY <1>1, <1>3 DEF FrameOK, Fields, Maps, IgetHit
  <2>2. /\ c.at = "iget" /\ c.ino \in DOMAIN icache /\ Step(p, e)
        /\ UNCHANGED <<mnt, fdinode, icache, dcache, leaked, errs, lost>>
    BY <1>3 DEF IgetHit, untouched, unread
  <2>3. CacheGrows(icache, icache') /\ Cached(disk, fs, icache')
    BY <1>1, <2>2 DEF CacheGrows
  <2> HIDE DEF e, c
  <2>4. CallKnown(disk, fs, icache, errs, e)
    BY <1>1, <2>1, <2>2, Spliced
  <2> QED
    BY <1>2, <2>1, <2>2, <2>3, <2>4
<1>4. ASSUME IgetNew(p) PROVE KnownInv'
  <2> DEFINE e == [c EXCEPT !.at = "map", !.reading = TRUE,
                            !.dp = TARFS_FREE_INO, !.moff = c.ino]
             x == [Unread EXCEPT !.new = TRUE]
             di == DinodeAt(disk, fs, TARFS_FREE_INO)
             s == fs.M[TARFS_FREE_INO]
             t == fs.T[TARFS_FREE_INO]
  <2>1. /\ e.op = c.op /\ e.at = "map" /\ e.reading = TRUE /\ e.name = c.name /\ e.dir = c.dir
        /\ e.dp = TARFS_FREE_INO /\ e.moff = c.ino /\ e.ino = c.ino
    BY <1>1, <1>4 DEF FrameOK, Fields, IgetNew
  <2>2. /\ c.at = "iget" /\ c.ino \notin DOMAIN icache /\ Step(p, e)
        /\ icache' = With(icache, c.ino, x)
        /\ UNCHANGED <<mnt, fdinode, dcache, leaked, errs, lost>>
    BY <1>4 DEF IgetNew
  <2>3. c.ino \in 1..fs.n-1 /\ c.op \in {"lookup", "mount"}
    BY <1>1, <2>2 DEF CallKnown, FrameOK
  <2>4. x.new = TRUE /\ x.private = FALSE /\ x.di = NoDinode
    BY DEF Unread
  <2>5. /\ x.new \in BOOLEAN /\ x.private \in BOOLEAN /\ (x.new => ~x.private)
        /\ x.di = IF x.private THEN DinodeAt(disk, fs, c.ino) ELSE NoDinode
    <3> HIDE DEF x
    <3>1. x.di = IF x.private THEN DinodeAt(disk, fs, c.ino) ELSE NoDinode
      BY <2>4
    <3>2. x.new \in BOOLEAN /\ x.private \in BOOLEAN
      BY <2>4
    <3> QED
      BY <2>4, <3>1, <3>2, Zenon
  <2>6. c.ino \in 0..Len(s)-1
    <3>1. s \in Seq(Nat) /\ fs.n <= Len(s)
      BY DEF Using, Served, FileMap
    <3> HIDE DEF s
    <3> QED
      BY <1>1, <2>3, <3>1
  <2> HIDE DEF e, c, x, di, s, t
  <2>7. Cached(disk, fs, icache') /\ CacheGrows(icache, icache')
    BY <2>2, <2>3, <2>5, Enters, Zenon
  <2>8. CallKnown(disk, fs, icache', errs, c)
    BY <1>1, <2>7, CallStays
  <2>9. Translating(disk, di, s, t, e)
    BY <2>1, <2>6 DEF Translating
  <2>10. CallKnown(disk, fs, icache', errs, e)
    <3>1. c.op = "lookup" => c.name \in Names /\ HasDir(disk, fs, icache', c.dir)
      BY <2>8 DEF CallKnown
    <3>2. e.op = "lookup" => LookupAt(disk, fs, e)
      BY <2>1 DEF LookupAt
    <3>3. e.op \in Ops /\ e.at \notin {"iget", "splice"} /\ e.ino \in 1..fs.n-1
      BY <2>1, <2>3 DEF Ops
    <3>4. e.reading /\ e.moff = e.ino /\ e.dp = TARFS_FREE_INO
      BY <2>1
    <3> QED
      BY <2>1, <2>9, <3>1, <3>2, <3>3, <3>4 DEF CallKnown, di, s, t
  <2>11. e.op = c.op /\ c.at # "ret"
    BY <2>1, <2>2
  <2> QED
    BY <1>2, <2>2, <2>7, <2>10, <2>11
<1>5. ASSUME ReadInode(p) PROVE KnownInv'
  <2> DEFINE e == [c EXCEPT !.at = "splice", !.res = c.ino, !.reading = FALSE]
             x == [new |-> FALSE, private |-> TRUE, di |-> disk[c.bn].di]
  <2>1. /\ e.op = c.op /\ e.at = "splice" /\ e.reading = FALSE /\ e.name = c.name
        /\ e.dir = c.dir /\ e.res = c.ino
    BY <1>1 DEF FrameOK, Fields
  <2>2. /\ c.at = "mapped" /\ c.reading /\ Step(p, e) /\ icache' = [icache EXCEPT ![c.ino] = x]
        /\ UNCHANGED <<mnt, fdinode, dcache, leaked, errs, lost>>
    BY <1>5 DEF ReadInode, unread
  <2>3. c.ino \in DOMAIN icache /\ icache[c.ino].new
    BY <2>2 DEF Using, KInv, Locks, ReadersLock
  <2>4. icache' = With(icache, c.ino, x)
    BY <2>2, <2>3 DEF With
  <2>5. c.ino \in 1..fs.n-1 /\ disk[c.bn].di = DinodeAt(disk, fs, c.ino)
    BY <1>1, <2>2 DEF CallKnown, Translating, DinodeAt
  <2>6. /\ x.new \in BOOLEAN /\ x.private \in BOOLEAN /\ (x.new => ~x.private)
        /\ x.di = IF x.private THEN DinodeAt(disk, fs, c.ino) ELSE NoDinode
    BY <2>5
  <2> HIDE DEF e, c, x
  <2>7. /\ Cached(disk, fs, icache') /\ CacheGrows(icache, icache')
        /\ DOMAIN icache' = DOMAIN icache \union {c.ino}
    BY <2>3, <2>4, <2>5, <2>6, Enters, Zenon
  <2>8. CallKnown(disk, fs, icache', errs, c)
    BY <1>1, <2>7, CallStays
  <2>9. e.res \in DOMAIN icache'
    BY <2>1, <2>7
  <2>10. CallKnown(disk, fs, icache', errs, e)
    BY <1>1, <2>1, <2>2, <2>8, <2>9, Spliced
  <2>11. e.op = c.op /\ c.at # "ret"
    BY <2>1, <2>2
  <2> QED
    BY <1>2, <2>2, <2>7, <2>10, <2>11
<1> QED
  BY <1>3, <1>4, <1>5

LEMMA IgetFailKnown ==
    ASSUME NEW fs, Using(fs), KInv', NEW p \in Procs, IgetNoMemory(p)
    PROVE  KnownInv'
<1> DEFINE c == call[p]
<1>1. FrameOK(c) /\ errs \in Nat /\ DOMAIN call = Procs
  BY FrameKnown
<1>2. /\ c.at = "iget" /\ c.ino \notin DOMAIN icache /\ errs < MaxErrs /\ errs' = errs + 1
      /\ UNCHANGED <<fdinode, dcache, lost>> /\ ENOMEM \in Int /\ ENOMEM < 0
  BY DEF IgetNoMemory, ENOMEM
<1>3. CASE Oops /\ UNCHANGED <<icache, leaked, call>>
  <2>1. errs' \in 0..MaxErrs /\ errs <= errs' /\ errs' > 0
    BY <1>1, <1>2, KernelAssumption
  <2>2. /\ KInv' /\ KnownInv /\ phase = "done" /\ UNCHANGED vars /\ mnt' = "oops"
        /\ UNCHANGED <<icache, dcache, leaked, lost>>
        /\ \A q \in Procs : call'[q].op = call[q].op /\ (call'[q].at = call[q].at)
    BY <1>2, <1>3 DEF Using, Oops
  <2> QED
    BY <2>1, <2>2, Died
<1>4. CASE /\ icache' = With(icache, c.ino, Unread) /\ leaked' = leaked \union {c.ino}
           /\ Step(p, [c EXCEPT !.at = "splice", !.res = ENOMEM])
           /\ UNCHANGED mnt
  <2>1. [c EXCEPT !.at = "splice", !.res = ENOMEM]
        = [c EXCEPT !.at = "splice", !.res = ENOMEM, !.reading = FALSE]
    BY <1>1, <1>2 DEF FrameOK, Fields, Maps
  <2> QED
    BY <1>2, <1>4, <2>1, LeftUnread
<1> QED
  BY <1>3, <1>4 DEF IgetNoMemory

(* What becomes of the inode.                                               *)
LEMMA SpliceKnown ==
    ASSUME NEW fs, Using(fs), KInv', NEW p \in Procs, SpliceInode(p) \/ SpliceError(p)
    PROVE  KnownInv'
<1> DEFINE c == call[p]
           e == [Put(c) EXCEPT !.at = "ret"]
<1>1. /\ CallKnown(disk, fs, icache, errs, c) /\ FrameOK(c) /\ Cached(disk, fs, icache)
      /\ errs \in Nat /\ errs <= MaxErrs /\ lost \in Nat /\ lost <= errs
      /\ DentryInodes \union leaked \subseteq DOMAIN icache /\ fs.n \in Nat
  BY FrameKnown
<1>2. c.at = "splice" /\ UNCHANGED <<fdinode, icache, leaked, errs, lost>>
  BY DEF SpliceInode, SpliceError
<1>3. e.op = c.op /\ e.at = "ret" /\ e.reading = FALSE /\ e.name = c.name /\ e.dir = c.dir
  BY <1>1, <1>2 DEF Put, FrameOK, Fields, Maps
<1>4. /\ errs' \in 0..MaxErrs /\ errs <= errs' /\ lost' <= errs'
      /\ Cached(disk, fs, icache') /\ CacheGrows(icache, icache')
  BY <1>1, <1>2, KernelAssumption DEF CacheGrows
<1>5. c.res \in DOMAIN icache \/ (c.res \in Int /\ c.res < 0 /\ errs > 0)
  BY <1>1, <1>2 DEF CallKnown
<1> HIDE DEF e
<1>6. CallKnown(disk, fs, icache', errs', e)
  BY <1>1, <1>2, <1>3, ReturnKnown
<1>7. CASE SpliceInode(p)
  <2>1. Step(p, e) /\ c.res \in DOMAIN icache
    BY <1>5, <1>7 DEF SpliceInode, e
  <2>2. mnt' = mnt \/ (mnt' = "yes" /\ c.op = "mount")
    BY <1>7 DEF SpliceInode
  <2>3. dcache' = dcache \/ dcache' = With(dcache, <<c.dir, c.name>>, c.res)
    BY <1>7 DEF SpliceInode
  <2>4. DentryInodes' \union leaked' \subseteq DOMAIN icache'
    BY <1>1, <1>2, <2>1, <2>3 DEF DentryInodes, With
  <2>5. e.op = "mount" => call[p].op = "mount" /\ (e.at # "ret" => mnt' # "yes")
    BY <1>3
  <2> HIDE DEF c
  <2> QED
    BY <1>2, <1>4, <1>6, <2>1, <2>2, <2>4, <2>5, CallGoes DEF Step, c
<1>8. CASE SpliceError(p)
  <2>1. c.res < 0 /\ UNCHANGED dcache
    BY <1>8 DEF SpliceError
  <2>2. errs > 0
    <3>1. ASSUME c.res \in DOMAIN icache PROVE FALSE
      <4>1. c.res \in 1..fs.n-1
        BY <1>1, <3>1 DEF Cached
      <4> QED
        BY <1>1, <2>1, <4>1
    <3> QED
      BY <1>5, <3>1
  <2>3. CASE Oops /\ UNCHANGED <<call, nbh>>
    <3>1. /\ KInv' /\ KnownInv /\ phase = "done" /\ UNCHANGED vars /\ mnt' = "oops"
          /\ UNCHANGED <<icache, dcache, leaked, lost>> /\ errs' > 0
          /\ \A q \in Procs : call'[q].op = call[q].op /\ (call'[q].at = call[q].at)
      BY <1>2, <2>1, <2>2, <2>3 DEF Using, Oops
    <3> QED
      BY <1>4, <3>1, Died
  <2>4. CASE Step(p, e) /\ UNCHANGED mnt
    <3>1. e.op = "mount" => call[p].op = "mount" /\ (e.at # "ret" => call[p].at # "ret")
      BY <1>3
    <3>2. CallKnown(disk, fs, icache, errs, e)
      BY <1>2, <1>6
    <3> HIDE DEF c
    <3> QED
      BY <1>2, <2>1, <2>4, <3>1, <3>2, FrameGoes
  <2> QED
    BY <1>8, <2>3, <2>4 DEF SpliceError, e
<1> QED
  BY <1>7, <1>8

(* The record at an offset of a block, found by adding up those before it.  *)
RecordAt(d, b, f, j, c) ==
    /\ Laid(d[b].ents, f) /\ j \in 1..Len(d[b].ents)
    /\ c.bh = <<b>> /\ c.off % TAR_BLOCKSIZE = f[j-1]

LEMMA RecordIs ==
    ASSUME NEW c, NEW b, NEW f, NEW j, RecordAt(disk, b, f, j, c)
    PROVE  \E i \in 1..Len(disk[b].ents) : f[i-1] = f[j-1] /\ Record(c) = disk[b].ents[i]
<1> DEFINE es == disk[c.bh[1]].ents
           n == Len(es)
           Added(g) == g = [k \in DOMAIN es |-> IF k = 1 THEN 0 ELSE g[k-1] + es[k-1].d_reclen]
           start == CHOOSE g : Added(g)
           h == [k \in 1..n |-> f[k-1]]
<1>1. /\ es = disk[b].ents
      /\ es \in Seq(Ents) /\ n \in Nat /\ DOMAIN es = 1..n /\ n >= 1
      /\ f \in [0..n -> 0..TAR_BLOCKSIZE] /\ Sum(f, es)
      /\ j \in 1..n /\ c.off % TAR_BLOCKSIZE = f[j-1]
  <2>1. es = disk[b].ents
    BY DEF RecordAt
  <2> HIDE DEF es
  <2> QED
    BY <2>1 DEF RecordAt, Laid
<1>2. Record(c) = es[CHOOSE k \in DOMAIN es : start[k] = c.off % TAR_BLOCKSIZE]
  BY DEF Record
<1> HIDE DEF es, n
<1>3. Added(h)
  <2>1. ASSUME NEW k \in 1..n
        PROVE  h[k] = IF k = 1 THEN 0 ELSE h[k-1] + es[k-1].d_reclen
    <3>1. CASE k = 1
      BY <1>1, <3>1 DEF Sum
    <3>2. CASE k # 1
      <4>1. k - 1 \in 1..n
        BY <1>1, <3>2
      <4>2. f[k-1] = f[(k-1)-1] + es[k-1].d_reclen
        BY <1>1, <4>1 DEF Sum, n
      <4> QED
        BY <3>2, <4>1, <4>2
    <3> QED
      BY <3>1, <3>2
  <2> QED
    BY <1>1, <2>1
<1>4. Added(start)
  <2> HIDE DEF Added
  <2> QED
    BY <1>3
<1> HIDE DEF start
<1>5. \A k \in 1..n : start[k] = f[k-1]
  <2> DEFINE T == {k \in 0..n-1 : start[k+1] = f[k]}
  <2>1. 0 \in T
    <3>1. 1 \in DOMAIN es
      BY <1>1
    <3>2. start[1] = 0
      BY <1>4, <3>1
    <3> QED
      BY <1>1, <3>2 DEF Sum
  <2>2. ASSUME NEW k \in 1..n-1, k - 1 \in T PROVE k \in T
    <3>1. k + 1 \in DOMAIN es /\ k + 1 # 1 /\ (k + 1) - 1 = k /\ k \in 1..n /\ k \in 0..n-1
      BY <1>1
    <3>2. start[k+1] = start[k] + es[k].d_reclen
      BY <1>4, <3>1
    <3>3. start[k] = f[k-1]
      BY <1>1, <2>2
    <3>4. f[k] = f[k-1] + es[k].d_reclen
      BY <1>1, <3>1 DEF Sum, n
    <3> QED
      BY <3>1, <3>2, <3>3, <3>4
  <2> HIDE DEF T
  <2>3. n - 1 \in Nat
    BY <1>1
  <2>4. 0..n-1 \subseteq T
    BY <2>1, <2>2, <2>3, UpTo
  <2>5. ASSUME NEW k \in 1..n PROVE start[k] = f[k-1]
    <3>1. k - 1 \in 0..n-1 /\ (k - 1) + 1 = k
      BY <1>1
    <3> QED
      BY <2>4, <3>1 DEF T
  <2> QED
    BY <2>5
<1> DEFINE i == CHOOSE k \in DOMAIN es : start[k] = c.off % TAR_BLOCKSIZE
<1>6. i \in DOMAIN es /\ start[i] = c.off % TAR_BLOCKSIZE
  <2>1. j \in DOMAIN es /\ start[j] = c.off % TAR_BLOCKSIZE
    BY <1>1, <1>5
  <2> QED
    BY <2>1
<1> HIDE DEF i
<1>7. i \in 1..n /\ f[i-1] = f[j-1]
  BY <1>1, <1>5, <1>6
<1>8. Record(c) = es[i]
  BY <1>2 DEF i
<1> QED
  BY <1>1, <1>7, <1>8 DEF n

(* The directory a lookup goes through.                                     *)
LEMMA InDir ==
    ASSUME NEW fs, Using(fs), NEW p \in Procs, call[p].op = "lookup"
    PROVE  LET c == call[p]
               s == fs.M[c.dir]
           IN  /\ c.name \in Names /\ HasDir(disk, fs, icache, c.dir) /\ LookupAt(disk, fs, c)
               /\ s \in Seq(Nat) /\ EndOff(c) = TAR_BLOCKSIZE * Len(s)
               /\ \A k \in 1..Len(s) : Records(disk[s[k]].ents, fs.n)
<1> DEFINE c == call[p]
           s == fs.M[c.dir]
<1>1. c.name \in Names /\ HasDir(disk, fs, icache, c.dir) /\ LookupAt(disk, fs, c)
  BY FrameKnown DEF CallKnown
<1>2. c.dir \in 1..fs.n-1 /\ icache[c.dir].di = DinodeAt(disk, fs, c.dir)
      /\ DinodeAt(disk, fs, c.dir).di_mode = "dir"
  BY <1>1 DEF HasDir, Using, Knows, Cached
<1>3. DirAt(disk, fs, c.dir)
  BY <1>2 DEF Using, Served
<1>4. s \in Seq(Nat) /\ EndOff(c) = TAR_BLOCKSIZE * Len(s)
  BY <1>2, <1>3 DEF DirAt, FileMap, EndOff
<1>5. \A k \in 1..Len(s) : Records(disk[s[k]].ents, fs.n)
  BY <1>3 DEF DirAt
<1> QED
  BY <1>1, <1>4, <1>5

(* From one record to the next, or to the next block.                       *)
LEMMA MatchKnown ==
    ASSUME NEW fs, Using(fs), KInv', NEW p \in Procs, Match(p)
    PROVE  KnownInv'
<1> DEFINE c == call[p]
           s == fs.M[c.dir]
<1>1. /\ CallKnown(disk, fs, icache, errs, c) /\ FrameOK(c)
      /\ c.op = "lookup" /\ AtRecord(c) /\ c.reading = FALSE
      /\ UNCHANGED <<mnt, fdinode, icache, dcache, leaked, errs, lost>>
  BY FrameKnown DEF Match, untouched, unread, AtRecord, FrameOK, Maps
<1>2. /\ c.name \in Names /\ HasDir(disk, fs, icache, c.dir) /\ LookupAt(disk, fs, c)
      /\ s \in Seq(Nat) /\ EndOff(c) = TAR_BLOCKSIZE * Len(s)
      /\ \A k \in 1..Len(s) : Records(disk[s[k]].ents, fs.n)
  BY <1>1, InDir
<1>3. InBlock(disk, s, c)
  <2>1. CASE c.at = "rec"
    BY <1>2, <2>1 DEF LookupAt
  <2>2. CASE c.at = "loop" /\ c.off % TAR_BLOCKSIZE # 0
    <3>1. ~AtBlock(s, c)
      <4> SUFFICES ASSUME NEW q \in 0..Len(s), c.off = TAR_BLOCKSIZE * q PROVE FALSE
        BY DEF AtBlock
      <4>1. PICK o : o = c.off
        BY Zenon
      <4>2. o = 512 * q /\ o % 512 # 0 /\ q \in Int
        BY <2>2, <4>1 DEF TAR_BLOCKSIZE
      <4> QED
        BY <4>2
    <3> QED
      BY <1>2, <2>2, <3>1 DEF LookupAt
  <2> QED
    BY <1>1, <2>1, <2>2 DEF AtRecord
<1> HIDE DEF s, c
<1>4. PICK q \in 0..Len(s)-1 : \E f : \E j \in 1..Len(disk[s[q + 1]].ents) :
        /\ Laid(disk[s[q + 1]].ents, f) /\ f[j-1] < TAR_BLOCKSIZE
        /\ c.off = TAR_BLOCKSIZE * q + f[j-1] /\ c.bh = <<s[q + 1]>>
  BY <1>3, Zenon DEF InBlock
<1>5. PICK f : \E j \in 1..Len(disk[s[q + 1]].ents) :
        /\ Laid(disk[s[q + 1]].ents, f) /\ f[j-1] < TAR_BLOCKSIZE
        /\ c.off = TAR_BLOCKSIZE * q + f[j-1] /\ c.bh = <<s[q + 1]>>
  BY <1>4, Zenon
<1> DEFINE b == s[q + 1]
           es == disk[b].ents
<1>6. PICK j \in 1..Len(es) :
        /\ Laid(es, f) /\ f[j-1] < TAR_BLOCKSIZE /\ c.off = TAR_BLOCKSIZE * q + f[j-1] /\ c.bh = <<b>>
  BY <1>5, Zenon
<1> HIDE DEF b
<1>7. /\ es \in Seq(Ents) /\ Len(es) \in Nat /\ f \in [0..Len(es) -> 0..TAR_BLOCKSIZE]
      /\ Sum(f, es) /\ f[Len(es)] = TAR_BLOCKSIZE
  BY <1>6 DEF Laid
<1>8. c.off % TAR_BLOCKSIZE = f[j-1]
  <2>1. PICK x, o : x = f[j-1] /\ o = c.off
    BY Zenon
  <2>2. j - 1 \in 0..Len(es)
    BY <1>7
  <2>3. x \in 0..512 /\ x < 512 /\ o = 512 * q + x /\ q \in Int
    <3>1. f[j-1] \in 0..TAR_BLOCKSIZE
      BY <1>7, <2>2
    <3> HIDE DEF es
    <3> QED
      BY <1>2, <1>6, <2>1, <3>1 DEF TAR_BLOCKSIZE
  <2>4. o % 512 = x
    BY <2>3
  <2> QED
    BY <2>1, <2>4 DEF TAR_BLOCKSIZE
<1>9. PICK i \in 1..Len(es) : f[i-1] = f[j-1] /\ Record(c) = es[i]
  <2>1. RecordAt(disk, b, f, j, c)
    BY <1>6, <1>8 DEF RecordAt
  <2> QED
    BY <2>1, RecordIs
<1>10. ASSUME NEW e, e.op = c.op, e.at # "ret", Step(p, e), CallKnown(disk, fs, icache, errs, e)
       PROVE  KnownInv'
  <2>1. e.op = "mount" => call[p].op = "mount" /\ (e.at # "ret" => call[p].at # "ret")
    BY <1>1, <1>10
  <2> QED
    BY <1>1, <1>10, <2>1, FrameGoes
<1>11. CASE Step(p, [c EXCEPT !.at = "iget", !.ino = Record(c).d_ino]) /\ Record(c).d_name = c.name
  <2> DEFINE e == [c EXCEPT !.at = "iget", !.ino = Record(c).d_ino]
  <2>1. /\ e.op = c.op /\ e.at = "iget" /\ e.reading = FALSE /\ e.name = c.name /\ e.dir = c.dir
        /\ e.ino = Record(c).d_ino
    BY <1>1 DEF FrameOK, Fields
  <2>2. Record(c).d_ino \in 1..fs.n-1
    <3>1. q + 1 \in 1..Len(s) /\ Records(es, fs.n)
      BY <1>2 DEF b
    <3>2. es[i].d_name \notin Dots2
      BY <1>2, <1>9, <1>11, KernelAssumption DEF Dots2
    <3> QED
      BY <1>9, <3>1, <3>2 DEF Records
  <2> HIDE DEF e
  <2>3. CallKnown(disk, fs, icache, errs, e)
    BY <1>1, <1>2, <2>1, <2>2 DEF CallKnown, LookupAt, Maps
  <2> QED
    BY <1>10, <1>11, <2>1, <2>3 DEF e
<1>12. CASE Step(p, PastRecord(c))
  <2> DEFINE e == [c EXCEPT !.at = "loop", !.off = @ + Record(c).d_reclen]
  <2>1. /\ e.op = c.op /\ e.at = "loop" /\ e.reading = FALSE /\ e.name = c.name /\ e.dir = c.dir
        /\ e.off = c.off + Record(c).d_reclen /\ e.bh = c.bh
    BY <1>1 DEF FrameOK, Fields
  <2> HIDE DEF e
  <2>2. i \in 0..Len(es) /\ i - 1 \in 0..Len(es) /\ f[i] = f[i-1] + es[i].d_reclen
    BY <1>7 DEF Sum
  <2>3. PICK x, y, r : x = f[i-1] /\ y = f[i] /\ r = es[i].d_reclen
    BY Zenon
  <2>4. x \in 0..512 /\ y \in 0..512 /\ r \in Nat /\ y = x + r
    <3>1. es[i] \in Ents /\ f[i] \in 0..TAR_BLOCKSIZE /\ f[i-1] \in 0..TAR_BLOCKSIZE
      BY <1>7, <2>2
    <3>2. es[i].d_reclen \in Nat
      BY <3>1 DEF Ents
    <3> HIDE DEF es
    <3> QED
      BY <2>2, <2>3, <3>1, <3>2 DEF TAR_BLOCKSIZE
  <2>5. e.off = 512 * q + y
    <3>1. e.off = c.off + r /\ c.off = TAR_BLOCKSIZE * q + x
      BY <1>6, <1>9, <2>1, <2>3, Zenon
    <3>2. q \in Int
      BY <1>2
    <3> QED
      BY <2>4, <3>1, <3>2 DEF TAR_BLOCKSIZE
  <2>6. AtBlock(s, e) \/ InBlock(disk, s, e)
    <3>1. CASE y = 512
      <4>1. q + 1 \in 0..Len(s) /\ e.off = 512 * (q + 1)
        BY <1>2, <2>5, <3>1
      <4> QED
        BY <4>1 DEF AtBlock, TAR_BLOCKSIZE
    <3>2. CASE y # 512
      <4>1. y < 512
        BY <2>4, <3>2
      <4>2. i # Len(es)
        BY <1>7, <2>3, <3>2 DEF TAR_BLOCKSIZE
      <4>3. i + 1 \in 1..Len(es) /\ (i + 1) - 1 = i
        BY <1>7, <4>2
      <4>4. f[(i + 1) - 1] < TAR_BLOCKSIZE /\ e.off = TAR_BLOCKSIZE * q + f[(i + 1) - 1]
        BY <2>3, <2>5, <4>1, <4>3 DEF TAR_BLOCKSIZE
      <4>5. Laid(es, f) /\ e.bh = <<b>>
        BY <1>6, <2>1
      <4> QED
        BY <4>3, <4>4, <4>5 DEF InBlock, b
    <3> QED
      BY <3>1, <3>2
  <2>7. LookupAt(disk, fs, e)
    BY <2>1, <2>6 DEF LookupAt, Maps, s
  <2>8. CallKnown(disk, fs, icache, errs, e)
    BY <1>1, <1>2, <2>1, <2>7 DEF CallKnown, Ops
  <2> QED
    BY <1>10, <1>12, <2>1, <2>8 DEF e, PastRecord
<1> QED
  BY <1>11, <1>12 DEF Match, c

(* The loop over the blocks of a directory, ...                             *)
LEMMA LoopKnown ==
    ASSUME NEW fs, Using(fs), KInv', NEW p \in Procs, LoopEnd(p) \/ LoopBlock(p) \/ ReadDirBlock(p)
    PROVE  KnownInv'
<1> DEFINE c == call[p]
           s == fs.M[c.dir]
<1>1. /\ CallKnown(disk, fs, icache, errs, c) /\ FrameOK(c) /\ c.reading = FALSE
      /\ UNCHANGED <<mnt, fdinode, icache, dcache, leaked, errs, lost>>
  BY FrameKnown DEF LoopEnd, LoopBlock, ReadDirBlock, FrameOK, Maps
<1>2. c.op \in {"lookup", "idle", "iterate", "read", "link"} \/ c.at = "ret"
  BY <1>1 DEF CallKnown, Ops, LoopEnd, LoopBlock, ReadDirBlock
<1>3. ASSUME NEW e, Step(p, e), CallKnown(disk, fs, icache, errs, e), e.op = c.op,
             c.op # "mount" \/ e.at = "ret"
      PROVE  KnownInv'
  <2>1. e.op = "mount" => call[p].op = "mount" /\ (e.at # "ret" => call[p].at # "ret")
    BY <1>3
  <2> HIDE DEF c
  <2> QED
    BY <1>1, <1>3, <2>1, FrameGoes
<1>4. ASSUME c.op = "lookup"
      PROVE  /\ c.name \in Names /\ HasDir(disk, fs, icache, c.dir) /\ LookupAt(disk, fs, c)
             /\ s \in Seq(Nat) /\ EndOff(c) = TAR_BLOCKSIZE * Len(s)
             /\ \A k \in 1..Len(s) : Records(disk[s[k]].ents, fs.n)
  BY <1>4, InDir
<1>5. ASSUME LoopEnd(p) PROVE KnownInv'
  <2>1. PICK r : Step(p, [Put(c) EXCEPT !.at = "ret", !.res = r])
    BY <1>5 DEF LoopEnd
  <2> DEFINE e == [Put(c) EXCEPT !.at = "ret", !.res = r]
  <2>2. e.op = c.op /\ e.at = "ret" /\ e.reading = FALSE /\ e.name = c.name /\ e.dir = c.dir
    BY <1>1 DEF FrameOK, Fields, Put
  <2> HIDE DEF e, c
  <2>3. CallKnown(disk, fs, icache, errs, e)
    BY <1>1, <2>2, ReturnKnown
  <2> QED
    BY <1>3, <2>1, <2>2, <2>3 DEF e
<1>6. ASSUME LoopBlock(p) PROVE KnownInv'
  <2> DEFINE e == [Put(c) EXCEPT !.at = "map", !.dp = c.dir, !.moff = c.off \div TAR_BLOCKSIZE]
  <2>1. /\ Step(p, e) /\ c.at = "loop" /\ c.off < EndOff(c) /\ c.off % TAR_BLOCKSIZE = 0
        /\ c.op # "mount"
    BY <1>1, <1>6 DEF LoopBlock, CallKnown
  <2>2. /\ e.op = c.op /\ e.at = "map" /\ e.reading = FALSE /\ e.name = c.name /\ e.dir = c.dir
        /\ e.off = c.off /\ e.dp = c.dir /\ e.moff = c.off \div TAR_BLOCKSIZE
    BY <1>1 DEF FrameOK, Fields, Put
  <2> HIDE DEF e, c, s
  <2>3. CallKnown(disk, fs, icache, errs, e)
    <3>1. CASE c.op = "lookup"
      <4>1. /\ c.name \in Names /\ HasDir(disk, fs, icache, c.dir) /\ LookupAt(disk, fs, c)
            /\ s \in Seq(Nat) /\ EndOff(c) = TAR_BLOCKSIZE * Len(s)
            /\ \A k \in 1..Len(s) : Records(disk[s[k]].ents, fs.n)
        BY <1>4, <3>1
      <4>2. \E q \in 0..Len(s) : c.off = 512 * q
        <5>1. CASE AtBlock(s, c)
          BY <5>1 DEF AtBlock, TAR_BLOCKSIZE
        <5>2. CASE InBlock(disk, s, c)
          <6>1. PICK q \in 0..Len(s)-1 : \E f : \E j \in 1..Len(disk[s[q + 1]].ents) :
                  /\ Laid(disk[s[q + 1]].ents, f) /\ f[j-1] < TAR_BLOCKSIZE
                  /\ c.off = TAR_BLOCKSIZE * q + f[j-1]
            BY <5>2 DEF InBlock
          <6>2. PICK f : \E j \in 1..Len(disk[s[q + 1]].ents) :
                  /\ Laid(disk[s[q + 1]].ents, f) /\ f[j-1] < TAR_BLOCKSIZE
                  /\ c.off = TAR_BLOCKSIZE * q + f[j-1]
            BY <6>1
          <6>3. PICK j \in 1..Len(disk[s[q + 1]].ents) :
                  /\ Laid(disk[s[q + 1]].ents, f) /\ f[j-1] < TAR_BLOCKSIZE
                  /\ c.off = TAR_BLOCKSIZE * q + f[j-1]
            BY <6>2
          <6>4. j - 1 \in 0..Len(disk[s[q + 1]].ents)
            BY <6>3 DEF Laid
          <6>5. f[j-1] \in 0..TAR_BLOCKSIZE
            BY <6>3, <6>4 DEF Laid
          <6>6. PICK x, o : x = f[j-1] /\ o = c.off
            BY Zenon
          <6>7. x \in 0..512 /\ x < 512 /\ o = 512 * q + x /\ o % 512 = 0 /\ q \in Int
            BY <2>1, <4>1, <6>3, <6>5, <6>6 DEF TAR_BLOCKSIZE
          <6>8. o = 512 * q
            <7>1. x \in Int /\ 0 <= x /\ x < 512 /\ o = 512 * q + x /\ q \in Int
              BY <6>7
            <7>2. o % 512 = x
              BY <7>1
            <7>3. x = 0
              BY <6>7, <7>2
            <7> QED
              BY <7>1, <7>3
          <6>9. q \in 0..Len(s)
            BY <4>1
          <6> QED
            BY <6>6, <6>8, <6>9
        <5> QED
          BY <2>1, <4>1, <5>1, <5>2 DEF LookupAt, s
      <4>3. PICK q \in 0..Len(s) : c.off = 512 * q
        BY <4>2
      <4>4. q < Len(s)
        BY <2>1, <4>1, <4>3 DEF TAR_BLOCKSIZE
      <4>5. e.moff = q /\ e.off = TAR_BLOCKSIZE * e.moff /\ e.moff \in 0..Len(s)-1
        BY <2>2, <4>1, <4>3, <4>4 DEF TAR_BLOCKSIZE
      <4>6. LookupAt(disk, fs, e)
        BY <2>2, <4>5 DEF LookupAt, Translating, s
      <4> QED
        BY <2>2, <3>1, <4>1, <4>6 DEF CallKnown, Ops
    <3>2. CASE c.op # "lookup"
      BY <1>2, <2>1, <2>2, <3>2, OtherKnown
    <3> QED
      BY <3>1, <3>2
  <2> QED
    BY <1>3, <2>1, <2>2, <2>3
<1>7. ASSUME ReadDirBlock(p) PROVE KnownInv'
  <2> DEFINE e == [c EXCEPT !.at = "rec", !.bh = <<c.bn>>]
  <2>1. Step(p, e) /\ c.at = "mapped" /\ c.op \in {"lookup", "iterate"}
    BY <1>7 DEF ReadDirBlock
  <2>2. /\ e.op = c.op /\ e.at = "rec" /\ e.reading = FALSE /\ e.name = c.name /\ e.dir = c.dir
        /\ e.off = c.off /\ e.bh = <<c.bn>>
    BY <1>1 DEF FrameOK, Fields
  <2> HIDE DEF e, c, s
  <2>3. CallKnown(disk, fs, icache, errs, e)
    <3>1. CASE c.op = "lookup"
      <4>1. /\ c.name \in Names /\ HasDir(disk, fs, icache, c.dir) /\ LookupAt(disk, fs, c)
            /\ s \in Seq(Nat) /\ \A k \in 1..Len(s) : Records(disk[s[k]].ents, fs.n)
        BY <1>4, <3>1
      <4>2. c.off = TAR_BLOCKSIZE * c.moff /\ c.moff \in 0..Len(s)-1 /\ c.bn = s[c.moff + 1]
        BY <1>1, <2>1, <4>1 DEF LookupAt, Maps, Translating, s
      <4>3. PICK q : q = c.moff
        BY Zenon
      <4>4. q \in 0..Len(s)-1 /\ q + 1 \in 1..Len(s)
        BY <4>1, <4>2, <4>3
      <4>5. PICK f : Laid(disk[s[q + 1]].ents, f)
        BY <4>1, <4>4 DEF Records
      <4> DEFINE n == Len(disk[s[q + 1]].ents)
      <4>6. n \in Nat /\ f[0] = 0 /\ f[n] = TAR_BLOCKSIZE
        BY <4>5 DEF Laid, Sum
      <4>7. 1 \in 1..n
        BY <4>6 DEF TAR_BLOCKSIZE
      <4>8. f[1-1] < TAR_BLOCKSIZE /\ e.off = TAR_BLOCKSIZE * q + f[1-1] /\ e.bh = <<s[q + 1]>>
        BY <2>2, <4>2, <4>3, <4>4, <4>6 DEF TAR_BLOCKSIZE
      <4>9. InBlock(disk, s, e)
        BY <4>4, <4>5, <4>7, <4>8 DEF InBlock
      <4>10. LookupAt(disk, fs, e)
        BY <2>2, <4>9 DEF LookupAt, Maps, s
      <4> QED
        BY <2>2, <3>1, <4>1, <4>10 DEF CallKnown, Ops
    <3>2. CASE c.op = "iterate"
      BY <2>2, <3>2, OtherKnown
    <3> QED
      BY <2>1, <3>1, <3>2
  <2> QED
    BY <1>3, <2>1, <2>2, <2>3
<1> QED
  BY <1>5, <1>6, <1>7

(* ... and calls that neither look up nor read an inode.                    *)
LEMMA RestKnown ==
    ASSUME NEW fs, Using(fs), KInv', NEW p \in Procs,
           Emit(p) \/ EmitFull(p) \/ GetBlockDone(p) \/ FollowLink(p) \/ Leave(p)
    PROVE  KnownInv'
<1> DEFINE c == call[p]
<1>1. FrameOK(c) /\ UNCHANGED <<mnt, fdinode, icache, dcache, leaked, errs, lost>>
  BY FrameKnown DEF Emit, EmitFull, GetBlockDone, FollowLink, Leave, untouched, unread
<1>2. ASSUME NEW e, Step(p, e), e.op \in {"idle", "iterate", "read", "link"}, e.reading = FALSE,
             e.at \notin {"iget", "splice"}
      PROVE  KnownInv'
  <2>1. CallKnown(disk, fs, icache, errs, e)
    BY <1>2, OtherKnown
  <2>2. e.op # "mount"
    BY <1>2
  <2> HIDE DEF c
  <2> QED
    BY <1>1, <1>2, <2>1, <2>2, FrameGoes
<1>3. CASE Emit(p)
  <2>1. PICK r : Step(p, [c EXCEPT !.at = "loop", !.off = r])
    BY <1>3 DEF Emit, PastRecord
  <2> DEFINE e == [c EXCEPT !.at = "loop", !.off = r]
  <2>2. e.op = "iterate" /\ e.at = "loop" /\ e.reading = FALSE
    BY <1>1, <1>3 DEF FrameOK, Fields, Maps, Emit, AtRecord
  <2>3. Step(p, e)
    BY <2>1
  <2> HIDE DEF e
  <2> QED
    BY <1>2, <2>2, <2>3
<1>4. CASE EmitFull(p)
  <2> DEFINE e == [Put(c) EXCEPT !.at = "ret"]
  <2>1. Step(p, e)
    BY <1>4 DEF EmitFull
  <2>2. e.op = "iterate" /\ e.at = "ret" /\ e.reading = FALSE
    BY <1>1, <1>4 DEF FrameOK, Fields, Maps, EmitFull, AtRecord, Put
  <2> QED
    BY <1>2, <2>1, <2>2
<1>5. CASE GetBlockDone(p)
  <2> DEFINE e == [c EXCEPT !.at = "ret", !.res = c.bn]
  <2>1. Step(p, e)
    BY <1>5 DEF GetBlockDone
  <2>2. e.op = "read" /\ e.at = "ret" /\ e.reading = FALSE
    BY <1>1, <1>5 DEF FrameOK, Fields, GetBlockDone
  <2> QED
    BY <1>2, <2>1, <2>2
<1>6. CASE FollowLink(p)
  <2>1. PICK h : Step(p, [c EXCEPT !.at = "ret", !.bh = <<h>>, !.res = h])
    BY <1>6 DEF FollowLink
  <2> DEFINE e == [c EXCEPT !.at = "ret", !.bh = <<h>>, !.res = h]
  <2>2. e.op = "link" /\ e.at = "ret" /\ e.reading = FALSE
    BY <1>1, <1>6 DEF FrameOK, Fields, Maps, FollowLink
  <2> QED
    BY <1>2, <2>1, <2>2
<1>7. CASE Leave(p)
  <2>1. Idle.op = "idle" /\ Idle.at = "idle" /\ Idle.reading = FALSE
    BY DEF Idle, Frame
  <2>2. Step(p, Idle)
    BY <1>7 DEF Leave
  <2> QED
    BY <1>2, <2>1, <2>2
<1> QED
  BY <1>3, <1>4, <1>5, <1>6, <1>7

LEMMA StepKnown ==
    ASSUME NEW fs, Using(fs), KInv', NEW p \in Procs, CallStep(p) \/ CallFails(p)
    PROVE  KnownInv'
BY MapKnown, IgetKnown, IgetFailKnown, SpliceKnown, LoopKnown, MatchKnown, RestKnown, ReadErrorKnown
   DEF CallStep, CallFails

(* The VFS makes a call ...                                                 *)
LEMMA StartKnown ==
    ASSUME NEW fs, Using(fs), KInv', NEW p \in Procs, CallStarts(p)
    PROVE  KnownInv'
<1>1. ASSUME NEW e, Step(p, e), CallKnown(disk, fs, icache, errs, e), e.op # "mount", UNCHANGED untouched
      PROVE  KnownInv'
  <2>1. UNCHANGED <<mnt, fdinode, icache, dcache, leaked, errs, lost>>
    BY <1>1 DEF untouched, unread
  <2> QED
    BY <1>1, <2>1, FrameGoes
<1>2. ASSUME NEW e, Step(p, e), e.op \in {"iterate", "read", "link"}, e.reading = FALSE,
             e.at \notin {"iget", "splice"}, UNCHANGED untouched
      PROVE  KnownInv'
  <2>1. CallKnown(disk, fs, icache, errs, e)
    BY <1>2, OtherKnown
  <2> QED
    BY <1>1, <1>2, <2>1
<1>3. ASSUME NEW d \in DOMAIN icache, NEW n \in Names, CallLookup(p, d, n) PROVE KnownInv'
  <2> DEFINE e == [Frame("lookup", "loop", d) EXCEPT !.name = n]
  <2>1. Step(p, e) /\ UNCHANGED untouched /\ icache[d].di.di_mode = "dir"
    BY <1>3 DEF CallLookup, Mode
  <2>2. /\ e.op = "lookup" /\ e.at = "loop" /\ e.reading = FALSE /\ e.name = n /\ e.dir = d
        /\ e.off = 0
    BY DEF Frame
  <2> HIDE DEF e
  <2>3. /\ d \in 1..fs.n-1 /\ icache[d].new \in BOOLEAN /\ icache[d].private \in BOOLEAN
        /\ icache[d].new => ~icache[d].private
        /\ icache[d].di = IF icache[d].private THEN DinodeAt(disk, fs, d) ELSE NoDinode
    BY DEF Using, Knows, Cached
  <2>4. NoDinode.di_mode = "none"
    BY DEF NoDinode, NoObject, NewInode
  <2>5. icache[d].private
    BY <2>1, <2>3, <2>4
  <2>6. HasDir(disk, fs, icache, d)
    BY <2>1, <2>3, <2>5 DEF HasDir
  <2>7. fs.M[d] \in Seq(Nat)
    BY <2>3, <2>6 DEF HasDir, Using, Served, DirAt, FileMap
  <2>8. AtBlock(fs.M[d], e)
    <3>1. 0 \in 0..Len(fs.M[d]) /\ e.off = TAR_BLOCKSIZE * 0
      BY <2>2, <2>7 DEF TAR_BLOCKSIZE
    <3> QED
      BY <3>1 DEF AtBlock
  <2>9. LookupAt(disk, fs, e)
    BY <2>2, <2>8 DEF LookupAt, Maps
  <2>10. CallKnown(disk, fs, icache, errs, e)
    BY <2>2, <2>6, <2>9 DEF CallKnown, Ops
  <2> QED
    BY <1>1, <2>1, <2>2, <2>10
<1>4. ASSUME NEW f, CallIterate(p, f) PROVE KnownInv'
  <2>1. PICK o : Step(p, [Frame("iterate", "loop", file[f].dir) EXCEPT !.f = f, !.off = o])
    BY <1>4 DEF CallIterate
  <2> DEFINE e == [Frame("iterate", "loop", file[f].dir) EXCEPT !.f = f, !.off = o]
  <2>2. e.op = "iterate" /\ e.at = "loop" /\ e.reading = FALSE
    BY DEF Frame
  <2>3. UNCHANGED untouched
    BY <1>4 DEF CallIterate
  <2> HIDE DEF e
  <2> QED
    BY <1>2, <2>1, <2>2, <2>3 DEF e
<1>5. ASSUME NEW i, CallFollowLink(p, i) PROVE KnownInv'
  <2> DEFINE e == Frame("link", "link", i)
  <2>1. Step(p, e) /\ UNCHANGED untouched
    BY <1>5 DEF CallFollowLink
  <2>2. e.op = "link" /\ e.at = "link" /\ e.reading = FALSE
    BY DEF Frame
  <2> HIDE DEF e
  <2> QED
    BY <1>2, <2>1, <2>2
<1>6. ASSUME NEW i, NEW off, CallGetBlock(p, i, off) PROVE KnownInv'
  <2> DEFINE e == [Frame("read", "map", i) EXCEPT !.moff = off]
  <2>1. Step(p, e) /\ UNCHANGED untouched
    BY <1>6 DEF CallGetBlock
  <2>2. e.op = "read" /\ e.at = "map" /\ e.reading = FALSE
    BY DEF Frame
  <2> HIDE DEF e
  <2> QED
    BY <1>2, <2>1, <2>2
<1> QED
  BY <1>3, <1>4, <1>5, <1>6 DEF CallStarts

(* ... and drops what nothing uses.                                         *)
LEMMA NoCallStep ==
    ASSUME NEW fs, Using(fs), KInv', UNCHANGED <<mnt, fdinode, call, leaked, errs, lost>>,
           Cached(disk, fs, icache'), \A p \in Procs : CallKnown(disk, fs, icache', errs, call[p]),
           DentryInodes' \union leaked \subseteq DOMAIN icache'
    PROVE  KnownInv'
<1>1. disk' = disk /\ blks' = blks /\ phase' = "done"
  BY DEF Using, vars, spaceVars, progVars
<1>2. KernelTypeOK /\ OopsExplained /\ OneMount /\ mnt \in {"mounting", "yes"}
  BY DEF Using, KnownInv, Live
<1>3. Knows(fs)'
  BY <1>1 DEF Using, Knows
<1>4. \A p \in Procs : call'[p].op \in Ops
  BY DEF CallKnown
<1>5. KernelTypeOK'
  <2>1. mnt' \in {"no", "mounting", "yes", "oops"} /\ errs' \in 0..MaxErrs
    BY <1>2 DEF KernelTypeOK
  <2>2. DentryInodes' \union leaked' \subseteq DOMAIN icache' /\ Served(disk, fs)
    BY DEF Using
  <2> QED
    BY <1>4, <2>1, <2>2, TypeFollows
<1>6. OopsExplained' /\ OneMount'
  BY <1>2 DEF OopsExplained, OneMount
<1> QED
  BY <1>1, <1>2, <1>3, <1>5, <1>6 DEF KnownInv, Live, Using

LEMMA EvictKnown ==
    ASSUME NEW fs, Using(fs), KInv', mnt = "yes", NEW i \in DOMAIN icache, Evict(i)
    PROVE  KnownInv'
<1>1. /\ icache' = [j \in DOMAIN icache \ {i} |-> icache[j]]
      /\ UNCHANGED <<mnt, fdinode, dcache, leaked, call, errs, lost>>
      /\ ~Dentried(i) /\ i \notin leaked /\ ~InUse(i)
  BY DEF Evict, Unreferenced
<1>2. /\ DOMAIN icache' = DOMAIN icache \ {i} /\ \A j \in DOMAIN icache' : icache'[j] = icache[j]
  BY <1>1
<1>3. /\ Cached(disk, fs, icache) /\ OneMount /\ DentryInodes \union leaked \subseteq DOMAIN icache
  BY DEF Using, Knows, KnownInv, KernelTypeOK
<1>4. Cached(disk, fs, icache')
  BY <1>2, <1>3 DEF Cached
<1>5. ASSUME NEW p \in Procs PROVE CallKnown(disk, fs, icache', errs, call[p])
  <2>1. CallKnown(disk, fs, icache, errs, call[p])
    BY DEF Using, Knows
  <2>2. /\ call[p].dir # i
        /\ call[p].at = "splice" /\ call[p].op = "lookup" => call[p].res # i
        /\ call[p].op = "mount" => call[p].at # "splice"
    BY <1>1, <1>3 DEF InUse, OneMount
  <2>3. call[p].op = "lookup" => HasDir(disk, fs, icache', call[p].dir)
    BY <1>2, <2>1, <2>2 DEF CallKnown, HasDir
  <2>4. call[p].at = "splice" =>
           /\ call[p].op \in {"lookup", "mount"}
           /\ call[p].res \in DOMAIN icache' \/ (call[p].res \in Int /\ call[p].res < 0 /\ errs > 0)
    BY <1>2, <2>1, <2>2 DEF CallKnown
  <2> QED
    BY <2>1, <2>3, <2>4 DEF CallKnown
<1>6. DentryInodes' \union leaked \subseteq DOMAIN icache'
  <2>1. DentryInodes' = DentryInodes /\ i \notin DentryInodes
    BY <1>1 DEF DentryInodes, Dentried
  <2> QED
    BY <1>1, <1>2, <1>3, <2>1
<1> QED
  BY <1>1, <1>4, <1>5, <1>6, NoCallStep

(* Without a mount there is nothing to know.                                *)
LEMMA Unmounted ==
    ASSUME KInv', mnt' = "no", icache' = <<>>, dcache' = <<>>, leaked' = {},
           errs' \in 0..MaxErrs, lost' <= errs'
    PROVE  KnownInv'
<1>1. DOMAIN icache' = {} /\ DentryInodes' = {}
  BY DEF DentryInodes
<1>2. \A p \in Procs : call'[p].op = "idle"
  <2>1. Idle.op = "idle"
    BY DEF Idle, Frame
  <2>2. \A p \in Procs : call'[p] = Idle
    BY DEF KInv, NoCalls
  <2> QED
    BY <2>1, <2>2
<1>3. slab' \in Nat /\ nbh' \in Nat
  BY Counting
<1>4. KernelTypeOK'
  BY <1>1, <1>2, <1>3 DEF KernelTypeOK
<1>5. OopsExplained' /\ OneMount'
  BY <1>2 DEF OopsExplained, OneMount
<1> QED
  BY <1>4, <1>5 DEF KnownInv, Live

LEMMA VfsKnown ==
    ASSUME NEW fs, Using(fs), KInv', VFS
    PROVE  KnownInv'
<1>1. /\ Cached(disk, fs, icache) /\ DentryInodes \union leaked \subseteq DOMAIN icache
      /\ \A p \in Procs : CallKnown(disk, fs, icache, errs, call[p])
  BY DEF Using, Knows, KnownInv, KernelTypeOK
<1>2. ASSUME UNCHANGED <<mnt, fdinode, icache, leaked, call, errs, lost>>,
             DentryInodes' \subseteq DentryInodes
      PROVE  KnownInv'
  <2>1. /\ Cached(disk, fs, icache') /\ DentryInodes' \union leaked \subseteq DOMAIN icache'
        /\ \A p \in Procs : CallKnown(disk, fs, icache', errs, call[p])
    BY <1>1, <1>2
  <2> QED
    BY <1>2, <2>1, NoCallStep
<1>3. ASSUME NEW f, NEW d, OpenDir(f, d) \/ Rewind(f) \/ CloseDir(f) PROVE KnownInv'
  BY <1>2, <1>3 DEF OpenDir, Rewind, CloseDir, DentryInodes
<1>4. ASSUME NEW k, DropDentry(k) PROVE KnownInv'
  <2>1. dcache' = [j \in DOMAIN dcache \ {k} |-> dcache[j]]
    BY <1>4 DEF DropDentry
  <2>2. DentryInodes' \subseteq DentryInodes
    BY <2>1 DEF DentryInodes
  <2> QED
    BY <1>2, <1>4, <2>2 DEF DropDentry
<1>5. ASSUME Umount PROVE KnownInv'
  <2>1. errs \in 0..MaxErrs /\ lost <= errs
    BY DEF Using, KnownInv, KernelTypeOK, OopsExplained
  <2> QED
    BY <1>5, <2>1, Unmounted DEF Umount
<1> QED
  BY <1>3, <1>4, <1>5, EvictKnown DEF VFS

(* Mounting starts from the dinode of inode 0 that tarfsmount has read.     *)
LEMMA MountKnown ==
    ASSUME KInv, KInv', KnownInv, FsSound, phase = "done", UNCHANGED vars,
           NEW p \in Procs, Mount(p)
    PROVE  KnownInv'
<1> DEFINE di == Dinode(DiskFree).di
<1>1. /\ mnt = "no" /\ UNCHANGED <<icache, dcache, leaked, slab, file, nbh, lost>>
      /\ tarfs_fill_super(p, di)
  BY DEF Mount, tarfs_fill_super
<1>2. /\ icache = <<>> /\ dcache = <<>> /\ leaked = {} /\ errs \in 0..MaxErrs
      /\ lost <= errs /\ lost \in Nat /\ DOMAIN call = Procs /\ \A q \in Procs : call[q] = Idle
  BY <1>1 DEF KnownInv, KernelTypeOK, OopsExplained, KInv, Tallies, FramesOK, NoCalls
<1>3. errs \in Nat /\ errs <= MaxErrs
  BY <1>2, KernelAssumption
<1>4. Idle.op = "idle" /\ Idle.at = "idle" /\ Idle.reading = FALSE
  BY DEF Idle, Frame
<1>5. disk' = disk /\ blks' = blks /\ phase' = "done"
  BY DEF vars, spaceVars, progVars
<1>6. CASE mnt' = "mounting" /\ fdinode' = [di EXCEPT !.di_header = TARBLK_NONE]
           /\ Step(p, GetRoot) /\ UNCHANGED errs
  <2>1. PICK fs : Served(disk, fs) /\ fs.M[TARFS_FREE_INO][1] = Sb.tarfs_free
    BY DEF FsSound
  <2>2. MapFields(fdinode', DinodeAt(disk, fs, TARFS_FREE_INO))
    <3>1. DinodeAt(disk, fs, TARFS_FREE_INO) = disk[Sb.tarfs_free].di
      BY <2>1 DEF DinodeAt, TARFS_FREE_INO
    <3>2. /\ DiskFree.di_nExtents = disk[Sb.tarfs_free].di.di_nExtents
          /\ DiskFree.di_directExtent = disk[Sb.tarfs_free].di.di_directExtent
          /\ DiskFree.di_rootIndExt = disk[Sb.tarfs_free].di.di_rootIndExt
      BY DEF DiskFree, LoadInode
    <3>3. /\ di.di_nExtents = DiskFree.di_nExtents /\ di.di_directExtent = DiskFree.di_directExtent
          /\ di.di_rootIndExt = DiskFree.di_rootIndExt
      BY DEF Dinode, DinodeFields
    <3> HIDE DEF di
    <3> QED
      BY <1>6, <3>1, <3>2, <3>3 DEF MapFields
  <2>3. /\ GetRoot.op = "mount" /\ GetRoot.at = "iget" /\ GetRoot.reading = FALSE /\ GetRoot.ino = 1
    BY DEF GetRoot, Frame, TARFS_ROOT_INO
  <2>4. \A q \in Procs : call'[q] = IF q = p THEN GetRoot ELSE Idle
    BY <1>2, <1>6 DEF Step
  <2>5. CallKnown(disk, fs, icache', errs', GetRoot)
    <3>1. 1 \in 1..fs.n-1
      BY <2>1 DEF Served
    <3> QED
      BY <2>3, <3>1 DEF CallKnown, Ops
  <2>6. CallKnown(disk, fs, icache', errs', Idle)
    BY <1>4, OtherKnown
  <2>7. DOMAIN icache' = {} /\ DentryInodes' = {} /\ leaked' = {}
    BY <1>1, <1>2 DEF DentryInodes
  <2>8. Cached(disk, fs, icache')
    BY <2>7 DEF Cached
  <2>9. Knows(fs)' /\ \A q \in Procs : call'[q].op \in Ops
    <3>1. \A q \in Procs : CallKnown(disk, fs, icache', errs', call'[q])
      BY <2>4, <2>5, <2>6
    <3> QED
      BY <1>5, <2>2, <2>8, <3>1 DEF Knows, CallKnown
  <2>10. KernelTypeOK'
    <3>1. errs' \in 0..MaxErrs /\ DentryInodes' \union leaked' \subseteq DOMAIN icache'
      BY <1>2, <1>6, <2>7
    <3> QED
      BY <1>6, <2>1, <2>8, <2>9, <3>1, TypeFollows
  <2>11. OopsExplained' /\ OneMount'
    BY <1>1, <1>2, <1>4, <1>6, <2>3, <2>4 DEF OopsExplained, OneMount
  <2> QED
    BY <1>5, <1>6, <2>1, <2>9, <2>10, <2>11 DEF KnownInv, Live
<1>7. CASE ~CopyFits(di) /\ Oops /\ UNCHANGED <<fdinode, call, errs>>
  <2>1. errs' \in 0..MaxErrs /\ errs <= errs' /\ mnt' = "oops"
    BY <1>2, <1>3, <1>7 DEF Oops
  <2>2. \A q \in Procs : call'[q].op = call[q].op /\ (call'[q].at = call[q].at)
    BY <1>7
  <2> QED
    BY <1>1, <1>7, <2>1, <2>2, Died
<1>8. CASE errs < MaxErrs /\ errs' = errs + 1 /\ UNCHANGED <<mnt, fdinode, call>>
  <2>1. errs' \in 0..MaxErrs /\ lost' <= errs'
    BY <1>1, <1>2, <1>3, <1>8, KernelAssumption
  <2> QED
    BY <1>1, <1>2, <1>8, <2>1, Unmounted
<1> QED
  BY <1>1, <1>6, <1>7, <1>8 DEF tarfs_fill_super
-----------------------------------------------------------------------------
LEMMA KnownInit == MountInit => KnownInv
<1> SUFFICES ASSUME MountInit PROVE KnownInv
  OBVIOUS
<1>1. /\ mnt = "no" /\ icache = <<>> /\ dcache = <<>> /\ leaked = {} /\ slab = 0 /\ nbh = 0
      /\ errs = 0 /\ lost = 0 /\ call = [p \in Procs |-> Idle]
  BY DEF MountInit, KernelInit
<1>2. Idle.op = "idle"
  BY DEF Idle, Frame
<1>3. DOMAIN icache = {} /\ DentryInodes = {} /\ 0 \in 0..MaxErrs
  BY <1>1, KernelAssumption DEF DentryInodes
<1>4. KernelTypeOK
  BY <1>1, <1>2, <1>3 DEF KernelTypeOK
<1>5. OopsExplained /\ OneMount
  BY <1>1, <1>2 DEF OopsExplained, OneMount
<1> QED
  BY <1>1, <1>4, <1>5 DEF KnownInv, Live

LEMMA KnownStep ==
    KInv /\ KInv' /\ FsSound /\ KnownInv /\ [MountNext]_mountVars => KnownInv'
<1> SUFFICES ASSUME KInv, KInv', FsSound, KnownInv, [MountNext]_mountVars PROVE KnownInv'
  OBVIOUS
<1>1. CASE Work /\ UNCHANGED kernelVars
  <2>1. phase = "run"
    BY <1>1 DEF Work, InitFree, AllocRoot, DirInit, Dots, Get, Eof, LookupData, LookupMiss, LookupDir,
       LookupNotDir, LookupAgain, AddEntry, AddBlock, NewBlock, Sync, SyncDir, SyncRoot, SyncFree,
       WriteSuper, InsStep, LooksUp, At
  <2>2. mnt = "no" /\ UNCHANGED <<mnt, icache, dcache, leaked, errs, lost>>
    BY <1>1, <2>1 DEF KnownInv, kernelVars
  <2>3. /\ icache' = <<>> /\ dcache' = <<>> /\ leaked' = {} /\ mnt' = "no"
        /\ errs' \in 0..MaxErrs /\ lost' <= errs'
    BY <2>2 DEF KnownInv, KernelTypeOK, OopsExplained
  <2> QED
    BY <2>3, Unmounted
<1>2. CASE phase = "done" /\ UNCHANGED vars /\ \E p \in Procs : Mount(p)
  BY <1>2, MountKnown
<1>3. ASSUME phase = "done", UNCHANGED vars, NEW p \in Procs,
             CallStarts(p) \/ CallStep(p) \/ CallFails(p) \/ VFS
      PROVE  KnownInv'
  <2>1. mnt # "no" /\ mnt # "oops"
    BY <1>3, InCall DEF CallStarts, CallStep, CallFails, VFS
  <2>2. Live
    BY <2>1 DEF KnownInv, KernelTypeOK, Live
  <2>3. PICK fs : Served(disk, fs) /\ Knows(fs)
    BY <2>2 DEF KnownInv
  <2>4. Using(fs)
    BY <1>3, <2>2, <2>3 DEF Using
  <2> QED
    BY <1>3, <2>4, StepKnown, StartKnown, VfsKnown
<1>4. CASE phase = "done" /\ UNCHANGED vars /\ VFS
  <2>1. mnt = "yes"
    BY <1>4 DEF VFS
  <2>2. Live
    BY <2>1 DEF Live
  <2>3. PICK fs : Served(disk, fs) /\ Knows(fs)
    BY <2>2 DEF KnownInv
  <2>4. Using(fs)
    BY <1>4, <2>2, <2>3 DEF Using
  <2> QED
    BY <1>4, <2>4, VfsKnown
<1>5. CASE UNCHANGED mountVars
  <2>1. /\ UNCHANGED <<mnt, fdinode, icache, dcache, leaked, slab, call, file, nbh, errs, lost>>
        /\ UNCHANGED <<disk, blks, phase>>
    BY <1>5 DEF mountVars, kernelVars, vars, spaceVars, progVars
  <2>2. KernelTypeOK' /\ OneMount'
    BY <2>1, Zenon DEF KnownInv, KernelTypeOK, OneMount, DentryInodes
  <2>3. OopsExplained'
    BY <2>1, Zenon DEF KnownInv, OopsExplained, DiskFree, Sb, LoadInode, Dinode
  <2>4. Live => \E fs : Served(disk', fs) /\ Knows(fs)'
    BY <2>1 DEF KnownInv, Knows
  <2> QED
    BY <2>1, <2>2, <2>3, <2>4 DEF KnownInv, Live
<1> QED
  BY <1>1, <1>2, <1>3, <1>4, <1>5 DEF MountNext
-----------------------------------------------------------------------------
(* The file that mkfs.tarfs ends with, whatever the order of its requests   *)
(* for blocks, is as the kernel needs it: a map leads to every block it     *)
(* should and to no other, records fill the blocks of a directory, and      *)
(* their numbers have dinodes.  This is of archives that make no directory  *)
(* of a path that had a size, and so is what follows.                       *)
THEOREM FileIsSound == MountSpec /\ ~DataAsDir(files) => []FsSound
BY MountIsMake, FileServes, PTL

LEMMA KnownAlways == MountSpec /\ ~DataAsDir(files) => []KnownInv
<1>1. MountInit => KnownInv
  BY KnownInit
<1>2. KInv /\ KInv' /\ FsSound /\ KnownInv /\ [MountNext]_mountVars => KnownInv'
  BY KnownStep
<1>3. MountSpec => []KInv
  BY KernelInductive
<1>4. MountSpec /\ ~DataAsDir(files) => []FsSound
  BY FileIsSound
<1> QED
  BY <1>1, <1>2, <1>3, <1>4, PTL DEF MountSpec

(* The kernel dies by a failed read or allocation, or by a file system      *)
(* whose inode 0 has more extents than fit: nothing it reads in a file      *)
(* mkfs.tarfs made takes it to a block or an inode that is not there.  A    *)
(* failed read leaves at most one dinode behind.                            *)
THEOREM DiesOfFailures == MountSpec /\ ~DataAsDir(files) => []OopsExplained
<1>1. KnownInv => OopsExplained
  BY DEF KnownInv
<1> QED
  BY <1>1, KnownAlways, PTL

(* What the kernel's variables are, in every state: dentries name inodes    *)
(* that are in the cache, and an inode in it has a dinode's fields.         *)
THEOREM KernelTyped == MountSpec /\ ~DataAsDir(files) => []KernelTypeOK
<1>1. KnownInv => KernelTypeOK
  BY DEF KnownInv
<1> QED
  BY <1>1, KnownAlways, PTL
=============================================================================
