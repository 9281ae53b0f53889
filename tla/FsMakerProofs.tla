---------------------------- MODULE FsMakerProofs ----------------------------
(***************************************************************************)
(* Proofs about FsMaker for every archive, medium, chunk size and number   *)
(* of extents: it uses the block maps and the block layer as ExtentMap and *)
(* BlockClients allow, and what it leaves in the file is well formed.      *)
(***************************************************************************)
EXTENDS FsTree, SequenceTheorems, TLAPS

(* The inodes, by number, as mkfs has them at the moment: in an object in   *)
(* memory or else in the dinode.                                            *)
Handles == {"free", "root", "dir", "next"}
DiOf(o) == [di_mode |-> o.di_mode, di_nlink |-> o.di_nlink, di_size |-> o.di_size,
            di_blocks |-> o.di_blocks, di_header |-> o.di_header,
            di_nExtents |-> o.di_nExtents, di_directExtent |-> o.di_directExtent,
            di_rootIndExt |-> o.di_rootIndExt]

InMem(i) == \E h \in Handles : core[h].ino = i

(* Their dinodes: the blocks in the map of the free inode and what is about *)
(* to be.                                                                   *)
Dinodes == IF ins # NoFrame /\ ins.obj = "free"
           THEN mapped[TARFS_FREE_INO] \o Grown(ins.de) ELSE mapped[TARFS_FREE_INO]

(* In memory c, and n inodes with their dinodes in blocks bs of file f.     *)
LatestIn(c, n, bs, f, i) ==
    IF \E h \in Handles : c[h].ino = i THEN DiOf(c[CHOOSE h \in Handles : c[h].ino = i])
    ELSE IF i < n THEN f[bs[i + 1]].di
    ELSE DiOf(NoObject)

Latest(i) == LatestIn(core, inodeNum, Dinodes, disk, i)

Inos == 0..MaxBlks
Table == [i \in Inos |-> Latest(i)]

(* What ExtentMap sees: maps by inode number, none for what has no map of   *)
(* blocks of its own but an extent of the archive.                          *)
MapOf(i, di) ==
    IF i = TARFS_FREE_INO \/ di.di_mode = "dir"
    THEN [di_nExtents |-> di.di_nExtents, di_directExtent |-> di.di_directExtent,
          di_rootIndExt |-> di.di_rootIndExt]
    ELSE [di_nExtents |-> 0, di_directExtent |-> <<>>, di_rootIndExt |-> di.di_rootIndExt]

MapCore == [i \in (1..MaxBlks) \union {TARFS_FREE_INO} |-> MapOf(i, Latest(i))]
MapIns == IF ins = NoFrame THEN NoFrame ELSE [ins EXCEPT !.obj = core[ins.obj].ino]

EM == INSTANCE ExtentMapProofs WITH Dirs <- 1..MaxBlks, core <- MapCore, ins <- MapIns
-----------------------------------------------------------------------------
(* The invariant.                                                           *)
EntNames == DOMAIN NameLen \union {".", ".."}
Dots2 == {".", ".."}
Modes == STRING \union {"dir", "none"}
Di == [di_mode : Modes, di_nlink : Nat, di_size : Nat, di_blocks : Nat, di_header : Int,
       di_nExtents : Nat, di_directExtent : Seq(EM!Extents), di_rootIndExt : Nat]
Obj12 == [ino : Int, pino : Int, blkno : Int, ftype : Modes,
       di_mode : Modes, di_nlink : Nat, di_size : Nat, di_blocks : Nat, di_header : Int,
       di_nExtents : Nat, di_directExtent : Seq(EM!Extents), di_rootIndExt : Nat]
Frames == [at : {"direct", "walk", "link", "fill"}, obj : Handles, de : EM!Extents,
           ind_off : Nat, new : Nat]
Ents == [d_ino : Int, d_reclen : Nat, d_name : EntNames, d_ftype : Modes]

Loaded(h) == core[h].ino # -1
Mem ==
    /\ core \in [Handles -> Obj12] /\ inodeNum \in Nat
    /\ ins \in Frames \union {NoFrame}
    /\ ins # NoFrame => Loaded(ins.obj)
    /\ \A h \in Handles : Loaded(h) => /\ core[h].ino \in 0..inodeNum-1
                                 /\ core[h].blkno = Dinodes[core[h].ino + 1]
    /\ \A g, h \in Handles : Loaded(h) /\ core[g].ino = core[h].ino => g = h
    /\ core["free"].ino = IF inodeNum > 0 THEN 0 ELSE -1
    /\ core["root"].ino = IF inodeNum > 1 THEN 1 ELSE -1

OnDisk == \A i \in 2..inodeNum-1 : ~InMem(i) =>
             disk[Dinodes[i + 1]] \in [kind : {"dinode"}, di : Di]
Synced(h) == disk[core[h].blkno] = Dinode(core[h])

AtTarget(i) == ins = NoFrame /\ ((pc = "dots" /\ core[newh].ino = i) \/ (pc = "newBlock" /\ DirObj.ino = i))
Extra(i) == IF AtTarget(i) THEN 1 ELSE 0

InodeOf(P, i) ==
    LET di == Latest(i)
    IN  IF di.di_mode = "dir"
        THEN /\ di.di_size = TAR_BLOCKSIZE * di.di_blocks
             /\ Len(mapped[i]) = di.di_blocks + Extra(i)
        ELSE /\ mapped[i] = <<>>
             /\ IF di.di_size = 0 THEN di.di_blocks = 0 /\ di.di_nExtents = 0 /\ di.di_directExtent = <<>>
                ELSE \E j \in 1..cur : files[j].path = P[i] /\ files[j].size > 0 /\ files[j].ftype # "dir"
Inodes(P) == \A i \in 1..inodeNum-1 : InodeOf(P, i)

Pending(b) == pc \in {"dots", "newBlock"} /\ b = dirblk
DirBlk(P, i, b) ==
    /\ disk[b].kind = "dir"
    /\ \A j \in 1..Len(disk[b].ents) :
          LET e == disk[b].ents[j]
          IN  e.d_name \notin Dots2 => e.d_ino \in i+1..inodeNum-1 /\ P[e.d_ino] = Append(P[i], e.d_name)
DirsOf(P) == \A i \in 1..inodeNum-1 : \A k \in 1..Len(mapped[i]) :
               Pending(mapped[i][k]) \/ DirBlk(P, i, mapped[i][k])

UsedOnce == \A m, k \in Managers : m # k => used[m] \intersect used[k] = {}
InMap(i, b) == \E k \in 1..Len(mapped[i]) : mapped[i][k] = b
MappedOnce == \A i, j \in 1..MaxBlks : \A k \in 1..Len(mapped[i]) : InMap(j, mapped[i][k]) => i = j
NoInode == \A i \in 1..MaxBlks : i >= inodeNum => mapped[i] = <<>>

First == Len(Dinodes) >= 2 /\ Dinodes[1] = orgblks /\ Dinodes[2] = orgblks + 1
Booting == cur = 0 /\ dirh = "root" /\ ~Loaded("dir") /\ ~Loaded("next")
Adding(P) ==
    /\ cur \in 1..Len(files) /\ comp \in 1..Len(File.path) /\ inodeNum > 1
    /\ Loaded(dirh) /\ (Loaded("dir") <=> dirh = "dir")
    /\ DirObj.di_mode = "dir" /\ P[DirObj.ino] = SubSeq(File.path, 1, comp - 1)
HasNext(P) ==
    /\ Loaded("next") /\ DirObj.ino < NextObj.ino /\ P[NextObj.ino] = SubSeq(File.path, 1, comp)
    /\ ~LastComp => NextObj.di_mode = "dir"
NoneOpen == inodeNum > 1 /\ ~Loaded("dir") /\ ~Loaded("next")

New(h) == core[h].di_mode = "dir" /\ core[h].di_size = 0 /\ core[h].di_blocks = 0
Target(h) == 
    /\ dirblk \in used["dir"]
    /\ IF ins = NoFrame THEN LET s == mapped[core[h].ino] IN Len(s) > 0 /\ s[Len(s)] = dirblk
       ELSE \A i \in 1..MaxBlks : ~InMap(i, dirblk)
InsFor(h) == ins # NoFrame => ins.obj = h /\ ins.de.de_blkno = dirblk
InsFree == ins # NoFrame => ins.obj = "free"
Quiet == ins = NoFrame

PcOf(P) ==
    \/ pc = "init" /\ Booting /\ inodeNum = 0 /\ blks = orgblks /\ ~HasFree("dinode") /\ Quiet
    \/ pc = "allocRoot" /\ Booting /\ inodeNum = 1 /\ InsFree
    \/ pc = "dirInit" /\ cur = 0 /\ Booting /\ inodeNum = 2 /\ InsFree /\ New("root")
    \/ pc = "dots" /\ cur = 0 /\ Booting /\ inodeNum = 2 /\ New("root") /\ Target("root") /\ InsFor("root")
    \/ pc = "get" /\ NoneOpen /\ Quiet
    \/ pc = "lookup" /\ Adding(P) /\ ~Loaded("next") /\ Quiet
    \/ pc = "dirInit" /\ cur # 0 /\ Adding(P) /\ HasNext(P) /\ InsFree /\ New("next")
    \/ pc = "dots" /\ cur # 0 /\ Adding(P) /\ HasNext(P) /\ New("next") /\ Target("next") /\ InsFor("next")
    \/ pc = "addEntry" /\ Adding(P) /\ HasNext(P) /\ InsFree
    \/ pc = "newBlock" /\ Adding(P) /\ HasNext(P) /\ Target(dirh) /\ InsFor(dirh)
    \/ pc = "sync" /\ Adding(P) /\ HasNext(P) /\ Quiet
    \/ pc = "syncDir" /\ Adding(P) /\ HasNext(P) /\ Synced("next") /\ Quiet
    \/ pc = "syncRoot" /\ NoneOpen /\ Quiet
    \/ pc = "syncFree" /\ NoneOpen /\ Synced("root") /\ Quiet
    \/ pc = "super" /\ NoneOpen /\ Synced("root") /\ Synced("free") /\ Quiet

Prog(P) == 
    /\ PcOf(P)
    /\ files \in Archives /\ ~DataAsDir(files) /\ cur \in 0..Len(files) /\ dirh \in {"root", "dir"}
    /\ inodeNum > 0 => First
    /\ inodeNum > 1 => core["root"].di_mode = "dir" /\ P[1] = <<>>

Sum(f, es) == f[0] = 0 /\ \A j \in 1..Len(es) : f[j] = f[j-1] + es[j].d_reclen
Formed(c) ==
    /\ c.ents \in Seq(Ents)
    /\ \E f \in [0..Len(c.ents) -> Nat] : Sum(f, c.ents) /\ f[Len(c.ents)] = TAR_BLOCKSIZE
    /\ \A j \in 1..Len(c.ents) :
          /\ c.ents[j].d_reclen % 4 = 0
          /\ DIRENT_SIZE(strlen(c.ents[j].d_name)) <= c.ents[j].d_reclen
AllFormed == \A b \in DOMAIN disk : disk[b].kind = "dir" => Formed(disk[b])
NoSuper == \A b \in DOMAIN disk : disk[b].kind # "super"

Runs(inds, thrown, P) ==
    /\ EM!TypeInv /\ EM!RunInv(inds, thrown)
    /\ P \in [Inos -> Seq(EntNames)]
    /\ Mem /\ OnDisk /\ Inodes(P) /\ DirsOf(P)
    /\ UsedOnce /\ MappedOnce /\ NoInode /\ Prog(P)

Active(inds, thrown, P) ==
    EM!BP!IInv /\ phase = "run" /\ AllFormed /\ NoSuper /\ Runs(inds, thrown, P)

(* Of what is complete: the superblock is the last block, and the rest is   *)
(* as it was before.                                                        *)
InodesThere ==
    LET s == mapped[TARFS_FREE_INO]
    IN  /\ s \in Seq(Nat) /\ inodeNum <= Len(s) /\ s[1] = orgblks /\ s[2] = orgblks + 1
        /\ \A i \in 1..inodeNum : s[i] \in orgblks..blks-2 /\ disk[s[i]].kind = "dinode"
ListsThere == \A m \in Managers : HasFree(m) => \E e \in orgblks..blks-2 : Chain(m, e)

Ended(inds) ==
    /\ ins = NoFrame /\ orgblks \in Nat /\ blks \in Nat /\ inodeNum \in Nat /\ inodeNum > 1
    /\ EM!Whole(inds, TARFS_FREE_INO)
    /\ MapCore[TARFS_FREE_INO] = MapOf(TARFS_FREE_INO, DiOf(core["free"]))
    /\ disk[orgblks] = Dinode(core["free"]) /\ core["free"] \in Obj12
    /\ Sb.kind = "super" /\ Sb.tarfs_size = blks - orgblks /\ Sb.tarfs_inodes = inodeNum
    /\ Sb.tarfs_flist = head /\ Sb.tarfs_free = orgblks /\ Sb.tarfs_root = orgblks + 1
    /\ InodesThere /\ ListsThere

IInv ==
    /\ EM!BP!IInv
    /\ AllFormed
    /\ phase # "done" => NoSuper
    /\ phase = "done" => \E inds : Ended(inds)
    /\ phase = "run" => \E inds, thrown, P : Runs(inds, thrown, P)
-----------------------------------------------------------------------------
(* What ExtentMap assumes of its constants.                                 *)
LEMMA Given ==
    /\ {"dir", "dinode"} \subseteq Managers
    /\ EM!TARFS_FREE_INO \notin 1..MaxBlks
    /\ MaxBlks \in Nat \ {0}
BY ManagersAssumption DEF EM!TARFS_FREE_INO

(* Numbers, as ExtentMapProofs has them.                                    *)
LEMMA Least ==
    ASSUME NEW T \in SUBSET Nat, T # {}
    PROVE  \E x \in T : \A y \in T : x <= y
BY EM!Least, Given, BulksAssumption, IndExtAssumption

LEMMA UpTo ==
    ASSUME NEW n \in Nat, NEW T, 0 \in T,
           \A i \in 1..n : i - 1 \in T => i \in T
    PROVE  0..n \subseteq T
BY EM!UpTo, Given, BulksAssumption, IndExtAssumption

LEMMA InosAre == EM!Handles = Inos /\ (1..MaxBlks) \union {TARFS_FREE_INO} = Inos
BY Given DEF EM!Handles, EM!TARFS_FREE_INO, TARFS_FREE_INO, Inos

LEMMA FrameSeen ==
    ASSUME Mem
    PROVE  /\ MapIns = EM!NoFrame <=> ins = NoFrame
           /\ ins # NoFrame => /\ MapIns.at = ins.at /\ MapIns.de = ins.de
                               /\ MapIns.obj = core[ins.obj].ino
                               /\ MapIns.ind_off = ins.ind_off /\ MapIns.new = ins.new
                               /\ (MapIns.obj = 0 <=> ins.obj = "free")
                               /\ ins.obj \in Handles
<1>1. EM!NoFrame = NoFrame /\ NoFrame.at = "none"
  BY DEF EM!NoFrame, NoFrame
<1>2. ASSUME ins # NoFrame
      PROVE  /\ MapIns.at = ins.at /\ MapIns.de = ins.de
             /\ MapIns.obj = core[ins.obj].ino
             /\ MapIns.ind_off = ins.ind_off /\ MapIns.new = ins.new
             /\ ins.at # "none" /\ ins.obj \in Handles
  BY <1>2 DEF Mem, Frames, MapIns
<1>3. ASSUME ins # NoFrame PROVE MapIns.obj = 0 <=> ins.obj = "free"
  <2>1. Loaded(ins.obj) /\ ins.obj \in Handles /\ "free" \in Handles
    BY <1>2, <1>3 DEF Mem, Handles
  <2>2. core[ins.obj].ino \in 0..inodeNum-1
    BY <2>1 DEF Mem
  <2>3. inodeNum > 0 => core["free"].ino = 0
    BY DEF Mem
  <2>4. inodeNum > 0
    BY <2>2 DEF Mem
  <2> QED
    BY <1>2, <1>3, <2>1, <2>2, <2>3, <2>4 DEF Mem, Loaded
<1> QED
  BY <1>1, <1>2, <1>3 DEF MapIns

LEMMA DinodesSeen == ASSUME Mem PROVE EM!Dinodes = Dinodes
BY FrameSeen DEF EM!Dinodes, Dinodes, EM!TARFS_FREE_INO, TARFS_FREE_INO, EM!Grown, Grown

(* The state as the block layer and the maps have it.                       *)
LEMMA StateIs ==
    ASSUME NEW inds, NEW thrown, NEW P, Active(inds, thrown, P)
    PROVE  /\ EM!Alive(inds, thrown)
           /\ orgblks \in Nat /\ blks \in Nat /\ orgblks <= blks /\ blks <= MaxBlks
           /\ DOMAIN disk = 0..blks-1
           /\ head \in [Managers -> Nat \union {TARBLK_NONE}]
           /\ used \in [Managers -> SUBSET (orgblks..blks-1)]
           /\ {"dir", "iex", "dinode"} \subseteq Managers
           /\ inodeNum \in Nat /\ mapped \in [Inos -> Seq(Nat)] /\ MaxBlks \in Nat
           /\ Inos = 0..MaxBlks
           /\ Mem /\ OnDisk /\ Inodes(P) /\ DirsOf(P) /\ UsedOnce /\ MappedOnce /\ NoInode
           /\ Prog(P) /\ phase = "run" /\ P \in [Inos -> Seq(EntNames)]
<1>1. EM!Alive(inds, thrown)
  BY DEF Active, Runs, EM!Alive
<1>2. /\ orgblks \in Nat /\ blks \in Nat /\ orgblks <= blks
      /\ DOMAIN disk = 0..blks-1
      /\ head \in [Managers -> Nat \union {EM!TARBLK_NONE}]
      /\ used \in [Managers -> SUBSET (orgblks..blks-1)]
      /\ {"dir", "iex", "dinode"} \subseteq Managers
      /\ mapped \in [EM!Handles -> Seq(Nat)]
  BY <1>1, Given, BulksAssumption, IndExtAssumption, EM!AliveIs
<1>3. blks <= MaxBlks
  BY Given, BulksAssumption, IndExtAssumption, EM!FileIs DEF Active
<1> QED
  BY <1>1, <1>2, <1>3, InosAre, Given DEF Active, Runs, Mem, EM!TARBLK_NONE, TARBLK_NONE, Inos

(* Blocks of maps and dinodes were handed out, and are each in one place.   *)
LEMMA MapsAre ==
    ASSUME NEW inds, NEW thrown, NEW P, Active(inds, thrown, P)
    PROVE  /\ \A i \in 1..MaxBlks : \A k \in 1..Len(mapped[i]) :
                 mapped[i][k] \in used["dir"] /\ mapped[i][k] \in 0..blks-1
           /\ \A i \in Inos : EM!Ascends(mapped[i])
           /\ Dinodes \in Seq(Nat) /\ Len(Dinodes) \in Nat /\ inodeNum <= Len(Dinodes)
           /\ \A i \in 1..inodeNum : Dinodes[i] \in used["dinode"] /\ Dinodes[i] \in 0..blks-1
           /\ \A i, j \in 1..Len(Dinodes) : i < j => Dinodes[i] < Dinodes[j]
           /\ \A i \in 1..Len(Dinodes) : Dinodes[i] < blks
<1>1. /\ EM!Alive(inds, thrown) /\ EM!GrownInv /\ EM!InodeInv /\ EM!Dinodes = Dinodes
      /\ MapIns \in EM!Frames <=> ins # NoFrame
  <2>1. EM!Alive(inds, thrown) /\ Mem
    BY StateIs
  <2>2. MapIns \in EM!Frames <=> MapIns # EM!NoFrame
    BY <2>1, Given, BulksAssumption, IndExtAssumption, EM!AliveIs
  <2> QED
    BY <2>1, <2>2, FrameSeen, DinodesSeen DEF EM!Alive, EM!RunInv
<1>2. /\ used["dir"] \subseteq 0..blks-1 /\ used["dinode"] \subseteq 0..blks-1
      /\ orgblks \in Nat /\ blks \in Nat /\ mapped \in [Inos -> Seq(Nat)] /\ TARFS_FREE_INO \in Inos
      /\ inodeNum \in Nat
  BY StateIs DEF TARFS_FREE_INO
<1>3. ASSUME NEW i \in 1..MaxBlks, NEW k \in 1..Len(mapped[i])
      PROVE  mapped[i][k] \in used["dir"] /\ mapped[i][k] \in 0..blks-1
  BY <1>1, <1>2 DEF EM!GrownInv
<1>4. \A i \in Inos : EM!Ascends(mapped[i]) /\ EM!Below(mapped[i], blks)
  BY <1>1, InosAre DEF EM!GrownInv
<1>5. Dinodes \in Seq(Nat)
  BY <1>1, Given, BulksAssumption, IndExtAssumption, EM!DinodesIs
<1>6. Len(Dinodes) \in Nat /\ inodeNum <= Len(Dinodes)
  BY <1>1, <1>5 DEF EM!InodeInv
<1>7. ASSUME NEW i \in 1..inodeNum PROVE Dinodes[i] \in used["dinode"] /\ Dinodes[i] \in 0..blks-1
  BY <1>1, <1>2 DEF EM!InodeInv
<1>8. /\ \A i, j \in 1..Len(Dinodes) : i < j => Dinodes[i] < Dinodes[j]
      /\ \A i \in 1..Len(Dinodes) : Dinodes[i] < blks
  <2>1. CASE ~(ins # NoFrame /\ ins.obj = "free")
    BY <1>2, <1>4, <2>1 DEF Dinodes, EM!Ascends, EM!Below
  <2>2. CASE ins # NoFrame /\ ins.obj = "free"
    <3> DEFINE s == mapped[TARFS_FREE_INO]
               t == s \o Grown(ins.de)
    <3>1. /\ MapIns.obj = TARFS_FREE_INO /\ MapIns.de = ins.de /\ MapIns \in EM!Frames
          /\ MapIns # EM!NoFrame
      BY <1>1, <2>2, FrameSeen, StateIs DEF TARFS_FREE_INO
    <3>2. /\ ins.de \in EM!Extents /\ EM!Below(s, ins.de.de_blkno)
          /\ ins.de.de_blkno + ins.de.de_nblks <= blks
      BY <1>1, <3>1 DEF EM!Frames, EM!GrownInv
    <3>3. PICK z \in Nat, b \in Nat, n \in Nat : z = Len(s) /\ b = ins.de.de_blkno /\ n = ins.de.de_nblks
      BY <1>2, <3>2 DEF EM!Extents
    <3>4. EM!Grown(ins.de) = Grown(ins.de) /\ s \in Seq(Nat)
      BY <1>2 DEF EM!Grown, Grown
    <3>5. /\ Len(t) = z + n
          /\ \A i \in 1..z : t[i] = s[i]
          /\ \A i \in 1..n : t[z + i] = b + i - 1
      <4>1. PICK u : u = s \o EM!Grown(ins.de)
        OBVIOUS
      <4>2. /\ Len(u) = Len(s) + ins.de.de_nblks
            /\ \A i \in 1..Len(s) : u[i] = s[i]
            /\ \A i \in 1..ins.de.de_nblks : u[Len(s) + i] = ins.de.de_blkno + i - 1
        BY <3>2, <3>4, <4>1, Given, BulksAssumption, IndExtAssumption, EM!GrownIs
      <4>3. t = u
        BY <3>4, <4>1
      <4> HIDE DEF s, t
      <4> QED
        BY <3>3, <4>2, <4>3
    <3>6. /\ \A i \in 1..z : s[i] \in Nat /\ s[i] < b
          /\ \A i, j \in 1..z : i < j => s[i] < s[j]
      <4>1. EM!Ascends(s) /\ s \in Seq(Nat)
        BY <1>2, <1>4
      <4> HIDE DEF s
      <4> QED
        BY <3>2, <3>3, <4>1 DEF EM!Below, EM!Ascends
    <3> HIDE DEF s, t
    <3>7. ASSUME NEW i \in 1..z+n
          PROVE  \/ i \in 1..z /\ t[i] = s[i] /\ s[i] < b /\ s[i] \in Nat
                 \/ i - z \in 1..n /\ t[i] = b + (i - z) - 1
      <4>1. CASE i <= z
        <5>1. i \in 1..z
          BY <4>1
        <5> QED
          BY <3>5, <3>6, <5>1
      <4>2. CASE i > z
        <5>1. i - z \in 1..n /\ z + (i - z) = i
          BY <4>2
        <5> QED
          BY <3>5, <5>1
      <4> QED
        BY <4>1, <4>2
    <3>8. ASSUME NEW i \in 1..z+n, NEW j \in 1..z+n, i < j PROVE t[i] < t[j]
      <4>1. CASE j \in 1..z
        BY <3>5, <3>6, <3>8, <4>1
      <4>2. CASE j - z \in 1..n
        BY <3>7, <3>8, <4>2
      <4> QED
        BY <3>7, <4>1, <4>2
    <3>9. ASSUME NEW i \in 1..z+n PROVE t[i] < blks
      <4>1. b + n <= blks /\ blks \in Nat
        BY <1>2, <3>2, <3>3
      <4> QED
        BY <3>7, <3>9, <4>1
    <3>10. Dinodes = t
      BY <2>2 DEF Dinodes, t, s
    <3> QED
      BY <3>5, <3>8, <3>9, <3>10
  <2> QED
    BY <2>1, <2>2
<1> QED
  BY <1>3, <1>4, <1>5, <1>6, <1>7, <1>8

LEMMA InosFit ==
    ASSUME NEW inds, NEW thrown, NEW P, Active(inds, thrown, P)
    PROVE  inodeNum <= MaxBlks
<1> DEFINE T == {0} \union {i \in 1..Len(Dinodes) : i - 1 <= Dinodes[i]}
<1>1. /\ Dinodes \in Seq(Nat) /\ Len(Dinodes) \in Nat /\ inodeNum <= Len(Dinodes)
      /\ \A i, j \in 1..Len(Dinodes) : i < j => Dinodes[i] < Dinodes[j]
      /\ \A i \in 1..Len(Dinodes) : Dinodes[i] < blks /\ Dinodes[i] \in Nat
      /\ blks \in Nat /\ MaxBlks \in Nat /\ blks <= MaxBlks /\ inodeNum \in Nat
  BY MapsAre, StateIs
<1>2. ASSUME NEW i \in 1..Len(Dinodes), i - 1 \in T PROVE i \in T
  <2>1. CASE i = 1
    BY <1>1, <2>1
  <2>2. CASE i # 1
    <3>1. i - 1 \in 1..Len(Dinodes) /\ i - 2 <= Dinodes[i - 1] /\ Dinodes[i - 1] < Dinodes[i]
      BY <1>1, <1>2, <2>2
    <3> QED
      BY <1>1, <3>1
  <2> QED
    BY <2>1, <2>2
<1> HIDE DEF T
<1>3. 0 \in T
  BY DEF T
<1>4. 0..Len(Dinodes) \subseteq T
  BY <1>1, <1>2, <1>3, UpTo
<1>5. CASE Len(Dinodes) = 0
  BY <1>1, <1>5
<1>6. CASE Len(Dinodes) # 0
  <2>1. Len(Dinodes) \in T /\ Len(Dinodes) \in 1..Len(Dinodes)
    BY <1>1, <1>4, <1>6
  <2>2. Len(Dinodes) - 1 <= Dinodes[Len(Dinodes)]
    BY <1>6, <2>1 DEF T
  <2> QED
    BY <1>1, <2>1, <2>2
<1> QED
  BY <1>5, <1>6
-----------------------------------------------------------------------------
(* The inodes through a step.                                               *)
LEMMA HeldIs ==
    ASSUME NEW c, NEW n, NEW bs, NEW f, NEW h \in Handles,
           \A g \in Handles : c[g].ino = c[h].ino => g = h
    PROVE  LatestIn(c, n, bs, f, c[h].ino) = DiOf(c[h])
<1>1. PICK i : i = c[h].ino
  OBVIOUS
<1>2. PICK g \in Handles : g = CHOOSE x \in Handles : c[x].ino = i
  BY <1>1
<1>3. c[g].ino = i
  BY <1>1, <1>2
<1>4. g = h
  BY <1>1, <1>3
<1> QED
  BY <1>1, <1>2, <1>4 DEF LatestIn

LEMMA LatestStays ==
    ASSUME NEW c, NEW n \in Nat, NEW bs, NEW f, NEW bs2, NEW f2, NEW i \in Nat,
           i < n => (\E h \in Handles : c[h].ino = i) \/ f2[bs2[i + 1]] = f[bs[i + 1]]
    PROVE  LatestIn(c, n, bs2, f2, i) = LatestIn(c, n, bs, f, i)
<1>1. CASE \E h \in Handles : c[h].ino = i
  BY <1>1 DEF LatestIn
<1>2. CASE ~\E h \in Handles : c[h].ino = i
  BY <1>2 DEF LatestIn
<1> QED
  BY <1>1, <1>2

(* An object is changed, loaded or made.                                    *)
Changes(c, n, bs, f, n2, bs2, f2, h, o, i) ==
    /\ DOMAIN c = Handles /\ o.ino \in Nat /\ (n2 = n + 1 => o.ino = n)
    /\ c[h].ino \in {-1, o.ino} /\ \A g \in Handles : g # h => c[g].ino # o.ino
    /\ \A g, k \in Handles : c[g].ino # -1 /\ c[g].ino = c[k].ino => g = k
    /\ i < n => i = o.ino \/ (\E g \in Handles : c[g].ino = i) \/ f2[bs2[i + 1]] = f[bs[i + 1]]

Changed(c, n, bs, f, n2, bs2, f2, h, o, i) ==
    LatestIn([c EXCEPT ![h] = o], n2, bs2, f2, i)
        = IF i = o.ino THEN DiOf(o) ELSE LatestIn(c, n, bs, f, i)

LEMMA LatestChanges ==
    ASSUME NEW c, NEW n \in Nat, NEW bs, NEW f, NEW n2 \in {n, n + 1}, NEW bs2, NEW f2,
           NEW h \in Handles, NEW o, NEW i \in Nat, Changes(c, n, bs, f, n2, bs2, f2, h, o, i)
    PROVE  Changed(c, n, bs, f, n2, bs2, f2, h, o, i)
<1> USE DEF Changes, Changed
<1>1. PICK d : d = [c EXCEPT ![h] = o]
  OBVIOUS
<1>2. d[h] = o /\ \A g \in Handles : g # h => d[g] = c[g]
  BY <1>1
<1>3. CASE i = o.ino
  <2>1. \A g \in Handles : d[g].ino = d[h].ino => g = h
    BY <1>2
  <2>2. LatestIn(d, n2, bs2, f2, d[h].ino) = DiOf(d[h])
    BY <2>1, HeldIs
  <2> QED
    BY <1>1, <1>2, <1>3, <2>2
<1>4. CASE i # o.ino
  <2>1. c[h].ino # i /\ d[h].ino # i
    BY <1>2, <1>4
  <2>2. CASE \E g \in Handles : c[g].ino = i
    <3>1. PICK g \in Handles : c[g].ino = i
      BY <2>2
    <3>2. g # h /\ d[g] = c[g]
      BY <1>2, <2>1, <3>1
    <3>3. \A k \in Handles : c[k].ino = c[g].ino => k = g
      BY <3>1
    <3>4. \A k \in Handles : d[k].ino = d[g].ino => k = g
      BY <1>2, <2>1, <3>1, <3>2, <3>3
    <3>5. LatestIn(d, n2, bs2, f2, d[g].ino) = DiOf(d[g])
      BY <3>4, HeldIs
    <3>6. LatestIn(c, n, bs, f, c[g].ino) = DiOf(c[g])
      BY <3>3, HeldIs
    <3> QED
      BY <1>1, <1>4, <3>1, <3>2, <3>5, <3>6
  <2>3. CASE ~\E g \in Handles : c[g].ino = i
    <3>1. ~\E g \in Handles : d[g].ino = i
      BY <1>2, <2>1, <2>3
    <3>2. i < n2 <=> i < n
      BY <1>4
    <3> QED
      BY <1>1, <1>4, <2>3, <3>1, <3>2 DEF LatestIn
  <2> QED
    BY <2>2, <2>3
<1> QED
  BY <1>3, <1>4

LEMMA DinodeIs ==
    ASSUME NEW o \in Obj12
    PROVE  /\ Dinode(o) = [kind |-> "dinode", di |-> DiOf(o)] /\ DiOf(o) \in Di
           /\ Dinode(o) \in [kind : {"dinode"}, di : Di]
<1>1. [f \in DinodeFields |-> o[f]] = DiOf(o)
  BY DEF DinodeFields, DiOf
<1>2. DiOf(o) \in Di
  BY DEF DiOf, Di, Obj12
<1> QED
  BY <1>1, <1>2 DEF Dinode

LEMMA DiOfIs ==
    ASSUME NEW o
    PROVE  /\ DiOf(o).di_mode = o.di_mode /\ DiOf(o).di_nlink = o.di_nlink
           /\ DiOf(o).di_size = o.di_size /\ DiOf(o).di_blocks = o.di_blocks
           /\ DiOf(o).di_header = o.di_header
           /\ DiOf(o).di_nExtents = o.di_nExtents /\ DiOf(o).di_directExtent = o.di_directExtent
           /\ DiOf(o).di_rootIndExt = o.di_rootIndExt
BY DEF DiOf

LEMMA LatestMem ==
    ASSUME Mem, NEW h \in Handles, Loaded(h)
    PROVE  Latest(core[h].ino) = DiOf(core[h]) /\ core[h] \in Obj12 /\ core[h].ino \in 0..inodeNum-1
<1>1. \A g \in Handles : core[g].ino = core[h].ino => g = h
  BY DEF Mem
<1>2. LatestIn(core, inodeNum, Dinodes, disk, core[h].ino) = DiOf(core[h])
  BY <1>1, HeldIs
<1>3. core[h] \in Obj12 /\ core[h].ino \in 0..inodeNum-1
  BY DEF Mem
<1> QED
  BY <1>2, <1>3 DEF Latest

LEMMA LatestDisk ==
    ASSUME NEW i, i < inodeNum, ~InMem(i)
    PROVE  Latest(i) = disk[Dinodes[i + 1]].di
BY DEF Latest, LatestIn, InMem

LEMMA LatestType ==
    ASSUME Mem, OnDisk, NEW i \in 0..inodeNum-1
    PROVE  Latest(i) \in Di
<1>1. CASE InMem(i)
  <2>1. PICK h \in Handles : core[h].ino = i
    BY <1>1 DEF InMem
  <2>2. Loaded(h)
    BY <2>1 DEF Loaded, Mem
  <2> QED
    BY <2>1, <2>2, LatestMem, DinodeIs
<1>2. CASE ~InMem(i)
  <2>1. i # 0 /\ i # 1
    <3>1. "free" \in Handles /\ "root" \in Handles /\ inodeNum \in Nat
      BY DEF Handles, Mem
    <3> QED
      BY <1>2, <3>1 DEF Mem, InMem
  <2>2. i \in 2..inodeNum-1
    BY <2>1 DEF Mem
  <2>3. disk[Dinodes[i + 1]] \in [kind : {"dinode"}, di : Di]
    BY <1>2, <2>2 DEF OnDisk
  <2>4. Latest(i) = disk[Dinodes[i + 1]].di
    BY <1>2, LatestDisk DEF Mem
  <2> QED
    BY <2>3, <2>4
<1> QED
  BY <1>1, <1>2

LEMMA CoreKept ==
    ASSUME \A i \in Inos : MapOf(i, Latest(i))' = MapOf(i, Latest(i))
    PROVE  MapCore' = MapCore
BY InosAre DEF MapCore
(* Nothing above inodeNum has a map or an object.                           *)
LEMMA LatestNone ==
    ASSUME Mem, NEW i \in Nat, i >= inodeNum
    PROVE  Latest(i) = DiOf(NoObject) /\ ~InMem(i)
<1>1. ASSUME NEW h \in Handles, core[h].ino = i PROVE FALSE
  <2>1. i # -1
    OBVIOUS
  <2>2. core[h].ino \in 0..inodeNum-1
    BY <1>1, <2>1 DEF Mem, Loaded
  <2>3. inodeNum \in Nat
    BY DEF Mem
  <2> QED
    BY <1>1, <2>2, <2>3
<1>2. ~(i < inodeNum)
  BY DEF Mem
<1> QED
  BY <1>1, <1>2 DEF Latest, LatestIn, InMem

-----------------------------------------------------------------------------
(* Blocks are handed out as ExtentMap's clients get them.                   *)
LEMMA SameAlloc ==
    ASSUME NEW m
    PROVE  /\ allocBlock(m) <=> EM!allocBlock(m)
           /\ Fits(m) <=> EM!Fits(m)
           /\ HasFree(m) <=> EM!HasFree(m)
           /\ NextBlock(m) = EM!NextBlock(m)
BY DEF allocBlock, EM!allocBlock, Fits, EM!Fits, HasFree, EM!HasFree, NextBlock, EM!NextBlock,
   TARBLK_NONE, EM!TARBLK_NONE, Refill, EM!Refill, PopFree, EM!PopFree, HandOut, EM!HandOut,
   writeBlock, EM!writeBlock, FreeChunk, EM!FreeChunk, Free, EM!Free

Taken(m, b) ==
    /\ b = NextBlock(m) /\ b \in Nat /\ orgblks <= b /\ b < blks'
    /\ \A k \in Managers : b \notin used[k]
    /\ used' = [used EXCEPT ![m] = @ \union {b}]
    /\ blks' \in Nat /\ blks <= blks' /\ orgblks' = orgblks
    /\ DOMAIN disk' = 0..blks'-1
    /\ \A c \in 0..blks-1 : disk'[c] = disk[c]
    /\ \A c \in blks..blks'-1 : disk'[c].kind = "free"
    /\ IF HasFree(m) THEN UNCHANGED <<blks, disk>> ELSE b = blks

LEMMA TakenIs ==
    ASSUME NEW inds, NEW thrown, NEW P, Active(inds, thrown, P),
           phase' = phase, NEW m \in Managers, Fits(m), allocBlock(m)
    PROVE  EM!BP!Alloc(m) /\ \E b \in Nat : Taken(m, b)
<1>1. EM!Alive(inds, thrown) /\ EM!Fits(m) /\ EM!allocBlock(m)
  BY StateIs, SameAlloc
<1>2. EM!BP!Alloc(m) /\ \E b \in Nat : EM!Allocs(m, b)
  BY <1>1, Given, BulksAssumption, IndExtAssumption, EM!AllocIs
<1>3. PICK b \in Nat : EM!Allocs(m, b)
  BY <1>2
<1>4. /\ b = NextBlock(m) /\ b \in Nat /\ orgblks <= b /\ b < blks'
      /\ \A k \in Managers : b \notin used[k]
      /\ blks' \in Nat /\ blks <= blks'
      /\ \A c \in 0..blks-1 : disk'[c] = disk[c]
  BY <1>3, SameAlloc DEF EM!Allocs
<1>5. used' = [used EXCEPT ![m] = @ \union {b}] /\ orgblks' = orgblks
  BY <1>4 DEF allocBlock, HandOut
<1>6. blks \in Nat /\ DOMAIN disk = 0..blks-1
  BY StateIs
<1>7. CASE HasFree(m)
  <2>1. UNCHANGED <<blks, disk>>
    BY <1>7 DEF HasFree, allocBlock, Refill, PopFree
  <2>2. blks' = blks /\ DOMAIN disk' = 0..blks'-1 /\ \A c \in blks..blks'-1 : FALSE
    BY <1>6, <2>1
  <2>3. Taken(m, b)
    BY <1>4, <1>5, <1>6, <1>7, <2>1, <2>2 DEF Taken
  <2> QED
    BY <1>2, <2>3
<1>8. CASE ~HasFree(m)
  <2>1. Refill(m) /\ b = blks
    BY <1>4, <1>8 DEF HasFree, allocBlock, Refill, PopFree, NextBlock
  <2>2. PICK n \in Nat : n = Bulks[m] /\ n >= 2
    BY BulksAssumption
  <2>3. PICK buf : buf = FreeChunk(blks, n)
    OBVIOUS
  <2>4. writeBlock(buf, blks, n)
    BY <2>1, <2>2, <2>3 DEF Refill
  <2>5. blks' = blks + n
    BY <1>6, <2>2, <2>4 DEF writeBlock
  <2>6. disk' = [c \in 0..blks'-1 |-> IF c \in blks..blks+n-1 THEN buf[c - blks] ELSE disk[c]]
    BY <2>4 DEF writeBlock
  <2>7. DOMAIN disk' = 0..blks'-1
    BY <2>6
  <2>8. ASSUME NEW c \in blks..blks'-1 PROVE disk'[c].kind = "free"
    <3>1. c \in 0..blks'-1 /\ c \in blks..blks+n-1 /\ c - blks \in 0..n-1
      BY <1>6, <2>2, <2>5
    <3>2. disk'[c] = buf[c - blks]
      BY <2>6, <3>1
    <3>3. \E x : buf[c - blks] = Free(x)
      BY <2>3, <3>1 DEF FreeChunk
    <3>4. PICK x : buf[c - blks] = Free(x)
      BY <3>3
    <3> QED
      BY <3>2, <3>4 DEF Free
  <2>9. Taken(m, b)
    BY <1>4, <1>5, <1>8, <2>1, <2>7, <2>8 DEF Taken
  <2> QED
    BY <1>2, <2>9
<1> QED
  BY <1>7, <1>8

-----------------------------------------------------------------------------
(* Reading through a map.                                                   *)
MapFields(d, o) ==
    /\ d.di_nExtents = o.di_nExtents /\ d.di_directExtent = o.di_directExtent
    /\ d.di_rootIndExt = o.di_rootIndExt

IndsOf(n, root) ==
    LET ind_off[i \in 1..n] ==
            IF i = 1 THEN root
            ELSE LET b == ind_off[i-1] IN IF b = TARBLK_NONE THEN b ELSE disk[b].ie_next
    IN  IF n > MAX_DINODE_DIRECT
        THEN [j \in {i \in 1..n : ind_off[i] # TARBLK_NONE} |-> ind_off[j]]
        ELSE <<>>

LEMMA SameBlock ==
    ASSUME NEW d, NEW o, MapFields(d, o), NEW off
    PROVE  GetBlock(d, off) = EM!GetBlock(o, off)
<1>1. IndBlocks(d) = EM!IndBlocks(o)
  <2>1. IndBlocks(d) = IndsOf(d.di_nExtents, d.di_rootIndExt)
    BY DEF IndBlocks, IndsOf
  <2>2. EM!IndBlocks(o) = IndsOf(o.di_nExtents, o.di_rootIndExt)
    BY DEF EM!IndBlocks, IndsOf, TARBLK_NONE, EM!TARBLK_NONE
  <2> QED
    BY <2>1, <2>2 DEF MapFields
<1>2. PICK inds : inds = IndBlocks(d)
  OBVIOUS
<1>3. \A exts : /\ Finds(exts, off) <=> EM!Finds(exts, off)
                /\ Translate(exts, off) = EM!Translate(exts, off)
  BY Zenon DEF Finds, EM!Finds, Covers, EM!Covers, Translate, EM!Translate
<1>4. SearchIndirect(inds, off) = EM!SearchIndirect(inds, off)
  BY Zenon DEF SearchIndirect, EM!SearchIndirect, TARBLK_NONE, EM!TARBLK_NONE,
     Finds, EM!Finds, Covers, EM!Covers, Translate, EM!Translate
<1>5. SearchIndirect(IndBlocks(d), off) = EM!SearchIndirect(EM!IndBlocks(o), off)
  BY <1>1, <1>2, <1>4
<1> QED
  BY <1>3, <1>5, Zenon DEF MapFields, GetBlock, EM!GetBlock

HasMap(i, di) == i = TARFS_FREE_INO \/ di.di_mode = "dir"

LEMMA BlocksAre ==
    ASSUME NEW inds, NEW thrown, NEW P, Active(inds, thrown, P),
           NEW i \in Inos, ins = NoFrame \/ MapIns.obj # i, HasMap(i, Latest(i)),
           NEW d, MapFields(d, Latest(i)), NEW off \in Nat
    PROVE  GetBlock(d, off) = IF off < Len(mapped[i]) THEN mapped[i][off + 1] ELSE TARBLK_NONE
<1>1. EM!Alive(inds, thrown) /\ i \in EM!Handles /\ EM!Settled(i)
  BY StateIs, InosAre, FrameSeen DEF EM!Settled
<1>2. PICK o : o = MapCore[i]
  OBVIOUS
<1>3. EM!GetBlock(o, off) = IF off < Len(mapped[i]) THEN mapped[i][off + 1] ELSE TARBLK_NONE
  <2>1. EM!GetBlock(MapCore[i], off) = IF off < Len(mapped[i]) THEN mapped[i][off + 1] ELSE EM!TARBLK_NONE
    BY <1>1, Given, BulksAssumption, IndExtAssumption, EM!GetBlockIs
  <2> QED
    BY <1>2, <2>1 DEF EM!TARBLK_NONE, TARBLK_NONE
<1>4. o = MapOf(i, Latest(i))
  BY <1>2, InosAre DEF MapCore
<1>5. MapFields(d, o)
  BY <1>4 DEF HasMap, MapOf, MapFields
<1> QED
  BY <1>3, <1>5, SameBlock

(* A directory in memory, as it is read once the file is what it says.      *)
InHand(h) ==
    /\ h \in Handles /\ Loaded(h) /\ core[h].ino \in 1..inodeNum-1 /\ core[h].di_mode = "dir"
    /\ ins = NoFrame /\ pc \notin {"dots", "newBlock"}

LEMMA DirBlksAre ==
    ASSUME NEW inds, NEW thrown, NEW P, Active(inds, thrown, P), NEW h, InHand(h)
    PROVE  LET i == core[h].ino
           IN  /\ i \in 1..MaxBlks /\ DirBlks(core[h]) = mapped[i] /\ mapped[i] \in Seq(Nat)
               /\ Latest(i) = DiOf(core[h]) /\ core[h] \in Obj12
               /\ Len(mapped[i]) = core[h].di_blocks
               /\ \A k \in 1..Len(mapped[i]) : DirBlk(P, i, mapped[i][k])
<1> DEFINE d == core[h]
           i == d.ino
<1>1. Latest(i) = DiOf(d) /\ d \in Obj12 /\ i \in 0..inodeNum-1
  BY LatestMem, StateIs DEF InHand
<1>2. i \in 1..MaxBlks /\ i \in Inos
  <2>1. inodeNum <= MaxBlks /\ inodeNum \in Nat /\ MaxBlks \in Nat /\ Inos = 0..MaxBlks
    BY InosFit, StateIs
  <2> QED
    BY <2>1 DEF InHand
<1>3. mapped[i] \in Seq(Nat)
  BY <1>2, StateIs
<1>4. d.di_size = TAR_BLOCKSIZE * d.di_blocks /\ Len(mapped[i]) = d.di_blocks
  <2>1. InodeOf(P, i)
    BY StateIs DEF InHand, Inodes
  <2>2. Latest(i).di_mode = "dir" /\ Latest(i).di_size = d.di_size /\ Latest(i).di_blocks = d.di_blocks
    BY <1>1, DiOfIs DEF InHand
  <2>3. Extra(i) = 0
    BY DEF Extra, AtTarget, InHand
  <2>4. d.di_blocks \in Nat
    BY <1>1 DEF Obj12
  <2> QED
    BY <2>1, <2>2, <2>3, <2>4 DEF InodeOf
<1>5. DirBlks(d) = mapped[i]
  <2>1. PICK s : s = mapped[i]
    OBVIOUS
  <2>2. PICK n \in Nat : n = Len(s)
    BY <1>3, <2>1
  <2>3. d.di_size \div TAR_BLOCKSIZE = n
    BY <1>4, <2>1, <2>2 DEF TAR_BLOCKSIZE
  <2>4. ASSUME NEW k \in 1..n PROVE GetBlock(d, k - 1) = s[k]
    <3>1. k - 1 \in Nat /\ k - 1 < n /\ (k - 1) + 1 = k
      OBVIOUS
    <3>2. HasMap(i, Latest(i)) /\ MapFields(d, Latest(i))
      BY <1>1, DiOfIs DEF HasMap, MapFields, InHand
    <3> HIDE DEF i, d
    <3>3. \A off \in Nat : GetBlock(d, off) = IF off < Len(mapped[i]) THEN mapped[i][off + 1] ELSE TARBLK_NONE
      BY <1>2, <3>2, BlocksAre DEF InHand
    <3> QED
      BY <2>1, <2>2, <3>1, <3>3
  <2>5. DirBlks(d) = [k \in 1..n |-> GetBlock(d, k - 1)]
    BY <2>3 DEF DirBlks
  <2>6. DirBlks(d) = [k \in 1..n |-> s[k]]
    BY <2>4, <2>5
  <2>7. s = [k \in 1..n |-> s[k]]
    BY <1>3, <2>1, <2>2
  <2> QED
    BY <2>1, <2>6, <2>7
<1>6. ASSUME NEW k \in 1..Len(mapped[i]) PROVE DirBlk(P, i, mapped[i][k])
  <2>1. ~Pending(mapped[i][k])
    BY DEF Pending, InHand
  <2> QED
    BY <1>6, <2>1, StateIs DEF DirsOf, InHand
<1> QED
  BY <1>1, <1>2, <1>3, <1>4, <1>5, <1>6

(* The entries of the blocks a reader puts together.                        *)
LEMMA ConcatIs ==
    ASSUME NEW n \in Nat, NEW s
    PROVE  \E f : f = [k \in 0..n |-> IF k = 0 THEN <<>> ELSE f[k-1] \o s[k]]
<1> DEFINE Is(m, f) == f = [k \in 0..m |-> IF k = 0 THEN <<>> ELSE f[k-1] \o s[k]]
           T == {m \in 0..n : \E f : Is(m, f)}
<1>1. 0 \in T
  <2>1. Is(0, [k \in 0..0 |-> <<>>])
    OBVIOUS
  <2> HIDE DEF Is
  <2> QED
    BY <2>1
<1>2. ASSUME NEW m \in 1..n, m - 1 \in T PROVE m \in T
  <2>1. PICK f : Is(m - 1, f)
    BY <1>2
  <2> DEFINE g == [k \in 0..m |-> IF k = m THEN f[m-1] \o s[m] ELSE f[k]]
  <2>2. ASSUME NEW k \in 0..m PROVE g[k] = IF k = 0 THEN <<>> ELSE g[k-1] \o s[k]
    <3>1. CASE k = m
      <4>1. m - 1 \in 0..m /\ m - 1 # m /\ m # 0
        OBVIOUS
      <4> QED
        BY <3>1, <4>1
    <3>2. CASE k # m
      <4>1. k \in 0..m-1 /\ g[k] = f[k]
        BY <3>2
      <4>2. f[k] = IF k = 0 THEN <<>> ELSE f[k-1] \o s[k]
        BY <2>1, <4>1
      <4>3. k # 0 => k - 1 \in 0..m /\ k - 1 # m /\ g[k-1] = f[k-1]
        BY <4>1
      <4> QED
        BY <4>1, <4>2, <4>3
    <3> QED
      BY <3>1, <3>2
  <2>3. g = [k \in 0..m |-> g[k]]
    OBVIOUS
  <2> HIDE DEF g
  <2>4. Is(m, g)
    BY <2>2, <2>3
  <2> HIDE DEF Is
  <2> QED
    BY <2>4
<1> HIDE DEF T
<1>3. 0..n \subseteq T
  BY <1>1, <1>2, UpTo
<1>4. n \in T
  BY <1>3
<1> QED
  BY <1>4 DEF T

LEMMA EntsAre ==
    ASSUME NEW d, NEW E, NEW n \in Nat, n = Len(DirBlks(d)),
           \A k \in 1..n : disk[DirBlks(d)[k]].ents \in Seq(E)
    PROVE  DirEnts(d) \in Seq(E)
<1> DEFINE blk == DirBlks(d)
           Is(f) == f = [k \in 0..Len(blk) |-> IF k = 0 THEN <<>> ELSE f[k-1] \o disk[blk[k]].ents]
           upto == CHOOSE f : Is(f)
           s == [k \in 1..n |-> disk[blk[k]].ents]
           T == {m \in 0..n : upto[m] \in Seq(E)}
<1>1. DirEnts(d) = upto[n]
  BY DEF DirEnts
<1>2. Is(upto)
  <2>2. PICK f : f = [k \in 0..n |-> IF k = 0 THEN <<>> ELSE f[k-1] \o s[k]]
    <3> HIDE DEF s
    <3> QED
      BY ConcatIs
  <2>3. [k \in 0..n |-> IF k = 0 THEN <<>> ELSE f[k-1] \o s[k]]
          = [k \in 0..Len(blk) |-> IF k = 0 THEN <<>> ELSE f[k-1] \o disk[blk[k]].ents]
    <3>1. ASSUME NEW k \in 0..n PROVE (IF k = 0 THEN <<>> ELSE f[k-1] \o s[k])
             = (IF k = 0 THEN <<>> ELSE f[k-1] \o disk[blk[k]].ents)
      <4>1. k # 0 => s[k] = disk[blk[k]].ents
        OBVIOUS
      <4> HIDE DEF s
      <4> QED
        BY <4>1
    <3> HIDE DEF s
    <3> QED
      BY <3>1
  <2>4. Is(f)
    BY <2>2, <2>3
  <2> HIDE DEF Is
  <2> QED
    BY <2>4
<1> HIDE DEF upto
<1>3. 0 \in T
  BY <1>2
<1>4. ASSUME NEW m \in 1..n, m - 1 \in T PROVE m \in T
  <2>1. upto[m] = upto[m-1] \o disk[blk[m]].ents
    <3>1. m \in 0..Len(blk) /\ m # 0
      OBVIOUS
    <3> HIDE DEF blk
    <3> QED
      BY <1>2, <3>1, Zenon
  <2>2. upto[m-1] \in Seq(E) /\ disk[blk[m]].ents \in Seq(E)
    BY <1>4
  <2> HIDE DEF blk
  <2>3. upto[m] \in Seq(E)
    BY <2>1, <2>2
  <2> HIDE DEF upto
  <2>4. m \in 0..n
    OBVIOUS
  <2> QED
    BY <2>3, <2>4, Zenon
<1> HIDE DEF T
<1>5. 0..n \subseteq T
  BY <1>3, <1>4, UpTo
<1>6. n \in T
  BY <1>5
<1> QED
  BY <1>1, <1>6 DEF T

(* A name that is found is that of a record in one of the blocks.           *)
LEMMA EntryIs ==
    ASSUME NEW inds, NEW thrown, NEW P, Active(inds, thrown, P), NEW h, InHand(h),
           NEW name, Has(core[h], name)
    PROVE  \E k \in 1..Len(mapped[core[h].ino]) :
             LET es == disk[mapped[core[h].ino][k]].ents
             IN  \E q \in 1..Len(es) : es[q] = EntryOf(core[h], name) /\ es[q].d_name = name
<1> DEFINE d == core[h]
           s == mapped[d.ino]
           From(e, k) == \E q \in 1..Len(disk[s[k]].ents) : disk[s[k]].ents[q] = e
           E == {e \in Ents : \E k \in 1..Len(s) : From(e, k)}
<1>1. DirBlks(d) = s /\ Len(s) \in Nat /\ \A k \in 1..Len(s) : DirBlk(P, d.ino, s[k]) /\ s[k] \in 0..blks-1
  BY DirBlksAre, MapsAre
<1>2. ASSUME NEW k \in 1..Len(s) PROVE disk[s[k]].ents \in Seq(E)
  <2>1. disk[s[k]].ents \in Seq(Ents)
    <3>1. s[k] \in DOMAIN disk /\ disk[s[k]].kind = "dir"
      BY <1>1, StateIs, Zenon DEF DirBlk
    <3> QED
      BY <3>1, SMTT(30) DEF AllFormed, Active, Formed
  <2>2. PICK es : es = disk[s[k]].ents
    OBVIOUS
  <2>3. ASSUME NEW q \in 1..Len(es) PROVE es[q] \in E
    <3>1. es[q] \in Ents
      BY <2>1, <2>2
    <3>2. From(es[q], k)
      BY <2>2
    <3> HIDE DEF From
    <3> QED
      BY <3>1, <3>2
  <2> HIDE DEF E
  <2>4. es \in [1..Len(es) -> E] /\ Len(es) \in Nat
    BY <2>1, <2>2, <2>3, SMTT(30)
  <2>5. es \in Seq(E)
    BY <2>4
  <2> QED
    BY <2>2, <2>5
<1>3. DirEnts(d) \in Seq(E)
  <2> HIDE DEF E, s, d
  <2> QED
    BY <1>1, <1>2, EntsAre
<1>4. PICK es : es = DirEnts(d)
  OBVIOUS
<1>5. PICK j \in 1..Len(es) : es[j].d_name = name /\ es[j] = EntryOf(d, name)
  <2> DEFINE T == {j \in 1..Len(es) : es[j].d_name = name}
             Hit(j) == es[j].d_name = name /\ \A i \in 1..j-1 : es[i].d_name # name
  <2>1. es \in Seq(E) /\ DOMAIN es = 1..Len(es) /\ Len(es) \in Nat
    <3> HIDE DEF E
    <3> QED
      BY <1>3, <1>4
  <2>2. T # {} /\ T \in SUBSET Nat
    <3>1. \E j \in DOMAIN es : es[j].d_name = name
      BY <1>4 DEF Has
    <3> HIDE DEF E
    <3> QED
      BY <2>1, <3>1
  <2>3. PICK x \in T : \A y \in T : x <= y
    <3> HIDE DEF T
    <3> QED
      BY <2>2, Least
  <2>4. x \in DOMAIN es /\ Hit(x)
    <3>1. x \in 1..Len(es) /\ es[x].d_name = name /\ Len(es) \in Nat /\ DOMAIN es = 1..Len(es)
      <4> HIDE DEF E
      <4> QED
        BY <2>1
    <3>2. ASSUME NEW i \in 1..x-1, es[i].d_name = name PROVE FALSE
      <4>1. i \in 1..Len(es) /\ ~(x <= i)
        <5> HIDE DEF T, E
        <5> QED
          BY <3>1
      <4>2. i \in T
        BY <3>2, <4>1
      <4> HIDE DEF T, E
      <4> QED
        BY <2>3, <4>1, <4>2
    <3> HIDE DEF T, E
    <3> QED
      BY <3>1, <3>2
  <2>5. PICK z : z = CHOOSE j \in DOMAIN es : Hit(j)
    OBVIOUS
  <2>6. z \in DOMAIN es /\ Hit(z)
    <3> HIDE DEF Hit
    <3> QED
      BY <2>4, <2>5
  <2>7. EntryOf(d, name) = es[z]
    BY <1>4, <2>5 DEF EntryOf
  <2> QED
    BY <2>1, <2>6, <2>7, Zenon
<1>6. es[j] \in E
  <2> HIDE DEF E
  <2> QED
    BY <1>3, <1>4
<1>7. PICK k \in 1..Len(s) : From(es[j], k)
  <2> HIDE DEF From
  <2> QED
    BY <1>6, SMTT(30)
<1>8. PICK q \in 1..Len(disk[s[k]].ents) : disk[s[k]].ents[q] = es[j]
  BY <1>7, Zenon
<1> HIDE DEF E
<1> QED
  BY <1>5, <1>8, Zenon

-----------------------------------------------------------------------------
(* Where the program stands.                                                *)
LEMMA PcIs ==
    ASSUME NEW P, PcOf(P)
    PROVE  /\ pc = "init" => Booting /\ inodeNum = 0 /\ blks = orgblks /\ ~HasFree("dinode") /\ Quiet
           /\ pc = "allocRoot" => Booting /\ inodeNum = 1 /\ InsFree
           /\ pc = "dirInit" /\ cur = 0 => Booting /\ inodeNum = 2 /\ InsFree /\ New("root")
           /\ pc = "dots" /\ cur = 0 => Booting /\ inodeNum = 2 /\ New("root") /\ Target("root") /\ InsFor("root")
           /\ pc = "get" => NoneOpen /\ Quiet
           /\ pc = "lookup" => Adding(P) /\ ~Loaded("next") /\ Quiet
           /\ pc = "dirInit" /\ cur # 0 => Adding(P) /\ HasNext(P) /\ InsFree /\ New("next")
           /\ pc = "dots" /\ cur # 0 => Adding(P) /\ HasNext(P) /\ New("next") /\ Target("next") /\ InsFor("next")
           /\ pc = "addEntry" => Adding(P) /\ HasNext(P) /\ InsFree
           /\ pc = "newBlock" => Adding(P) /\ HasNext(P) /\ Target(dirh) /\ InsFor(dirh)
           /\ pc = "sync" => Adding(P) /\ HasNext(P) /\ Quiet
           /\ pc = "syncDir" => Adding(P) /\ HasNext(P) /\ Synced("next") /\ Quiet
           /\ pc = "syncRoot" => NoneOpen /\ Quiet
           /\ pc = "syncFree" => NoneOpen /\ Synced("root") /\ Quiet
           /\ pc = "super" => NoneOpen /\ Synced("root") /\ Synced("free") /\ Quiet
BY DEF PcOf

LEMMA AddingIs ==
    ASSUME NEW inds, NEW thrown, NEW P, Active(inds, thrown, P), Adding(P)
    PROVE  /\ cur \in Nat /\ cur # 0 /\ cur \in 1..Len(files) /\ Len(files) \in Nat
           /\ File.path \in Seq(DOMAIN NameLen) /\ Len(File.path) \in Nat
           /\ File.ftype \in STRING \ {"none"} /\ File.size \in Nat
           /\ comp \in Nat /\ comp \in 1..Len(File.path) /\ comp <= Len(File.path)
           /\ Name \in DOMAIN NameLen /\ Name \in EntNames /\ Name \notin Dots2
           /\ dirh \in {"root", "dir"} /\ dirh \in Handles /\ Loaded(dirh)
           /\ DirObj \in Obj12 /\ DirObj.ino \in 1..inodeNum-1 /\ DirObj.ino \in 1..MaxBlks
           /\ DirObj.di_mode = "dir" /\ Latest(DirObj.ino) = DiOf(DirObj)
           /\ P[DirObj.ino] = SubSeq(File.path, 1, comp - 1)
           /\ SubSeq(File.path, 1, comp) = Append(SubSeq(File.path, 1, comp - 1), Name)
           /\ SubSeq(File.path, 1, comp) \in Seq(EntNames)
<1>1. /\ files \in Archives /\ dirh \in {"root", "dir"} /\ Mem
      /\ inodeNum \in Nat /\ MaxBlks \in Nat /\ inodeNum <= MaxBlks
  BY StateIs, InosFit DEF Prog
<1>2. /\ files \in Seq([path : Seq(DOMAIN NameLen) \ {<<>>}, ftype : STRING \ {"none"}, size : Nat])
  BY <1>1, ArchivesAssumption
<1>3. cur \in 1..Len(files) /\ comp \in 1..Len(File.path) /\ Loaded(dirh) /\ DirObj.di_mode = "dir"
      /\ P[DirObj.ino] = SubSeq(File.path, 1, comp - 1)
  BY DEF Adding
<1>4. File \in [path : Seq(DOMAIN NameLen) \ {<<>>}, ftype : STRING \ {"none"}, size : Nat] /\ Len(files) \in Nat
  <2>1. PICK S : S = [path : Seq(DOMAIN NameLen) \ {<<>>}, ftype : STRING \ {"none"}, size : Nat]
    OBVIOUS
  <2>2. files \in Seq(S)
    BY <1>2, <2>1
  <2>3. File \in S /\ Len(files) \in Nat
    BY <1>3, <2>2 DEF File
  <2> QED
    BY <2>1, <2>3
<1>5. File.path \in Seq(DOMAIN NameLen) /\ File.ftype \in STRING \ {"none"} /\ File.size \in Nat
  BY <1>4
<1>6. Len(File.path) \in Nat /\ comp \in Nat /\ cur \in Nat /\ cur # 0 /\ comp <= Len(File.path)
  BY <1>3, <1>4, <1>5
<1>7. Name \in DOMAIN NameLen
  BY <1>3, <1>5, <1>6 DEF Name
<1>8. Name \in EntNames /\ Name \notin Dots2
  BY <1>7, NamesAssumption DEF EntNames, Dots2
<1>9. dirh \in Handles
  BY <1>1 DEF Handles
<1>10. DirObj \in Obj12 /\ DirObj.ino \in 0..inodeNum-1 /\ Latest(DirObj.ino) = DiOf(DirObj)
  BY <1>1, <1>3, <1>9, LatestMem DEF DirObj
<1>11. DirObj.ino # 0
  <2>1. core["free"].ino = 0 /\ "free" \in Handles
    BY <1>1, <1>10 DEF Mem, Handles
  <2>2. dirh # "free"
    BY <1>1
  <2> QED
    BY <1>1, <1>3, <1>9, <2>1, <2>2 DEF Mem, DirObj
<1>12. DirObj.ino \in 1..inodeNum-1 /\ DirObj.ino \in 1..MaxBlks
  BY <1>1, <1>10, <1>11
<1>13. SubSeq(File.path, 1, comp) = Append(SubSeq(File.path, 1, comp - 1), Name)
       /\ SubSeq(File.path, 1, comp) \in Seq(EntNames)
  <2>1. PICK s : s = File.path
    OBVIOUS
  <2>2. s \in Seq(DOMAIN NameLen) /\ Len(s) \in Nat /\ comp \in 1..Len(s) /\ Name = s[comp]
    BY <1>3, <1>5, <1>6, <2>1 DEF Name
  <2>3. SubSeq(s, 1, comp) = Append(SubSeq(s, 1, comp - 1), s[comp])
    BY <2>2
  <2>4. SubSeq(s, 1, comp) \in Seq(DOMAIN NameLen)
    BY <2>2
  <2>5. SubSeq(s, 1, comp) \in Seq(EntNames)
    BY <2>4 DEF EntNames
  <2> QED
    BY <2>1, <2>2, <2>3, <2>5
<1> QED
  BY <1>1, <1>3, <1>5, <1>6, <1>4, <1>7, <1>8, <1>9, <1>10, <1>12, <1>13

(* What a lookup finds.                                                     *)
LEMMA FoundIs ==
    ASSUME NEW inds, NEW thrown, NEW P, Active(inds, thrown, P), At("lookup"), Has(DirObj, Name)
    PROVE  LET n == Found.ino
           IN  /\ n \in DirObj.ino+1..inodeNum-1 /\ n \in 2..inodeNum-1 /\ n \in 2..MaxBlks
               /\ ~InMem(n) /\ P[n] = SubSeq(File.path, 1, comp)
               /\ Found \in Obj12 /\ DiOf(Found) = Latest(n) /\ Found.blkno = Dinodes[n + 1]
               /\ Found.ftype = Found.di_mode
<1>1. pc = "lookup" /\ ins = NoFrame /\ Adding(P) /\ ~Loaded("next")
  BY StateIs, PcIs DEF At, Prog
<1>2. InHand(dirh) /\ DirObj.ino \in 1..inodeNum-1 /\ Name \notin Dots2
  BY <1>1, AddingIs DEF InHand, DirObj
<1>3. PICK e : e = EntryOf(DirObj, Name)
  OBVIOUS
<1>4. PICK n : n = e.d_ino
  OBVIOUS
<1>5. n \in DirObj.ino+1..inodeNum-1 /\ P[n] = Append(P[DirObj.ino], Name) /\ e \in Ents
  <2>1. PICK k \in 1..Len(mapped[DirObj.ino]) :
           LET es == disk[mapped[DirObj.ino][k]].ents
           IN  \E q \in 1..Len(es) : es[q] = e /\ es[q].d_name = Name
    <3>1. InHand(dirh) /\ Has(core[dirh], Name) /\ DirObj = core[dirh]
      BY <1>2 DEF DirObj
    <3>2. \E k \in 1..Len(mapped[core[dirh].ino]) :
            LET es == disk[mapped[core[dirh].ino][k]].ents
            IN  \E q \in 1..Len(es) : es[q] = EntryOf(core[dirh], Name) /\ es[q].d_name = Name
      BY <3>1, EntryIs, SMTT(30)
    <3> QED
      BY <1>3, <3>1, <3>2, Zenon
  <2>2. PICK b : b = mapped[DirObj.ino][k]
    OBVIOUS
  <2>3. PICK q \in 1..Len(disk[b].ents) : disk[b].ents[q] = e /\ e.d_name = Name
    BY <2>1, <2>2
  <2>4. DirBlk(P, DirObj.ino, b) /\ b \in 0..blks-1
    BY <1>2, <2>2, DirBlksAre, MapsAre DEF DirObj
  <2>5. e.d_ino \in DirObj.ino+1..inodeNum-1 /\ P[e.d_ino] = Append(P[DirObj.ino], e.d_name)
    BY <1>2, <2>3, <2>4 DEF DirBlk
  <2>6. disk[b].ents \in Seq(Ents)
    <3>1. b \in DOMAIN disk /\ disk[b].kind = "dir"
      BY <2>4, StateIs DEF DirBlk
    <3> QED
      BY <3>1 DEF AllFormed, Active, Formed
  <2>7. e \in Ents
    BY <2>3, <2>6
  <2> QED
    BY <1>4, <2>3, <2>5, <2>7, SMTT(30)
<1>6. inodeNum \in Nat /\ MaxBlks \in Nat /\ inodeNum <= MaxBlks
  BY StateIs, InosFit
<1>7. n \in 2..inodeNum-1 /\ n \in 2..MaxBlks /\ n \in Inos /\ n \in Nat
  BY <1>2, <1>5, <1>6 DEF Inos
<1>8. ASSUME NEW h \in Handles, core[h].ino = n PROVE FALSE
  <2>1. h # "free" /\ h # "root"
    BY <1>6, <1>7, <1>8, StateIs DEF Mem
  <2>2. h # "next"
    BY <1>1, <1>7, <1>8 DEF Loaded
  <2>3. h = "dir"
    BY <2>1, <2>2 DEF Handles
  <2>4. Loaded("dir")
    BY <1>7, <1>8, <2>3 DEF Loaded
  <2>5. dirh = "dir"
    BY <1>1, <2>4 DEF Adding
  <2> QED
    BY <1>2, <1>5, <1>8, <2>3, <2>5 DEF DirObj
<1>9. GetBlock(core["free"], n) = Dinodes[n + 1]
  <2>1. Loaded("free") /\ core["free"].ino = 0
    BY <1>6, <1>7, StateIs DEF Mem, Loaded
  <2>2. Latest(0) = DiOf(core["free"])
    BY <2>1, StateIs, LatestMem DEF Handles
  <2>3. HasMap(0, Latest(0)) /\ MapFields(core["free"], Latest(0)) /\ 0 \in Inos
    BY <1>6, <2>2, DiOfIs DEF HasMap, TARFS_FREE_INO, MapFields, Inos
  <2>4. GetBlock(core["free"], n) = IF n < Len(mapped[0]) THEN mapped[0][n + 1] ELSE TARBLK_NONE
    BY <1>1, <1>7, <2>3, BlocksAre
  <2>5. Dinodes = mapped[0]
    BY <1>1 DEF Dinodes, TARFS_FREE_INO
  <2>6. n < Len(mapped[0])
    <3>1. inodeNum <= Len(Dinodes) /\ Len(Dinodes) \in Nat
      BY MapsAre
    <3> QED
      BY <1>6, <1>7, <2>5, <3>1
  <2> QED
    BY <2>4, <2>5, <2>6
<1>10. PICK b : b = Dinodes[n + 1]
  OBVIOUS
<1>11. Found = LoadInode(n, DirObj.ino, b)
  BY <1>3, <1>4, <1>9, <1>10 DEF Found, lookup, getInode
<1>12. disk[b] \in [kind : {"dinode"}, di : Di] /\ Latest(n) = disk[b].di
  <2>1. ~InMem(n)
    BY <1>8 DEF InMem
  <2>2. disk[Dinodes[n + 1]] \in [kind : {"dinode"}, di : Di]
    BY <1>7, <2>1, StateIs DEF OnDisk
  <2>3. n < inodeNum
    BY <1>6, <1>7
  <2>4. Latest(n) = disk[Dinodes[n + 1]].di
    BY <2>1, <2>3, LatestDisk
  <2> QED
    BY <1>10, <2>2, <2>4
<1>13. PICK di \in Di : di = disk[b].di
  BY <1>12
<1>14. b \in Nat
  BY <1>6, <1>7, <1>10, MapsAre
<1>15. /\ Found = [ino |-> n, pino |-> DirObj.ino, blkno |-> b, ftype |-> di.di_mode,
                   di_mode |-> di.di_mode, di_nlink |-> di.di_nlink, di_size |-> di.di_size,
                   di_blocks |-> di.di_blocks, di_header |-> di.di_header,
                   di_nExtents |-> di.di_nExtents, di_directExtent |-> di.di_directExtent,
                   di_rootIndExt |-> di.di_rootIndExt]
  BY <1>11, <1>13 DEF LoadInode
<1>16. Found \in Obj12 /\ Found.ino = n /\ Found.blkno = b /\ Found.ftype = Found.di_mode
  BY <1>2, <1>7, <1>13, <1>14, <1>15 DEF Di, Obj12
<1>17. DiOf(Found) = di
  BY <1>13, <1>15 DEF DiOf, Di
<1>18. ~InMem(n) /\ P[n] = SubSeq(File.path, 1, comp)
  BY <1>1, <1>5, <1>8, AddingIs DEF InMem
<1> QED
  BY <1>5, <1>7, <1>10, <1>12, <1>13, <1>16, <1>17, <1>18

-----------------------------------------------------------------------------
(* Directory blocks.                                                        *)
LEMMA SizesAre ==
    ASSUME NEW n \in Nat
    PROVE  /\ DIRENT_SIZE(n) \in Nat /\ DIRENT_SIZE(n) % 4 = 0
           /\ DIRECT_SIZE(n) \in Nat /\ DIRENT_SIZE(n) <= DIRECT_SIZE(n)
<1>1. ASSUME NEW k \in Nat
      PROVE  Round4(k) \in Nat /\ Round4(k) % 4 = 0 /\ k <= Round4(k) /\ Round4(k) <= k + 3
  BY DEF Round4
<1>2. DIRENT_SIZE(n) = Round4(13 + n + 1) /\ DIRECT_SIZE(n) = 16 + Round4(n + 1)
  BY DEF DIRENT_SIZE, DIRECT_SIZE
<1>3. 13 + n + 1 \in Nat /\ n + 1 \in Nat
  OBVIOUS
<1>4. /\ Round4(13 + n + 1) \in Nat /\ Round4(13 + n + 1) % 4 = 0 /\ Round4(13 + n + 1) <= 13 + n + 1 + 3
      /\ Round4(n + 1) \in Nat /\ n + 1 <= Round4(n + 1)
  BY <1>1, <1>3
<1> HIDE DEF Round4
<1> QED
  BY <1>2, <1>4

LEMMA StrlenIs ==
    /\ \A name \in EntNames : strlen(name) \in Nat
    /\ strlen(".") = 1 /\ strlen("..") = 2
    /\ \A name \in EntNames \ Dots2 : DIRENT_SIZE(strlen(name)) <= TAR_BLOCKSIZE
<1>1. strlen(".") = 1 /\ strlen("..") = 2
  BY DEF strlen
<1>2. ASSUME NEW name \in EntNames \ Dots2
      PROVE  strlen(name) \in Nat /\ DIRENT_SIZE(strlen(name)) <= TAR_BLOCKSIZE
  <2>1. strlen(name) = NameLen[name] /\ name \in DOMAIN NameLen
    BY <1>2 DEF strlen, EntNames, Dots2
  <2> QED
    BY <2>1, NamesAssumption
<1> QED
  BY <1>1, <1>2 DEF EntNames, Dots2

LEMMA Mod4 ==
    ASSUME NEW a \in Nat, NEW b \in Nat, a % 4 = 0, b % 4 = 0, a - b \in Nat
    PROVE  (a - b) % 4 = 0
OBVIOUS

LEMMA TwoFormed ==
    ASSUME NEW a \in Int, NEW b \in Int,
           NEW c, c = DirBlock(<<Entry(a, DIRENT_SIZE(1), ".", "dir"),
                                 Entry(b, TAR_BLOCKSIZE - DIRENT_SIZE(1), "..", "dir")>>)
    PROVE  /\ Formed(c) /\ c.kind = "dir"
           /\ \A j \in 1..Len(c.ents) : c.ents[j].d_name \in Dots2
<1>1. DIRENT_SIZE(1) = 16 /\ DIRENT_SIZE(2) = 16
  BY DEF DIRENT_SIZE, Round4
<1>2. PICK x : x = Entry(a, 16, ".", "dir")
  OBVIOUS
<1>3. PICK y : y = Entry(b, 496, "..", "dir")
  OBVIOUS
<1>4. c.ents = <<x, y>> /\ c.kind = "dir"
  BY <1>1, <1>2, <1>3 DEF DirBlock, TAR_BLOCKSIZE
<1>5. /\ x \in Ents /\ x.d_reclen = 16 /\ x.d_name = "."
      /\ y \in Ents /\ y.d_reclen = 496 /\ y.d_name = ".."
  <2>1. "." \in EntNames /\ ".." \in EntNames
    BY DEF EntNames
  <2> QED
    <3>1. "dir" \in Modes
      BY DEF Modes
    <3>2. x \in Ents /\ x.d_reclen = 16 /\ x.d_name = "."
      BY <1>2, <2>1, <3>1 DEF Entry, Ents
    <3>3. y \in Ents /\ y.d_reclen = 496 /\ y.d_name = ".."
      BY <1>3, <2>1, <3>1 DEF Entry, Ents
    <3> QED
      BY <3>2, <3>3
<1>6. PICK es : es = <<x, y>>
  OBVIOUS
<1>7. es \in Seq(Ents) /\ Len(es) = 2 /\ es[1] = x /\ es[2] = y
  BY <1>5, <1>6
<1>8. \E f \in [0..2 -> Nat] : Sum(f, es) /\ f[2] = TAR_BLOCKSIZE
  <2> DEFINE f == [k \in 0..2 |-> IF k = 0 THEN 0 ELSE IF k = 1 THEN 16 ELSE 512]
  <2>1. f \in [0..2 -> Nat] /\ f[0] = 0 /\ f[1] = 16 /\ f[2] = 512
    OBVIOUS
  <2> HIDE DEF f
  <2>2. ASSUME NEW j \in 1..Len(es) PROVE f[j] = f[j-1] + es[j].d_reclen
    <3>1. j = 1 \/ j = 2
      BY <1>7
    <3> QED
      BY <1>5, <1>7, <2>1, <3>1
  <2>3. Sum(f, es)
    BY <2>1, <2>2 DEF Sum
  <2> QED
    BY <2>1, <2>3 DEF TAR_BLOCKSIZE
<1>9. ASSUME NEW j \in 1..Len(es)
      PROVE  /\ es[j].d_reclen % 4 = 0 /\ DIRENT_SIZE(strlen(es[j].d_name)) <= es[j].d_reclen
             /\ es[j].d_name \in Dots2
  <2>1. j = 1 \/ j = 2
    BY <1>7
  <2>2. CASE j = 1
    BY <1>1, <1>5, <1>7, <2>2, StrlenIs DEF Dots2
  <2>3. CASE j = 2
    BY <1>1, <1>5, <1>7, <2>3, StrlenIs DEF Dots2
  <2> QED
    BY <2>1, <2>2, <2>3
<1> QED
  BY <1>4, <1>6, <1>7, <1>8, <1>9 DEF Formed

LEMMA OneFormed ==
    ASSUME NEW a \in Nat, NEW name \in EntNames \ Dots2, NEW t \in Modes,
           NEW c, c = DirBlock(<<Entry(a, TAR_BLOCKSIZE, name, t)>>)
    PROVE  /\ Formed(c) /\ c.kind = "dir"
           /\ \A j \in 1..Len(c.ents) : c.ents[j].d_ino = a /\ c.ents[j].d_name = name
<1>1. PICK x : x = Entry(a, TAR_BLOCKSIZE, name, t)
  OBVIOUS
<1>2. c.ents = <<x>> /\ c.kind = "dir"
  BY <1>1 DEF DirBlock
<1>3. x \in Ents /\ x.d_reclen = 512 /\ x.d_name = name /\ x.d_ino = a
  BY <1>1 DEF Entry, Ents, TAR_BLOCKSIZE
<1>4. PICK es : es = <<x>>
  OBVIOUS
<1>5. es \in Seq(Ents) /\ Len(es) = 1 /\ es[1] = x
  BY <1>3, <1>4
<1>6. \E f \in [0..1 -> Nat] : Sum(f, es) /\ f[1] = TAR_BLOCKSIZE
  <2> DEFINE f == [k \in 0..1 |-> IF k = 0 THEN 0 ELSE 512]
  <2>1. f \in [0..1 -> Nat] /\ f[0] = 0 /\ f[1] = 512
    OBVIOUS
  <2> HIDE DEF f
  <2>2. ASSUME NEW j \in 1..Len(es) PROVE f[j] = f[j-1] + es[j].d_reclen
    <3>1. j = 1
      BY <1>5
    <3> QED
      BY <1>3, <1>5, <2>1, <3>1
  <2>3. Sum(f, es)
    BY <2>1, <2>2 DEF Sum
  <2> QED
    BY <2>1, <2>3 DEF TAR_BLOCKSIZE
<1>7. ASSUME NEW j \in 1..Len(es)
      PROVE  /\ es[j].d_reclen % 4 = 0 /\ DIRENT_SIZE(strlen(es[j].d_name)) <= es[j].d_reclen
             /\ es[j].d_name = name /\ es[j].d_ino = a
  <2>1. j = 1
    BY <1>5
  <2>2. DIRENT_SIZE(strlen(name)) <= 512 /\ 512 % 4 = 0
    BY StrlenIs DEF TAR_BLOCKSIZE
  <2> QED
    BY <1>3, <1>5, <2>1, <2>2
<1> QED
  BY <1>2, <1>4, <1>5, <1>6, <1>7 DEF Formed

(* An entry with room behind it is split.                                   *)
SplitAt(es, j, x, y) == SubSeq(es, 1, j-1) \o <<x, y>> \o SubSeq(es, j+1, Len(es))

SplitsTo(S, es, j, x, y, v) ==
    /\ v \in Seq(S) /\ Len(v) = Len(es) + 1
    /\ \A i \in 1..j-1 : v[i] = es[i]
    /\ v[j] = x /\ v[j + 1] = y
    /\ \A i \in j+2..Len(es)+1 : v[i] = es[i - 1]

LEMMA SplitAtIs ==
    ASSUME NEW S, NEW es \in Seq(S), NEW j \in 1..Len(es), NEW x \in S, NEW y \in S
    PROVE  SplitsTo(S, es, j, x, y, SplitAt(es, j, x, y))
<1>1. PICK n \in Nat : n = Len(es)
  OBVIOUS
<1>2. PICK a : a = SubSeq(es, 1, j-1)
  OBVIOUS
<1>3. PICK c : c = SubSeq(es, j+1, n)
  OBVIOUS
<1>4. PICK b : b = <<x, y>>
  OBVIOUS
<1>5. a \in Seq(S) /\ Len(a) = j - 1 /\ \A i \in 1..j-1 : a[i] = es[i]
  BY <1>1, <1>2
<1>6. c \in Seq(S) /\ Len(c) = n - j /\ \A i \in 1..n-j : c[i] = es[j + i]
  BY <1>1, <1>3
<1>7. b \in Seq(S) /\ Len(b) = 2 /\ b[1] = x /\ b[2] = y
  BY <1>4
<1>8. PICK p \in Nat : p = Len(a) /\ p + 1 = j /\ p + 1 <= n
  BY <1>1, <1>5
<1>9. PICK u : u = a \o b
  OBVIOUS
<1>10. PICK t : t = u \o c
  OBVIOUS
<1>11. /\ u \in Seq(S) /\ Len(u) = p + 2
       /\ \A i \in 1..p+2 : u[i] = IF i <= p THEN a[i] ELSE b[i - p]
  <2>1. /\ u \in Seq(S) /\ Len(u) = Len(a) + Len(b)
        /\ \A i \in 1..Len(a)+Len(b) : u[i] = IF i <= Len(a) THEN a[i] ELSE b[i - Len(a)]
    BY <1>5, <1>7, <1>9, ConcatProperties, Zenon
  <2> QED
    BY <1>7, <1>8, <2>1
<1>12. /\ t \in Seq(S) /\ Len(t) = n + 1
       /\ \A i \in 1..n+1 : t[i] = IF i <= p + 2 THEN u[i] ELSE c[i - (p + 2)]
  <2>1. /\ t \in Seq(S) /\ Len(t) = Len(u) + Len(c)
        /\ \A i \in 1..Len(u)+Len(c) : t[i] = IF i <= Len(u) THEN u[i] ELSE c[i - Len(u)]
    BY <1>6, <1>10, <1>11, ConcatProperties, Zenon
  <2>2. PICK q \in Nat : q = Len(u) /\ q = p + 2
    BY <1>11
  <2>3. Len(u) + Len(c) = n + 1
    <3>1. Len(c) = n - j
      BY <1>6
    <3> QED
      BY <1>8, <2>2, <3>1
  <2> QED
    BY <2>1, <2>2, <2>3
<1>15. ASSUME NEW i \in 1..p PROVE t[i] = es[i]
  <2>1. i \in 1..n+1 /\ i <= p + 2 /\ i \in 1..p+2 /\ i <= p /\ i \in 1..j-1
    BY <1>8
  <2> QED
    BY <1>5, <1>11, <1>12, <2>1
<1>16. t[p + 1] = x /\ t[p + 2] = y
  <2>1. p + 1 \in 1..n+1 /\ p + 1 <= p + 2 /\ p + 1 \in 1..p+2 /\ ~(p + 1 <= p) /\ (p + 1) - p = 1
    BY <1>8
  <2>2. p + 2 \in 1..n+1 /\ p + 2 <= p + 2 /\ p + 2 \in 1..p+2 /\ ~(p + 2 <= p) /\ (p + 2) - p = 2
    BY <1>8
  <2>3. t[p + 1] = u[p + 1] /\ t[p + 2] = u[p + 2]
    BY <1>12, <2>1, <2>2
  <2>4. u[p + 1] = b[1] /\ u[p + 2] = b[2]
    BY <1>11, <2>1, <2>2
  <2> QED
    BY <1>7, <2>3, <2>4
<1>17. ASSUME NEW i \in j+2..n+1 PROVE t[i] = es[i - 1]
  <2>1. i \in 1..n+1 /\ ~(i <= p + 2) /\ i - (p + 2) \in 1..n-j /\ j + (i - (p + 2)) = i - 1
    BY <1>8
  <2> QED
    BY <1>6, <1>12, <2>1
<1>13. t = SplitAt(es, j, x, y)
  BY <1>1, <1>2, <1>3, <1>4, <1>9, <1>10 DEF SplitAt
<1>14. (\A i \in 1..j-1 : t[i] = es[i]) /\ t[j] = x /\ t[j + 1] = y
  BY <1>8, <1>15, <1>16
<1> QED
  BY <1>1, <1>12, <1>13, <1>14, <1>17 DEF SplitsTo

LEMMA SplitFormed ==
    ASSUME NEW o, Formed(o), NEW j \in 1..Len(o.ents),
           NEW a \in Nat, NEW name \in EntNames \ Dots2, NEW ft \in Modes, HasRoom(o.ents[j], name),
           NEW c, c = DirBlock(Split(o.ents, j, a, name, ft))
    PROVE  /\ Formed(c) /\ c.kind = "dir"
           /\ \A i \in 1..Len(c.ents) :
                 \/ c.ents[i].d_ino = a /\ c.ents[i].d_name = name
                 \/ \E k \in 1..Len(o.ents) : c.ents[i].d_ino = o.ents[k].d_ino
                                              /\ c.ents[i].d_name = o.ents[k].d_name
<1>1. PICK es : es = o.ents
  OBVIOUS
<1>2. /\ es \in Seq(Ents)
      /\ \E f \in [0..Len(es) -> Nat] : Sum(f, es) /\ f[Len(es)] = TAR_BLOCKSIZE
      /\ \A k \in 1..Len(es) :
            es[k].d_reclen % 4 = 0 /\ DIRENT_SIZE(strlen(es[k].d_name)) <= es[k].d_reclen
  BY <1>1 DEF Formed
<1>3. PICK n \in Nat : n = Len(es)
  BY <1>2
<1>4. PICK f \in [0..n -> Nat] : Sum(f, es) /\ f[n] = TAR_BLOCKSIZE
  BY <1>2, <1>3
<1>5. PICK p \in Nat : p = j /\ p \in 1..n /\ es[p] \in Ents
  <2>1. j \in 1..Len(es) /\ es[j] \in Ents
    BY <1>1, <1>2
  <2> QED
    BY <1>3, <2>1
<1>6. PICK e \in Ents : e = es[p] /\ e = o.ents[j]
  BY <1>1, <1>5
<1>7. PICK len \in Nat : len = strlen(e.d_name)
  BY StrlenIs DEF Ents
<1>8. PICK keep \in Nat : keep = DIRENT_SIZE(len)
  BY SizesAre
<1>9. PICK x : x = [e EXCEPT !.d_reclen = keep]
  OBVIOUS
<1>10. PICK y : y = Entry(a, e.d_reclen - keep, name, ft)
  OBVIOUS
<1>11. PICK size \in Nat : size = DIRENT_SIZE(strlen(name))
  BY StrlenIs, SizesAre
<1>12. /\ e.d_reclen \in Nat /\ e.d_reclen % 4 = 0 /\ keep % 4 = 0
       /\ e.d_reclen - keep \in Nat /\ size <= e.d_reclen - keep
  <2>1. e.d_reclen \in Nat /\ e.d_reclen % 4 = 0
    BY <1>2, <1>3, <1>5, <1>6 DEF Ents
  <2>2. keep % 4 = 0 /\ DIRECT_SIZE(len) \in Nat /\ keep <= DIRECT_SIZE(len)
    BY <1>8, SizesAre
  <2>3. PICK l \in Nat : l = e.d_reclen
    BY <2>1
  <2>4. PICK ds \in Nat : ds = DIRECT_SIZE(len)
    BY <2>2
  <2>5. l - ds >= size
    BY <1>1, <1>6, <1>7, <1>11, <2>3, <2>4 DEF HasRoom
  <2>6. keep <= ds
    BY <2>2, <2>4
  <2>7. l - keep \in Nat /\ size <= l - keep
    BY <2>5, <2>6
  <2> QED
    BY <2>1, <2>2, <2>3, <2>7
<1>13. /\ x \in Ents /\ x.d_reclen = keep /\ x.d_name = e.d_name /\ x.d_ino = e.d_ino
       /\ y \in Ents /\ y.d_reclen = e.d_reclen - keep /\ y.d_name = name /\ y.d_ino = a
  <2>1. x \in Ents /\ x.d_reclen = keep /\ x.d_name = e.d_name /\ x.d_ino = e.d_ino
    BY <1>9 DEF Ents
  <2>2. PICK l \in Nat : l = e.d_reclen - keep
    BY <1>12
  <2>3. y \in Ents /\ y.d_reclen = l /\ y.d_name = name /\ y.d_ino = a
    BY <1>10, <2>2 DEF Ents, Entry
  <2> QED
    BY <2>1, <2>2, <2>3
<1>14. PICK t : t = SplitAt(es, p, x, y)
  OBVIOUS
<1>15. /\ t \in Seq(Ents) /\ Len(t) = n + 1 /\ \A i \in 1..p-1 : t[i] = es[i]
       /\ t[p] = x /\ t[p + 1] = y /\ \A i \in p+2..n+1 : t[i] = es[i - 1]
  <2>1. /\ t \in Seq(Ents) /\ Len(t) = Len(es) + 1 /\ \A i \in 1..p-1 : t[i] = es[i]
        /\ t[p] = x /\ t[p + 1] = y /\ \A i \in p+2..Len(es)+1 : t[i] = es[i - 1]
    <3>1. p \in 1..Len(es)
      BY <1>3, <1>5
    <3>2. es \in Seq(Ents) /\ x \in Ents /\ y \in Ents
      BY <1>2, <1>13
    <3>3. SplitsTo(Ents, es, p, x, y, t)
      BY <1>14, <3>1, <3>2, SplitAtIs
    <3> QED
      BY <3>3 DEF SplitsTo
  <2> QED
    BY <1>3, <2>1
<1>16. c.ents = t /\ c.kind = "dir"
  <2>1. Split(o.ents, j, a, name, ft) = SplitAt(es, p, x, y)
    BY <1>1, <1>5, <1>6, <1>7, <1>8, <1>9, <1>10 DEF Split, SplitAt
  <2> QED
    BY <1>14, <2>1 DEF DirBlock
<1>17. ASSUME NEW i \in 1..n+1
       PROVE  \/ i \in 1..p-1 /\ t[i] = es[i] /\ i \in 1..n
              \/ i = p /\ t[i] = x
              \/ i = p + 1 /\ t[i] = y
              \/ i \in p+2..n+1 /\ t[i] = es[i - 1] /\ i - 1 \in 1..n
  <2>1. i \in 1..p-1 \/ i = p \/ i = p + 1 \/ i \in p+2..n+1
    BY <1>5
  <2>2. i \in 1..p-1 => t[i] = es[i] /\ i \in 1..n
    BY <1>5, <1>15
  <2>3. i = p => t[i] = x
    BY <1>15
  <2>4. i = p + 1 => t[i] = y
    BY <1>15
  <2>5. i \in p+2..n+1 => t[i] = es[i - 1] /\ i - 1 \in 1..n
    BY <1>5, <1>15
  <2> QED
    BY <2>1, <2>2, <2>3, <2>4, <2>5
<1>18. \E g \in [0..n+1 -> Nat] : Sum(g, t) /\ g[n + 1] = TAR_BLOCKSIZE
  <2> DEFINE g == [i \in 0..n+1 |-> IF i < p THEN f[i] ELSE IF i = p THEN f[p - 1] + keep ELSE f[i - 1]]
  <2>1. f[0] = 0 /\ \A i \in 1..n : f[i] = f[i - 1] + es[i].d_reclen /\ f[i - 1] \in Nat /\ f[i] \in Nat
    <3>1. ASSUME NEW i \in 1..n PROVE i - 1 \in 0..n /\ i \in 0..n
      OBVIOUS
    <3> QED
      BY <1>3, <1>4, <3>1 DEF Sum
  <2>2. f[p] = f[p - 1] + e.d_reclen /\ f[p - 1] \in Nat /\ f[p] \in Nat
    BY <1>5, <1>6, <2>1
  <2>3. ASSUME NEW i \in 0..n+1 PROVE g[i] \in Nat
    <3>1. i < p => i \in 0..n
      BY <1>5
    <3>2. i > p => i - 1 \in 0..n
      BY <1>5
    <3> QED
      BY <1>4, <1>5, <2>2, <3>1, <3>2
  <2>4. g[0] = 0
    BY <1>5, <2>1
  <2>5. ASSUME NEW i \in 1..n+1 PROVE g[i] = g[i - 1] + t[i].d_reclen
    <3>1. i - 1 \in 0..n+1 /\ i \in 0..n+1
      OBVIOUS
    <3>2. CASE i \in 1..p-1 /\ t[i] = es[i] /\ i \in 1..n
      <4>1. g[i] = f[i] /\ g[i - 1] = f[i - 1]
        BY <3>1, <3>2
      <4> HIDE DEF g
      <4> QED
        BY <2>1, <3>2, <4>1
    <3>3. CASE i = p /\ t[i] = x
      <4>1. g[i] = f[p - 1] + keep /\ g[i - 1] = f[p - 1]
        BY <1>5, <3>1, <3>3
      <4> HIDE DEF g
      <4> QED
        BY <1>13, <3>3, <4>1
    <3>4. CASE i = p + 1 /\ t[i] = y
      <4>1. g[i] = f[p] /\ g[i - 1] = f[p - 1] + keep
        BY <1>5, <3>1, <3>4
      <4> HIDE DEF g
      <4>2. PICK l \in Nat : l = e.d_reclen
        BY <1>12
      <4>3. t[i].d_reclen = l - keep /\ f[p] = f[p - 1] + l
        BY <1>13, <2>2, <3>4, <4>2
      <4>4. PICK u \in Nat : u = f[p - 1]
        BY <2>2
      <4>5. g[i] = u + l /\ g[i - 1] = u + keep
        BY <4>1, <4>3, <4>4
      <4> QED
        BY <4>3, <4>5
    <3>5. CASE i \in p+2..n+1 /\ t[i] = es[i - 1] /\ i - 1 \in 1..n
      <4>1. g[i] = f[i - 1] /\ g[i - 1] = f[(i - 1) - 1]
        BY <1>5, <3>1, <3>5
      <4> HIDE DEF g
      <4> QED
        BY <2>1, <3>5, <4>1
    <3> QED
      BY <1>17, <3>2, <3>3, <3>4, <3>5
  <2>6. g[n + 1] = f[n]
    BY <1>5
  <2>7. g = [i \in 0..n+1 |-> g[i]]
    OBVIOUS
  <2> HIDE DEF g
  <2>8. g \in [0..n+1 -> Nat]
    BY <2>3, <2>7
  <2>9. Sum(g, t)
    BY <1>15, <2>4, <2>5 DEF Sum
  <2> QED
    BY <1>4, <2>6, <2>8, <2>9
<1>19. ASSUME NEW i \in 1..n+1
       PROVE  /\ t[i].d_reclen % 4 = 0 /\ DIRENT_SIZE(strlen(t[i].d_name)) <= t[i].d_reclen
              /\ \/ t[i].d_ino = a /\ t[i].d_name = name
                 \/ \E k \in 1..n : t[i].d_ino = es[k].d_ino /\ t[i].d_name = es[k].d_name
  <2>1. \A k \in 1..n : es[k].d_reclen % 4 = 0 /\ DIRENT_SIZE(strlen(es[k].d_name)) <= es[k].d_reclen
    BY <1>2, <1>3
  <2>2. (e.d_reclen - keep) % 4 = 0
    BY <1>12, Mod4
  <2>3. CASE t[i] = x /\ i = p
    <3>1. DIRENT_SIZE(strlen(e.d_name)) = keep
      BY <1>7, <1>8
    <3>2. e.d_ino = es[p].d_ino /\ e.d_name = es[p].d_name
      BY <1>6
    <3>3. t[i].d_reclen = keep /\ t[i].d_name = e.d_name /\ t[i].d_ino = e.d_ino
      BY <1>13, <2>3
    <3>4. \E k \in 1..n : t[i].d_ino = es[k].d_ino /\ t[i].d_name = es[k].d_name
      BY <1>5, <3>2, <3>3
    <3>5. DIRENT_SIZE(strlen(t[i].d_name)) <= t[i].d_reclen
      BY <3>1, <3>3
    <3>6. t[i].d_reclen % 4 = 0
      BY <1>12, <3>3
    <3> QED
      BY <3>4, <3>5, <3>6
  <2>4. CASE t[i] = y /\ i = p + 1
    BY <1>11, <1>12, <1>13, <2>2, <2>4
  <2> QED
    BY <1>17, <2>1, <2>3, <2>4
<1> QED
  <2>1. c.ents = t /\ Len(t) = n + 1 /\ Len(o.ents) = n /\ o.ents = es
    BY <1>1, <1>3, <1>15, <1>16
  <2>2. Formed(c)
    BY <1>15, <1>18, <1>19, <2>1 DEF Formed
  <2> QED
    BY <1>16, <1>19, <2>1, <2>2

(* The slot that is taken.                                                  *)
LEMMA FirstSlotIs ==
    ASSUME NEW S, S # {}, \A s \in S : s = <<s[1], s[2]>> /\ s[1] \in Nat /\ s[2] \in Nat
    PROVE  FirstSlot(S) \in S
<1>1. PICK a \in S : \A s \in S : a[1] <= s[1]
  <2> DEFINE T == {s[1] : s \in S}
  <2>1. T \in SUBSET Nat /\ T # {}
    OBVIOUS
  <2>2. PICK x \in T : \A y \in T : x <= y
    <3> HIDE DEF T
    <3> QED
      BY <2>1, Least
  <2> QED
    BY <2>2
<1>2. PICK b \in S : b[1] = a[1] /\ \A s \in S : s[1] = a[1] => b[2] <= s[2]
  <2> DEFINE T == {s[2] : s \in {s \in S : s[1] = a[1]}}
  <2>1. T \in SUBSET Nat /\ T # {}
    OBVIOUS
  <2>2. PICK x \in T : \A y \in T : x <= y
    <3> HIDE DEF T
    <3> QED
      BY <2>1, Least
  <2> QED
    BY <2>2
<1>3. ASSUME NEW t \in S PROVE b[1] < t[1] \/ (b[1] = t[1] /\ b[2] <= t[2])
  BY <1>1, <1>2
<1> QED
  BY <1>3 DEF FirstSlot

-----------------------------------------------------------------------------
(* Steps.  One that goes on leaves the invariant of a running mkfs, for     *)
(* indirect blocks, thrown away blocks and paths that may be others.        *)
BPStep == [EM!BP!ClientNext]_(EM!BP!vars)

Goes == BPStep /\ \E new, gone, Q : Active(new, gone, Q)'

LEMMA GoesOn ==
    ASSUME NEW inds, NEW thrown, NEW P, Active(inds, thrown, P), phase' = "run",
           NEW new, NEW gone, NEW Q \in [Inos -> Seq(EntNames)],
           BPStep, EM!TypeInv', EM!RunInv(new, gone)', Mem', OnDisk', Inodes(Q)', DirsOf(Q)',
           UsedOnce', MappedOnce', NoInode', Prog(Q)', AllFormed', NoSuper'
    PROVE  Goes
<1>1. EM!BP!IInv'
  BY Given, BulksAssumption, IndExtAssumption, EM!BP!NextIInv DEF Active, BPStep
<1>2. Inos' = Inos
  BY DEF Inos
<1>3. Runs(new, gone, Q)'
  BY <1>2 DEF Runs
<1>4. Active(new, gone, Q)'
  BY <1>1, <1>3 DEF Active
<1> QED
  BY <1>4 DEF Goes

(* What a step does to the file: it may change the blocks of W and append   *)
(* free ones.                                                               *)
FileStep(W) ==
    /\ blks' \in Nat /\ blks <= blks' /\ DOMAIN disk' = 0..blks'-1
    /\ \A b \in 0..blks-1 : b \in W \/ disk'[b] = disk[b]
    /\ \A b \in blks..blks'-1 : disk'[b].kind = "free"

LEMMA FileOn ==
    ASSUME NEW inds, NEW thrown, NEW P, Active(inds, thrown, P), NEW W, FileStep(W),
           \A b \in W : disk'[b].kind # "super" /\ (disk'[b].kind = "dir" => Formed(disk'[b]))
    PROVE  AllFormed' /\ NoSuper'
<1>1. blks \in Nat /\ DOMAIN disk = 0..blks-1 /\ blks' \in Nat /\ blks <= blks' /\ DOMAIN disk' = 0..blks'-1
  BY StateIs DEF FileStep
<1>2. ASSUME NEW b \in 0..blks'-1
      PROVE  disk'[b].kind # "super" /\ (disk'[b].kind = "dir" => Formed(disk'[b]))
  <2>1. CASE b \in W
    BY <2>1
  <2>2. CASE b \notin W /\ b \in 0..blks-1
    <3>1. disk'[b] = disk[b]
      BY <2>2 DEF FileStep
    <3> QED
      BY <1>1, <2>2, <3>1 DEF Active, AllFormed, NoSuper
  <2>3. CASE b \notin 0..blks-1
    <3>1. b \in blks..blks'-1
      <4>1. PICK m \in Nat, n \in Nat : m = blks /\ n = blks'
        BY <1>1
      <4>2. b \in 0..n-1 /\ ~(b \in 0..m-1)
        BY <2>3, <4>1, Zenon
      <4>3. b \in m..n-1
        BY <4>2
      <4> QED
        BY <4>1, <4>3
    <3>2. disk'[b].kind = "free"
      BY <3>1 DEF FileStep
    <3> QED
      BY <3>2
  <2> QED
    BY <2>1, <2>2, <2>3
<1> QED
  BY <1>1, <1>2 DEF AllFormed, NoSuper

(* What a step does to the objects: one is changed, read or made.           *)
Sets(h, o) ==
    /\ h \in Handles /\ o \in Obj12 /\ o.ino \in Nat
    /\ core' = [core EXCEPT ![h] = o]
    /\ inodeNum' = inodeNum \/ (inodeNum' = inodeNum + 1 /\ o.ino = inodeNum)
    /\ o.ino < inodeNum'
    /\ core[h].ino \in {-1, o.ino}
    /\ \A g \in Handles : g # h => core[g].ino # o.ino
    /\ o.blkno = Dinodes'[o.ino + 1]
    /\ h = "free" <=> o.ino = 0
    /\ h = "root" <=> o.ino = 1

(* The dinodes of the inodes stay where they are.                           *)
Dwell == \A i \in 1..inodeNum : Dinodes'[i] = Dinodes[i]
(* Those of inodes that are not in memory stay as they are, too.            *)
DisksStay(i) == i < inodeNum => InMem(i) \/ disk'[Dinodes[i + 1]] = disk[Dinodes[i + 1]]

LEMMA MemOn ==
    ASSUME NEW inds, NEW thrown, NEW P, Active(inds, thrown, P), NEW h, NEW o, Sets(h, o), Dwell,
           ins' \in Frames \union {NoFrame},
           ins' # NoFrame => ins'.obj = h \/ (ins # NoFrame /\ ins'.obj = ins.obj)
                             \/ (ins'.obj \in Handles /\ core[ins'.obj].ino # -1)
    PROVE  Mem'
<1>1. Mem /\ inodeNum \in Nat
  BY StateIs
<1>2. PICK c : c = core'
  OBVIOUS
<1>3. PICK n \in Nat : n = inodeNum' /\ inodeNum <= n
  BY <1>1 DEF Sets
<1>4. c \in [Handles -> Obj12] /\ c[h] = o /\ (\A g \in Handles : g # h => c[g] = core[g]) /\ h \in Handles
  BY <1>1, <1>2 DEF Sets, Mem
<1>5. o.ino \in 0..n-1 /\ o.ino # -1 /\ o.ino \in Nat
  BY <1>3 DEF Sets
<1>6. ASSUME NEW g \in Handles, c[g].ino # -1
      PROVE  c[g].ino \in 0..n-1 /\ c[g].blkno = Dinodes'[c[g].ino + 1]
  <2>1. CASE g = h
    BY <1>4, <1>5, <2>1 DEF Sets
  <2>2. CASE g # h
    <3>1. c[g] = core[g]
      BY <1>4, <2>2
    <3>2. core[g].ino \in 0..inodeNum-1 /\ core[g].blkno = Dinodes[core[g].ino + 1]
      BY <1>1, <1>6, <3>1 DEF Mem, Loaded
    <3>3. core[g].ino + 1 \in 1..inodeNum
      BY <1>1, <3>2
    <3> QED
      BY <1>1, <1>3, <3>1, <3>2, <3>3 DEF Dwell
  <2> QED
    BY <2>1, <2>2
<1>7. ASSUME NEW g \in Handles, NEW k \in Handles, c[k].ino # -1, c[g].ino = c[k].ino PROVE g = k
  <2>1. CASE g = h \/ k = h
    BY <1>4, <1>7, <2>1 DEF Sets
  <2>2. CASE g # h /\ k # h
    BY <1>1, <1>4, <1>7, <2>2 DEF Mem, Loaded
  <2> QED
    BY <2>1, <2>2
<1>8. c["free"].ino = IF n > 0 THEN 0 ELSE -1
  <2>1. "free" \in Handles /\ core["free"].ino = IF inodeNum > 0 THEN 0 ELSE -1
    BY <1>1 DEF Mem, Handles
  <2>2. n > 0
    BY <1>5
  <2>3. CASE h = "free"
    BY <1>4, <2>2, <2>3 DEF Sets
  <2>4. CASE h # "free"
    <3>1. o.ino # 0
      BY <2>4 DEF Sets
    <3>2. inodeNum > 0
      BY <1>1, <1>5, <3>1 DEF Sets
    <3> QED
      BY <1>4, <2>1, <2>2, <2>4, <3>2
  <2> QED
    BY <2>3, <2>4
<1>9. c["root"].ino = IF n > 1 THEN 1 ELSE -1
  <2>1. "root" \in Handles /\ core["root"].ino = IF inodeNum > 1 THEN 1 ELSE -1
    BY <1>1 DEF Mem, Handles
  <2>2. CASE h = "root"
    <3>1. o.ino = 1
      BY <2>2 DEF Sets
    <3> QED
      BY <1>4, <1>5, <2>2, <3>1
  <2>3. CASE h # "root"
    <3>1. o.ino # 1
      BY <2>3 DEF Sets
    <3>2. n > 1 <=> inodeNum > 1
      BY <1>1, <1>3, <3>1 DEF Sets
    <3> QED
      BY <1>4, <2>1, <2>3, <3>2
  <2> QED
    BY <2>2, <2>3
<1>10. ASSUME ins' # NoFrame PROVE ins'.obj \in Handles /\ c[ins'.obj].ino # -1
  <2>1. CASE ins'.obj = h
    BY <1>4, <1>5, <2>1
  <2>2. CASE ins'.obj # h
    <3>1. ins'.obj \in Handles
      BY <1>10 DEF Frames
    <3>2. core[ins'.obj].ino # -1
      BY <1>1, <1>10, <2>2 DEF Mem, Loaded
    <3> QED
      BY <1>4, <2>2, <3>1, <3>2
  <2> QED
    BY <2>1, <2>2
<1> QED
  BY <1>2, <1>3, <1>4, <1>6, <1>7, <1>8, <1>9, <1>10 DEF Mem, Loaded

LEMMA LatestOn ==
    ASSUME NEW inds, NEW thrown, NEW P, Active(inds, thrown, P), NEW h, NEW o, Sets(h, o), Dwell,
           NEW i \in Nat, i = o.ino \/ DisksStay(i)
    PROVE  /\ Latest(i)' = IF i = o.ino THEN DiOf(o) ELSE Latest(i)
           /\ InMem(i)' <=> i = o.ino \/ InMem(i)
<1>1. Mem /\ inodeNum \in Nat
  BY StateIs
<1>2. PICK c : c = core
  OBVIOUS
<1>3. PICK n \in Nat : n = inodeNum
  BY <1>1
<1>4. PICK bs : bs = Dinodes
  OBVIOUS
<1>5. PICK f : f = disk
  OBVIOUS
<1>6. PICK d : d = [c EXCEPT ![h] = o]
  OBVIOUS
<1>7. PICK n2 \in {n, n + 1} : n2 = inodeNum' /\ (n2 = n + 1 => o.ino = n)
  BY <1>3 DEF Sets
<1>8. PICK bs2 : bs2 = Dinodes'
  OBVIOUS
<1>9. PICK f2 : f2 = disk'
  OBVIOUS
<1>10. DOMAIN c = Handles /\ h \in Handles /\ o.ino \in Nat /\ c[h].ino \in {-1, o.ino}
       /\ \A g \in Handles : g # h => c[g].ino # o.ino
  BY <1>1, <1>2 DEF Sets, Mem
<1>11. \A g, k \in Handles : c[g].ino # -1 /\ c[g].ino = c[k].ino => g = k
  BY <1>1, <1>2 DEF Mem, Loaded
<1>12. i < n => i = o.ino \/ (\E g \in Handles : c[g].ino = i) \/ f2[bs2[i + 1]] = f[bs[i + 1]]
  <2>1. ASSUME i < n, i # o.ino, ~InMem(i) PROVE f2[bs2[i + 1]] = f[bs[i + 1]]
    <3>1. disk'[Dinodes[i + 1]] = disk[Dinodes[i + 1]]
      BY <1>3, <2>1 DEF DisksStay
    <3>2. i + 1 \in 1..inodeNum
      BY <1>3, <2>1
    <3>3. Dinodes'[i + 1] = Dinodes[i + 1]
      BY <3>2 DEF Dwell
    <3> QED
      BY <1>4, <1>5, <1>8, <1>9, <3>1, <3>3
  <2> QED
    BY <1>2, <2>1 DEF InMem
<1>13. LatestIn([c EXCEPT ![h] = o], n2, bs2, f2, i) = IF i = o.ino THEN DiOf(o) ELSE LatestIn(c, n, bs, f, i)
  <2>1. Changes(c, n, bs, f, n2, bs2, f2, h, o, i)
    BY <1>7, <1>10, <1>11, <1>12 DEF Changes
  <2>2. Changed(c, n, bs, f, n2, bs2, f2, h, o, i)
    BY <1>10, <2>1, LatestChanges, Zenon
  <2> QED
    BY <2>2 DEF Changed
<1>14. core' = d
  BY <1>2, <1>6 DEF Sets
<1>15. Latest(i) = LatestIn(c, n, bs, f, i)
  BY <1>2, <1>3, <1>4, <1>5 DEF Latest
<1>16. Latest(i)' = LatestIn(d, n2, bs2, f2, i)
  BY <1>7, <1>8, <1>9, <1>14 DEF Latest
<1>17. InMem(i)' <=> i = o.ino \/ InMem(i)
  <2>1. d[h] = o /\ \A g \in Handles : g # h => d[g] = c[g]
    BY <1>6, <1>10
  <2>2. (\E g \in Handles : d[g].ino = i) <=> (i = o.ino \/ \E g \in Handles : c[g].ino = i)
    <3>1. c[h].ino = i => i = o.ino
      BY <1>10
    <3> QED
      BY <1>10, <2>1, <3>1
  <2>3. InMem(i)' <=> \E g \in Handles : d[g].ino = i
    BY <1>14 DEF InMem
  <2>4. InMem(i) <=> \E g \in Handles : c[g].ino = i
    BY <1>2 DEF InMem
  <2> QED
    BY <2>2, <2>3, <2>4
<1> QED
  BY <1>6, <1>13, <1>15, <1>16, <1>17

LEMMA OnDiskOn ==
    ASSUME NEW inds, NEW thrown, NEW P, Active(inds, thrown, P), NEW h, NEW o, Sets(h, o), Dwell,
           \A i \in Nat : i = o.ino \/ DisksStay(i)
    PROVE  OnDisk'
<1>1. OnDisk /\ inodeNum \in Nat
  BY StateIs
<1>2. PICK n \in Nat : n = inodeNum' /\ (n = inodeNum \/ (n = inodeNum + 1 /\ o.ino = inodeNum))
  BY <1>1 DEF Sets
<1>3. ASSUME NEW i \in 2..n-1, ~InMem(i)'
      PROVE  disk'[Dinodes'[i + 1]] \in [kind : {"dinode"}, di : Di]
  <2>1. i \in Nat /\ i # o.ino /\ ~InMem(i) /\ DisksStay(i)
    <3>1. i \in Nat /\ (i = o.ino \/ DisksStay(i))
      BY <1>3
    <3>2. InMem(i)' <=> i = o.ino \/ InMem(i)
      BY <3>1, LatestOn
    <3> QED
      BY <1>3, <3>1, <3>2
  <2>2. i \in 2..inodeNum-1 /\ i < inodeNum /\ i + 1 \in 1..inodeNum
    <3>1. PICK m \in Nat : m = inodeNum
      BY <1>1
    <3>2. n = m \/ (n = m + 1 /\ i # m)
      BY <1>2, <2>1, <3>1
    <3>3. i \in 2..m-1 /\ i < m /\ i + 1 \in 1..m
      BY <3>2
    <3> QED
      BY <3>1, <3>3
  <2>3. disk[Dinodes[i + 1]] \in [kind : {"dinode"}, di : Di]
    BY <1>1, <2>1, <2>2 DEF OnDisk
  <2>4. disk'[Dinodes[i + 1]] = disk[Dinodes[i + 1]] /\ Dinodes'[i + 1] = Dinodes[i + 1]
    BY <2>1, <2>2 DEF DisksStay, Dwell
  <2> QED
    BY <2>3, <2>4
<1> QED
  BY <1>2, <1>3 DEF OnDisk

(* And the maps.                                                            *)
LEMMA MapCoreOn ==
    ASSUME NEW inds, NEW thrown, NEW P, Active(inds, thrown, P), NEW h, NEW o, Sets(h, o), Dwell,
           \A i \in Nat : i = o.ino \/ DisksStay(i)
    PROVE  MapCore' = [MapCore EXCEPT ![o.ino] = MapOf(o.ino, DiOf(o))]
<1>1. \A i \in Inos : Latest(i)' = IF i = o.ino THEN DiOf(o) ELSE Latest(i)
  <2>1. Inos \subseteq Nat
    BY DEF Inos
  <2> QED
    BY <2>1, LatestOn
<1>2. ASSUME NEW i \in Inos
      PROVE  MapOf(i, Latest(i))' = IF i = o.ino THEN MapOf(o.ino, DiOf(o)) ELSE MapOf(i, Latest(i))
  <2>1. MapOf(i, Latest(i))' = MapOf(i, Latest(i)')
    BY DEF MapOf, TARFS_FREE_INO
  <2> QED
    BY <1>1, <2>1
<1>3. MapCore = [i \in Inos |-> MapOf(i, Latest(i))]
  BY InosAre DEF MapCore
<1>4. MapCore' = [i \in Inos |-> MapOf(i, Latest(i))']
  BY InosAre DEF MapCore, Inos, TARFS_FREE_INO
<1> QED
  BY <1>2, <1>3, <1>4

(* The parts of the invariant about the inodes and directories, when a step *)
(* leaves most of them alone.                                               *)
Same(i) == Latest(i)' = Latest(i) /\ mapped'[i] = mapped[i] /\ Extra(i)' = Extra(i)

LEMMA InodesOn ==
    ASSUME NEW inds, NEW thrown, NEW P, Active(inds, thrown, P), NEW Q,
           files' = files, cur' \in {cur, cur + 1},
           \A i \in 1..inodeNum'-1 :
              InodeOf(Q, i)' \/ (i \in 1..inodeNum-1 /\ Q[i] = P[i] /\ Same(i))
    PROVE  Inodes(Q)'
<1>1. cur \in Nat /\ Inodes(P)
  <2>1. Prog(P) /\ Inodes(P)
    BY StateIs
  <2>2. Len(files) \in Nat
    <3>1. files \in Seq([path : Seq(DOMAIN NameLen) \ {<<>>}, ftype : STRING \ {"none"}, size : Nat])
      BY <2>1, ArchivesAssumption DEF Prog
    <3>2. PICK S : S = [path : Seq(DOMAIN NameLen) \ {<<>>}, ftype : STRING \ {"none"}, size : Nat]
      OBVIOUS
    <3> QED
      BY <3>1, <3>2
  <2> QED
    BY <2>1, <2>2 DEF Prog
<1>2. ASSUME NEW i \in 1..inodeNum-1, Q[i] = P[i], Same(i) PROVE InodeOf(Q, i)'
  <2>1. InodeOf(P, i)
    BY <1>1, <1>2 DEF Inodes
  <2>2. PICK di : di = Latest(i)
    OBVIOUS
  <2>3. Latest(i)' = di /\ mapped'[i] = mapped[i] /\ Extra(i)' = Extra(i)
    BY <1>2, <2>2 DEF Same
  <2>4. CASE di.di_mode = "dir"
    <3>1. di.di_size = TAR_BLOCKSIZE * di.di_blocks /\ Len(mapped[i]) = di.di_blocks + Extra(i)
      BY <2>1, <2>2, <2>4 DEF InodeOf
    <3> QED
      BY <2>3, <2>4, <3>1 DEF InodeOf
  <2>5. CASE di.di_mode # "dir"
    <3>1. mapped[i] = <<>>
          /\ IF di.di_size = 0 THEN di.di_blocks = 0 /\ di.di_nExtents = 0 /\ di.di_directExtent = <<>>
             ELSE \E j \in 1..cur : files[j].path = P[i] /\ files[j].size > 0 /\ files[j].ftype # "dir"
      BY <2>1, <2>2, <2>5 DEF InodeOf
    <3>2. 1..cur \subseteq 1..cur'
      BY <1>1
    <3>3. di.di_size # 0 => \E j \in 1..cur' : files'[j].path = Q[i] /\ files'[j].size > 0 /\ files'[j].ftype # "dir"
      BY <1>2, <3>1, <3>2
    <3> QED
      BY <2>3, <2>5, <3>1, <3>3 DEF InodeOf
  <2> QED
    BY <2>4, <2>5
<1> QED
  BY <1>2 DEF Inodes

LEMMA DirOn ==
    ASSUME NEW inds, NEW thrown, NEW P, Active(inds, thrown, P), NEW Q, Mem',
           inodeNum <= inodeNum', \A j \in 1..inodeNum-1 : Q[j] = P[j],
           NEW i \in 1..inodeNum-1, NEW b, disk'[b] = disk[b], DirBlk(P, i, b)
    PROVE  DirBlk(Q, i, b)'
<1>1. inodeNum \in Nat /\ inodeNum' \in Nat
  BY StateIs DEF Mem
<1>2. PICK c : c = disk[b]
  OBVIOUS
<1>3. c.kind = "dir" /\ disk'[b] = c
  BY <1>2 DEF DirBlk
<1>4. ASSUME NEW j \in 1..Len(c.ents), c.ents[j].d_name \notin Dots2
      PROVE  c.ents[j].d_ino \in i+1..inodeNum'-1 /\ Q[c.ents[j].d_ino] = Append(Q[i], c.ents[j].d_name)
  <2>1. c.ents[j].d_ino \in i+1..inodeNum-1 /\ P[c.ents[j].d_ino] = Append(P[i], c.ents[j].d_name)
    BY <1>2, <1>4 DEF DirBlk
  <2>2. c.ents[j].d_ino \in 1..inodeNum-1 /\ c.ents[j].d_ino \in i+1..inodeNum'-1
    BY <1>1, <2>1
  <2>3. Q[c.ents[j].d_ino] = P[c.ents[j].d_ino] /\ Q[i] = P[i]
    BY <2>2
  <2> QED
    BY <2>1, <2>2, <2>3
<1> QED
  BY <1>3, <1>4 DEF DirBlk

LEMMA DirsOn ==
    ASSUME NEW inds, NEW thrown, NEW P, Active(inds, thrown, P), NEW Q, Mem',
           inodeNum <= inodeNum', \A j \in 1..inodeNum-1 : Q[j] = P[j],
           \A i \in 1..inodeNum'-1 : \A b : InMap(i, b)' =>
              \/ Pending(b)' \/ DirBlk(Q, i, b)'
              \/ i \in 1..inodeNum-1 /\ InMap(i, b) /\ ~Pending(b) /\ disk'[b] = disk[b]
    PROVE  DirsOf(Q)'
<1>1. ASSUME NEW i \in 1..inodeNum'-1, NEW b, InMap(i, b)' PROVE Pending(b)' \/ DirBlk(Q, i, b)'
  <2>1. CASE i \in 1..inodeNum-1 /\ InMap(i, b) /\ ~Pending(b) /\ disk'[b] = disk[b]
    <3>1. DirBlk(P, i, b)
      <4>1. PICK k \in 1..Len(mapped[i]) : mapped[i][k] = b
        BY <2>1 DEF InMap
      <4>2. Pending(mapped[i][k]) \/ DirBlk(P, i, mapped[i][k])
        BY <2>1, StateIs DEF DirsOf
      <4> HIDE DEF DirBlk, Pending
      <4> QED
        BY <2>1, <4>1, <4>2
    <3> QED
      BY <2>1, <3>1, DirOn
  <2> QED
    BY <1>1, <2>1
<1>2. PICK s : s = mapped'
  OBVIOUS
<1>3. ASSUME NEW i \in 1..inodeNum'-1, NEW k \in 1..Len(s[i])
      PROVE  Pending(s[i][k])' \/ DirBlk(Q, i, s[i][k])'
  <2>1. PICK b : b = s[i][k]
    OBVIOUS
  <2>2. InMap(i, b)'
    BY <1>2, <1>3, <2>1 DEF InMap
  <2>3. Pending(b)' \/ DirBlk(Q, i, b)'
    BY <1>1, <2>2
  <2>4. b' = b /\ (s[i][k])' = s[i][k]
    OBVIOUS
  <2> QED
    BY <2>1, <2>3, <2>4
<1> QED
  BY <1>2, <1>3 DEF DirsOf

LEMMA MappedOn ==
    ASSUME NEW inds, NEW thrown, NEW P, Active(inds, thrown, P), mapped' = mapped,
           inodeNum' \in Nat, inodeNum <= inodeNum'
    PROVE  MappedOnce' /\ NoInode'
<1>1. MappedOnce /\ NoInode /\ inodeNum \in Nat /\ MaxBlks \in Nat
  BY StateIs
<1>2. MappedOnce'
  BY <1>1 DEF MappedOnce, InMap
<1>3. NoInode'
  <2>1. \A i \in 1..MaxBlks : i >= inodeNum' => i >= inodeNum
    BY <1>1
  <2> QED
    BY <1>1, <2>1 DEF NoInode
<1> QED
  BY <1>2, <1>3

LEMMA UsedOn ==
    ASSUME NEW inds, NEW thrown, NEW P, Active(inds, thrown, P), NEW m \in Managers, NEW b, Taken(m, b)
    PROVE  /\ UsedOnce' /\ used'[m] = used[m] \union {b} /\ b \in used'[m]
           /\ \A k \in Managers : used[k] \subseteq used'[k] /\ (k # m => used'[k] = used[k])
<1>1. UsedOnce /\ used \in [Managers -> SUBSET (orgblks..blks-1)]
  BY StateIs
<1>2. used' = [used EXCEPT ![m] = used[m] \union {b}] /\ \A k \in Managers : b \notin used[k]
  BY DEF Taken
<1>3. /\ used'[m] = used[m] \union {b} /\ \A k \in Managers : k # m => used'[k] = used[k]
  BY <1>1, <1>2
<1>4. UsedOnce'
  BY <1>1, <1>2, <1>3 DEF UsedOnce
<1> QED
  BY <1>3, <1>4

(* A write of a directory block or dinode, or none.                         *)
Puts(W) ==
    \/ W = {} /\ UNCHANGED <<blks, disk>>
    \/ \E m \in {"dir", "dinode"} : \E b \in used[m] : \E c :
          W = {b} /\ write(c, b) /\ c.kind = m /\ (m = "dir" => Formed(c))

LEMMA PutsIs ==
    ASSUME NEW inds, NEW thrown, NEW P, Active(inds, thrown, P), ins = NoFrame, ins' = NoFrame,
           UNCHANGED <<orgblks, head, used, calls, inodeNum, mapped, phase>>,
           MapCore' = MapCore, NEW W, Puts(W)
    PROVE  /\ BPStep /\ EM!TypeInv' /\ EM!RunInv(inds, thrown)'
           /\ blks' = blks /\ FileStep(W) /\ AllFormed' /\ NoSuper'
<1>1. /\ EM!Alive(inds, thrown) /\ UsedOnce /\ {"dir", "iex", "dinode"} \subseteq Managers
      /\ blks \in Nat /\ DOMAIN disk = 0..blks-1
  BY StateIs
<1>2. MapIns = EM!NoFrame /\ MapIns' = MapIns
  BY DEF MapIns, EM!NoFrame, NoFrame
<1>3. CASE W = {} /\ UNCHANGED <<blks, disk>>
  <2>1. UNCHANGED EM!vars
    BY <1>2, <1>3 DEF EM!vars, EM!spaceVars, EM!inodeVars
  <2>2. EM!TypeInv' /\ EM!RunInv(inds, thrown)'
    BY <1>1, <1>2, <2>1, Given, BulksAssumption, IndExtAssumption, EM!Stutters
  <2>3. UNCHANGED EM!BP!vars
    BY <1>3 DEF EM!BP!vars
  <2>4. FileStep(W)
    BY <1>1, <1>3 DEF FileStep
  <2>5. AllFormed' /\ NoSuper'
    BY <1>3, <2>4, FileOn
  <2> QED
    BY <1>3, <2>2, <2>3, <2>4, <2>5 DEF BPStep
<1>4. ASSUME NEW m \in {"dir", "dinode"}, NEW b \in used[m], NEW c,
             W = {b}, write(c, b), c.kind = m, m = "dir" => Formed(c)
      PROVE  /\ BPStep /\ EM!TypeInv' /\ EM!RunInv(inds, thrown)'
             /\ blks' = blks /\ FileStep(W) /\ AllFormed' /\ NoSuper'
  <2>1. b \notin used["iex"] /\ m \in Managers /\ c.kind \notin {"tar", "free", "super"}
    BY <1>1, <1>4 DEF UsedOnce
  <2>2. EM!writeIex(c, b)
    BY <1>4 DEF EM!writeIex, write, writeBlock, EM!writeBlock
  <2>3. /\ b \in EM!BP!AllUsed /\ EM!BP!WriteUsed(b)
        /\ blks' = blks /\ b \in 0..blks-1 /\ disk' = [disk EXCEPT ![b] = c]
        /\ EM!TypeInv' /\ EM!RunInv(inds, thrown)'
    BY <1>1, <1>2, <2>1, <2>2, Given, BulksAssumption, IndExtAssumption, EM!DataWritten
  <2>4. BPStep
    BY <2>3 DEF BPStep, EM!BP!ClientNext
  <2>5. FileStep(W)
    BY <1>1, <1>4, <2>3 DEF FileStep
  <2>6. disk'[b] = c
    BY <1>1, <2>3
  <2>7. AllFormed' /\ NoSuper'
    BY <1>4, <2>5, <2>6, <2>1, FileOn
  <2> QED
    BY <2>3, <2>4, <2>5, <2>7
<1> QED
  BY <1>3, <1>4 DEF Puts

(* What is written is a directory block or the dinode of an object in       *)
(* memory.                                                                  *)
Apart(W) == \A b \in W : b \in used["dir"] \/ \E g \in Handles : Loaded(g) /\ b = core[g].blkno

LEMMA StayIs ==
    ASSUME NEW inds, NEW thrown, NEW P, Active(inds, thrown, P), NEW W, FileStep(W), Apart(W)
    PROVE  \A i \in Nat : DisksStay(i)
<1>1. /\ Mem /\ UsedOnce /\ {"dir", "dinode"} \subseteq Managers /\ inodeNum \in Nat
      /\ inodeNum <= Len(Dinodes) /\ Len(Dinodes) \in Nat /\ Dinodes \in Seq(Nat)
      /\ \A i \in 1..inodeNum : Dinodes[i] \in used["dinode"] /\ Dinodes[i] \in 0..blks-1
      /\ \A i, j \in 1..Len(Dinodes) : i < j => Dinodes[i] < Dinodes[j]
  BY StateIs, MapsAre
<1>2. ASSUME NEW i \in Nat, i < inodeNum, ~InMem(i) PROVE disk'[Dinodes[i + 1]] = disk[Dinodes[i + 1]]
  <2>1. i + 1 \in 1..inodeNum /\ i + 1 \in 1..Len(Dinodes)
    BY <1>1, <1>2
  <2>2. Dinodes[i + 1] \in used["dinode"] /\ Dinodes[i + 1] \in 0..blks-1
    BY <1>1, <2>1
  <2>3. Dinodes[i + 1] \notin used["dir"]
    BY <1>1, <2>2 DEF UsedOnce
  <2>4. ASSUME NEW g \in Handles, Loaded(g), Dinodes[i + 1] = core[g].blkno PROVE FALSE
    <3>1. core[g].ino \in 0..inodeNum-1 /\ core[g].blkno = Dinodes[core[g].ino + 1]
      BY <1>1, <2>4 DEF Mem
    <3>2. PICK j \in Nat : j = core[g].ino /\ j + 1 \in 1..Len(Dinodes)
      BY <1>1, <3>1
    <3>3. Dinodes[i + 1] = Dinodes[j + 1] /\ Dinodes[i + 1] \in Nat /\ j # i
      BY <1>2, <2>2, <2>4, <3>1, <3>2, StateIs DEF InMem
    <3>4. PICK x \in 1..Len(Dinodes), y \in 1..Len(Dinodes) : x = i + 1 /\ y = j + 1
      BY <2>1, <3>2
    <3>5. (x < y \/ y < x) /\ Dinodes[x] = Dinodes[y] /\ Dinodes[x] \in Nat
      <4>1. Dinodes[x] = Dinodes[y] /\ Dinodes[x] \in Nat
        BY <3>3, <3>4, Zenon
      <4>2. x < y \/ y < x
        <5>1. j # i
          BY <3>3
        <5> QED
          BY <3>4, <5>1
      <4> QED
        BY <4>1, <4>2
    <3>6. Dinodes[x] < Dinodes[y] \/ Dinodes[y] < Dinodes[x]
      BY <1>1, <3>5
    <3> QED
      BY <3>5, <3>6
  <2>5. Dinodes[i + 1] \notin W
    BY <2>3, <2>4 DEF Apart
  <2> QED
    BY <2>2, <2>5 DEF FileStep
<1> QED
  BY <1>2 DEF DisksStay

LEMMA DinodesStay ==
    ASSUME mapped' = mapped, ins' = ins PROVE Dinodes' = Dinodes
BY DEF Dinodes, Grown, TARFS_FREE_INO

(* One object altered, nothing about the maps.                              *)
LEMMA AltersIs ==
    ASSUME NEW inds, NEW thrown, NEW P, Active(inds, thrown, P), ins = NoFrame, ins' = NoFrame,
           mapped' = mapped, NEW h, NEW o, Sets(h, o),
           MapOf(o.ino, DiOf(o)) = MapOf(o.ino, Latest(o.ino)),
           NEW W, FileStep(W), Apart(W)
    PROVE  /\ Mem' /\ OnDisk' /\ MapCore' = MapCore /\ Dinodes' = Dinodes
           /\ \A i \in Nat : /\ Latest(i)' = IF i = o.ino THEN DiOf(o) ELSE Latest(i)
                             /\ InMem(i)' <=> i = o.ino \/ InMem(i)
<1>1. Dinodes' = Dinodes
  BY DinodesStay
<1>2. Dwell
  BY <1>1 DEF Dwell
<1>3. \A i \in Nat : DisksStay(i)
  BY StayIs
<1>4. Mem'
  BY <1>2, MemOn
<1>5. OnDisk'
  BY <1>2, <1>3, OnDiskOn
<1>6. MapCore' = MapCore
  <2>1. MapCore' = [MapCore EXCEPT ![o.ino] = MapOf(o.ino, DiOf(o))]
    BY <1>2, <1>3, MapCoreOn
  <2>2. MapCore = [i \in Inos |-> MapOf(i, Latest(i))]
    BY InosAre DEF MapCore
  <2>3. MapCore' = [MapCore EXCEPT ![o.ino] = MapOf(o.ino, Latest(o.ino))]
    BY <2>1
  <2>4. PICK M : M = MapCore
    OBVIOUS
  <2>5. DOMAIN M = Inos /\ (o.ino \in Inos => M[o.ino] = MapOf(o.ino, Latest(o.ino)))
    BY <2>2, <2>4
  <2>6. M = [i \in Inos |-> M[i]]
    BY <2>2, <2>4
  <2>7. [M EXCEPT ![o.ino] = MapOf(o.ino, Latest(o.ino))] = M
    BY <2>5, <2>6
  <2> QED
    BY <2>3, <2>4, <2>7
<1>7. ASSUME NEW i \in Nat
      PROVE  /\ Latest(i)' = IF i = o.ino THEN DiOf(o) ELSE Latest(i)
             /\ InMem(i)' <=> i = o.ino \/ InMem(i)
  BY <1>2, <1>3, LatestOn
<1> QED
  BY <1>1, <1>4, <1>5, <1>6, <1>7

LEMMA Continues ==
    ASSUME NEW inds, NEW thrown, NEW P, Active(inds, thrown, P), ins = NoFrame, ins' = NoFrame,
           UNCHANGED <<orgblks, head, used, calls, inodeNum, mapped, phase, files>>,
           cur' \in {cur, cur + 1}, MapCore' = MapCore, Mem', OnDisk', NEW W, Puts(W),
           \A i \in 1..inodeNum-1 : InodeOf(P, i)' \/ Same(i),
           \A i \in 1..inodeNum-1 : \A b : InMap(i, b) =>
              Pending(b)' \/ DirBlk(P, i, b)' \/ (~Pending(b) /\ b \notin W),
           Prog(P)'
    PROVE  Goes
<1>1. /\ BPStep /\ EM!TypeInv' /\ EM!RunInv(inds, thrown)'
      /\ blks' = blks /\ FileStep(W) /\ AllFormed' /\ NoSuper'
  BY PutsIs
<1>2. inodeNum \in Nat /\ UsedOnce /\ phase = "run" /\ P \in [Inos -> Seq(EntNames)]
  BY StateIs
<1>3. MappedOnce' /\ NoInode'
  BY <1>2, MappedOn
<1>4. UsedOnce'
  BY <1>2 DEF UsedOnce
<1>5. Inodes(P)'
  BY InodesOn
<1>6. ASSUME NEW i \in 1..inodeNum-1, NEW b, InMap(i, b)'
      PROVE  \/ Pending(b)' \/ DirBlk(P, i, b)'
             \/ InMap(i, b) /\ ~Pending(b) /\ disk'[b] = disk[b]
  <2>1. InMap(i, b)
    BY <1>6 DEF InMap
  <2>2. b \in 0..blks-1
    <3>1. i \in 1..MaxBlks
      BY <1>2, StateIs, InosFit
    <3> QED
      BY <2>1, <3>1, MapsAre DEF InMap
  <2>3. b \notin W => disk'[b] = disk[b]
    BY <1>1, <2>2 DEF FileStep
  <2> QED
    BY <2>1, <2>3
<1>7. DirsOf(P)'
  <2>1. \A i \in 1..inodeNum'-1 : \A b : InMap(i, b)' =>
              \/ Pending(b)' \/ DirBlk(P, i, b)'
              \/ i \in 1..inodeNum-1 /\ InMap(i, b) /\ ~Pending(b) /\ disk'[b] = disk[b]
    BY <1>6
  <2> QED
    BY <1>2, <2>1, DirsOn
<1> QED
  BY <1>1, <1>2, <1>3, <1>4, <1>5, <1>7, GoesOn

-----------------------------------------------------------------------------
LEMMA WriteIs ==
    ASSUME NEW inds, NEW thrown, NEW P, Active(inds, thrown, P),
           UNCHANGED <<orgblks, head, used, calls, phase>>,
           NEW m \in Managers, NEW b \in used[m], NEW c, c.kind \notin {"tar", "free", "super"},
           write(c, b)
    PROVE  /\ blks' = blks /\ b \in 0..blks-1 /\ disk' = [disk EXCEPT ![b] = c]
           /\ disk'[b] = c /\ FileStep({b})
<1>1. EM!BP!IInv /\ phase = "run" /\ blks \in Nat /\ DOMAIN disk = 0..blks-1
  BY StateIs DEF Active
<1>2. EM!writeIex(c, b)
  BY DEF EM!writeIex, write, writeBlock, EM!writeBlock
<1>3. blks' = blks /\ b \in 0..blks-1 /\ disk' = [disk EXCEPT ![b] = c]
  BY <1>1, <1>2, Given, BulksAssumption, IndExtAssumption, EM!UsedSeen
<1> QED
  BY <1>1, <1>3 DEF FileStep

LEMMA PutsFile ==
    ASSUME NEW inds, NEW thrown, NEW P, Active(inds, thrown, P),
           UNCHANGED <<orgblks, head, used, calls, phase>>, NEW W, Puts(W)
    PROVE  FileStep(W)
<1>1. {"dir", "dinode"} \subseteq Managers /\ blks \in Nat /\ DOMAIN disk = 0..blks-1
  BY StateIs
<1>2. CASE W = {} /\ UNCHANGED <<blks, disk>>
  BY <1>1, <1>2 DEF FileStep
<1>3. ASSUME NEW m \in {"dir", "dinode"}, NEW b \in used[m], NEW c, W = {b}, write(c, b), c.kind = m
      PROVE  FileStep(W)
  BY <1>1, <1>3, WriteIs
<1> QED
  BY <1>2, <1>3 DEF Puts

(* The actions.  Some change nothing about the inodes.                      *)
LEMMA Passes ==
    ASSUME NEW inds, NEW thrown, NEW P, Active(inds, thrown, P), ins = NoFrame,
           UNCHANGED <<orgblks, head, used, calls, core, ins, inodeNum, mapped, phase, files>>,
           inodeNum > 0, cur' \in {cur, cur + 1},
           pc \notin {"dots", "newBlock"}, pc' \notin {"dots", "newBlock"},
           NEW W, Puts(W), Apart(W), W \intersect used["dir"] = {},
           Prog(P)'
    PROVE  Goes
<1>1. Mem /\ inodeNum \in Nat
  BY StateIs
<1>2. PICK o : o = core["free"]
  OBVIOUS
<1>3. /\ "free" \in Handles /\ o.ino = 0 /\ Loaded("free") /\ o \in Obj12
      /\ Latest(o.ino) = DiOf(o)
  <2>1. "free" \in Handles /\ o.ino = 0 /\ Loaded("free")
    BY <1>1, <1>2 DEF Mem, Handles, Loaded
  <2> QED
    BY <1>1, <1>2, <2>1, LatestMem
<1>4. Dinodes' = Dinodes
  BY DinodesStay
<1>5. Sets("free", o)
  <2>1. core' = [core EXCEPT !["free"] = o]
    BY <1>1, <1>2 DEF Mem
  <2>2. o.blkno = Dinodes'[o.ino + 1]
    BY <1>1, <1>2, <1>3, <1>4 DEF Mem
  <2>3. \A g \in Handles : g # "free" => core[g].ino # o.ino
    BY <1>1, <1>2, <1>3 DEF Mem
  <2>4. o.ino < inodeNum' /\ core["free"].ino \in {-1, o.ino}
    BY <1>2, <1>3
  <2>5. ("free" = "free" <=> o.ino = 0) /\ ("free" = "root" <=> o.ino = 1)
    BY <1>3
  <2>6. o.ino \in Nat
    BY <1>3
  <2> QED
    BY <1>3, <2>1, <2>2, <2>3, <2>4, <2>5, <2>6, Zenon DEF Sets
<1>6. FileStep(W)
  BY PutsFile
<1>7. /\ Mem' /\ OnDisk' /\ MapCore' = MapCore
      /\ \A i \in Nat : Latest(i)' = IF i = o.ino THEN DiOf(o) ELSE Latest(i)
  BY <1>3, <1>5, <1>6, AltersIs
<1>8. \A i \in Nat : Latest(i)' = Latest(i)
  BY <1>3, <1>7
<1>9. ASSUME NEW i \in 1..inodeNum-1 PROVE Same(i)
  <2>1. Extra(i) = 0
    BY DEF Extra, AtTarget
  <2>2. Extra(i)' = 0
    BY DEF Extra, AtTarget
  <2> QED
    BY <1>8, <2>1, <2>2 DEF Same
<1>10. ASSUME NEW i \in 1..inodeNum-1, NEW b, InMap(i, b) PROVE ~Pending(b) /\ b \notin W
  <2>1. i \in 1..MaxBlks
    BY <1>1, StateIs, InosFit
  <2>2. b \in used["dir"]
    BY <1>10, <2>1, MapsAre DEF InMap
  <2> QED
    BY <2>2 DEF Pending
<1> QED
  BY <1>7, <1>9, <1>10, Continues

LEMMA BlknoIs ==
    ASSUME NEW inds, NEW thrown, NEW P, Active(inds, thrown, P), NEW h \in Handles, Loaded(h)
    PROVE  /\ core[h].blkno \in used["dinode"] /\ core[h].blkno \notin used["dir"]
           /\ core[h].blkno \in 0..blks-1
           /\ \A g \in Handles : Loaded(g) /\ core[g].blkno = core[h].blkno => g = h
<1>1. /\ Mem /\ UsedOnce /\ {"dir", "dinode"} \subseteq Managers /\ inodeNum \in Nat
      /\ inodeNum <= Len(Dinodes) /\ Len(Dinodes) \in Nat
      /\ \A i \in 1..inodeNum : Dinodes[i] \in used["dinode"] /\ Dinodes[i] \in 0..blks-1
      /\ \A i, j \in 1..Len(Dinodes) : i < j => Dinodes[i] < Dinodes[j]
  BY StateIs, MapsAre
<1>2. ASSUME NEW g \in Handles, Loaded(g)
      PROVE  \E x \in 1..inodeNum : x - 1 = core[g].ino /\ core[g].blkno = Dinodes[x] /\ x \in 1..Len(Dinodes)
  <2>1. core[g].ino \in 0..inodeNum-1 /\ core[g].blkno = Dinodes[core[g].ino + 1]
    BY <1>1, <1>2 DEF Mem
  <2>2. PICK x \in 1..inodeNum : x = core[g].ino + 1 /\ x - 1 = core[g].ino
    BY <1>1, <2>1
  <2> QED
    BY <1>1, <2>1, <2>2
<1>3. PICK x \in 1..inodeNum : x - 1 = core[h].ino /\ core[h].blkno = Dinodes[x] /\ x \in 1..Len(Dinodes)
  BY <1>2
<1>4. core[h].blkno \in used["dinode"] /\ core[h].blkno \in 0..blks-1
  BY <1>1, <1>3
<1>5. core[h].blkno \notin used["dir"]
  BY <1>1, <1>4 DEF UsedOnce
<1>6. ASSUME NEW g \in Handles, Loaded(g), core[g].blkno = core[h].blkno PROVE g = h
  <2>1. PICK y \in 1..inodeNum : y - 1 = core[g].ino /\ core[g].blkno = Dinodes[y] /\ y \in 1..Len(Dinodes)
    BY <1>2, <1>6
  <2>2. Dinodes[x] = Dinodes[y] /\ Dinodes[x] \in Nat
    BY <1>1, <1>3, <1>6, <2>1
  <2>3. x = y
    <3>1. ASSUME x # y PROVE FALSE
      <4>1. x < y \/ y < x
        BY <1>1, <3>1
      <4>2. Dinodes[x] < Dinodes[y] \/ Dinodes[y] < Dinodes[x]
        BY <1>1, <1>3, <2>1, <4>1
      <4> QED
        BY <2>2, <4>2
    <3> QED
      BY <3>1
  <2>4. core[g].ino = core[h].ino
    BY <1>3, <2>1, <2>3
  <2> QED
    BY <1>1, <2>4 DEF Mem
<1> QED
  BY <1>4, <1>5, <1>6

LEMMA SyncIs ==
    ASSUME NEW inds, NEW thrown, NEW P, Active(inds, thrown, P),
           UNCHANGED <<orgblks, head, used, calls, phase>>,
           NEW h \in Handles, Loaded(h), sync(h)
    PROVE  LET b == core[h].blkno
           IN  /\ Puts({b}) /\ Apart({b}) /\ {b} \intersect used["dir"] = {}
               /\ disk'[b] = Dinode(core[h])
               /\ \A g \in Handles : Loaded(g) /\ Synced(g) => disk'[core[g].blkno] = Dinode(core[g])
<1> DEFINE b == core[h].blkno
<1>1. b \in used["dinode"] /\ b \notin used["dir"] /\ b \in 0..blks-1
  BY BlknoIs
<1>2. Dinode(core[h]).kind = "dinode"
  BY StateIs, DinodeIs DEF Mem
<1>3. write(Dinode(core[h]), b)
  BY DEF sync
<1>4. Puts({b})
  <2>1. PICK c : c = Dinode(core[h])
    OBVIOUS
  <2>2. write(c, b) /\ c.kind = "dinode" /\ "dinode" \in {"dir", "dinode"} /\ ~("dinode" = "dir")
    BY <1>2, <1>3, <2>1
  <2> HIDE DEF b
  <2> QED
    BY <1>1, <2>2 DEF Puts
<1>5. Apart({b})
  BY DEF Apart
<1>6. disk'[b] = Dinode(core[h]) /\ FileStep({b})
  <2>1. "dinode" \in Managers
    BY StateIs
  <2>2. Dinode(core[h]).kind \notin {"tar", "free", "super"}
    BY <1>2
  <2> HIDE DEF b
  <2> QED
    BY <1>1, <1>3, <2>1, <2>2, WriteIs
<1>7. ASSUME NEW g \in Handles, Loaded(g), Synced(g) PROVE disk'[core[g].blkno] = Dinode(core[g])
  <2>1. CASE g = h
    BY <1>6, <2>1
  <2>2. CASE g # h
    <3>1. core[g].blkno # b /\ core[g].blkno \in 0..blks-1
      BY <1>7, <2>2, BlknoIs
    <3>2. disk'[core[g].blkno] = disk[core[g].blkno]
      BY <1>6, <3>1 DEF FileStep
    <3> QED
      BY <1>7, <3>2 DEF Synced
  <2> QED
    BY <2>1, <2>2
<1> QED
  BY <1>1, <1>4, <1>5, <1>6, <1>7

(* The main loop and complete.                                              *)
LEMMA ProgOn ==
    ASSUME NEW inds, NEW thrown, NEW P, Active(inds, thrown, P),
           UNCHANGED <<orgblks, core, ins, inodeNum, mapped, files>>,
           cur' \in 0..Len(files), dirh' \in {"root", "dir"}, PcOf(P)'
    PROVE  Prog(P)'
<1>1. Dinodes' = Dinodes
  BY DinodesStay
<1>2. Prog(P)
  BY StateIs
<1> QED
  BY <1>1, <1>2 DEF Prog, First

LEMMA GetGoes ==
    ASSUME NEW inds, NEW thrown, NEW P, Active(inds, thrown, P), Get, Remember PROVE Goes
<1>1. /\ phase = "run" /\ ins = NoFrame /\ pc = "get" /\ cur < Len(files) /\ cur' = cur + 1
      /\ comp' = 1 /\ dirh' = "root" /\ pc' = "lookup"
      /\ UNCHANGED <<orgblks, blks, disk, head, used, calls, core, ins, files, inodeNum, phase>>
  BY DEF Get, At, Goto, spaceVars, inodeVars, countVars
<1>2. mapped' = mapped
  BY <1>1 DEF Remember
<1>3. NoneOpen /\ Prog(P) /\ Mem
  BY <1>1, StateIs, PcIs DEF Prog
<1>4. files \in Seq([path : Seq(DOMAIN NameLen) \ {<<>>}, ftype : STRING \ {"none"}, size : Nat])
  BY <1>3, ArchivesAssumption DEF Prog
<1>5. PICK S : S = [path : Seq(DOMAIN NameLen) \ {<<>>}, ftype : STRING \ {"none"}, size : Nat]
  OBVIOUS
<1>6. Len(files) \in Nat /\ cur \in 0..Len(files) /\ cur + 1 \in 1..Len(files)
  <2>1. Len(files) \in Nat
    BY <1>4, <1>5
  <2> QED
    BY <1>1, <1>3, <2>1 DEF Prog
<1>7. files[cur + 1] \in S
  <2>1. PICK fs : fs = files
    OBVIOUS
  <2>2. fs \in Seq(S)
    BY <1>4, <1>5, <2>1
  <2>3. \A j \in 1..Len(fs) : fs[j] \in S
    BY <2>2
  <2> QED
    BY <1>6, <2>1, <2>3
<1>8. 1 \in 1..Len(files[cur + 1].path) /\ Len(files[cur + 1].path) \in Nat
  BY <1>5, <1>7
<1>9. core["root"].ino = 1 /\ core["root"].di_mode = "dir" /\ P[1] = <<>>
  BY <1>3 DEF NoneOpen, Mem, Prog
<1>10. SubSeq(files[cur + 1].path, 1, 1 - 1) = <<>>
  BY <1>5, <1>7
<1>11. PcOf(P)'
  <2>1. File' = files[cur + 1]
    BY <1>1 DEF File
  <2>2. DirObj' = core["root"] /\ dirh' = "root"
    BY <1>1 DEF DirObj
  <2>3. Loaded("root")' /\ ~Loaded("dir")' /\ ~Loaded("next")'
    BY <1>1, <1>3, <1>9 DEF NoneOpen, Loaded
  <2>4. P[DirObj'.ino] = SubSeq(File'.path, 1, comp' - 1)
    BY <1>1, <1>9, <1>10, <2>1, <2>2
  <2>5. comp' \in 1..Len(File'.path) /\ cur' \in 1..Len(files') /\ inodeNum' > 1 /\ DirObj'.di_mode = "dir"
    BY <1>1, <1>3, <1>6, <1>8, <1>9, <2>1, <2>2 DEF NoneOpen
  <2>6. Adding(P)'
    BY <2>2, <2>3, <2>4, <2>5 DEF Adding
  <2> QED
    BY <1>1, <2>3, <2>6 DEF PcOf, Quiet
<1>12. Prog(P)'
  BY <1>1, <1>2, <1>6, <1>11, ProgOn
<1>13. Puts({}) /\ Apart({})
  BY <1>1 DEF Puts, Apart
<1>14. inodeNum > 0
  BY <1>3 DEF NoneOpen, Mem
<1> QED
  BY <1>1, <1>2, <1>12, <1>13, <1>14, Passes

LEMMA EofGoes ==
    ASSUME NEW inds, NEW thrown, NEW P, Active(inds, thrown, P), Eof, Remember PROVE Goes
<1>1. /\ phase = "run" /\ ins = NoFrame /\ pc = "get" /\ pc' = "syncRoot"
      /\ UNCHANGED <<orgblks, blks, disk, head, used, calls, core, ins, files, cur, dirh, inodeNum, phase>>
  BY DEF Eof, At, Goto, spaceVars, inodeVars, countVars, addVars
<1>2. mapped' = mapped
  BY <1>1 DEF Remember
<1>3. NoneOpen /\ Prog(P) /\ Mem
  BY <1>1, StateIs, PcIs DEF Prog
<1>4. PcOf(P)'
  BY <1>1, <1>3 DEF PcOf, NoneOpen, Loaded, Quiet
<1>5. Prog(P)'
  BY <1>1, <1>2, <1>3, <1>4, ProgOn DEF Prog
<1>6. Puts({}) /\ Apart({}) /\ inodeNum > 0
  BY <1>1, <1>3 DEF Puts, Apart, NoneOpen, Mem
<1> QED
  BY <1>1, <1>2, <1>5, <1>6, Passes

LEMMA SyncRootGoes ==
    ASSUME NEW inds, NEW thrown, NEW P, Active(inds, thrown, P), SyncRoot, Remember PROVE Goes
<1>1. /\ phase = "run" /\ ins = NoFrame /\ pc = "syncRoot" /\ pc' = "syncFree" /\ sync("root")
      /\ UNCHANGED <<orgblks, head, used, calls, core, ins, files, cur, dirh, inodeNum, phase>>
  BY DEF SyncRoot, At, Goto, inodeVars, countVars, addVars
<1>2. mapped' = mapped
  BY <1>1 DEF Remember
<1>3. NoneOpen /\ Prog(P) /\ Mem
  BY <1>1, StateIs, PcIs DEF Prog
<1>4. "root" \in Handles /\ Loaded("root") /\ inodeNum > 0
  BY <1>3 DEF Handles, NoneOpen, Mem, Loaded
<1>5. PICK b : b = core["root"].blkno
  OBVIOUS
<1>6. Puts({b}) /\ Apart({b}) /\ {b} \intersect used["dir"] = {} /\ disk'[b] = Dinode(core["root"])
  BY <1>1, <1>4, <1>5, SyncIs
<1>7. Synced("root")'
  BY <1>1, <1>5, <1>6 DEF Synced
<1>8. PcOf(P)'
  BY <1>1, <1>3, <1>7 DEF PcOf, NoneOpen, Loaded, Quiet
<1>9. Prog(P)'
  BY <1>1, <1>2, <1>3, <1>8, ProgOn DEF Prog
<1> QED
  BY <1>1, <1>2, <1>4, <1>6, <1>9, Passes

LEMMA SyncFreeGoes ==
    ASSUME NEW inds, NEW thrown, NEW P, Active(inds, thrown, P), SyncFree, Remember PROVE Goes
<1>1. /\ phase = "run" /\ ins = NoFrame /\ pc = "syncFree" /\ pc' = "super" /\ sync("free")
      /\ UNCHANGED <<orgblks, head, used, calls, core, ins, files, cur, dirh, inodeNum, phase>>
  BY DEF SyncFree, At, Goto, inodeVars, countVars, addVars
<1>2. mapped' = mapped
  BY <1>1 DEF Remember
<1>3. NoneOpen /\ Prog(P) /\ Mem /\ Synced("root")
  BY <1>1, StateIs, PcIs DEF Prog
<1>4. "root" \in Handles /\ "free" \in Handles /\ Loaded("free") /\ Loaded("root") /\ inodeNum > 0
  BY <1>3 DEF Handles, NoneOpen, Mem, Loaded
<1>5. PICK b : b = core["free"].blkno
  OBVIOUS
<1>6. /\ Puts({b}) /\ Apart({b}) /\ {b} \intersect used["dir"] = {} /\ disk'[b] = Dinode(core["free"])
      /\ disk'[core["root"].blkno] = Dinode(core["root"])
  BY <1>1, <1>3, <1>4, <1>5, SyncIs
<1>7. Synced("free")' /\ Synced("root")'
  BY <1>1, <1>5, <1>6 DEF Synced
<1>8. PcOf(P)'
  BY <1>1, <1>3, <1>7 DEF PcOf, NoneOpen, Loaded, Quiet
<1>9. Prog(P)'
  BY <1>1, <1>2, <1>3, <1>8, ProgOn DEF Prog
<1> QED
  BY <1>1, <1>2, <1>4, <1>6, <1>9, Passes

LEMMA SyncGoes ==
    ASSUME NEW inds, NEW thrown, NEW P, Active(inds, thrown, P), Sync, Remember PROVE Goes
<1>1. /\ phase = "run" /\ ins = NoFrame /\ pc = "sync" /\ pc' = "syncDir" /\ sync("next")
      /\ UNCHANGED <<orgblks, head, used, calls, core, ins, files, cur, comp, dirh, inodeNum, phase>>
  BY DEF Sync, At, Goto, inodeVars, countVars, addVars
<1>2. mapped' = mapped
  BY <1>1 DEF Remember
<1>3. Adding(P) /\ HasNext(P) /\ Prog(P) /\ Mem
  BY <1>1, StateIs, PcIs DEF Prog
<1>4. "next" \in Handles /\ Loaded("next") /\ inodeNum > 0
  BY <1>3 DEF Handles, HasNext, Adding, Mem
<1>5. PICK b : b = core["next"].blkno
  OBVIOUS
<1>6. Puts({b}) /\ Apart({b}) /\ {b} \intersect used["dir"] = {} /\ disk'[b] = Dinode(core["next"])
  BY <1>1, <1>4, <1>5, SyncIs
<1>7. Synced("next")'
  BY <1>1, <1>5, <1>6 DEF Synced
<1>8. Adding(P)' /\ HasNext(P)'
  BY <1>1, <1>3 DEF Adding, HasNext, File, DirObj, NextObj, Loaded, LastComp
<1>9. PcOf(P)'
  BY <1>1, <1>7, <1>8 DEF PcOf, Quiet
<1>10. Prog(P)'
  BY <1>1, <1>2, <1>3, <1>9, ProgOn DEF Prog
<1> QED
  BY <1>1, <1>2, <1>4, <1>6, <1>10, Passes

(* Others alter one object.                                                 *)
LEMMA Alters ==
    ASSUME NEW inds, NEW thrown, NEW P, Active(inds, thrown, P), ins = NoFrame,
           UNCHANGED <<orgblks, head, used, calls, ins, inodeNum, mapped, phase, files, cur>>,
           NEW h, NEW o, Sets(h, o), MapOf(o.ino, DiOf(o)) = MapOf(o.ino, Latest(o.ino)),
           NEW W, Puts(W), Apart(W),
           InodeOf(P, o.ino)' \/ Same(o.ino),
           \A i \in 1..inodeNum-1 : i # o.ino => Extra(i)' = Extra(i),
           \A i \in 1..inodeNum-1 : \A b : InMap(i, b) =>
              Pending(b)' \/ DirBlk(P, i, b)' \/ (~Pending(b) /\ b \notin W),
           Prog(P)'
    PROVE  Goes
<1>1. FileStep(W)
  BY PutsFile
<1>2. /\ Mem' /\ OnDisk' /\ MapCore' = MapCore
      /\ \A i \in Nat : Latest(i)' = IF i = o.ino THEN DiOf(o) ELSE Latest(i)
  BY <1>1, AltersIs
<1>3. ASSUME NEW i \in 1..inodeNum-1 PROVE InodeOf(P, i)' \/ Same(i)
  <2>1. CASE i = o.ino
    <3>1. PICK k : k = o.ino
      OBVIOUS
    <3>2. CASE InodeOf(P, o.ino)'
      <4>1. InodeOf(P, k)' <=> InodeOf(P, o.ino)'
        BY <3>1
      <4> QED
        BY <2>1, <3>1, <3>2, <4>1
    <3>3. CASE Same(o.ino)
      BY <2>1, <3>3
    <3> QED
      BY <3>2, <3>3
  <2>2. CASE i # o.ino
    <3>1. Latest(i)' = Latest(i)
      BY <1>2, <2>2
    <3> QED
      BY <2>2, <3>1 DEF Same
  <2> QED
    BY <2>1, <2>2
<1> QED
  BY <1>2, <1>3, Continues

(* What a lookup finds becomes an object.                                   *)
LEMMA FoundSets ==
    ASSUME NEW inds, NEW thrown, NEW P, Active(inds, thrown, P), At("lookup"), Has(DirObj, Name),
           inodeNum' = inodeNum, Dinodes' = Dinodes,
           NEW o \in Obj12, o.ino = Found.ino, o.blkno = Found.blkno,
           core' = [core EXCEPT !["next"] = o]
    PROVE  Sets("next", o)
<1>1. pc = "lookup" /\ ins = NoFrame /\ ~Loaded("next") /\ Mem /\ inodeNum \in Nat
  BY StateIs, PcIs DEF At, Prog
<1>2. PICK n : n = o.ino
  OBVIOUS
<1>3. n \in 2..inodeNum-1 /\ ~InMem(n) /\ o.blkno = Dinodes[n + 1]
  BY <1>2, FoundIs
<1>4. Dinodes' = Dinodes
  OBVIOUS
<1>5. "next" \in Handles /\ core["next"].ino = -1
  BY <1>1 DEF Handles, Loaded
<1>6. \A g \in Handles : core[g].ino # n
  BY <1>3 DEF InMem
<1>7. n \in Nat /\ n < inodeNum' /\ n # 0 /\ n # 1
  BY <1>1, <1>3
<1>8. ("next" = "free" <=> n = 0) /\ ("next" = "root" <=> n = 1)
  BY <1>7
<1> QED
  BY <1>2, <1>3, <1>4, <1>5, <1>6, <1>7, <1>8 DEF Sets

(* And the path goes on to it.                                              *)
LEMMA FoundNext ==
    ASSUME NEW inds, NEW thrown, NEW P, Active(inds, thrown, P), At("lookup"), Has(DirObj, Name),
           UNCHANGED <<files, cur, comp, dirh, inodeNum>>,
           NEW o, o.ino = Found.ino, core' = [core EXCEPT !["next"] = o],
           ~LastComp => o.di_mode = "dir"
    PROVE  Adding(P)' /\ HasNext(P)' /\ core'["root"] = core["root"] /\ core'[dirh] = core[dirh]
<1>1. Adding(P) /\ Mem /\ inodeNum \in Nat
  BY StateIs, PcIs DEF At, Prog
<1>2. PICK n : n = o.ino
  OBVIOUS
<1>3. n \in 2..inodeNum-1 /\ n \in DirObj.ino+1..inodeNum-1 /\ P[n] = SubSeq(File.path, 1, comp)
  BY <1>2, FoundIs
<1>4. dirh \in {"root", "dir"} /\ {"root", "dir", "next"} \subseteq Handles /\ DirObj.ino \in 1..inodeNum-1
  BY <1>1, AddingIs DEF Handles
<1>5. /\ core'["next"] = o /\ core'["root"] = core["root"] /\ core'["dir"] = core["dir"]
      /\ core'[dirh] = core[dirh]
  BY <1>1, <1>4 DEF Mem
<1>6. Adding(P)'
  BY <1>1, <1>4, <1>5 DEF Adding, File, DirObj, Loaded
<1>7. HasNext(P)'
  <2>1. DirObj' = DirObj /\ NextObj' = o /\ File' = File
    BY <1>5 DEF DirObj, NextObj, File
  <2>2. Loaded("next")'
    BY <1>1, <1>2, <1>3, <1>5 DEF Loaded
  <2>3. DirObj.ino < n
    BY <1>1, <1>3, <1>4
  <2>4. LastComp' <=> LastComp
    BY <2>1 DEF LastComp
  <2> QED
    BY <1>2, <1>3, <2>1, <2>2, <2>3, <2>4 DEF HasNext
<1> QED
  BY <1>5, <1>6, <1>7

LEMMA LookupDirGoes ==
    ASSUME NEW inds, NEW thrown, NEW P, Active(inds, thrown, P), LookupDir, Remember PROVE Goes
<1>0. PICK o : o = Found
  OBVIOUS
<1>1. /\ phase = "run" /\ ins = NoFrame /\ pc = "lookup" /\ pc' = "syncDir" /\ At("lookup")
      /\ Has(DirObj, Name) /\ isDir(o) /\ core' = [core EXCEPT !["next"] = o]
      /\ UNCHANGED <<orgblks, blks, disk, head, used, calls, ins, files, cur, comp, dirh, inodeNum, phase>>
  BY <1>0 DEF LookupDir, LooksUp, At, Goto, spaceVars, countVars, addVars
<1>2. mapped' = mapped
  BY <1>1 DEF Remember
<1>3. PICK n : n = o.ino
  OBVIOUS
<1>4. /\ n \in 2..inodeNum-1 /\ ~InMem(n) /\ o \in Obj12 /\ DiOf(o) = Latest(n)
      /\ o.blkno = Dinodes[n + 1] /\ o.ftype = o.di_mode
  BY <1>0, <1>1, <1>3, FoundIs
<1>5. Sets("next", o)
  BY <1>0, <1>1, <1>2, <1>4, DinodesStay, FoundSets
<1>6. Adding(P)' /\ HasNext(P)' /\ core'["root"] = core["root"]
  BY <1>0, <1>1, <1>4, FoundNext DEF isDir
<1>7. Prog(P) /\ Mem /\ OnDisk /\ inodeNum \in Nat
  BY StateIs
<1>8. Synced("next")'
  <2>1. disk[Dinodes[n + 1]] \in [kind : {"dinode"}, di : Di]
    BY <1>4, <1>7 DEF OnDisk
  <2>2. Latest(n) = disk[Dinodes[n + 1]].di
    BY <1>4, <1>7, LatestDisk
  <2>3. Dinode(o) = [kind |-> "dinode", di |-> DiOf(o)]
    BY <1>4, DinodeIs
  <2>4. disk[o.blkno] = Dinode(o)
    BY <1>4, <2>1, <2>2, <2>3
  <2>5. core'["next"] = o
    BY <1>1, <1>7 DEF Mem, Handles
  <2> QED
    BY <1>1, <2>4, <2>5 DEF Synced
<1>9. Prog(P)'
  <2>1. PcOf(P)'
    BY <1>1, <1>6, <1>8 DEF PcOf, Quiet
  <2>2. Dinodes' = Dinodes
    BY <1>1, <1>2, DinodesStay
  <2> QED
    BY <1>1, <1>6, <1>7, <2>1, <2>2 DEF Prog, First
<1>10. Puts({}) /\ Apart({})
  BY <1>1 DEF Puts, Apart
<1>11. \A i \in 1..inodeNum-1 : Extra(i)' = Extra(i)
  BY <1>1 DEF Extra, AtTarget
<1>12. Same(o.ino)
  <2>1. n \in Nat /\ MapOf(n, DiOf(o)) = MapOf(n, Latest(n))
    BY <1>4, <1>7
  <2>2. FileStep({})
    BY <1>1, <1>10, PutsFile
  <2>3. \A i \in Nat : Latest(i)' = IF i = o.ino THEN DiOf(o) ELSE Latest(i)
    BY <1>1, <1>2, <1>3, <1>5, <1>10, <2>1, <2>2, AltersIs
  <2>4. Latest(n)' = Latest(n)
    BY <1>3, <1>4, <2>1, <2>3
  <2>5. Same(n)
    BY <1>2, <1>4, <1>11, <2>4 DEF Same
  <2> QED
    <3>1. Same(n) <=> Same(o.ino)
      BY <1>3
    <3> QED
      BY <2>5, <3>1
<1>13. MapOf(o.ino, DiOf(o)) = MapOf(o.ino, Latest(o.ino))
  BY <1>3, <1>4
<1>14. \A b : ~Pending(b) /\ b \notin {}
  BY <1>1 DEF Pending
<1> QED
  BY <1>1, <1>2, <1>5, <1>9, <1>10, <1>11, <1>12, <1>13, <1>14, Alters

(* Objects are given up once they are in the file.                          *)
LEMMA DropsIs ==
    ASSUME NEW inds, NEW thrown, NEW P, Active(inds, thrown, P), ins = NoFrame,
           UNCHANGED <<ins, mapped, inodeNum>>,
           NEW x \in {NoObject, core["next"]},
           core' = [core EXCEPT !["dir"] = x, !["next"] = NoObject],
           NEW W, FileStep(W), Apart(W),
           \A h \in {"dir", "next"} : Loaded(h) => disk'[core[h].blkno] = Dinode(core[h])
    PROVE  Mem' /\ OnDisk' /\ MapCore' = MapCore /\ \A i \in Nat : Latest(i)' = Latest(i)
<1>1. Mem /\ OnDisk /\ inodeNum \in Nat
  BY StateIs
<1>2. PICK c : c = core
  OBVIOUS
<1>3. PICK d : d = core'
  OBVIOUS
<1>4. PICK n \in Nat : n = inodeNum /\ n = inodeNum'
  BY <1>1
<1>5. PICK bs : bs = Dinodes /\ bs = Dinodes'
  BY DinodesStay
<1>6. PICK f : f = disk
  OBVIOUS
<1>7. PICK f2 : f2 = disk'
  OBVIOUS
<1>8. NoObject \in Obj12 /\ NoObject.ino = -1
  <2>1. "none" \in Modes /\ <<>> \in Seq(EM!Extents)
    BY DEF Modes
  <2> QED
    BY <2>1 DEF NoObject, NewInode, Obj12, TARBLK_NONE
<1>9. /\ c \in [Handles -> Obj12] /\ d["free"] = c["free"] /\ d["root"] = c["root"]
      /\ d["dir"] = x /\ d["next"] = NoObject /\ d \in [Handles -> Obj12]
  <2>1. c \in [Handles -> Obj12]
    BY <1>1, <1>2 DEF Mem
  <2>2. {"free", "root", "dir", "next"} = Handles
    BY DEF Handles
  <2>3. x \in Obj12
    BY <1>2, <1>8, <2>1, <2>2
  <2>4. d = [c EXCEPT !["dir"] = x, !["next"] = NoObject]
    BY <1>2, <1>3
  <2> QED
    BY <1>8, <2>1, <2>2, <2>3, <2>4
<1>10. /\ \A g \in Handles : c[g].ino # -1 => c[g].ino \in 0..n-1 /\ c[g].blkno = bs[c[g].ino + 1]
       /\ \A g, k \in Handles : c[g].ino # -1 /\ c[k].ino = c[g].ino => g = k
  BY <1>1, <1>2, <1>4, <1>5 DEF Mem, Loaded
<1>11. ASSUME NEW g \in Handles, d[g].ino # -1
       PROVE  /\ g \in {"free", "root", "dir"}
              /\ d[g] = c[IF g = "dir" THEN "next" ELSE g]
  <2>1. g # "next"
    BY <1>8, <1>9, <1>11
  <2>2. g = "dir" => x = c["next"]
    BY <1>2, <1>8, <1>9, <1>11
  <2> QED
    BY <1>9, <2>1, <2>2 DEF Handles
<1>12. \A g, k \in Handles : d[g].ino # -1 /\ d[k].ino = d[g].ino => g = k
  <2>1. ASSUME NEW g \in Handles, NEW k \in Handles, d[g].ino # -1, d[k].ino = d[g].ino PROVE g = k
    <3>1. PICK g2 \in Handles : g2 = (IF g = "dir" THEN "next" ELSE g) /\ d[g] = c[g2]
      BY <1>11, <2>1 DEF Handles
    <3>2. PICK k2 \in Handles : k2 = (IF k = "dir" THEN "next" ELSE k) /\ d[k] = c[k2]
      BY <1>11, <2>1 DEF Handles
    <3>3. g2 = k2
      BY <1>10, <2>1, <3>1, <3>2
    <3>4. g # "next" /\ k # "next"
      BY <1>11, <2>1
    <3> QED
      BY <3>1, <3>2, <3>3, <3>4
  <2> QED
    BY <2>1
<1>13. Mem'
  <2>1. \A g \in Handles : d[g].ino # -1 => d[g].ino \in 0..n-1 /\ d[g].blkno = bs[d[g].ino + 1]
    <3>1. \A g \in Handles : (IF g = "dir" THEN "next" ELSE g) \in Handles
      BY DEF Handles
    <3> QED
      BY <1>10, <1>11, <3>1
  <2>2. /\ d["free"].ino = IF n > 0 THEN 0 ELSE -1
        /\ d["root"].ino = IF n > 1 THEN 1 ELSE -1
    BY <1>1, <1>2, <1>4, <1>9 DEF Mem
  <2>3. ins' = NoFrame
    OBVIOUS
  <2>4. \A h \in Handles : core'[h].ino # -1 => /\ core'[h].ino \in 0..inodeNum'-1
                                                /\ core'[h].blkno = Dinodes'[core'[h].ino + 1]
    BY <1>3, <1>4, <1>5, <2>1
  <2>5. \A g, h \in Handles : core'[h].ino # -1 /\ core'[g].ino = core'[h].ino => g = h
    BY <1>3, <1>12
  <2>6. /\ core' \in [Handles -> Obj12] /\ inodeNum' \in Nat
        /\ core'["free"].ino = IF inodeNum' > 0 THEN 0 ELSE -1
        /\ core'["root"].ino = IF inodeNum' > 1 THEN 1 ELSE -1
    BY <1>3, <1>4, <1>9, <2>2
  <2> QED
    BY <2>3, <2>4, <2>5, <2>6 DEF Mem, Loaded
<1>14. \A i \in Nat : DisksStay(i)
  BY StayIs
<1>15. ASSUME NEW i \in Nat, ~\E g \in Handles : d[g].ino = i, NEW g \in Handles, c[g].ino = i
       PROVE  i < n /\ f2[bs[i + 1]] = Dinode(c[g]) /\ f2[bs[i + 1]].di = DiOf(c[g])
  <2>1. g # "free" /\ g # "root"
    BY <1>9, <1>15
  <2>2. g \in {"dir", "next"} /\ i # -1
    BY <2>1 DEF Handles
  <2>3. disk'[core[g].blkno] = Dinode(core[g])
    BY <1>2, <1>15, <2>2 DEF Loaded
  <2>4. c[g].blkno = bs[i + 1] /\ i \in 0..n-1
    BY <1>10, <1>15, <2>2
  <2>5. Dinode(c[g]) = [kind |-> "dinode", di |-> DiOf(c[g])]
    BY <1>9, DinodeIs
  <2> QED
    BY <1>2, <1>7, <2>3, <2>4, <2>5
<1>16. ASSUME NEW i \in Nat, i < n, ~\E g \in Handles : c[g].ino = i
       PROVE  f2[bs[i + 1]] = f[bs[i + 1]]
  <2>1. ~InMem(i)
    BY <1>2, <1>16 DEF InMem
  <2>2. disk'[Dinodes[i + 1]] = disk[Dinodes[i + 1]]
    BY <1>4, <1>14, <1>16, <2>1 DEF DisksStay
  <2> QED
    BY <1>5, <1>6, <1>7, <2>2
<1>17. ASSUME NEW i \in Nat PROVE LatestIn(d, n, bs, f2, i) = LatestIn(c, n, bs, f, i)
  <2>1. CASE \E g \in Handles : d[g].ino = i
    <3>1. PICK g \in Handles : d[g].ino = i
      BY <2>1
    <3>2. i # -1
      OBVIOUS
    <3>3. PICK g2 \in Handles : d[g] = c[g2]
      BY <1>11, <3>1, <3>2 DEF Handles
    <3>4. LatestIn(d, n, bs, f2, d[g].ino) = DiOf(d[g])
      <4>1. \A k \in Handles : d[k].ino = d[g].ino => k = g
        BY <1>12, <3>1, <3>2
      <4> QED
        BY <4>1, HeldIs
    <3>5. LatestIn(c, n, bs, f, c[g2].ino) = DiOf(c[g2])
      <4>1. \A k \in Handles : c[k].ino = c[g2].ino => k = g2
        BY <1>10, <3>1, <3>2, <3>3
      <4> QED
        BY <4>1, HeldIs
    <3> QED
      BY <3>1, <3>3, <3>4, <3>5
  <2>2. CASE ~(\E g \in Handles : d[g].ino = i) /\ \E g \in Handles : c[g].ino = i
    <3>1. PICK g \in Handles : c[g].ino = i
      BY <2>2
    <3>2. i < n /\ f2[bs[i + 1]].di = DiOf(c[g])
      BY <1>15, <2>2, <3>1
    <3>3. LatestIn(c, n, bs, f, c[g].ino) = DiOf(c[g])
      <4>1. c[g].ino # -1
        BY <3>1
      <4>2. \A k \in Handles : c[k].ino = c[g].ino => k = g
        BY <1>10, <3>1, <4>1
      <4> QED
        BY <4>2, HeldIs
    <3>4. LatestIn(d, n, bs, f2, i) = f2[bs[i + 1]].di
      BY <2>2, <3>2 DEF LatestIn
    <3> QED
      BY <3>1, <3>2, <3>3, <3>4
  <2>3. CASE ~(\E g \in Handles : d[g].ino = i) /\ ~\E g \in Handles : c[g].ino = i
    BY <1>16, <2>3 DEF LatestIn
  <2> QED
    BY <2>1, <2>2, <2>3
<1>18. \A i \in Nat : Latest(i)' = Latest(i)
  BY <1>2, <1>3, <1>4, <1>5, <1>6, <1>7, <1>17 DEF Latest
<1>19. OnDisk'
  <2>1. ASSUME NEW i \in 2..n-1, ~\E g \in Handles : d[g].ino = i
        PROVE  f2[bs[i + 1]] \in [kind : {"dinode"}, di : Di]
    <3>1. i \in Nat /\ i < n
      OBVIOUS
    <3>2. CASE \E g \in Handles : c[g].ino = i
      <4>1. PICK g \in Handles : c[g].ino = i
        BY <3>2
      <4>2. f2[bs[i + 1]] = Dinode(c[g])
        BY <1>15, <2>1, <3>1, <4>1
      <4>3. c[g] \in Obj12
        BY <1>9
      <4> QED
        BY <4>2, <4>3, DinodeIs
    <3>3. CASE ~\E g \in Handles : c[g].ino = i
      <4>1. f2[bs[i + 1]] = f[bs[i + 1]]
        BY <1>16, <3>1, <3>3
      <4>2. f[bs[i + 1]] \in [kind : {"dinode"}, di : Di]
        BY <1>1, <1>2, <1>4, <1>5, <1>6, <3>3 DEF OnDisk, InMem
      <4> QED
        BY <4>1, <4>2
    <3> QED
      BY <3>2, <3>3
  <2> QED
    BY <1>3, <1>4, <1>5, <1>7, <2>1 DEF OnDisk, InMem
<1>20. MapCore' = MapCore
  <2>1. ASSUME NEW i \in Inos PROVE MapOf(i, Latest(i))' = MapOf(i, Latest(i))
    <3>1. Latest(i)' = Latest(i)
      BY <1>18 DEF Inos
    <3>2. MapOf(i, Latest(i))' = MapOf(i, Latest(i)')
      BY DEF MapOf, TARFS_FREE_INO
    <3> QED
      BY <3>1, <3>2
  <2> QED
    BY <2>1, CoreKept
<1> QED
  BY <1>13, <1>18, <1>19, <1>20

LEMMA SyncDirGoes ==
    ASSUME NEW inds, NEW thrown, NEW P, Active(inds, thrown, P), SyncDir, Remember PROVE Goes
<1>1. /\ phase = "run" /\ ins = NoFrame /\ pc = "syncDir" /\ pc' \in {"get", "lookup"}
      /\ IF dirh = "root" THEN UNCHANGED <<blks, disk>> ELSE sync("dir")
      /\ UNCHANGED <<orgblks, head, used, calls, ins, files, cur, inodeNum, phase>>
  BY DEF SyncDir, At, Goto, countVars
<1>2. mapped' = mapped
  BY <1>1 DEF Remember
<1>3. Adding(P) /\ HasNext(P) /\ Synced("next") /\ Prog(P) /\ Mem /\ inodeNum \in Nat
  BY <1>1, StateIs, PcIs DEF Prog
<1>4. {"free", "root", "dir", "next"} = Handles /\ Loaded("next") /\ NoObject.ino = -1
  BY <1>3 DEF Handles, HasNext, NoObject, NewInode
<1>5. PICK x : x = IF LastComp THEN NoObject ELSE core["next"]
  OBVIOUS
<1>6. core' = [core EXCEPT !["dir"] = x, !["next"] = NoObject]
  BY <1>1, <1>5 DEF SyncDir, NextObj
<1>7. PICK W : /\ Puts(W) /\ Apart(W) /\ W \intersect used["dir"] = {}
               /\ \A h \in {"dir", "next"} : Loaded(h) => disk'[core[h].blkno] = Dinode(core[h])
  <2>1. CASE dirh = "root"
    <3>1. UNCHANGED <<blks, disk>> /\ ~Loaded("dir")
      BY <1>1, <1>3, <2>1 DEF Adding
    <3>2. Puts({}) /\ Apart({}) /\ {} \intersect used["dir"] = {}
      BY <3>1 DEF Puts, Apart
    <3>3. \A h \in {"dir", "next"} : Loaded(h) => disk'[core[h].blkno] = Dinode(core[h])
      BY <1>3, <3>1 DEF Synced
    <3> QED
      BY <3>2, <3>3
  <2>2. CASE dirh # "root"
    <3>1. sync("dir") /\ Loaded("dir") /\ "dir" \in Handles /\ "next" \in Handles
      BY <1>1, <1>3, <1>4, <2>2 DEF Adding, Prog
    <3>2. PICK b : b = core["dir"].blkno
      OBVIOUS
    <3>3. /\ Puts({b}) /\ Apart({b}) /\ {b} \intersect used["dir"] = {}
          /\ disk'[b] = Dinode(core["dir"])
          /\ disk'[core["next"].blkno] = Dinode(core["next"])
      BY <1>1, <1>3, <1>4, <3>1, <3>2, SyncIs
    <3> QED
      BY <3>2, <3>3
  <2> QED
    BY <2>1, <2>2
<1>8. FileStep(W)
  BY <1>1, <1>7, PutsFile
<1>9. Mem' /\ OnDisk' /\ MapCore' = MapCore /\ \A i \in Nat : Latest(i)' = Latest(i)
  <2>1. x \in {NoObject, core["next"]}
    BY <1>5
  <2> QED
    BY <1>1, <1>2, <1>6, <1>7, <1>8, <2>1, DropsIs
<1>10. ASSUME NEW i \in 1..inodeNum-1 PROVE Same(i)
  BY <1>1, <1>2, <1>9 DEF Same, Extra, AtTarget
<1>11. ASSUME NEW i \in 1..inodeNum-1, NEW b, InMap(i, b) PROVE ~Pending(b) /\ b \notin W
  <2>1. i \in 1..MaxBlks
    BY <1>3, StateIs, InosFit
  <2>2. b \in used["dir"]
    BY <1>11, <2>1, MapsAre DEF InMap
  <2> QED
    BY <1>1, <1>7, <2>2 DEF Pending
<1>12. /\ core'["dir"] = x /\ core'["next"] = NoObject /\ core'["root"] = core["root"]
  BY <1>3, <1>4, <1>6 DEF Mem
<1>13. PcOf(P)'
  <2>1. CASE LastComp
    <3>1. pc' = "get" /\ x = NoObject
      BY <1>5, <2>1 DEF SyncDir, Goto
    <3>2. NoneOpen'
      BY <1>1, <1>3, <1>4, <1>12, <3>1 DEF NoneOpen, Loaded, Adding
    <3> QED
      BY <1>1, <3>1, <3>2 DEF PcOf, Quiet
  <2>2. CASE ~LastComp
    <3>1. pc' = "lookup" /\ x = NextObj /\ comp' = comp + 1 /\ dirh' = "dir"
      BY <1>5, <2>2 DEF SyncDir, Goto, NextObj
    <3>2. ~Loaded("next")' /\ Loaded("dir")' /\ Loaded(dirh)'
      BY <1>4, <1>12, <3>1 DEF Loaded, NextObj
    <3>3. DirObj' = NextObj /\ File' = File
      BY <1>1, <1>12, <3>1 DEF DirObj, File
    <3>4. comp \in Nat /\ comp \in 1..Len(File.path) /\ Len(File.path) \in Nat
      BY <1>3, AddingIs
    <3>5. comp + 1 \in 1..Len(File.path) /\ (comp + 1) - 1 = comp
      BY <2>2, <3>4 DEF LastComp
    <3>6. NextObj.di_mode = "dir" /\ P[NextObj.ino] = SubSeq(File.path, 1, comp)
      BY <1>3, <2>2 DEF HasNext
    <3>7. Adding(P)'
      <4>1. cur' \in 1..Len(files') /\ inodeNum' > 1
        BY <1>1, <1>3 DEF Adding
      <4>2. P[DirObj'.ino] = SubSeq(File'.path, 1, comp' - 1)
        BY <3>1, <3>3, <3>5, <3>6
      <4>3. comp' \in 1..Len(File'.path)
        BY <3>1, <3>3, <3>5
      <4> QED
        BY <3>1, <3>2, <3>3, <3>6, <4>1, <4>2, <4>3 DEF Adding
    <3> QED
      BY <1>1, <3>1, <3>2, <3>7 DEF PcOf, Quiet
  <2> QED
    BY <2>1, <2>2
<1>14. Prog(P)'
  <2>1. dirh' \in {"root", "dir"}
    BY <1>3 DEF SyncDir, Prog
  <2>2. Dinodes' = Dinodes
    BY <1>1, <1>2, DinodesStay
  <2> QED
    BY <1>1, <1>3, <1>12, <1>13, <2>1, <2>2 DEF Prog, First
<1> QED
  BY <1>1, <1>2, <1>7, <1>9, <1>10, <1>11, <1>14, Continues

(* Where a member's header is, and what setFile makes of an inode.          *)
LEMMA BlocksIn ==
    ASSUME NEW f, f.size \in Nat
    PROVE  Blocks(f) \in Nat /\ (f.size = 0 => Blocks(f) = 0)
<1>1. PICK z \in Nat : z = f.size
  OBVIOUS
<1>2. TARFS_BLOCKS(z) \in Nat /\ (z = 0 => TARFS_BLOCKS(z) = 0)
  BY DEF TARFS_BLOCKS, TAR_BLOCKSIZE
<1> QED
  BY <1>1, <1>2 DEF Blocks

LEMMA RunsUp ==
    ASSUME NEW n \in Nat, NEW s
    PROVE  \E f : f = [j \in 1..n |-> IF j = 1 THEN 0 ELSE f[j-1] + 1 + s[j-1]]
<1> DEFINE Is(m, f) == f = [j \in 1..m |-> IF j = 1 THEN 0 ELSE f[j-1] + 1 + s[j-1]]
           T == {m \in 0..n : \E f : Is(m, f)}
<1>1. 0 \in T
  <2>1. Is(0, [j \in 1..0 |-> 0])
    OBVIOUS
  <2> HIDE DEF Is
  <2> QED
    BY <2>1
<1>2. ASSUME NEW m \in 1..n, m - 1 \in T PROVE m \in T
  <2>1. PICK f : Is(m - 1, f)
    BY <1>2
  <2> DEFINE g == [j \in 1..m |-> IF j = 1 THEN 0 ELSE IF j = m THEN f[m-1] + 1 + s[m-1] ELSE f[j]]
  <2>2. ASSUME NEW j \in 1..m PROVE g[j] = IF j = 1 THEN 0 ELSE g[j-1] + 1 + s[j-1]
    <3>1. CASE j = 1
      BY <3>1
    <3>2. CASE j = m /\ j # 1
      <4>1. j - 1 \in 1..m /\ j - 1 # m /\ j - 1 \in 1..m-1
        BY <3>2
      <4>2. g[j-1] = f[j-1]
        <5>1. j - 1 = 1 => f[j-1] = 0
          BY <2>1, <4>1
        <5> QED
          BY <4>1, <5>1
      <4>3. g[j] = f[j-1] + 1 + s[j-1]
        BY <3>2
      <4> HIDE DEF g
      <4> QED
        BY <3>2, <4>2, <4>3
    <3>3. CASE j # m /\ j # 1
      <4>1. j \in 1..m-1 /\ j - 1 \in 1..m-1 /\ j - 1 \in 1..m /\ j - 1 # m
        BY <3>3
      <4>2. f[j] = f[j-1] + 1 + s[j-1]
        BY <2>1, <3>3, <4>1
      <4>3. g[j-1] = f[j-1]
        <5>1. j - 1 = 1 => f[j-1] = 0
          BY <2>1, <4>1
        <5> QED
          BY <4>1, <5>1
      <4>4. g[j] = f[j]
        BY <3>3
      <4> HIDE DEF g
      <4> QED
        BY <3>3, <4>2, <4>3, <4>4
    <3> QED
      BY <3>1, <3>2, <3>3
  <2>3. g = [j \in 1..m |-> g[j]]
    OBVIOUS
  <2> HIDE DEF g
  <2>4. Is(m, g)
    BY <2>2, <2>3
  <2> HIDE DEF Is
  <2> QED
    BY <2>4
<1> HIDE DEF T
<1>3. 0..n \subseteq T
  BY <1>1, <1>2, UpTo
<1>4. n \in T
  BY <1>3
<1> QED
  BY <1>4 DEF T

LEMMA HeaderIs ==
    ASSUME NEW fs, NEW k \in Nat, k > 0, \A j \in 1..k : fs[j].size \in Nat
    PROVE  HeaderBlk(fs, k) \in Nat
<1> DEFINE Is(f) == f = [j \in 1..k |-> IF j = 1 THEN 0 ELSE f[j-1] + 1 + Blocks(fs[j-1])]
           at == CHOOSE f : Is(f)
           s == [j \in 1..k |-> Blocks(fs[j])]
           T == {m \in 0..k : m = 0 \/ at[m] \in Nat}
<1>1. HeaderBlk(fs, k) = at[k]
  BY DEF HeaderBlk
<1>2. Is(at)
  <2>1. PICK f : f = [j \in 1..k |-> IF j = 1 THEN 0 ELSE f[j-1] + 1 + s[j-1]]
    <3> HIDE DEF s
    <3> QED
      BY RunsUp
  <2>2. [j \in 1..k |-> IF j = 1 THEN 0 ELSE f[j-1] + 1 + s[j-1]]
          = [j \in 1..k |-> IF j = 1 THEN 0 ELSE f[j-1] + 1 + Blocks(fs[j-1])]
    <3>1. ASSUME NEW j \in 1..k
          PROVE  (IF j = 1 THEN 0 ELSE f[j-1] + 1 + s[j-1]) = IF j = 1 THEN 0 ELSE f[j-1] + 1 + Blocks(fs[j-1])
      <4>1. j # 1 => j - 1 \in 1..k
        OBVIOUS
      <4>2. j # 1 => s[j-1] = Blocks(fs[j-1])
        BY <4>1
      <4> HIDE DEF s
      <4> QED
        BY <4>2
    <3> HIDE DEF s
    <3> QED
      BY <3>1
  <2>3. Is(f)
    BY <2>1, <2>2
  <2> HIDE DEF Is
  <2> QED
    BY <2>3
<1> HIDE DEF at
<1>3. 0 \in T
  OBVIOUS
<1>4. ASSUME NEW m \in 1..k, m - 1 \in T PROVE m \in T
  <2>1. at[m] = IF m = 1 THEN 0 ELSE at[m-1] + 1 + Blocks(fs[m-1])
    BY <1>2
  <2>2. m # 1 => m - 1 \in 1..k /\ m - 1 # 0
    OBVIOUS
  <2>3. m # 1 => Blocks(fs[m-1]) \in Nat
    BY <2>2, BlocksIn
  <2>4. m # 1 => at[m-1] \in Nat
    BY <1>4, <2>2
  <2> QED
    BY <2>1, <2>3, <2>4
<1> HIDE DEF T
<1>5. 0..k \subseteq T
  BY <1>3, <1>4, UpTo
<1>6. k \in T
  BY <1>5
<1> QED
  BY <1>1, <1>6 DEF T

(* An object with some of its fields set.                                   *)
FieldSet(o, w, t) ==
    /\ w \in Obj12 /\ w.ino = o.ino /\ w.pino = o.pino /\ w.blkno = o.blkno /\ w.ftype = o.ftype
    /\ w.di_mode = t /\ w.di_rootIndExt = o.di_rootIndExt
    /\ w.di_size = o.di_size /\ w.di_blocks = o.di_blocks
    /\ w.di_nExtents = o.di_nExtents /\ w.di_directExtent = o.di_directExtent

MapSetTo(o, x, z, n, c, e) ==
    /\ x \in Obj12 /\ x.ino = o.ino /\ x.pino = o.pino /\ x.blkno = o.blkno /\ x.ftype = o.ftype
    /\ x.di_mode = o.di_mode /\ x.di_rootIndExt = o.di_rootIndExt /\ x.di_size = z
    /\ x.di_blocks = n /\ x.di_nExtents = c /\ x.di_directExtent = e

LEMMA FieldsSet ==
    ASSUME NEW o \in Obj12, NEW t \in Modes, NEW h \in Int,
           NEW v, v = [o EXCEPT !.di_header = h, !.di_mode = t]
    PROVE  FieldSet(o, v, t)
<1> DEFINE w == [o EXCEPT !.di_header = h, !.di_mode = t]
<1>1. PICK X : X = Seq(EM!Extents)
  OBVIOUS
<1>2. PICK M : M = Modes
  OBVIOUS
<1> DEFINE S == [ino : Int, pino : Int, blkno : Int, ftype : M,
       di_mode : M, di_nlink : Nat, di_size : Nat, di_blocks : Nat, di_header : Int,
       di_nExtents : Nat, di_directExtent : X, di_rootIndExt : Nat]
<1>3. Obj12 = S
  BY <1>1, <1>2, Zenon DEF Obj12
<1>4. o \in S /\ t \in M
  BY <1>2, <1>3
<1>5. w \in S
  BY <1>4
<1>6. /\ w.ino = o.ino /\ w.pino = o.pino /\ w.blkno = o.blkno /\ w.ftype = o.ftype
      /\ w.di_mode = t /\ w.di_rootIndExt = o.di_rootIndExt
      /\ w.di_size = o.di_size /\ w.di_blocks = o.di_blocks
      /\ w.di_nExtents = o.di_nExtents /\ w.di_directExtent = o.di_directExtent
  BY <1>4
<1> HIDE DEF w, S
<1>7. w \in Obj12
  BY <1>3, <1>5
<1> QED
  BY <1>6, <1>7 DEF w, FieldSet

LEMMA MapSet ==
    ASSUME NEW o \in Obj12, NEW z \in Nat, NEW n \in Nat, NEW c \in Nat, NEW e \in Seq(EM!Extents),
           NEW v, v = [o EXCEPT !.di_size = z, !.di_blocks = n, !.di_nExtents = c, !.di_directExtent = e]
    PROVE  MapSetTo(o, v, z, n, c, e)
<1> DEFINE w == [o EXCEPT !.di_size = z, !.di_blocks = n, !.di_nExtents = c, !.di_directExtent = e]
<1>1. PICK X : X = Seq(EM!Extents)
  OBVIOUS
<1>2. PICK M : M = Modes
  OBVIOUS
<1> DEFINE S == [ino : Int, pino : Int, blkno : Int, ftype : M,
       di_mode : M, di_nlink : Nat, di_size : Nat, di_blocks : Nat, di_header : Int,
       di_nExtents : Nat, di_directExtent : X, di_rootIndExt : Nat]
<1>3. Obj12 = S
  BY <1>1, <1>2, Zenon DEF Obj12
<1>4. o \in S /\ e \in X
  BY <1>1, <1>3
<1>5. w \in S
  BY <1>4
<1>6. /\ w.ino = o.ino /\ w.pino = o.pino /\ w.blkno = o.blkno /\ w.ftype = o.ftype
      /\ w.di_mode = o.di_mode /\ w.di_rootIndExt = o.di_rootIndExt /\ w.di_size = z
      /\ w.di_blocks = n /\ w.di_nExtents = c /\ w.di_directExtent = e
  BY <1>4
<1> HIDE DEF w, S
<1>7. w \in Obj12
  BY <1>3, <1>5
<1> QED
  BY <1>6, <1>7 DEF w, MapSetTo

FileSet(o, f, x) ==
    /\ x \in Obj12 /\ x.ino = o.ino /\ x.pino = o.pino /\ x.blkno = o.blkno /\ x.ftype = o.ftype
    /\ x.di_mode = f.ftype /\ x.di_rootIndExt = o.di_rootIndExt
    /\ f.ftype = "dir" => /\ x.di_size = o.di_size /\ x.di_blocks = o.di_blocks
                          /\ x.di_nExtents = o.di_nExtents /\ x.di_directExtent = o.di_directExtent
    /\ f.ftype # "dir" => /\ x.di_size = f.size
                          /\ f.size = 0 => x.di_blocks = 0 /\ x.di_nExtents = 0 /\ x.di_directExtent = <<>>

LEMMA SetFileIs ==
    ASSUME NEW o \in Obj12, NEW f, f.ftype \in STRING, f.size \in Nat, NEW h \in Nat,
           NEW x, x = setFile(o, f, h)
    PROVE  FileSet(o, f, x)
<1>1. PICK n \in Nat : n = Blocks(f) /\ (f.size = 0 => n = 0)
  BY BlocksIn
<1>2. PICK t \in Modes : t = f.ftype
  BY DEF Modes
<1>3. PICK z \in Nat : z = f.size
  OBVIOUS
<1>4. PICK w : w = [o EXCEPT !.di_header = h, !.di_mode = t] /\ h \in Int
  OBVIOUS
<1>8. FieldSet(o, w, t)
  BY <1>2, <1>4, FieldsSet
<1>5. /\ w \in Obj12 /\ w.ino = o.ino /\ w.pino = o.pino /\ w.blkno = o.blkno /\ w.ftype = o.ftype
      /\ w.di_mode = t /\ w.di_rootIndExt = o.di_rootIndExt
      /\ w.di_size = o.di_size /\ w.di_blocks = o.di_blocks
      /\ w.di_nExtents = o.di_nExtents /\ w.di_directExtent = o.di_directExtent
  BY <1>8 DEF FieldSet
<1>6. CASE f.ftype = "dir"
  <2>1. x = w
    BY <1>2, <1>4, <1>6 DEF setFile
  <2> QED
    BY <1>2, <1>5, <1>6, <2>1 DEF FileSet
<1>7. CASE f.ftype # "dir"
  <2>1. PICK c \in Nat : c = (IF n > 0 THEN 1 ELSE 0) /\ (n = 0 => c = 0)
    OBVIOUS
  <2>2. PICK e \in Seq(EM!Extents) : e = (IF n > 0 THEN <<Extent(0, h + 1, n)>> ELSE <<>>) /\ (n = 0 => e = <<>>)
    <3>1. CASE n > 0
      <4>1. Extent(0, h + 1, n) \in EM!Extents /\ n # 0
        BY <3>1 DEF Extent, EM!Extents
      <4>2. PICK S : S = EM!Extents
        OBVIOUS
      <4>3. PICK d \in S : d = Extent(0, h + 1, n)
        BY <4>1, <4>2
      <4>4. <<d>> \in Seq(S)
        OBVIOUS
      <4> QED
        BY <3>1, <4>1, <4>2, <4>3, <4>4
    <3>2. CASE ~(n > 0)
      <4>1. <<>> \in Seq(EM!Extents)
        OBVIOUS
      <4> QED
        BY <3>2, <4>1
    <3> QED
      BY <3>1, <3>2
  <2>3. x = [w EXCEPT !.di_size = z, !.di_blocks = n, !.di_nExtents = c, !.di_directExtent = e]
    BY <1>1, <1>2, <1>3, <1>4, <1>7, <2>1, <2>2 DEF setFile
  <2>5. MapSetTo(w, x, z, n, c, e)
    BY <1>5, <2>3, MapSet
  <2>4. /\ x \in Obj12 /\ x.ino = w.ino /\ x.pino = w.pino /\ x.blkno = w.blkno /\ x.ftype = w.ftype
        /\ x.di_mode = w.di_mode /\ x.di_rootIndExt = w.di_rootIndExt /\ x.di_size = z
        /\ x.di_blocks = n /\ x.di_nExtents = c /\ x.di_directExtent = e
    BY <2>5 DEF MapSetTo
  <2> QED
    BY <1>1, <1>2, <1>3, <1>5, <1>7, <2>1, <2>2, <2>4 DEF FileSet
<1> QED
  BY <1>6, <1>7


LEMMA HeaderFits ==
    ASSUME NEW inds, NEW thrown, NEW P, Active(inds, thrown, P), Adding(P)
    PROVE  HeaderBlk(files, cur) \in Nat
<1>1. cur \in Nat /\ cur # 0 /\ cur \in 1..Len(files) /\ files \in Archives /\ Len(files) \in Nat
  BY StateIs, AddingIs DEF Prog
<1>2. PICK S : S = [path : Seq(DOMAIN NameLen) \ {<<>>}, ftype : STRING \ {"none"}, size : Nat]
  OBVIOUS
<1>3. files \in Seq(S)
  BY <1>1, <1>2, ArchivesAssumption
<1>4. PICK fs : fs = files
  OBVIOUS
<1>5. PICK n : n = cur
  OBVIOUS
<1>6. \A j \in 1..n : fs[j].size \in Nat
  <2>1. fs \in Seq(S) /\ n \in 1..Len(fs)
    BY <1>1, <1>3, <1>4, <1>5
  <2>2. \A j \in 1..n : fs[j] \in S
    BY <2>1
  <2> QED
    BY <1>2, <2>2
<1>7. HeaderBlk(fs, n) \in Nat
  BY <1>1, <1>5, <1>6, HeaderIs
<1> QED
  BY <1>4, <1>5, <1>7

(* A member of a path that is there already describes the inode again: as a *)
(* directory what was one or is empty, ...                                  *)
LEMMA AgainDir ==
    ASSUME NEW inds, NEW thrown, NEW P, Active(inds, thrown, P), At("lookup"), Has(DirObj, Name), LastComp,
           File.ftype = "dir", NEW x, x = setFile(Found, File, HeaderBlk(files, cur))
    PROVE  /\ MapOf(x.ino, DiOf(x)) = MapOf(x.ino, Latest(x.ino))
           /\ x.di_size = TAR_BLOCKSIZE * x.di_blocks /\ Len(mapped[x.ino]) = x.di_blocks
           /\ x.di_mode = "dir"
<1>1. phase = "run" /\ ins = NoFrame /\ pc = "lookup" /\ Adding(P) /\ Inodes(P) /\ inodeNum \in Nat
      /\ files \in Archives /\ ~DataAsDir(files)
  BY StateIs, PcIs DEF At, Prog
<1>2. PICK o : o = Found
  OBVIOUS
<1>3. PICK n : n = o.ino
  OBVIOUS
<1>4. /\ n \in 2..inodeNum-1 /\ P[n] = SubSeq(File.path, 1, comp) /\ o \in Obj12
      /\ DiOf(o) = Latest(n)
  BY <1>2, <1>3, FoundIs
<1>5. /\ cur \in Nat /\ cur \in 1..Len(files) /\ Len(files) \in Nat /\ File.path \in Seq(DOMAIN NameLen)
      /\ File.size \in Nat /\ comp = Len(File.path)
  BY <1>1, AddingIs DEF LastComp
<1>6. P[n] = File.path
  BY <1>4, <1>5
<1>7. PICK t : t = setFile(o, File, HeaderBlk(files, cur)) /\ t = x
  BY <1>2
<1>8. /\ x.ino = n /\ x.di_mode = "dir" /\ x.di_rootIndExt = o.di_rootIndExt
      /\ x.di_size = o.di_size /\ x.di_blocks = o.di_blocks
      /\ x.di_nExtents = o.di_nExtents /\ x.di_directExtent = o.di_directExtent
  <2>1. HeaderBlk(files, cur) \in Nat /\ File.ftype \in STRING
    BY <1>1, HeaderFits, AddingIs
  <2> QED
    <3>1. FileSet(o, File, x)
      BY <1>4, <1>5, <1>7, <2>1, SetFileIs
    <3> QED
      BY <1>3, <3>1 DEF FileSet
<1>9. PICK di : di = Latest(n)
  OBVIOUS
<1>10. /\ di.di_mode = o.di_mode /\ di.di_size = o.di_size /\ di.di_blocks = o.di_blocks
       /\ di.di_nExtents = o.di_nExtents /\ di.di_directExtent = o.di_directExtent
       /\ di.di_rootIndExt = o.di_rootIndExt
  BY <1>4, <1>9, DiOfIs
<1>11. PICK e : e = DiOf(x)
  OBVIOUS
<1>12. /\ e.di_mode = "dir" /\ e.di_nExtents = o.di_nExtents /\ e.di_directExtent = o.di_directExtent
       /\ e.di_rootIndExt = o.di_rootIndExt
  BY <1>8, <1>11, DiOfIs
<1>13. Extra(n) = 0
  BY <1>1 DEF Extra, AtTarget
<1>14. InodeOf(P, n)
  BY <1>1, <1>4 DEF Inodes
<1>15. CASE di.di_mode = "dir"
  <2>1. di.di_size = TAR_BLOCKSIZE * di.di_blocks /\ Len(mapped[n]) = di.di_blocks + Extra(n)
    BY <1>9, <1>14, <1>15 DEF InodeOf
  <2>2. MapOf(n, e) = MapOf(n, di)
    BY <1>10, <1>12, <1>15 DEF MapOf
  <2>3. Len(mapped[n]) = di.di_blocks
    <3>1. di.di_blocks \in Nat
      BY <1>4, <1>10 DEF Obj12
    <3> QED
      BY <1>13, <2>1, <3>1
  <2> QED
    BY <1>8, <1>9, <1>10, <1>11, <2>1, <2>2, <2>3
<1>16. CASE di.di_mode # "dir"
  <2>1. /\ mapped[n] = <<>>
        /\ IF di.di_size = 0 THEN di.di_blocks = 0 /\ di.di_nExtents = 0 /\ di.di_directExtent = <<>>
           ELSE \E j \in 1..cur : files[j].path = P[n] /\ files[j].size > 0 /\ files[j].ftype # "dir"
    BY <1>9, <1>14, <1>16 DEF InodeOf
  <2>2. ASSUME NEW j \in 1..cur, files[j].path = P[n], files[j].size > 0, files[j].ftype # "dir" PROVE FALSE
    <3>1. j # cur
      BY <2>2 DEF File
    <3>2. j < cur /\ j \in 1..Len(files)
      BY <1>5, <3>1
    <3>3. DOMAIN files = 1..Len(files)
      <4>1. files \in Seq([path : Seq(DOMAIN NameLen) \ {<<>>}, ftype : STRING \ {"none"}, size : Nat])
        BY <1>1, ArchivesAssumption
      <4>2. PICK S : S = [path : Seq(DOMAIN NameLen) \ {<<>>}, ftype : STRING \ {"none"}, size : Nat]
        OBVIOUS
      <4> QED
        BY <4>1, <4>2
    <3>4. DataAsDir(files)
      <4>1. files[j].path = files[cur].path /\ files[cur].ftype = "dir"
        BY <1>6, <2>2 DEF File
      <4> QED
        BY <1>5, <2>2, <3>2, <3>3, <4>1 DEF DataAsDir
    <3> QED
      BY <1>1, <3>4
  <2>3. di.di_size = 0 /\ di.di_blocks = 0 /\ di.di_nExtents = 0 /\ di.di_directExtent = <<>>
    BY <2>1, <2>2
  <2>4. MapOf(n, e) = MapOf(n, di)
    <3>1. n # TARFS_FREE_INO
      BY <1>4 DEF TARFS_FREE_INO
    <3> QED
      BY <1>10, <1>12, <1>16, <2>3, <3>1 DEF MapOf
  <2>5. Len(mapped[n]) = 0 /\ TAR_BLOCKSIZE * 0 = 0
    BY <2>1 DEF TAR_BLOCKSIZE
  <2> QED
    BY <1>8, <1>9, <1>10, <1>11, <2>3, <2>4, <2>5
<1> QED
  BY <1>15, <1>16

(* ... as something else with its map thrown away.                          *)
LEMMA LookupAgainGoes ==
    ASSUME NEW inds, NEW thrown, NEW P, Active(inds, thrown, P), LookupAgain, Remember PROVE Goes
<1>0. PICK x : x = setFile(Found, File, HeaderBlk(files, cur))
  OBVIOUS
<1>1. /\ phase = "run" /\ ins = NoFrame /\ pc = "lookup" /\ pc' = "sync" /\ At("lookup")
      /\ Has(DirObj, Name) /\ LastComp /\ core' = [core EXCEPT !["next"] = x]
      /\ UNCHANGED <<orgblks, blks, disk, head, used, calls, ins, files, cur, comp, dirh, inodeNum, phase>>
  BY <1>0 DEF LookupAgain, LooksUp, At, Goto, spaceVars, countVars, addVars
<1>2. PICK n : n = x.ino
  OBVIOUS
<1>3. /\ Prog(P) /\ Mem /\ Inodes(P) /\ DirsOf(P) /\ UsedOnce /\ MappedOnce /\ NoInode /\ Adding(P)
      /\ inodeNum \in Nat /\ mapped \in [Inos -> Seq(Nat)] /\ MaxBlks \in Nat
      /\ EM!Alive(inds, thrown) /\ P \in [Inos -> Seq(EntNames)]
  BY <1>1, StateIs, PcIs DEF Prog
<1>4. FileSet(Found, File, x)
  <2>1. File.ftype \in STRING /\ File.size \in Nat /\ HeaderBlk(files, cur) \in Nat
    BY <1>3, AddingIs, HeaderFits
  <2>2. Found \in Obj12
    BY <1>1, FoundIs
  <2> QED
    BY <1>0, <2>1, <2>2, SetFileIs
<1>5. /\ x \in Obj12 /\ x.ino = Found.ino /\ x.blkno = Found.blkno /\ x.di_mode = File.ftype
      /\ x.di_rootIndExt = Found.di_rootIndExt
      /\ File.ftype # "dir" => /\ x.di_size = File.size
                               /\ File.size = 0 => x.di_blocks = 0 /\ x.di_nExtents = 0 /\ x.di_directExtent = <<>>
  BY <1>4 DEF FileSet
<1>6. /\ n \in 2..inodeNum-1 /\ n \in 2..MaxBlks /\ ~InMem(n) /\ P[n] = SubSeq(File.path, 1, comp)
      /\ DiOf(Found) = Latest(n)
  BY <1>1, <1>2, <1>5, FoundIs
<1>7. /\ n \in Nat /\ n # TARFS_FREE_INO /\ n \in 1..MaxBlks /\ n \in 1..inodeNum-1 /\ n \in Inos
      /\ n # TARFS_FREE_INO
  BY <1>3, <1>6 DEF TARFS_FREE_INO, Inos
<1>8. mapped' = IF File.ftype = "dir" THEN mapped ELSE [mapped EXCEPT ![n] = <<>>]
  <2>1. "next" \in Handles /\ core'["next"] = x
    BY <1>1, <1>3 DEF Mem, Handles
  <2> QED
    BY <1>1, <1>2, <2>1 DEF Remember
<1>9. Adding(P)' /\ HasNext(P)' /\ core'["root"] = core["root"]
  BY <1>1, <1>5, FoundNext
<1>10. Dinodes' = Dinodes
  <2>1. mapped'[TARFS_FREE_INO] = mapped[TARFS_FREE_INO]
    BY <1>3, <1>7, <1>8
  <2> QED
    BY <1>1, <2>1 DEF Dinodes
<1>11. Prog(P)'
  <2>1. PcOf(P)'
    BY <1>1, <1>9 DEF PcOf, Quiet
  <2> QED
    BY <1>1, <1>3, <1>9, <1>10, <2>1 DEF Prog, First
<1>12. \A i \in Nat : Extra(i)' = 0 /\ Extra(i) = 0
  BY <1>1 DEF Extra, AtTarget
<1>13. CASE File.ftype = "dir"
  <2>1. mapped' = mapped
    BY <1>8, <1>13
  <2>2. /\ MapOf(x.ino, DiOf(x)) = MapOf(x.ino, Latest(x.ino))
        /\ x.di_size = TAR_BLOCKSIZE * x.di_blocks /\ Len(mapped[x.ino]) = x.di_blocks
        /\ x.di_mode = "dir"
    BY <1>0, <1>1, <1>13, AgainDir
  <2>3. Sets("next", x)
    BY <1>1, <1>5, <1>10, FoundSets
  <2>4. Puts({}) /\ Apart({}) /\ FileStep({})
    <3>1. Puts({}) /\ Apart({})
      BY <1>1 DEF Puts, Apart
    <3> QED
      BY <1>1, <3>1, PutsFile
  <2>5. InodeOf(P, x.ino)'
    <3>1. Latest(n)' = DiOf(x)
      <4>1. \A i \in Nat : Latest(i)' = IF i = x.ino THEN DiOf(x) ELSE Latest(i)
        BY <1>1, <2>1, <2>2, <2>3, <2>4, AltersIs
      <4> QED
        BY <1>2, <1>7, <4>1
    <3>2. PICK e : e = DiOf(x)
      OBVIOUS
    <3>3. e.di_mode = "dir" /\ e.di_size = TAR_BLOCKSIZE * e.di_blocks /\ Len(mapped[n]) = e.di_blocks
      BY <1>2, <2>2, <3>2, DiOfIs
    <3>4. e.di_blocks \in Nat
      BY <1>5, <3>2, DiOfIs DEF Obj12
    <3>5. InodeOf(P, n)'
      <4>1. Extra(n)' = 0
        BY <1>7, <1>12
      <4>2. Len(mapped[n]) = e.di_blocks + 0
        BY <3>3, <3>4
      <4> QED
        BY <2>1, <3>1, <3>2, <3>3, <4>1, <4>2 DEF InodeOf
    <3>6. InodeOf(P, n)' <=> InodeOf(P, x.ino)'
      BY <1>2
    <3> QED
      BY <3>5, <3>6
  <2>6. \A i \in 1..inodeNum-1 : i # x.ino => Extra(i)' = Extra(i)
    BY <1>12
  <2>7. \A b : ~Pending(b) /\ b \notin {}
    BY <1>1 DEF Pending
  <2> QED
    BY <1>1, <1>11, <2>1, <2>2, <2>3, <2>4, <2>5, <2>6, <2>7, Alters
<1>14. CASE File.ftype # "dir"
  <2>1. mapped' = [mapped EXCEPT ![n] = <<>>]
    BY <1>8, <1>14
  <2>2. Sets("next", x)
    BY <1>1, <1>5, <1>10, FoundSets
  <2>3. Dwell /\ \A i \in Nat : DisksStay(i)
    BY <1>1, <1>10 DEF Dwell, DisksStay
  <2>4. Mem' /\ OnDisk' /\ MapCore' = [MapCore EXCEPT ![n] = MapOf(n, DiOf(x))]
    <3>1. Mem'
      BY <1>1, <2>2, <2>3, MemOn
    <3>2. OnDisk'
      BY <2>2, <2>3, OnDiskOn
    <3>3. MapCore' = [MapCore EXCEPT ![x.ino] = MapOf(x.ino, DiOf(x))]
      BY <2>2, <2>3, MapCoreOn
    <3> QED
      BY <1>2, <3>1, <3>2, <3>3
  <2>5. \A i \in Nat : Latest(i)' = IF i = n THEN DiOf(x) ELSE Latest(i)
    BY <1>2, <2>2, <2>3, LatestOn
  <2>6. MapCore' = [MapCore EXCEPT ![n].di_nExtents = 0, ![n].di_directExtent = <<>>]
    <3>1. PICK M : M = MapCore
      OBVIOUS
    <3>2. M = [i \in Inos |-> MapOf(i, Latest(i))]
      BY <3>1, InosAre DEF MapCore
    <3>3. PICK r : r = Found.di_rootIndExt
      OBVIOUS
    <3>4. MapOf(n, DiOf(x)) = [di_nExtents |-> 0, di_directExtent |-> <<>>, di_rootIndExt |-> r]
      <4>1. PICK e : e = DiOf(x)
        OBVIOUS
      <4>2. e.di_mode # "dir" /\ e.di_rootIndExt = r
        BY <1>5, <1>14, <3>3, <4>1, DiOfIs
      <4> QED
        BY <1>7, <4>1, <4>2 DEF MapOf
    <3>5. M[n] = MapOf(n, Latest(n)) /\ Latest(n).di_rootIndExt = r
      <4>1. DiOf(Found).di_rootIndExt = r
        BY <3>3, DiOfIs
      <4> QED
        BY <1>6, <1>7, <3>2, <4>1
    <3>6. [M EXCEPT ![n].di_nExtents = 0, ![n].di_directExtent = <<>>]
            = [M EXCEPT ![n] = [di_nExtents |-> 0, di_directExtent |-> <<>>, di_rootIndExt |-> r]]
      <4>1. PICK a, d : M[n] = [di_nExtents |-> a, di_directExtent |-> d, di_rootIndExt |-> r]
        BY <3>5 DEF MapOf
      <4>2. n \in Inos /\ M = [i \in Inos |-> M[i]]
        BY <1>7, <3>2
      <4>3. PICK z : z = [di_nExtents |-> 0, di_directExtent |-> <<>>, di_rootIndExt |-> r]
        OBVIOUS
      <4>4. PICK M1 : M1 = [M EXCEPT ![n].di_nExtents = 0]
        OBVIOUS
      <4>5. M1[n] = [di_nExtents |-> 0, di_directExtent |-> d, di_rootIndExt |-> r]
        BY <4>1, <4>2, <4>4
      <4>6. M1 = [i \in Inos |-> IF i = n THEN M1[n] ELSE M[i]]
        BY <4>2, <4>4
      <4>7. PICK M2 : M2 = [M1 EXCEPT ![n].di_directExtent = <<>>]
        OBVIOUS
      <4>8. M2[n] = z
        BY <4>2, <4>3, <4>5, <4>6, <4>7
      <4>9. M2 = [i \in Inos |-> IF i = n THEN z ELSE M[i]]
        BY <4>2, <4>6, <4>7, <4>8
      <4>10. [M EXCEPT ![n] = z] = [i \in Inos |-> IF i = n THEN z ELSE M[i]]
        BY <4>2
      <4>11. M2 = [M EXCEPT ![n].di_nExtents = 0, ![n].di_directExtent = <<>>]
        BY <4>4, <4>7
      <4> QED
        BY <4>3, <4>9, <4>10, <4>11
    <3> QED
      BY <2>4, <3>1, <3>4, <3>6
  <2>7. EM!TypeInv' /\ \E new, gone : EM!RunInv(new, gone)'
    <3>1. MapIns = EM!NoFrame /\ MapIns' = MapIns
      BY <1>1 DEF MapIns, EM!NoFrame, NoFrame
    <3> QED
      BY <1>1, <1>3, <1>7, <2>1, <2>6, <3>1, Given, BulksAssumption, IndExtAssumption, EM!Reset
  <2>8. PICK new, gone : EM!RunInv(new, gone)'
    BY <2>7
  <2>9. BPStep
    <3>1. UNCHANGED EM!BP!vars
      BY <1>1 DEF EM!BP!vars
    <3> QED
      BY <3>1 DEF BPStep
  <2>10. Inodes(P)'
    <3>1. InodeOf(P, n)'
      <4>1. PICK e : e = DiOf(x)
        OBVIOUS
      <4>2. Latest(n)' = e
        BY <1>7, <2>5, <4>1
      <4>3. e.di_mode # "dir" /\ e.di_size = x.di_size /\ e.di_blocks = x.di_blocks
            /\ e.di_nExtents = x.di_nExtents /\ e.di_directExtent = x.di_directExtent
        BY <1>5, <1>14, <4>1, DiOfIs
      <4>4. mapped'[n] = <<>>
        BY <1>3, <1>7, <2>1
      <4>5. IF e.di_size = 0 THEN e.di_blocks = 0 /\ e.di_nExtents = 0 /\ e.di_directExtent = <<>>
            ELSE \E j \in 1..cur' : files'[j].path = P[n] /\ files'[j].size > 0 /\ files'[j].ftype # "dir"
        <5>1. CASE e.di_size = 0
          BY <1>5, <1>14, <4>3, <5>1
        <5>2. CASE e.di_size # 0
          <6>1. File.size > 0 /\ cur \in 1..cur
            <7>1. cur \in Nat /\ cur # 0 /\ File.size \in Nat
              BY <1>3, AddingIs
            <7> QED
              BY <1>5, <1>14, <4>3, <5>2, <7>1
          <6>2. P[n] = File.path
            BY <1>1, <1>3, <1>6, AddingIs DEF LastComp
          <6> QED
            BY <1>1, <1>14, <5>2, <6>1, <6>2 DEF File
        <5> QED
          BY <5>1, <5>2
      <4> QED
        BY <4>2, <4>3, <4>4, <4>5 DEF InodeOf
    <3>2. ASSUME NEW i \in 1..inodeNum-1, i # n PROVE Same(i)
      <4>1. i \in Nat /\ Latest(i)' = Latest(i)
        BY <2>5, <3>2
      <4>2. mapped'[i] = mapped[i]
        BY <2>1, <3>2
      <4> QED
        BY <1>12, <4>1, <4>2 DEF Same
    <3>3. \A i \in 1..inodeNum'-1 : InodeOf(P, i)' \/ (i \in 1..inodeNum-1 /\ P[i] = P[i] /\ Same(i))
      BY <1>1, <3>1, <3>2
    <3> QED
      BY <1>1, <3>3, InodesOn
  <2>11. ASSUME NEW i \in Inos, NEW b, InMap(i, b)' PROVE i # n /\ mapped'[i] = mapped[i] /\ InMap(i, b)
    <3>1. mapped'[n] = <<>> /\ Len(<<>>) = 0
      BY <1>3, <1>7, <2>1
    <3>2. i # n
      BY <2>11, <3>1 DEF InMap
    <3>3. mapped'[i] = mapped[i]
      BY <1>3, <2>1, <3>2
    <3> QED
      BY <2>11, <3>2, <3>3 DEF InMap
  <2>12. 1..inodeNum-1 \subseteq 1..MaxBlks /\ 1..MaxBlks \subseteq Inos
    BY <1>3, InosFit DEF Inos
  <2>13. DirsOf(P)'
    <3>1. \A i \in 1..inodeNum'-1 : \A b : InMap(i, b)' =>
              \/ Pending(b)' \/ DirBlk(P, i, b)'
              \/ i \in 1..inodeNum-1 /\ InMap(i, b) /\ ~Pending(b) /\ disk'[b] = disk[b]
      <4>1. ASSUME NEW i \in 1..inodeNum-1, NEW b, InMap(i, b)' PROVE InMap(i, b) /\ ~Pending(b)
        <5>1. i \in Inos
          BY <2>12
        <5> QED
          BY <1>1, <2>11, <4>1, <5>1 DEF Pending
      <4> QED
        BY <1>1, <4>1
    <3> QED
      BY <1>1, <1>3, <2>4, <3>1, DirsOn
  <2>14. MappedOnce' /\ NoInode'
    <3>1. ASSUME NEW i \in 1..MaxBlks, NEW j \in 1..MaxBlks, NEW b, InMap(i, b)', InMap(j, b)' PROVE i = j
      <4>1. InMap(i, b) /\ InMap(j, b)
        BY <2>11, <2>12, <3>1
      <4> QED
        BY <1>3, <4>1 DEF MappedOnce, InMap
    <3>2. PICK s : s = mapped'
      OBVIOUS
    <3>3. MappedOnce'
      <4>1. ASSUME NEW i \in 1..MaxBlks, NEW j \in 1..MaxBlks, NEW k \in 1..Len(s[i]),
                   \E l \in 1..Len(s[j]) : s[j][l] = s[i][k]
            PROVE  i = j
        <5>1. PICK b : b = s[i][k]
          OBVIOUS
        <5>2. InMap(i, b)' /\ InMap(j, b)'
          BY <3>2, <4>1, <5>1 DEF InMap
        <5> QED
          BY <3>1, <5>2
      <4> QED
        BY <3>2, <4>1 DEF MappedOnce, InMap
    <3>4. NoInode'
      <4>1. ASSUME NEW i \in 1..MaxBlks, i >= inodeNum PROVE mapped'[i] = <<>>
        BY <1>3, <2>1, <2>12, <4>1 DEF NoInode
      <4> QED
        BY <1>1, <4>1 DEF NoInode
    <3> QED
      BY <3>3, <3>4
  <2>15. UsedOnce' /\ AllFormed' /\ NoSuper'
    BY <1>1, <1>3 DEF Active, UsedOnce, AllFormed, NoSuper, Formed, Sum
  <2> QED
    BY <1>1, <1>3, <1>11, <2>4, <2>7, <2>8, <2>9, <2>10, <2>13, <2>14, <2>15, GoesOn
<1> QED
  BY <1>13, <1>14

(* Counters of an object that change and leave its map alone.               *)
Counts(o, x, k, m, z) ==
    /\ x \in Obj12 /\ x.ino = o.ino /\ x.pino = o.pino /\ x.blkno = o.blkno /\ x.ftype = o.ftype
    /\ x.di_mode = o.di_mode /\ MapFields(x, o)
    /\ x.di_nlink = k /\ x.di_blocks = m /\ x.di_size = z

LEMMA CountsIs ==
    ASSUME NEW o \in Obj12, NEW k \in Nat, NEW m \in Nat, NEW z \in Nat,
           NEW x, x = [o EXCEPT !.di_nlink = k, !.di_blocks = m, !.di_size = z]
    PROVE  Counts(o, x, k, m, z)
<1>1. PICK X : X = Seq(EM!Extents)
  OBVIOUS
<1>2. PICK M : M = Modes
  OBVIOUS
<1> DEFINE S == [ino : Int, pino : Int, blkno : Int, ftype : M,
       di_mode : M, di_nlink : Nat, di_size : Nat, di_blocks : Nat, di_header : Int,
       di_nExtents : Nat, di_directExtent : X, di_rootIndExt : Nat]
<1>3. Obj12 = S
  BY <1>1, <1>2, Zenon DEF Obj12
<1>4. o \in S
  BY <1>3
<1>5. x \in S
  BY <1>4
<1>6. /\ x.ino = o.ino /\ x.pino = o.pino /\ x.blkno = o.blkno /\ x.ftype = o.ftype
      /\ x.di_mode = o.di_mode /\ x.di_nExtents = o.di_nExtents /\ x.di_directExtent = o.di_directExtent
      /\ x.di_rootIndExt = o.di_rootIndExt
      /\ x.di_nlink = k /\ x.di_blocks = m /\ x.di_size = z
  BY <1>4
<1> HIDE DEF S
<1>7. x \in Obj12
  BY <1>3, <1>5
<1> QED
  BY <1>6, <1>7 DEF Counts, MapFields

Recounted(c, h, d, k, m, z) == \E x : Counts(c[h], x, k, m, z) /\ d = [c EXCEPT ![h] = x]
Recount(c, h, k, m, z) == [c EXCEPT ![h].di_nlink = k, ![h].di_blocks = m, ![h].di_size = z]

LEMMA CountsSet ==
    ASSUME NEW c \in [Handles -> Obj12], NEW h \in Handles, NEW k \in Nat, NEW m \in Nat, NEW z \in Nat,
           NEW d, d = Recount(c, h, k, m, z)
    PROVE  Recounted(c, h, d, k, m, z)
<1>1. PICK o \in Obj12 : o = c[h]
  OBVIOUS
<1>2. PICK x1 : x1 = [o EXCEPT !.di_nlink = k]
  OBVIOUS
<1>3. PICK x2 : x2 = [x1 EXCEPT !.di_blocks = m]
  OBVIOUS
<1>4. PICK x3 : x3 = [x2 EXCEPT !.di_size = z]
  OBVIOUS
<1>5. x3 = [o EXCEPT !.di_nlink = k, !.di_blocks = m, !.di_size = z]
  BY <1>2, <1>3, <1>4
<1>6. Counts(c[h], x3, k, m, z)
  BY <1>1, <1>5, CountsIs
<1>7. DOMAIN c = Handles
  OBVIOUS
<1>8. PICK c1 : c1 = [c EXCEPT ![h].di_nlink = k]
  OBVIOUS
<1>9. c1 = [g \in Handles |-> IF g = h THEN x1 ELSE c[g]]
  BY <1>1, <1>2, <1>7, <1>8
<1>10. PICK c2 : c2 = [c1 EXCEPT ![h].di_blocks = m]
  OBVIOUS
<1>11. c2 = [g \in Handles |-> IF g = h THEN x2 ELSE c[g]]
  BY <1>3, <1>9, <1>10
<1>12. PICK c3 : c3 = [c2 EXCEPT ![h].di_size = z]
  OBVIOUS
<1>13. c3 = [g \in Handles |-> IF g = h THEN x3 ELSE c[g]]
  BY <1>4, <1>11, <1>12
<1>14. d = c3
  BY <1>8, <1>10, <1>12 DEF Recount
<1>15. [c EXCEPT ![h] = x3] = [g \in Handles |-> IF g = h THEN x3 ELSE c[g]]
  BY <1>7
<1> QED
  BY <1>6, <1>13, <1>14, <1>15 DEF Recounted

LEMMA LinkSet ==
    ASSUME NEW c \in [Handles -> Obj12], NEW h \in Handles, NEW k \in Nat,
           NEW d, d = [c EXCEPT ![h].di_nlink = k]
    PROVE  Recounted(c, h, d, k, c[h].di_blocks, c[h].di_size)
<1>1. PICK o \in Obj12 : o = c[h]
  OBVIOUS
<1>2. PICK x : x = [o EXCEPT !.di_nlink = k]
  OBVIOUS
<1>3. PICK m \in Nat, z \in Nat : m = o.di_blocks /\ z = o.di_size
  BY DEF Obj12
<1>4. x = [o EXCEPT !.di_nlink = k, !.di_blocks = m, !.di_size = z]
  BY <1>2, <1>3 DEF Obj12
<1>5. Counts(o, x, k, m, z)
  BY <1>4, CountsIs
<1>6. d = [c EXCEPT ![h] = x]
  BY <1>1, <1>2
<1> QED
  BY <1>1, <1>3, <1>5, <1>6 DEF Recounted

Resize(c, h, m, z) == [c EXCEPT ![h].di_blocks = m, ![h].di_size = z]

LEMMA SizeSet ==
    ASSUME NEW c \in [Handles -> Obj12], NEW h \in Handles, NEW m \in Nat, NEW z \in Nat,
           NEW d, d = Resize(c, h, m, z)
    PROVE  Recounted(c, h, d, c[h].di_nlink, m, z)
<1>1. PICK o \in Obj12 : o = c[h]
  OBVIOUS
<1>2. PICK k \in Nat : k = o.di_nlink
  BY DEF Obj12
<1>3. c = [c EXCEPT ![h].di_nlink = k]
  <2>1. o = [o EXCEPT !.di_nlink = k]
    BY <1>2 DEF Obj12
  <2>2. c = [c EXCEPT ![h] = o]
    BY <1>1
  <2>3. [c EXCEPT ![h].di_nlink = k] = [c EXCEPT ![h] = [o EXCEPT !.di_nlink = k]]
    BY <1>1
  <2> QED
    BY <2>1, <2>2, <2>3
<1>4. d = Recount(c, h, k, m, z)
  <2>1. PICK e : e = [c EXCEPT ![h].di_nlink = k]
    OBVIOUS
  <2>2. d = [e EXCEPT ![h].di_blocks = m, ![h].di_size = z]
    BY <1>3, <2>1 DEF Resize
  <2> QED
    BY <2>1, <2>2 DEF Recount
<1>5. Recounted(c, h, d, k, m, z)
  BY <1>4, CountsSet
<1>6. k = c[h].di_nlink
  BY <1>1, <1>2
<1> QED
  BY <1>5, <1>6

LEMMA RecountSets ==
    ASSUME NEW inds, NEW thrown, NEW P, Active(inds, thrown, P), NEW h \in Handles, Loaded(h),
           inodeNum' = inodeNum, Dinodes' = Dinodes,
           NEW x, NEW k, NEW m, NEW z, Counts(core[h], x, k, m, z), core' = [core EXCEPT ![h] = x]
    PROVE  /\ Sets(h, x) /\ MapOf(x.ino, DiOf(x)) = MapOf(x.ino, Latest(x.ino))
           /\ x.ino \in 0..inodeNum-1 /\ x.ino \in Nat
<1>1. Mem /\ inodeNum \in Nat
  BY StateIs
<1>2. PICK o : o = core[h]
  OBVIOUS
<1>3. o.ino \in 0..inodeNum-1 /\ o.blkno = Dinodes[o.ino + 1] /\ Latest(o.ino) = DiOf(o)
  BY <1>1, <1>2, LatestMem DEF Mem
<1>4. x.ino = o.ino /\ x \in Obj12 /\ x.blkno = o.blkno /\ x.di_mode = o.di_mode /\ MapFields(x, o)
  BY <1>2 DEF Counts
<1>5. PICK i \in Nat : i = o.ino /\ i = x.ino
  BY <1>1, <1>3, <1>4
<1>6. i < inodeNum' /\ core[h].ino \in {-1, i} /\ x.blkno = Dinodes'[i + 1]
  BY <1>1, <1>2, <1>3, <1>4, <1>5
<1>7. \A g \in Handles : g # h => core[g].ino # i
  BY <1>1, <1>2, <1>5 DEF Mem
<1>8. (h = "free" <=> i = 0) /\ (h = "root" <=> i = 1)
  <2>1. "free" \in Handles /\ "root" \in Handles
    BY DEF Handles
  <2>2. core["free"].ino = IF inodeNum > 0 THEN 0 ELSE -1
    BY <1>1 DEF Mem
  <2>3. core["root"].ino = IF inodeNum > 1 THEN 1 ELSE -1
    BY <1>1 DEF Mem
  <2>4. i = 0 => h = "free"
    <3>1. ASSUME i = 0, h # "free" PROVE FALSE
      <4>1. inodeNum > 0
        BY <1>1, <1>3, <1>5
      <4> QED
        BY <1>7, <2>1, <2>2, <3>1, <4>1
    <3> QED
      BY <3>1
  <2>5. i = 1 => h = "root"
    <3>1. ASSUME i = 1, h # "root" PROVE FALSE
      <4>1. inodeNum > 1
        BY <1>1, <1>3, <1>5, <3>1
      <4> QED
        BY <1>7, <2>1, <2>3, <3>1, <4>1
    <3> QED
      BY <3>1
  <2>6. h = "free" => i = 0
    <3>1. ASSUME h = "free" PROVE i = 0
      <4>1. core["free"].ino = i /\ i # -1
        <5>1. core["free"] = o
          BY <1>2, <3>1
        <5>2. o.ino = i /\ i # -1
          BY <1>5
        <5> QED
          BY <5>1, <5>2
      <4> QED
        BY <2>2, <4>1
    <3> QED
      BY <3>1
  <2>7. h = "root" => i = 1
    <3>1. ASSUME h = "root" PROVE i = 1
      <4>1. core["root"].ino = i /\ i # -1
        <5>1. core["root"] = o
          BY <1>2, <3>1
        <5>2. o.ino = i /\ i # -1
          BY <1>5
        <5> QED
          BY <5>1, <5>2
      <4> QED
        BY <2>3, <4>1
    <3> QED
      BY <3>1
  <2> QED
    BY <2>4, <2>5, <2>6, <2>7
<1>9. Sets(h, x)
  BY <1>4, <1>5, <1>6, <1>7, <1>8 DEF Sets
<1>10. MapOf(i, DiOf(x)) = MapOf(i, Latest(i))
  <2>1. PICK d : d = DiOf(x)
    OBVIOUS
  <2>2. PICK e : e = DiOf(o)
    OBVIOUS
  <2>3. d.di_mode = e.di_mode /\ d.di_nExtents = e.di_nExtents /\ d.di_directExtent = e.di_directExtent
        /\ d.di_rootIndExt = e.di_rootIndExt
    BY <1>4, <2>1, <2>2, DiOfIs DEF MapFields
  <2>4. MapOf(i, d) = MapOf(i, e)
    BY <2>3 DEF MapOf
  <2> QED
    BY <1>3, <1>5, <2>1, <2>2, <2>4
<1> QED
  BY <1>3, <1>5, <1>9, <1>10

LEMMA AddingOn ==
    ASSUME NEW inds, NEW thrown, NEW P, Active(inds, thrown, P), Adding(P), HasNext(P),
           UNCHANGED <<files, cur, comp, dirh, inodeNum>>, NEW h \in {"root", "dir", "next"},
           NEW x, NEW k, NEW m, NEW z, Counts(core[h], x, k, m, z), core' = [core EXCEPT ![h] = x]
    PROVE  Adding(P)' /\ HasNext(P)'
<1>1. Mem /\ dirh \in {"root", "dir"} /\ {"root", "dir", "next"} \subseteq Handles
  BY StateIs, AddingIs DEF Handles
<1>2. \A g \in {"root", "dir", "next"} : core'[g].ino = core[g].ino /\ core'[g].di_mode = core[g].di_mode
  <2>1. core \in [Handles -> Obj12]
    BY <1>1 DEF Mem
  <2>2. x.ino = core[h].ino /\ x.di_mode = core[h].di_mode
    BY DEF Counts
  <2>3. core'[h] = x /\ \A g \in Handles : g # h => core'[g] = core[g]
    BY <1>1, <2>1
  <2> QED
    BY <1>1, <2>2, <2>3
<1>3. /\ \A g \in {"root", "dir", "next"} : Loaded(g)' <=> Loaded(g)
      /\ DirObj'.ino = DirObj.ino /\ DirObj'.di_mode = DirObj.di_mode
      /\ NextObj'.ino = NextObj.ino /\ NextObj'.di_mode = NextObj.di_mode
      /\ File' = File /\ (LastComp' <=> LastComp)
  BY <1>1, <1>2 DEF Loaded, DirObj, NextObj, File, LastComp
<1>4. Adding(P)'
  BY <1>1, <1>3 DEF Adding
<1>5. HasNext(P)'
  BY <1>3 DEF HasNext
<1> QED
  BY <1>4, <1>5

(* A directory block of inode i that fits there.                            *)
Right(P, i, c) ==
    \A j \in 1..Len(c.ents) :
       LET e == c.ents[j]
       IN  e.d_name \notin Dots2 => e.d_ino \in i+1..inodeNum-1 /\ P[e.d_ino] = Append(P[i], e.d_name)

(* An entry or a block of entries is written: the directory's object and    *)
(* its map agree again.                                                     *)
LEMMA DirWrite ==
    ASSUME NEW inds, NEW thrown, NEW P, Active(inds, thrown, P), ins = NoFrame,
           UNCHANGED <<orgblks, head, used, calls, ins, inodeNum, mapped, phase, files, cur, dirh>>,
           NEW h \in Handles, Loaded(h), core[h].di_mode = "dir",
           NEW i \in 1..inodeNum-1, i = core[h].ino,
           NEW x, NEW k, NEW m, NEW z, Counts(core[h], x, k, m, z), core' = [core EXCEPT ![h] = x],
           z = TAR_BLOCKSIZE * m, Len(mapped[i]) = m,
           NEW b, InMap(i, b), NEW c, write(c, b), c.kind = "dir", Formed(c), Right(P, i, c),
           pc' \notin {"dots", "newBlock"}, \A a : Pending(a) => a = b,
           \A j \in 1..inodeNum-1 : j # i => Extra(j) = 0,
           PcOf(P)'
    PROVE  Goes
<1>1. Mem /\ inodeNum \in Nat /\ Prog(P) /\ UsedOnce /\ MappedOnce /\ "dir" \in Managers
      /\ {"dir", "iex", "dinode"} \subseteq Managers
  BY StateIs
<1>2. 1..inodeNum-1 \subseteq 1..MaxBlks
  BY <1>1, StateIs, InosFit
<1>3. Dinodes' = Dinodes
  BY DinodesStay
<1>4. Sets(h, x) /\ MapOf(x.ino, DiOf(x)) = MapOf(x.ino, Latest(x.ino))
  BY <1>3, RecountSets
<1>5. x.ino = i /\ x.di_mode = "dir" /\ x.di_blocks = m /\ x.di_size = z /\ x \in Obj12
  BY DEF Counts
<1>6. b \in used["dir"]
  BY <1>2, MapsAre DEF InMap
<1>7. Puts({b})
  BY <1>6 DEF Puts
<1>8. Apart({b})
  BY <1>6 DEF Apart
<1>9. FileStep({b}) /\ disk'[b] = c
  BY <1>1, <1>6, WriteIs
<1>10. \A j \in 1..inodeNum-1 : Extra(j)' = 0
  BY DEF Extra, AtTarget
<1>11. InodeOf(P, x.ino)'
  <2>1. Latest(i)' = DiOf(x)
    <3>1. \A j \in Nat : Latest(j)' = IF j = x.ino THEN DiOf(x) ELSE Latest(j)
      BY <1>4, <1>8, <1>9, AltersIs
    <3>2. i \in Nat
      OBVIOUS
    <3> QED
      BY <1>5, <3>1, <3>2
  <2>2. PICK e : e = DiOf(x)
    OBVIOUS
  <2>3. e.di_mode = "dir" /\ e.di_size = TAR_BLOCKSIZE * e.di_blocks /\ Len(mapped[i]) = e.di_blocks
    BY <1>5, <2>2, DiOfIs
  <2>4. e.di_blocks \in Nat
    BY <1>5, <2>2, DiOfIs DEF Obj12
  <2>5. InodeOf(P, i)'
    <3>1. Extra(i)' = 0
      BY <1>10
    <3>2. Len(mapped[i]) = e.di_blocks + 0
      BY <2>3, <2>4
    <3> QED
      BY <2>1, <2>2, <2>3, <3>1, <3>2 DEF InodeOf
  <2>6. InodeOf(P, i)' <=> InodeOf(P, x.ino)'
    BY <1>5
  <2> QED
    BY <2>5, <2>6
<1>12. ASSUME NEW j \in 1..inodeNum-1, NEW a, InMap(j, a)
       PROVE  Pending(a)' \/ DirBlk(P, j, a)' \/ (~Pending(a) /\ a \notin {b})
  <2>1. CASE a # b
    BY <2>1
  <2>2. CASE a = b
    <3>1. j = i
      <4>1. i \in 1..MaxBlks /\ j \in 1..MaxBlks
        BY <1>2
      <4>2. PICK l \in 1..Len(mapped[j]) : mapped[j][l] = b
        BY <1>12, <2>2 DEF InMap
      <4>3. InMap(i, mapped[j][l])
        BY <4>2
      <4> QED
        BY <1>1, <4>1, <4>2, <4>3 DEF MappedOnce
    <3>2. DirBlk(P, i, b)'
      <4>1. disk'[b].kind = "dir"
        BY <1>9
      <4>2. inodeNum' = inodeNum
        OBVIOUS
      <4> QED
        BY <1>9, <4>1, <4>2 DEF DirBlk, Right
    <3> QED
      BY <2>2, <3>1, <3>2
  <2> QED
    BY <2>1, <2>2
<1>13. Prog(P)'
  <2>1. core'["root"].di_mode = core["root"].di_mode
    <3>1. core \in [Handles -> Obj12] /\ "root" \in Handles /\ x.di_mode = core[h].di_mode
      BY <1>1 DEF Mem, Handles, Counts
    <3> QED
      BY <3>1
  <2> QED
    BY <1>1, <1>3, <2>1 DEF Prog, First
<1>14. \A j \in 1..inodeNum-1 : j # x.ino => Extra(j)' = Extra(j)
  BY <1>5, <1>10
<1> QED
  BY <1>4, <1>7, <1>8, <1>11, <1>12, <1>13, <1>14, Alters

LEMMA DotsGoes ==
    ASSUME NEW inds, NEW thrown, NEW P, Active(inds, thrown, P), Dots, Remember PROVE Goes
<1>1. /\ phase = "run" /\ ins = NoFrame /\ pc = "dots"
      /\ pc' = IF newh = "root" THEN "get" ELSE "addEntry"
      /\ UNCHANGED <<orgblks, head, used, calls, ins, files, cur, comp, dirh, inodeNum, phase>>
  BY DEF Dots, At, Goto, countVars, addVars
<1>2. mapped' = mapped
  BY <1>1 DEF Remember
<1>3. /\ Prog(P) /\ PcOf(P) /\ Mem /\ Inodes(P) /\ MappedOnce /\ inodeNum \in Nat
      /\ mapped \in [Inos -> Seq(Nat)] /\ MaxBlks \in Nat
  BY StateIs DEF Prog
<1>4. /\ newh \in {"root", "next"} /\ New(newh) /\ Target(newh)
      /\ (newh = "root" <=> cur = 0)
      /\ IF newh = "root" THEN Booting /\ inodeNum = 2 ELSE Adding(P) /\ HasNext(P)
  BY <1>1, <1>3, PcIs DEF newh
<1>5. PICK h \in Handles : h = newh /\ newh' = h
  BY <1>1, <1>4 DEF newh, Handles
<1>6. Loaded(h)
  <2>1. h = "root" => Loaded("root")
    BY <1>3, <1>4, <1>5 DEF Mem, Loaded
  <2>2. h = "next" => Loaded("next")
    BY <1>4, <1>5 DEF HasNext
  <2> QED
    BY <1>4, <1>5, <2>1, <2>2
<1>7. PICK o : o = core[h]
  OBVIOUS
<1>8. o \in Obj12 /\ o.di_mode = "dir" /\ o.di_size = 0 /\ o.di_blocks = 0 /\ Latest(o.ino) = DiOf(o)
      /\ o.ino \in 0..inodeNum-1
  BY <1>3, <1>4, <1>5, <1>6, <1>7, LatestMem DEF New
<1>9. PICK i \in 1..inodeNum-1 : i = o.ino
  <2>1. o.ino # 0
    <3>1. core["free"].ino = 0 /\ "free" \in Handles /\ h # "free"
      BY <1>3, <1>4, <1>5, <1>8 DEF Mem, Handles
    <3> QED
      BY <1>3, <1>6, <1>7, <3>1 DEF Mem
  <2> QED
    BY <1>3, <1>8, <2>1
<1>10. i \in 1..MaxBlks /\ i \in Inos
  BY <1>3, InosFit DEF Inos
<1>11. Len(mapped[i]) = 1
  <2>1. PICK di : di = Latest(i)
    OBVIOUS
  <2>2. di.di_mode = "dir" /\ di.di_blocks = 0
    BY <1>8, <1>9, <2>1, DiOfIs
  <2>3. InodeOf(P, i)
    BY <1>3 DEF Inodes
  <2>4. Extra(i) = 1
    BY <1>1, <1>5, <1>7, <1>9 DEF Extra, AtTarget
  <2> QED
    BY <2>1, <2>2, <2>3, <2>4 DEF InodeOf
<1>12. dirblk = mapped[i][1] /\ InMap(i, dirblk)
  <2>1. LET s == mapped[core[h].ino] IN Len(s) > 0 /\ s[Len(s)] = dirblk
    BY <1>1, <1>4, <1>5 DEF Target
  <2>2. mapped[i][1] = dirblk
    BY <1>7, <1>9, <1>11, <2>1
  <2> QED
    BY <1>11, <2>2 DEF InMap
<1>13. PICK c : c = DirBlock(<<Entry(o.ino, DIRENT_SIZE(1), ".", "dir"),
                               Entry(o.pino, TAR_BLOCKSIZE - DIRENT_SIZE(1), "..", "dir")>>)
  OBVIOUS
<1>14. write(c, dirblk)
  BY <1>5, <1>7, <1>13 DEF Dots
<1>15. Formed(c) /\ c.kind = "dir" /\ \A j \in 1..Len(c.ents) : c.ents[j].d_name \in Dots2
  <2>1. o.ino \in Int /\ o.pino \in Int
    BY <1>8 DEF Obj12
  <2> QED
    BY <1>13, <2>1, TwoFormed
<1>16. Right(P, i, c)
  BY <1>15 DEF Right
<1>17. PICK k \in Nat : k = o.di_nlink + 1
  BY <1>8 DEF Obj12
<1>18. PICK x : Counts(core[h], x, k, 1, TAR_BLOCKSIZE) /\ core' = [core EXCEPT ![h] = x]
  <2>1. PICK d, e : d = core' /\ e = core
    OBVIOUS
  <2>2. d = Recount(e, h, k, 1, TAR_BLOCKSIZE)
    <3>1. d = [e EXCEPT ![h].di_nlink = @ + 1, ![h].di_blocks = 1, ![h].di_size = TAR_BLOCKSIZE]
      BY <1>5, <2>1 DEF Dots
    <3>2. e[h].di_nlink + 1 = k
      BY <1>7, <1>17, <2>1
    <3> QED
      BY <3>1, <3>2 DEF Recount
  <2>3. e \in [Handles -> Obj12] /\ 1 \in Nat /\ TAR_BLOCKSIZE \in Nat
    BY <1>3, <2>1 DEF Mem, TAR_BLOCKSIZE
  <2>4. Recounted(e, h, d, k, 1, TAR_BLOCKSIZE)
    BY <2>2, <2>3, CountsSet
  <2> QED
    BY <2>1, <2>4 DEF Recounted
<1>19. PcOf(P)'
  <2>1. CASE newh = "root"
    <3>1. NoneOpen'
      <4>1. core'["dir"] = core["dir"] /\ core'["next"] = core["next"]
        BY <1>3, <1>5, <1>18, <2>1 DEF Mem, Handles
      <4> QED
        BY <1>1, <1>4, <2>1, <4>1 DEF NoneOpen, Booting, Loaded
    <3> QED
      BY <1>1, <2>1, <3>1 DEF PcOf, Quiet
  <2>2. CASE newh # "root"
    <3>1. Adding(P)' /\ HasNext(P)'
      BY <1>1, <1>4, <1>5, <1>18, <2>2, AddingOn
    <3> QED
      BY <1>1, <2>2, <3>1 DEF PcOf, InsFree
  <2> QED
    BY <2>1, <2>2
<1>20. \A j \in 1..inodeNum-1 : j # i => Extra(j) = 0
  BY <1>1, <1>5, <1>7, <1>9 DEF Extra, AtTarget
<1>21. TAR_BLOCKSIZE = TAR_BLOCKSIZE * 1
  BY DEF TAR_BLOCKSIZE
<1>22. pc' \notin {"dots", "newBlock"} /\ \A a : Pending(a) => a = dirblk
  BY <1>1 DEF Pending
<1>23. i = core[h].ino /\ core[h].di_mode = "dir"
  BY <1>7, <1>8, <1>9
<1> QED
  BY <1>1, <1>2, <1>6, <1>11, <1>12, <1>14, <1>15, <1>16, <1>18, <1>19, <1>20, <1>21, <1>22, <1>23, DirWrite

(* What is added is the next inode on the path.                             *)
LEMMA NextIs ==
    ASSUME NEW inds, NEW thrown, NEW P, Active(inds, thrown, P), Adding(P), HasNext(P)
    PROVE  /\ NextObj.ino \in DirObj.ino+1..inodeNum-1 /\ NextObj.ino \in Nat /\ NextObj.di_mode \in Modes
           /\ P[NextObj.ino] = Append(P[DirObj.ino], Name)
           /\ NextObj.ino \in 2..inodeNum-1 /\ NextObj \in Obj12 /\ Latest(NextObj.ino) = DiOf(NextObj)
<1>1. Mem /\ inodeNum \in Nat /\ "next" \in Handles
  BY StateIs DEF Handles
<1>2. /\ DirObj.ino \in 1..inodeNum-1 /\ P[DirObj.ino] = SubSeq(File.path, 1, comp - 1)
      /\ SubSeq(File.path, 1, comp) = Append(SubSeq(File.path, 1, comp - 1), Name)
  BY AddingIs
<1>3. /\ Loaded("next") /\ DirObj.ino < NextObj.ino /\ P[NextObj.ino] = SubSeq(File.path, 1, comp)
  BY DEF HasNext
<1>4. NextObj.ino \in 0..inodeNum-1 /\ NextObj \in Obj12 /\ Latest(NextObj.ino) = DiOf(NextObj)
  BY <1>1, <1>3, LatestMem DEF NextObj
<1>5. PICK n \in Nat, i \in Nat : n = NextObj.ino /\ i = DirObj.ino /\ i >= 1
  BY <1>1, <1>2, <1>4
<1>6. n \in i+1..inodeNum-1 /\ n \in 2..inodeNum-1
  BY <1>1, <1>3, <1>4, <1>5
<1>7. NextObj.di_mode \in Modes
  BY <1>4 DEF Obj12
<1> QED
  BY <1>2, <1>3, <1>4, <1>5, <1>6, <1>7

LEMMA NewBlockGoes ==
    ASSUME NEW inds, NEW thrown, NEW P, Active(inds, thrown, P), NewBlock, Remember PROVE Goes
<1>1. /\ phase = "run" /\ ins = NoFrame /\ pc = "newBlock" /\ pc' = "sync"
      /\ UNCHANGED <<orgblks, head, used, calls, ins, files, cur, comp, dirh, inodeNum, phase>>
  BY DEF NewBlock, At, Goto, countVars, addVars
<1>2. mapped' = mapped
  BY <1>1 DEF Remember
<1>3. /\ Prog(P) /\ PcOf(P) /\ Mem /\ Inodes(P) /\ inodeNum \in Nat
      /\ mapped \in [Inos -> Seq(Nat)] /\ MaxBlks \in Nat
  BY StateIs DEF Prog
<1>4. Adding(P) /\ HasNext(P) /\ Target(dirh)
  BY <1>1, <1>3, PcIs
<1>5. /\ dirh \in {"root", "dir"} /\ dirh \in Handles /\ Loaded(dirh)
      /\ DirObj \in Obj12 /\ DirObj.ino \in 1..inodeNum-1 /\ DirObj.ino \in 1..MaxBlks
      /\ DirObj.di_mode = "dir" /\ Latest(DirObj.ino) = DiOf(DirObj)
      /\ Name \in EntNames \ Dots2
  BY <1>4, AddingIs
<1>6. PICK h \in Handles : h = dirh
  BY <1>5
<1>7. PICK o : o = core[h] /\ o = DirObj
  BY <1>6 DEF DirObj
<1>8. PICK i \in 1..inodeNum-1 : i = o.ino
  BY <1>5, <1>7
<1>9. PICK m \in Nat : m = o.di_blocks
  BY <1>5, <1>7 DEF Obj12
<1>10. Len(mapped[i]) = m + 1 /\ o.di_size = TAR_BLOCKSIZE * m
  <2>1. PICK di : di = Latest(i)
    OBVIOUS
  <2>2. di.di_mode = "dir" /\ di.di_blocks = m /\ di.di_size = o.di_size
    BY <1>5, <1>7, <1>8, <1>9, <2>1, DiOfIs
  <2>3. InodeOf(P, i)
    BY <1>3 DEF Inodes
  <2>4. Extra(i) = 1
    BY <1>1, <1>7, <1>8 DEF Extra, AtTarget
  <2> QED
    BY <2>1, <2>2, <2>3, <2>4 DEF InodeOf
<1>11. InMap(i, dirblk)
  <2>1. LET s == mapped[core[h].ino] IN Len(s) > 0 /\ s[Len(s)] = dirblk
    BY <1>1, <1>4, <1>6 DEF Target
  <2>2. mapped[i][m + 1] = dirblk /\ m + 1 \in 1..Len(mapped[i])
    BY <1>7, <1>8, <1>10, <2>1
  <2> QED
    BY <2>2 DEF InMap
<1>12. PICK a \in Nat, t \in Modes : a = NextObj.ino /\ t = NextObj.di_mode
  BY <1>4, NextIs
<1>13. a \in i+1..inodeNum-1 /\ P[a] = Append(P[i], Name)
  BY <1>4, <1>7, <1>8, <1>12, NextIs
<1>14. PICK c : c = DirBlock(<<Entry(a, TAR_BLOCKSIZE, Name, t)>>)
  OBVIOUS
<1>15. write(c, dirblk)
  BY <1>12, <1>14 DEF NewBlock
<1>16. Formed(c) /\ c.kind = "dir" /\ \A j \in 1..Len(c.ents) : c.ents[j].d_ino = a /\ c.ents[j].d_name = Name
  BY <1>5, <1>14, OneFormed
<1>17. Right(P, i, c)
  BY <1>13, <1>16 DEF Right
<1>18. PICK z \in Nat : z = TAR_BLOCKSIZE * (m + 1) /\ z = o.di_size + TAR_BLOCKSIZE
  <2>1. TAR_BLOCKSIZE * (m + 1) = TAR_BLOCKSIZE * m + TAR_BLOCKSIZE /\ TAR_BLOCKSIZE * (m + 1) \in Nat
    BY DEF TAR_BLOCKSIZE
  <2> QED
    BY <1>10, <2>1
<1>19. PICK x : Counts(core[h], x, o.di_nlink, m + 1, z) /\ core' = [core EXCEPT ![h] = x]
  <2>1. PICK d, e : d = core' /\ e = core
    OBVIOUS
  <2>2. d = Resize(e, h, m + 1, z)
    <3>1. d = [e EXCEPT ![h].di_blocks = @ + 1, ![h].di_size = @ + TAR_BLOCKSIZE]
      BY <1>6, <2>1 DEF NewBlock
    <3>2. e \in [Handles -> Obj12] /\ e[h] = o
      BY <1>3, <1>7, <2>1 DEF Mem
    <3>3. PICK e1 : e1 = [e EXCEPT ![h].di_blocks = m + 1]
      OBVIOUS
    <3>4. e1[h].di_size = o.di_size
      <4>1. e1[h] = [o EXCEPT !.di_blocks = m + 1]
        BY <3>2, <3>3
      <4> QED
        BY <4>1
    <3>5. d = [e1 EXCEPT ![h].di_size = @ + TAR_BLOCKSIZE]
      BY <1>9, <3>1, <3>2, <3>3
    <3>6. d = [e1 EXCEPT ![h].di_size = z]
      BY <1>18, <3>4, <3>5
    <3> QED
      BY <3>3, <3>6 DEF Resize
  <2>3. e \in [Handles -> Obj12] /\ m + 1 \in Nat
    BY <1>3, <2>1 DEF Mem
  <2>4. Recounted(e, h, d, e[h].di_nlink, m + 1, z)
    BY <2>2, <2>3, SizeSet
  <2> QED
    BY <1>7, <2>1, <2>4 DEF Recounted
<1>20. PcOf(P)'
  <2>1. Adding(P)' /\ HasNext(P)'
    BY <1>1, <1>4, <1>5, <1>6, <1>19, AddingOn
  <2> QED
    BY <1>1, <2>1 DEF PcOf, Quiet
<1>21. \A j \in 1..inodeNum-1 : j # i => Extra(j) = 0
  BY <1>1, <1>7, <1>8 DEF Extra, AtTarget
<1>22. pc' \notin {"dots", "newBlock"} /\ \A b : Pending(b) => b = dirblk
  BY <1>1 DEF Pending
<1>23. i = core[h].ino /\ core[h].di_mode = "dir" /\ Loaded(h)
  BY <1>5, <1>6, <1>7, <1>8
<1> QED
  BY <1>1, <1>2, <1>10, <1>11, <1>15, <1>16, <1>17, <1>18, <1>19, <1>20, <1>21, <1>22, <1>23, DirWrite

(* The entry that is split is one of the directory's.                       *)
LEMMA SlotIs ==
    ASSUME NEW inds, NEW thrown, NEW P, Active(inds, thrown, P), Adding(P), ins = NoFrame,
           pc \notin {"dots", "newBlock"}, Slots(DirObj, Name) # {},
           NEW s, s = FirstSlot(Slots(DirObj, Name)), NEW b, b = DirBlks(DirObj)[s[1]]
    PROVE  /\ InMap(DirObj.ino, b) /\ DirBlk(P, DirObj.ino, b) /\ Formed(disk[b])
           /\ s[2] \in 1..Len(disk[b].ents) /\ HasRoom(disk[b].ents[s[2]], Name)
<1>1. /\ dirh \in {"root", "dir"} /\ dirh \in Handles /\ Loaded(dirh)
      /\ DirObj.ino \in 1..inodeNum-1 /\ DirObj.di_mode = "dir"
  BY AddingIs
<1>2. PICK h \in Handles : h = dirh /\ core[h] = DirObj
  BY <1>1 DEF DirObj
<1>3. PICK o : o = DirObj
  OBVIOUS
<1>4. PICK i : i = o.ino
  OBVIOUS
<1>5. InHand(h)
  BY <1>1, <1>2 DEF InHand
<1>6. PICK t : t = DirBlks(o)
  OBVIOUS
<1>7. /\ i \in 1..MaxBlks /\ t = mapped[i] /\ t \in Seq(Nat)
      /\ \A k \in 1..Len(mapped[i]) : DirBlk(P, i, mapped[i][k])
  BY <1>2, <1>3, <1>4, <1>5, <1>6, DirBlksAre
<1>8. ASSUME NEW k \in 1..Len(t)
      PROVE  /\ DirBlk(P, i, t[k]) /\ Formed(disk[t[k]]) /\ InMap(i, t[k])
             /\ DOMAIN disk[t[k]].ents = 1..Len(disk[t[k]].ents) /\ Len(disk[t[k]].ents) \in Nat
  <2>1. DirBlk(P, i, t[k]) /\ InMap(i, t[k])
    BY <1>7 DEF InMap
  <2>2. t[k] \in 0..blks-1
    BY <1>7, MapsAre
  <2>3. t[k] \in DOMAIN disk
    BY <2>2, StateIs
  <2>4. Formed(disk[t[k]])
    BY <2>1, <2>3 DEF Active, AllFormed, DirBlk
  <2>5. disk[t[k]].ents \in Seq(Ents)
    BY <2>4 DEF Formed
  <2> QED
    BY <2>1, <2>4, <2>5
<1>9. PICK S : S = Slots(o, Name)
  OBVIOUS
<1>10. S = UNION {{<<k, j>> : j \in {j \in DOMAIN disk[t[k]].ents : HasRoom(disk[t[k]].ents[j], Name)}}
                   : k \in DOMAIN t}
  BY <1>6, <1>9 DEF Slots
<1>11. ASSUME NEW u \in S
       PROVE  /\ u = <<u[1], u[2]>> /\ u[1] \in 1..Len(t) /\ u[2] \in DOMAIN disk[t[u[1]]].ents
              /\ HasRoom(disk[t[u[1]]].ents[u[2]], Name)
  <2>1. PICK k \in DOMAIN t : \E j \in DOMAIN disk[t[k]].ents : HasRoom(disk[t[k]].ents[j], Name) /\ u = <<k, j>>
    BY <1>10
  <2>2. PICK j \in DOMAIN disk[t[k]].ents : HasRoom(disk[t[k]].ents[j], Name) /\ u = <<k, j>>
    BY <2>1
  <2>3. u[1] = k /\ u[2] = j /\ DOMAIN t = 1..Len(t)
    BY <1>7, <2>2
  <2> QED
    BY <2>1, <2>2, <2>3
<1>12. s \in S
  <2>1. \A u \in S : u = <<u[1], u[2]>> /\ u[1] \in Nat /\ u[2] \in Nat
    <3>1. ASSUME NEW u \in S PROVE u[1] \in Nat /\ u[2] \in Nat
      <4>1. u[1] \in 1..Len(t) /\ u[2] \in DOMAIN disk[t[u[1]]].ents
        BY <1>11
      <4>2. u[2] \in 1..Len(disk[t[u[1]]].ents)
        BY <1>8, <4>1
      <4> QED
        BY <4>1, <4>2
    <3> QED
      BY <1>11, <3>1
  <2>2. S # {} /\ s = FirstSlot(S)
    BY <1>3, <1>9
  <2> QED
    BY <2>1, <2>2, FirstSlotIs
<1>13. s[1] \in 1..Len(t) /\ b = t[s[1]] /\ s[2] \in DOMAIN disk[b].ents /\ HasRoom(disk[b].ents[s[2]], Name)
  <2>1. b = t[s[1]]
    BY <1>3, <1>6
  <2> QED
    BY <1>11, <1>12, <2>1
<1>14. DirBlk(P, i, b) /\ Formed(disk[b]) /\ InMap(i, b) /\ DOMAIN disk[b].ents = 1..Len(disk[b].ents)
  BY <1>8, <1>13
<1> QED
  BY <1>3, <1>4, <1>13, <1>14

LEMMA AddEntryGoes ==
    ASSUME NEW inds, NEW thrown, NEW P, Active(inds, thrown, P), AddEntry, Remember PROVE Goes
<1>1. /\ phase = "run" /\ ins = NoFrame /\ pc = "addEntry" /\ pc' = "sync" /\ Slots(DirObj, Name) # {}
      /\ UNCHANGED <<orgblks, head, used, calls, ins, files, cur, comp, dirh, inodeNum, phase>>
  BY DEF AddEntry, At, Goto, countVars, addVars
<1>2. mapped' = mapped
  BY <1>1 DEF Remember
<1>3. /\ Prog(P) /\ PcOf(P) /\ Mem /\ Inodes(P) /\ inodeNum \in Nat
      /\ mapped \in [Inos -> Seq(Nat)] /\ MaxBlks \in Nat
  BY StateIs DEF Prog
<1>4. Adding(P) /\ HasNext(P)
  BY <1>1, <1>3, PcIs
<1>5. /\ dirh \in {"root", "dir"} /\ dirh \in Handles /\ Loaded(dirh)
      /\ DirObj \in Obj12 /\ DirObj.ino \in 1..inodeNum-1 /\ DirObj.ino \in 1..MaxBlks
      /\ DirObj.di_mode = "dir" /\ Latest(DirObj.ino) = DiOf(DirObj)
      /\ Name \in EntNames \ Dots2
  BY <1>4, AddingIs
<1>6. PICK h \in Handles : h = dirh
  BY <1>5
<1>7. PICK o : o = core[h] /\ o = DirObj
  BY <1>6 DEF DirObj
<1>8. PICK i \in 1..inodeNum-1 : i = o.ino
  BY <1>5, <1>7
<1>9. PICK m \in Nat, z \in Nat : m = o.di_blocks /\ z = o.di_size
  BY <1>5, <1>7 DEF Obj12
<1>10. Len(mapped[i]) = m /\ z = TAR_BLOCKSIZE * m
  <2>1. PICK di : di = Latest(i)
    OBVIOUS
  <2>2. di.di_mode = "dir" /\ di.di_blocks = m /\ di.di_size = z
    BY <1>5, <1>7, <1>8, <1>9, <2>1, DiOfIs
  <2>3. InodeOf(P, i)
    BY <1>3 DEF Inodes
  <2>4. Extra(i) = 0
    BY <1>1 DEF Extra, AtTarget
  <2> QED
    BY <1>9, <2>1, <2>2, <2>3, <2>4 DEF InodeOf
<1>11. PICK s : s = FirstSlot(Slots(DirObj, Name))
  OBVIOUS
<1>12. PICK b : b = DirBlks(DirObj)[s[1]]
  OBVIOUS
<1>13. /\ InMap(i, b) /\ DirBlk(P, i, b) /\ Formed(disk[b])
       /\ s[2] \in 1..Len(disk[b].ents) /\ HasRoom(disk[b].ents[s[2]], Name)
  <2>1. /\ InMap(DirObj.ino, b) /\ DirBlk(P, DirObj.ino, b) /\ Formed(disk[b])
        /\ s[2] \in 1..Len(disk[b].ents) /\ HasRoom(disk[b].ents[s[2]], Name)
    BY <1>1, <1>4, <1>11, <1>12, SlotIs
  <2> QED
    BY <1>7, <1>8, <2>1
<1>14. PICK a \in Nat, t \in Modes : a = NextObj.ino /\ t = NextObj.di_mode
  BY <1>4, NextIs
<1>15. a \in i+1..inodeNum-1 /\ P[a] = Append(P[i], Name)
  BY <1>4, <1>7, <1>8, <1>14, NextIs
<1>16. PICK f : f = disk[b]
  OBVIOUS
<1>17. PICK c : c = DirBlock(Split(f.ents, s[2], a, Name, t))
  OBVIOUS
<1>18. write(c, b)
  BY <1>11, <1>12, <1>14, <1>16, <1>17 DEF AddEntry
<1>19. /\ Formed(c) /\ c.kind = "dir"
       /\ \A j \in 1..Len(c.ents) :
             \/ c.ents[j].d_ino = a /\ c.ents[j].d_name = Name
             \/ \E k \in 1..Len(f.ents) : c.ents[j].d_ino = f.ents[k].d_ino
                                          /\ c.ents[j].d_name = f.ents[k].d_name
  <2>1. PICK q \in 1..Len(f.ents) : q = s[2]
    BY <1>13, <1>16
  <2>2. PICK n \in EntNames \ Dots2 : n = Name
    BY <1>5
  <2>3. Formed(f) /\ HasRoom(f.ents[q], n) /\ c = DirBlock(Split(f.ents, q, a, n, t))
    BY <1>13, <1>16, <1>17, <2>1, <2>2
  <2>4. /\ Formed(c) /\ c.kind = "dir"
        /\ \A j \in 1..Len(c.ents) :
             \/ c.ents[j].d_ino = a /\ c.ents[j].d_name = n
             \/ \E k \in 1..Len(f.ents) : c.ents[j].d_ino = f.ents[k].d_ino
                                          /\ c.ents[j].d_name = f.ents[k].d_name
    BY <2>3, SplitFormed
  <2> QED
    BY <2>2, <2>4
<1>20. Right(P, i, c)
  <2>1. ASSUME NEW j \in 1..Len(c.ents), c.ents[j].d_name \notin Dots2
        PROVE  c.ents[j].d_ino \in i+1..inodeNum-1 /\ P[c.ents[j].d_ino] = Append(P[i], c.ents[j].d_name)
    <3>1. CASE c.ents[j].d_ino = a /\ c.ents[j].d_name = Name
      BY <1>15, <3>1
    <3>2. ASSUME NEW k \in 1..Len(f.ents), c.ents[j].d_ino = f.ents[k].d_ino,
                 c.ents[j].d_name = f.ents[k].d_name
          PROVE  c.ents[j].d_ino \in i+1..inodeNum-1 /\ P[c.ents[j].d_ino] = Append(P[i], c.ents[j].d_name)
      BY <1>13, <1>16, <2>1, <3>2 DEF DirBlk
    <3> QED
      BY <1>19, <3>1, <3>2
  <2> QED
    BY <2>1 DEF Right
<1>21. PICK k \in Nat : k = Linked(o.di_nlink)
  BY <1>5, <1>7 DEF Obj12, Linked
<1>22. PICK x : Counts(core[h], x, k, m, z) /\ core' = [core EXCEPT ![h] = x]
  <2>1. PICK d, e : d = core' /\ e = core
    OBVIOUS
  <2>2. d = [e EXCEPT ![h].di_nlink = k]
    BY <1>6, <1>7, <1>21, <2>1 DEF AddEntry
  <2>3. e \in [Handles -> Obj12]
    BY <1>3, <2>1 DEF Mem
  <2>4. Recounted(e, h, d, k, e[h].di_blocks, e[h].di_size)
    BY <2>2, <2>3, LinkSet
  <2> QED
    BY <1>7, <1>9, <2>1, <2>4 DEF Recounted
<1>23. PcOf(P)'
  <2>1. Adding(P)' /\ HasNext(P)'
    BY <1>1, <1>4, <1>5, <1>6, <1>22, AddingOn
  <2> QED
    BY <1>1, <2>1 DEF PcOf, Quiet
<1>24. \A j \in 1..inodeNum-1 : j # i => Extra(j) = 0
  BY <1>1 DEF Extra, AtTarget
<1>25. pc' \notin {"dots", "newBlock"} /\ \A e : Pending(e) => e = b
  BY <1>1 DEF Pending
<1>26. i = core[h].ino /\ core[h].di_mode = "dir" /\ Loaded(h)
  BY <1>5, <1>6, <1>7, <1>8
<1> QED
  BY <1>1, <1>2, <1>10, <1>13, <1>18, <1>19, <1>20, <1>22, <1>23, <1>24, <1>25, <1>26, DirWrite

==============================================================================
