----------------------------- MODULE FsTreeProofs -----------------------------
(***************************************************************************)
(* Proofs about FsMaker, continued: the steps that take blocks, make       *)
(* inodes and insert blocks in the maps, what each way to end leaves in    *)
(* the file, and the theorems of FsTree.                                   *)
(***************************************************************************)
EXTENDS FsMakerProofs

(* Steps that take a block.                                                 *)
LEMMA TakesFile ==
    ASSUME NEW inds, NEW thrown, NEW P, Active(inds, thrown, P), NEW m \in Managers, NEW b, Taken(m, b)
    PROVE  FileStep({}) /\ Apart({}) /\ AllFormed' /\ NoSuper' /\ \A i \in Nat : DisksStay(i)
<1>1. FileStep({})
  BY DEF Taken, FileStep
<1>2. Apart({})
  BY DEF Apart
<1>3. AllFormed' /\ NoSuper'
  BY <1>1, FileOn
<1>4. \A i \in Nat : DisksStay(i)
  BY <1>1, <1>2, StayIs
<1> QED
  BY <1>1, <1>2, <1>3, <1>4

(* A block just taken is in no directory yet.                               *)
LEMMA FreshIs ==
    ASSUME NEW inds, NEW thrown, NEW P, Active(inds, thrown, P), ins' # NoFrame, mapped' = mapped,
           NEW b, Taken("dir", b), dirblk' = b, "dir" \in Managers, NEW h
    PROVE  Target(h)'
<1>1. b \in used'["dir"]
  BY UsedOn
<1>2. ASSUME NEW i \in 1..MaxBlks, InMap(i, b) PROVE FALSE
  <2>1. b \in used["dir"]
    BY <1>2, MapsAre DEF InMap
  <2> QED
    BY <2>1 DEF Taken
<1>3. \A i \in 1..MaxBlks : ~InMap(i, dirblk)'
  <2>1. \A i \in 1..MaxBlks : InMap(i, dirblk)' => InMap(i, b)
    BY DEF InMap
  <2> QED
    BY <1>2, <2>1
<1> QED
  BY <1>1, <1>3 DEF Target

LEMMA DirTakes ==
    ASSUME NEW inds, NEW thrown, NEW P, Active(inds, thrown, P), ins = NoFrame, Fits("dir"), allocBlock("dir"),
           UNCHANGED <<inodeNum, mapped, phase, files, cur, dirh>>,
           NEW h \in Handles, Loaded(h), core[h].di_mode = "dir",
           NEW i \in 1..inodeNum-1, i = core[h].ino,
           NEW x, NEW k, Counts(core[h], x, k, core[h].di_blocks, core[h].di_size),
           core' = [core EXCEPT ![h] = x],
           Call(h, Extent(core[h].di_blocks, NextBlock("dir"), 1)),
           pc \notin {"dots", "newBlock"}, PcOf(P)'
    PROVE  Goes
<1>1. /\ Mem /\ inodeNum \in Nat /\ Prog(P) /\ Inodes(P) /\ {"dir", "iex", "dinode"} \subseteq Managers
      /\ EM!Alive(inds, thrown) /\ mapped \in [Inos -> Seq(Nat)] /\ MaxBlks \in Nat /\ phase = "run"
      /\ P \in [Inos -> Seq(EntNames)]
  BY StateIs
<1>2. i \in 1..MaxBlks /\ 1..inodeNum-1 \subseteq 1..MaxBlks
  BY <1>1, InosFit
<1>3. EM!BP!Alloc("dir") /\ \E b \in Nat : Taken("dir", b)
  BY <1>1, TakenIs
<1>4. PICK b \in Nat : Taken("dir", b)
  BY <1>3
<1>5. FileStep({}) /\ Apart({}) /\ AllFormed' /\ NoSuper' /\ \A j \in Nat : DisksStay(j)
  BY <1>1, <1>4, TakesFile
<1>6. UsedOnce'
  BY <1>1, <1>4, UsedOn
<1>7. PICK o : o = core[h]
  OBVIOUS
<1>8. o \in Obj12 /\ Latest(i) = DiOf(o) /\ o.di_mode = "dir"
  BY <1>1, <1>7, LatestMem
<1>9. PICK m \in Nat : m = o.di_blocks
  BY <1>8 DEF Obj12
<1>10. Len(mapped[i]) = m /\ o.di_size = TAR_BLOCKSIZE * m
  <2>1. PICK di : di = Latest(i)
    OBVIOUS
  <2>2. di.di_mode = "dir" /\ di.di_blocks = m /\ di.di_size = o.di_size
    BY <1>8, <1>9, <2>1, DiOfIs
  <2>3. InodeOf(P, i)
    BY <1>1 DEF Inodes
  <2>4. Extra(i) = 0
    BY DEF Extra, AtTarget
  <2> QED
    BY <1>9, <2>1, <2>2, <2>3, <2>4 DEF InodeOf
<1>11. PICK de : de = Extent(m, b, 1)
  OBVIOUS
<1>12. ins' = [at |-> "direct", obj |-> h, de |-> de, ind_off |-> 0, new |-> 0]
  BY <1>4, <1>7, <1>9, <1>11 DEF Call, Taken
<1>13. ins' \in Frames /\ ins' # NoFrame /\ ins'.obj = h
  <2>1. de \in EM!Extents
    BY <1>11 DEF Extent, EM!Extents
  <2>2. ins' \in Frames
    BY <1>12, <2>1 DEF Frames
  <2>3. ins'.at = "direct" /\ ins'.obj = h
    BY <1>12
  <2>4. ins' # NoFrame
    BY <2>3 DEF NoFrame
  <2> QED
    BY <2>2, <2>3, <2>4
<1>14. h # "free"
  BY <1>1 DEF Mem
<1>15. Dinodes' = Dinodes
  BY <1>13, <1>14 DEF Dinodes
<1>16. Dwell
  BY <1>15 DEF Dwell
<1>17. Sets(h, x) /\ MapOf(x.ino, DiOf(x)) = MapOf(x.ino, Latest(x.ino))
  BY <1>15, RecountSets
<1>18. x.ino = i /\ x \in Obj12 /\ x.di_mode = "dir" /\ x.di_blocks = m /\ x.di_size = o.di_size
  BY <1>7, <1>8, <1>9 DEF Counts
<1>19. Mem'
  BY <1>13, <1>16, <1>17, MemOn
<1>20. OnDisk'
  BY <1>5, <1>16, <1>17, OnDiskOn
<1>21. \A j \in Nat : Latest(j)' = IF j = i THEN DiOf(x) ELSE Latest(j)
  BY <1>5, <1>16, <1>17, <1>18, LatestOn
<1>22. MapCore' = MapCore
  <2>1. MapCore' = [MapCore EXCEPT ![x.ino] = MapOf(x.ino, DiOf(x))]
    BY <1>5, <1>16, <1>17, MapCoreOn
  <2>2. PICK M : M = MapCore
    OBVIOUS
  <2>3. M = [j \in Inos |-> MapOf(j, Latest(j))]
    BY <2>2, InosAre DEF MapCore
  <2>4. i \in Inos /\ M[i] = MapOf(i, DiOf(x))
    BY <1>2, <1>17, <1>18, <2>3 DEF Inos
  <2>5. [M EXCEPT ![i] = MapOf(i, DiOf(x))] = M
    BY <2>3, <2>4
  <2> QED
    BY <1>18, <2>1, <2>2, <2>5
<1>23. EM!BP!Alloc("dir") /\ EM!TypeInv' /\ EM!RunInv(inds, thrown)'
  <2>1. MapIns = EM!NoFrame
    BY DEF MapIns, EM!NoFrame, NoFrame
  <2>2. MapIns' = [at |-> "direct", obj |-> i, de |-> de, ind_off |-> 0, new |-> 0]
    <3>1. MapIns' = [ins' EXCEPT !.obj = core'[ins'.obj].ino]
      BY <1>13 DEF MapIns, NoFrame
    <3>2. core'[h].ino = i
      BY <1>1, <1>18 DEF Mem
    <3>3. PICK f : f = ins'
      OBVIOUS
    <3>4. [f EXCEPT !.obj = i] = [at |-> "direct", obj |-> i, de |-> de, ind_off |-> 0, new |-> 0]
      BY <1>12, <3>3
    <3> QED
      BY <1>13, <3>1, <3>2, <3>3, <3>4
  <2>3. EM!Call(i, EM!Extent(Len(mapped[i]), EM!NextBlock("dir"), 1))
    <3>1. EM!NextBlock("dir") = b
      BY <1>1, <1>4, SameAlloc DEF Taken
    <3>2. EM!Extent(m, b, 1) = de
      BY <1>11 DEF Extent, EM!Extent
    <3> QED
      BY <1>10, <2>2, <3>1, <3>2 DEF EM!Call
  <2>4. EM!GrowDir(i)
    BY <1>22, <2>1, <2>3, SameAlloc DEF EM!GrowDir
  <2> QED
    BY <1>1, <1>2, <2>4, Given, BulksAssumption, IndExtAssumption, EM!DirGrows
<1>24. BPStep
  BY <1>1, <1>23 DEF BPStep, EM!BP!ClientNext
<1>25. Inodes(P)'
  <2>1. InodeOf(P, i)'
    <3>1. PICK e : e = DiOf(x)
      OBVIOUS
    <3>2. Latest(i)' = e /\ e.di_mode = "dir" /\ e.di_blocks = m /\ e.di_size = TAR_BLOCKSIZE * m
      BY <1>10, <1>18, <1>21, <3>1, DiOfIs
    <3>3. Extra(i)' = 0
      BY <1>13 DEF Extra, AtTarget
    <3>4. Len(mapped[i]) = m + 0
      BY <1>10
    <3> QED
      BY <3>2, <3>3, <3>4 DEF InodeOf
  <2>2. ASSUME NEW j \in 1..inodeNum-1, j # i PROVE Same(j)
    <3>1. j \in Nat /\ Latest(j)' = Latest(j)
      BY <1>21, <2>2
    <3>2. Extra(j)' = 0 /\ Extra(j) = 0
      BY <1>13 DEF Extra, AtTarget
    <3> QED
      BY <3>1, <3>2 DEF Same
  <2>3. \A j \in 1..inodeNum'-1 : InodeOf(P, j)' \/ (j \in 1..inodeNum-1 /\ P[j] = P[j] /\ Same(j))
    BY <2>1, <2>2
  <2> QED
    BY <2>3, InodesOn
<1>26. DirsOf(P)'
  <2>1. ASSUME NEW j \in 1..inodeNum-1, NEW a, InMap(j, a)' PROVE InMap(j, a) /\ ~Pending(a) /\ disk'[a] = disk[a]
    <3>1. InMap(j, a)
      BY <2>1 DEF InMap
    <3>2. a \in 0..blks-1
      BY <1>2, <3>1, MapsAre DEF InMap
    <3> QED
      BY <1>5, <3>1, <3>2 DEF Pending, FileStep
  <2>2. \A j \in 1..inodeNum'-1 : \A a : InMap(j, a)' =>
              \/ Pending(a)' \/ DirBlk(P, j, a)'
              \/ j \in 1..inodeNum-1 /\ InMap(j, a) /\ ~Pending(a) /\ disk'[a] = disk[a]
    BY <2>1
  <2> QED
    BY <1>1, <1>19, <2>2, DirsOn
<1>27. MappedOnce' /\ NoInode'
  BY <1>1, MappedOn
<1>28. Prog(P)'
  <2>1. core'["root"].di_mode = core["root"].di_mode
    <3>1. core \in [Handles -> Obj12] /\ "root" \in Handles /\ x.di_mode = core[h].di_mode
      BY <1>1 DEF Mem, Handles, Counts
    <3> QED
      BY <3>1
  <2>2. orgblks' = orgblks
    BY <1>4 DEF Taken
  <2> QED
    BY <1>1, <1>15, <2>1, <2>2 DEF Prog, First
<1> QED
  BY <1>1, <1>5, <1>6, <1>19, <1>20, <1>23, <1>24, <1>25, <1>26, <1>27, <1>28, GoesOn


LEMMA ItselfIs ==
    ASSUME NEW o \in Obj12
    PROVE  Counts(o, o, o.di_nlink, o.di_blocks, o.di_size)
<1>1. MapFields(o, o)
  BY DEF MapFields
<1> QED
  BY <1>1 DEF Counts

LEMMA DirInitGoes ==
    ASSUME NEW inds, NEW thrown, NEW P, Active(inds, thrown, P), DirInit, Remember PROVE Goes
<1>1. /\ phase = "run" /\ ins = NoFrame /\ pc = "dirInit" /\ pc' = "dots" /\ Fits("dir") /\ allocBlock("dir")
      /\ Call(newh, Extent(core[newh].di_blocks, NextBlock("dir"), 1)) /\ dirblk' = NextBlock("dir")
      /\ UNCHANGED <<core, files, cur, comp, dirh, inodeNum, phase>>
  BY DEF DirInit, At, Goto, countVars, addVars
<1>2. mapped' = mapped
  BY <1>1 DEF Remember
<1>3. /\ Prog(P) /\ PcOf(P) /\ Mem /\ inodeNum \in Nat /\ "dir" \in Managers
  BY StateIs DEF Prog
<1>4. /\ newh \in {"root", "next"} /\ New(newh) /\ (newh = "root" <=> cur = 0)
      /\ IF newh = "root" THEN Booting /\ inodeNum = 2 ELSE Adding(P) /\ HasNext(P)
  BY <1>1, <1>3, PcIs DEF newh
<1>5. PICK h \in Handles : h = newh
  BY <1>4 DEF Handles
<1>6. Loaded(h)
  <2>1. h = "root" => Loaded("root")
    BY <1>3, <1>4, <1>5 DEF Mem, Loaded
  <2>2. h = "next" => Loaded("next")
    BY <1>4, <1>5 DEF HasNext
  <2> QED
    BY <1>4, <1>5, <2>1, <2>2
<1>7. PICK o : o = core[h]
  OBVIOUS
<1>8. o \in Obj12 /\ o.di_mode = "dir" /\ o.ino \in 0..inodeNum-1
  BY <1>3, <1>4, <1>5, <1>6, <1>7, LatestMem DEF New
<1>9. PICK i \in 1..inodeNum-1 : i = o.ino
  <2>1. o.ino # 0
    <3>1. core["free"].ino = 0 /\ "free" \in Handles /\ h # "free"
      BY <1>3, <1>4, <1>5, <1>8 DEF Mem, Handles
    <3> QED
      BY <1>3, <1>6, <1>7, <3>1 DEF Mem
  <2> QED
    BY <1>3, <1>8, <2>1
<1>10. PICK b \in Nat : Taken("dir", b) /\ b = NextBlock("dir")
  <2>1. PICK b \in Nat : Taken("dir", b)
    BY <1>1, <1>3, TakenIs
  <2> QED
    BY <2>1 DEF Taken
<1>11. ins' # NoFrame /\ ins'.obj = h /\ ins'.de.de_blkno = b
  <2>1. PICK n : n = core[newh].di_blocks
    OBVIOUS
  <2>2. ins' = [at |-> "direct", obj |-> h, de |-> Extent(n, b, 1), ind_off |-> 0, new |-> 0]
    BY <1>1, <1>5, <1>10, <2>1 DEF Call
  <2> QED
    BY <2>2 DEF NoFrame, Extent
<1>12. Target(h)'
  BY <1>1, <1>2, <1>3, <1>10, <1>11, FreshIs
<1>13. InsFor(h)'
  BY <1>1, <1>10, <1>11 DEF InsFor
<1>14. New(h)'
  BY <1>1, <1>4, <1>5 DEF New
<1>15. PcOf(P)'
  <2>1. CASE newh = "root"
    <3>1. Booting' /\ inodeNum' = 2 /\ cur' = 0 /\ pc' = "dots"
      BY <1>1, <1>4, <2>1 DEF Booting, Loaded
    <3>2. New("root")' /\ Target("root")' /\ InsFor("root")'
      BY <1>5, <1>12, <1>13, <1>14, <2>1
    <3> QED
      BY <3>1, <3>2 DEF PcOf
  <2>2. CASE newh # "root"
    <3>1. Adding(P)'
      BY <1>1, <1>4, <2>2 DEF Adding, Loaded, DirObj, File
    <3>2. HasNext(P)'
      BY <1>1, <1>4, <2>2 DEF HasNext, Loaded, DirObj, NextObj, File, LastComp
    <3>3. cur' # 0 /\ pc' = "dots"
      BY <1>1, <1>4, <2>2
    <3>4. New("next")' /\ Target("next")' /\ InsFor("next")'
      BY <1>4, <1>5, <1>12, <1>13, <1>14, <2>2
    <3> QED
      BY <3>1, <3>2, <3>3, <3>4 DEF PcOf
  <2> QED
    BY <2>1, <2>2
<1>16. Counts(core[h], o, o.di_nlink, core[h].di_blocks, core[h].di_size)
  BY <1>7, <1>8, ItselfIs
<1>17. core' = [core EXCEPT ![h] = o]
  BY <1>1, <1>3, <1>7 DEF Mem
<1>18. Call(h, Extent(core[h].di_blocks, NextBlock("dir"), 1))
  BY <1>1, <1>5
<1>19. i = core[h].ino /\ core[h].di_mode = "dir" /\ pc \notin {"dots", "newBlock"}
  BY <1>1, <1>7, <1>8, <1>9
<1> QED
  BY <1>1, <1>2, <1>6, <1>15, <1>16, <1>17, <1>18, <1>19, DirTakes

LEMMA AddBlockGoes ==
    ASSUME NEW inds, NEW thrown, NEW P, Active(inds, thrown, P), AddBlock, Remember PROVE Goes
<1>1. /\ phase = "run" /\ ins = NoFrame /\ pc = "addEntry" /\ pc' = "newBlock"
      /\ Fits("dir") /\ allocBlock("dir")
      /\ Call(dirh, Extent(DirObj.di_blocks, NextBlock("dir"), 1)) /\ dirblk' = NextBlock("dir")
      /\ UNCHANGED <<files, cur, comp, dirh, inodeNum, phase>>
  BY DEF AddBlock, At, Goto, countVars, addVars
<1>2. mapped' = mapped
  BY <1>1 DEF Remember
<1>3. /\ Prog(P) /\ PcOf(P) /\ Mem /\ inodeNum \in Nat /\ "dir" \in Managers
  BY StateIs DEF Prog
<1>4. Adding(P) /\ HasNext(P)
  BY <1>1, <1>3, PcIs
<1>5. /\ dirh \in {"root", "dir"} /\ dirh \in Handles /\ Loaded(dirh)
      /\ DirObj \in Obj12 /\ DirObj.ino \in 1..inodeNum-1 /\ DirObj.di_mode = "dir"
  BY <1>4, AddingIs
<1>6. PICK h \in Handles : h = dirh /\ h \in {"root", "dir", "next"}
  BY <1>5
<1>7. PICK o : o = core[h] /\ o = DirObj
  BY <1>6 DEF DirObj
<1>8. PICK i \in 1..inodeNum-1 : i = o.ino
  BY <1>5, <1>7
<1>9. PICK k \in Nat : k = Linked(o.di_nlink)
  <2>1. o.di_nlink \in Nat
    BY <1>5, <1>7 DEF Obj12
  <2> QED
    BY <2>1 DEF Linked
<1>10. PICK x : Counts(core[h], x, k, core[h].di_blocks, core[h].di_size) /\ core' = [core EXCEPT ![h] = x]
  <2>1. PICK d, e : d = core' /\ e = core
    OBVIOUS
  <2>2. d = [e EXCEPT ![h].di_nlink = k]
    BY <1>6, <1>7, <1>9, <2>1 DEF AddBlock
  <2>3. e \in [Handles -> Obj12]
    BY <1>3, <2>1 DEF Mem
  <2>4. Recounted(e, h, d, k, e[h].di_blocks, e[h].di_size)
    BY <2>2, <2>3, LinkSet
  <2> QED
    BY <2>1, <2>4 DEF Recounted
<1>11. PICK b \in Nat : Taken("dir", b) /\ b = NextBlock("dir")
  <2>1. PICK b \in Nat : Taken("dir", b)
    BY <1>1, <1>3, TakenIs
  <2> QED
    BY <2>1 DEF Taken
<1>12. ins' # NoFrame /\ ins'.obj = h /\ ins'.de.de_blkno = b
  <2>1. PICK n : n = DirObj.di_blocks
    OBVIOUS
  <2>2. ins' = [at |-> "direct", obj |-> h, de |-> Extent(n, b, 1), ind_off |-> 0, new |-> 0]
    BY <1>1, <1>6, <1>11, <2>1 DEF Call
  <2> QED
    BY <2>2 DEF NoFrame, Extent
<1>13. Target(h)' /\ InsFor(h)'
  <2>1. Target(h)'
    BY <1>1, <1>2, <1>3, <1>11, <1>12, FreshIs
  <2> QED
    BY <1>1, <1>11, <1>12, <2>1 DEF InsFor
<1>14. PcOf(P)'
  <2>1. Adding(P)' /\ HasNext(P)'
    BY <1>1, <1>4, <1>6, <1>10, AddingOn
  <2>2. Target(dirh)' /\ InsFor(dirh)'
    <3>1. PICK g : g = dirh'
      OBVIOUS
    <3>2. g = h
      BY <1>1, <1>6, <3>1
    <3> QED
      BY <1>1, <1>6, <1>13, <3>1, <3>2 DEF Target, InsFor
  <2> QED
    BY <1>1, <2>1, <2>2 DEF PcOf
<1>15. Call(h, Extent(core[h].di_blocks, NextBlock("dir"), 1))
  BY <1>1, <1>6, <1>7
<1>16. i = core[h].ino /\ core[h].di_mode = "dir" /\ pc \notin {"dots", "newBlock"} /\ Loaded(h)
  BY <1>1, <1>5, <1>6, <1>7, <1>8
<1> QED
  BY <1>1, <1>2, <1>10, <1>14, <1>15, <1>16, DirTakes

(* Inodes are made one after the other; the dinodes of those there are stay *)
(* where they are when the free inode gets a chunk.                         *)
GetsChunk(b) == IF HasFree("dinode") THEN UNCHANGED ins
                ELSE Call("free", Extent(inodeNum, b, Bulks["dinode"]))

LEMMA DinodesGrow ==
    ASSUME NEW inds, NEW thrown, NEW P, Active(inds, thrown, P), ins = NoFrame, mapped' = mapped,
           NEW b \in Nat, b = NextBlock("dinode"), GetsChunk(b)
    PROVE  /\ ins' \in Frames \union {NoFrame} /\ InsFree'
           /\ Len(Dinodes) \in Nat /\ Len(Dinodes') \in Nat /\ Len(Dinodes) <= Len(Dinodes')
           /\ inodeNum <= Len(Dinodes)
           /\ \A i \in 1..Len(Dinodes) : Dinodes'[i] = Dinodes[i]
           /\ Dinodes'[inodeNum + 1] = b
           /\ ~HasFree("dinode") => /\ Len(Dinodes') = inodeNum + Bulks["dinode"]
                                    /\ Dinodes'[inodeNum + 2] = b + 1
<1>1. /\ EM!Alive(inds, thrown) /\ EM!InodeInv /\ EM!Dinodes = Dinodes
      /\ Dinodes \in Seq(Nat) /\ Len(Dinodes) \in Nat /\ inodeNum <= Len(Dinodes)
      /\ inodeNum \in Nat /\ mapped \in [Inos -> Seq(Nat)] /\ TARFS_FREE_INO \in Inos
      /\ head \in [Managers -> Nat \union {TARBLK_NONE}] /\ "dinode" \in Managers
  BY StateIs, MapsAre, DinodesSeen DEF EM!Alive, EM!RunInv, TARFS_FREE_INO
<1>2. CASE HasFree("dinode")
  <2>1. ins' = NoFrame /\ Dinodes' = Dinodes
    BY <1>2, DinodesStay DEF GetsChunk
  <2>2. EM!HasFree("dinode")
    BY <1>2, SameAlloc
  <2>3. PICK n \in Nat, l \in Nat : n = inodeNum /\ l = Len(Dinodes) /\ n < l
    BY <1>1, <2>2 DEF EM!InodeInv
  <2>4. n + 1 \in n+1..l
    BY <2>3
  <2>5. \A i \in n+1..l : Dinodes[i] = head["dinode"] + (i - n - 1)
    BY <1>1, <2>2, <2>3 DEF EM!InodeInv
  <2>6. PICK c \in Nat : c = head["dinode"] /\ c = b
    BY <1>1, <1>2 DEF HasFree, NextBlock
  <2>7. Dinodes[n + 1] = c + ((n + 1) - n - 1)
    BY <2>4, <2>5, <2>6
  <2>8. Dinodes[n + 1] = b
    BY <2>6, <2>7
  <2> QED
    BY <1>1, <1>2, <2>1, <2>3, <2>8 DEF InsFree
<1>3. CASE ~HasFree("dinode")
  <2>1. PICK k \in Nat : k = Bulks["dinode"] /\ k >= 2
    BY <1>1, BulksAssumption
  <2>2. PICK n \in Nat : n = inodeNum
    BY <1>1
  <2>3. PICK s : s = mapped[TARFS_FREE_INO]
    OBVIOUS
  <2>4. s = Dinodes /\ Len(s) = n /\ s \in Seq(Nat)
    <3>1. s = Dinodes
      BY <2>3 DEF Dinodes
    <3>2. ~EM!HasFree("dinode")
      BY <1>3, SameAlloc
    <3> QED
      BY <1>1, <2>2, <3>1, <3>2 DEF EM!InodeInv
  <2>5. PICK de : de = Extent(n, b, k)
    OBVIOUS
  <2>6. de \in EM!Extents /\ de.de_nblks = k /\ de.de_blkno = b
    BY <2>1, <2>5 DEF Extent, EM!Extents
  <2>7. ins' = [at |-> "direct", obj |-> "free", de |-> de, ind_off |-> 0, new |-> 0]
    BY <1>3, <2>1, <2>2, <2>5 DEF GetsChunk, Call
  <2>8. ins' \in Frames /\ ins' # NoFrame /\ ins'.obj = "free" /\ ins'.de = de
    BY <2>6, <2>7 DEF Frames, Handles, NoFrame
  <2>9. PICK t : t = s \o Grown(de)
    OBVIOUS
  <2>10. Dinodes' = t
    BY <2>3, <2>8, <2>9 DEF Dinodes, Grown, TARFS_FREE_INO
  <2>11. /\ Len(t) = n + k /\ \A i \in 1..n : t[i] = s[i]
         /\ \A i \in 1..k : t[n + i] = b + i - 1
    <3>1. EM!Grown(de) = Grown(de)
      BY DEF EM!Grown, Grown
    <3>2. /\ Len(s \o EM!Grown(de)) = Len(s) + de.de_nblks
          /\ \A i \in 1..Len(s) : (s \o EM!Grown(de))[i] = s[i]
          /\ \A i \in 1..de.de_nblks : (s \o EM!Grown(de))[Len(s) + i] = de.de_blkno + i - 1
      BY <2>4, <2>6, Given, BulksAssumption, IndExtAssumption, EM!GrownIs
    <3> QED
      BY <2>4, <2>6, <2>9, <3>1, <3>2
  <2>12. t[n + 1] = b /\ t[n + 2] = b + 1
    <3>1. 1 \in 1..k /\ 2 \in 1..k /\ b + 1 - 1 = b /\ b + 2 - 1 = b + 1
      BY <2>1
    <3> QED
      BY <2>11, <3>1
  <2> QED
    BY <1>1, <1>3, <2>1, <2>2, <2>4, <2>8, <2>10, <2>11, <2>12 DEF InsFree
<1> QED
  BY <1>2, <1>3

(* An object for inode inodeNum.                                            *)
Makes(h, o, b) ==
    /\ ins = NoFrame /\ Fits("dinode") /\ allocBlock("dinode") /\ b = NextBlock("dinode")
    /\ GetsChunk(b) /\ inodeNum' = inodeNum + 1
    /\ core' = [core EXCEPT ![h] = o]
    /\ o \in Obj12 /\ o.ino = inodeNum /\ o.blkno = b
    /\ h \in Handles /\ ~Loaded(h) /\ (h = "free" <=> inodeNum = 0) /\ (h = "root" <=> inodeNum = 1)
    /\ MapOf(inodeNum, DiOf(o)) = MapOf(inodeNum, DiOf(NoObject))
    /\ UNCHANGED <<mapped, phase, files, cur, dirh>>

LEMMA MakesIs ==
    ASSUME NEW inds, NEW thrown, NEW P, Active(inds, thrown, P), NEW h, NEW o, NEW b \in Nat, Makes(h, o, b),
           Taken("dinode", b)
    PROVE  /\ Sets(h, o) /\ Dwell /\ Mem' /\ OnDisk' /\ MapCore' = MapCore
           /\ \A i \in Nat : Latest(i)' = IF i = o.ino THEN DiOf(o) ELSE Latest(i)
<1>1. Mem /\ inodeNum \in Nat /\ "dinode" \in Managers
  BY StateIs
<1>2. /\ ins' \in Frames \union {NoFrame} /\ InsFree'
      /\ Len(Dinodes) \in Nat /\ inodeNum <= Len(Dinodes)
      /\ \A i \in 1..Len(Dinodes) : Dinodes'[i] = Dinodes[i]
      /\ Dinodes'[inodeNum + 1] = b
  BY DinodesGrow DEF Makes
<1>3. Dwell
  <2>1. 1..inodeNum \subseteq 1..Len(Dinodes)
    BY <1>1, <1>2
  <2> QED
    BY <1>2, <2>1 DEF Dwell
<1>4. \A i \in Nat : DisksStay(i)
  BY <1>1, TakesFile
<1>5. PICK n \in Nat : n = inodeNum
  BY <1>1
<1>6. Sets(h, o)
  <2>1. ASSUME NEW g \in Handles, core[g].ino = n PROVE FALSE
    <3>1. Loaded(g)
      BY <2>1 DEF Loaded
    <3>2. core[g].ino \in 0..n-1
      BY <1>1, <1>5, <3>1 DEF Mem
    <3> QED
      BY <2>1, <3>2
  <2>2. core[h].ino = -1 /\ h \in Handles
    BY DEF Makes, Loaded
  <2>3. inodeNum' = n + 1 /\ o.ino = n /\ n < n + 1 /\ o.blkno = Dinodes'[o.ino + 1] /\ o \in Obj12
    BY <1>2, <1>5 DEF Makes
  <2>4. (h = "free" <=> o.ino = 0) /\ (h = "root" <=> o.ino = 1) /\ core' = [core EXCEPT ![h] = o]
    BY DEF Makes
  <2> QED
    BY <1>5, <2>1, <2>2, <2>3, <2>4 DEF Sets
<1>7. Mem'
  <2>1. ins' # NoFrame => ins'.obj = h \/ (ins'.obj \in Handles /\ core[ins'.obj].ino # -1)
    <3>1. ASSUME ins' # NoFrame, h # "free" PROVE core["free"].ino # -1 /\ "free" \in Handles
      <4>1. inodeNum > 0
        BY <1>1, <3>1 DEF Makes
      <4> QED
        BY <1>1, <4>1 DEF Mem, Handles
    <3> QED
      BY <1>2, <3>1 DEF InsFree
  <2> QED
    BY <1>2, <1>3, <1>6, <2>1, MemOn
<1>8. OnDisk'
  BY <1>3, <1>4, <1>6, OnDiskOn
<1>9. MapCore' = MapCore
  <2>1. MapCore' = [MapCore EXCEPT ![n] = MapOf(n, DiOf(o))]
    <3>1. MapCore' = [MapCore EXCEPT ![o.ino] = MapOf(o.ino, DiOf(o))]
      BY <1>3, <1>4, <1>6, MapCoreOn
    <3> QED
      BY <1>5, <3>1 DEF Makes
  <2>2. MapOf(n, DiOf(o)) = MapOf(n, Latest(n))
    <3>1. Latest(n) = DiOf(NoObject)
      BY <1>1, <1>5, LatestNone
    <3> QED
      BY <1>5, <3>1 DEF Makes
  <2>3. PICK M : M = MapCore
    OBVIOUS
  <2>4. M = [i \in Inos |-> MapOf(i, Latest(i))]
    BY <2>3, InosAre DEF MapCore
  <2>5. DOMAIN M = Inos /\ (n \in Inos => M[n] = MapOf(n, DiOf(o))) /\ M = [i \in Inos |-> M[i]]
    BY <2>2, <2>4
  <2>6. [M EXCEPT ![n] = MapOf(n, DiOf(o))] = M
    BY <2>5
  <2> QED
    BY <2>1, <2>3, <2>6
<1>10. ASSUME NEW i \in Nat PROVE Latest(i)' = IF i = o.ino THEN DiOf(o) ELSE Latest(i)
  BY <1>3, <1>4, <1>6, LatestOn
<1> QED
  BY <1>3, <1>6, <1>7, <1>8, <1>9, <1>10

LEMMA MakesSeen ==
    ASSUME NEW inds, NEW thrown, NEW P, Active(inds, thrown, P), NEW h, NEW o, NEW b \in Nat, Makes(h, o, b),
           Taken("dinode", b), MapCore' = MapCore, Mem'
    PROVE  EM!BP!Alloc("dinode") /\ EM!TypeInv' /\ EM!RunInv(inds, thrown)'
<1>1. EM!Alive(inds, thrown) /\ phase' = phase /\ mapped' = mapped
  BY StateIs DEF Makes
<1>2. MapIns = EM!NoFrame
  BY DEF Makes, MapIns, EM!NoFrame, NoFrame
<1>3. b = EM!NextBlock("dinode") /\ EM!Fits("dinode") /\ EM!allocBlock("dinode")
      /\ (HasFree("dinode") <=> EM!HasFree("dinode"))
  BY SameAlloc DEF Makes
<1>4. CASE HasFree("dinode")
  <2>1. MapIns' = MapIns
    BY <1>4 DEF Makes, GetsChunk, MapIns
  <2>2. EM!GrowFree
    BY <1>2, <1>3, <1>4, <2>1 DEF EM!GrowFree, Makes
  <2> QED
    BY <1>1, <1>3, <1>4, <2>2, Given, BulksAssumption, IndExtAssumption, EM!FreePops
<1>5. CASE ~HasFree("dinode")
  <2>1. PICK k : k = Bulks["dinode"]
    OBVIOUS
  <2>2. PICK n : n = inodeNum
    OBVIOUS
  <2>3. PICK de : de = Extent(n, b, k)
    OBVIOUS
  <2>4. PICK f : f = ins'
    OBVIOUS
  <2>5. f = [at |-> "direct", obj |-> "free", de |-> de, ind_off |-> 0, new |-> 0] /\ f # NoFrame
    BY <1>5, <2>1, <2>2, <2>3, <2>4 DEF Makes, GetsChunk, Call, NoFrame
  <2>6. core'["free"].ino = 0
    <3>1. inodeNum' > 0
      BY StateIs DEF Makes
    <3> QED
      BY <3>1 DEF Mem
  <2>7. MapIns' = [f EXCEPT !.obj = 0]
    <3>1. MapIns' = [ins' EXCEPT !.obj = core'[ins'.obj].ino]
      BY <2>4, <2>5 DEF MapIns, NoFrame
    <3>2. core'[f.obj].ino = 0
      BY <2>5, <2>6
    <3> QED
      BY <2>4, <3>1, <3>2
  <2>8. [f EXCEPT !.obj = 0] = [at |-> "direct", obj |-> 0, de |-> de, ind_off |-> 0, new |-> 0]
    BY <2>5
  <2>9. EM!Call(EM!TARFS_FREE_INO, EM!Extent(inodeNum, EM!NextBlock("dinode"), Bulks["dinode"]))
    <3>1. EM!Extent(n, b, k) = de
      BY <2>3 DEF Extent, EM!Extent
    <3> QED
      BY <1>3, <2>1, <2>2, <2>7, <2>8, <3>1 DEF EM!Call, EM!TARFS_FREE_INO
  <2>10. EM!GrowFree
    BY <1>2, <1>3, <1>5, <2>9 DEF EM!GrowFree, Makes
  <2> QED
    BY <1>1, <1>3, <1>5, <2>10, Given, BulksAssumption, IndExtAssumption, EM!FreeRefills
<1> QED
  BY <1>4, <1>5

(* The inode is empty, or a file of the member that is being added.         *)
Empty(Q, o) ==
    IF o.di_mode = "dir" THEN o.di_size = 0 /\ o.di_blocks = 0
    ELSE IF o.di_size = 0 THEN o.di_blocks = 0 /\ o.di_nExtents = 0 /\ o.di_directExtent = <<>>
    ELSE \E j \in 1..cur : files[j].path = Q[inodeNum] /\ files[j].size > 0 /\ files[j].ftype # "dir"

LEMMA MakesGoes ==
    ASSUME NEW inds, NEW thrown, NEW P, Active(inds, thrown, P), NEW h, NEW o, NEW b \in Nat, Makes(h, o, b),
           NEW Q \in [Inos -> Seq(EntNames)], \A i \in 1..inodeNum-1 : Q[i] = P[i],
           inodeNum = 0 => b = orgblks /\ ~HasFree("dinode"),
           inodeNum > 0 => Empty(Q, o),
           inodeNum = 1 => o.di_mode = "dir" /\ Q[1] = <<>>,
           pc \notin {"dots", "newBlock"}, pc' \notin {"dots", "newBlock"}, PcOf(Q)'
    PROVE  Goes
<1>1. /\ Mem /\ inodeNum \in Nat /\ Prog(P) /\ NoInode /\ "dinode" \in Managers
      /\ EM!Alive(inds, thrown) /\ MaxBlks \in Nat /\ phase = "run"
  BY StateIs
<1>2. ins = NoFrame /\ inodeNum' = inodeNum + 1 /\ UNCHANGED <<mapped, phase, files, cur, dirh>>
      /\ core' = [core EXCEPT ![h] = o] /\ o.ino = inodeNum /\ h \in Handles
  BY DEF Makes
<1>3. EM!BP!Alloc("dinode") /\ Taken("dinode", b)
  <2>1. PICK a \in Nat : Taken("dinode", a)
    BY <1>1, TakenIs DEF Makes
  <2>2. a = b
    BY <2>1 DEF Taken, Makes
  <2>3. EM!BP!Alloc("dinode")
    BY <1>1, TakenIs DEF Makes
  <2> QED
    BY <2>1, <2>2, <2>3
<1>4. /\ FileStep({}) /\ AllFormed' /\ NoSuper' /\ UsedOnce'
  BY <1>1, <1>3, TakesFile, UsedOn
<1>5. /\ Mem' /\ OnDisk' /\ MapCore' = MapCore
      /\ \A i \in Nat : Latest(i)' = IF i = o.ino THEN DiOf(o) ELSE Latest(i)
  BY <1>3, MakesIs
<1>6. EM!TypeInv' /\ EM!RunInv(inds, thrown)'
  BY <1>3, <1>5, MakesSeen
<1>7. BPStep
  BY <1>1, <1>3 DEF BPStep, EM!BP!ClientNext
<1>8. PICK n \in Nat : n = inodeNum
  BY <1>1
<1>9. n > 0 => mapped[n] = <<>>
  <2>1. ASSUME n > 0 PROVE mapped[n] = <<>> \/ ~(n \in 1..MaxBlks)
    BY <1>1, <1>8, <2>1 DEF NoInode
  <2>2. n <= MaxBlks
    BY <1>8, InosFit
  <2> QED
    BY <1>1, <2>1, <2>2
<1>10. \A i \in 1..n : Extra(i)' = 0 /\ Extra(i) = 0
  BY DEF Extra, AtTarget
<1>11. Inodes(Q)'
  <2>1. ASSUME n > 0 PROVE InodeOf(Q, n)'
    <3>1. PICK e : e = DiOf(o)
      OBVIOUS
    <3>2. Latest(n)' = e
      BY <1>2, <1>5, <1>8, <3>1
    <3>3. /\ e.di_mode = o.di_mode /\ e.di_size = o.di_size /\ e.di_blocks = o.di_blocks
          /\ e.di_nExtents = o.di_nExtents /\ e.di_directExtent = o.di_directExtent
      BY <3>1, DiOfIs
    <3>4. Empty(Q, o)
      BY <1>8, <2>1
    <3>5. mapped'[n] = <<>> /\ Extra(n)' = 0
      BY <1>2, <1>9, <1>10, <2>1
    <3>6. CASE e.di_mode = "dir"
      <4>1. e.di_size = 0 /\ e.di_blocks = 0
        BY <3>3, <3>4, <3>6 DEF Empty
      <4>2. TAR_BLOCKSIZE * 0 = 0 /\ Len(<<>>) = 0 + 0
        BY DEF TAR_BLOCKSIZE
      <4> QED
        BY <3>2, <3>5, <3>6, <4>1, <4>2 DEF InodeOf
    <3>7. CASE e.di_mode # "dir"
      <4>1. IF e.di_size = 0 THEN e.di_blocks = 0 /\ e.di_nExtents = 0 /\ e.di_directExtent = <<>>
            ELSE \E j \in 1..cur' : files'[j].path = Q[n] /\ files'[j].size > 0 /\ files'[j].ftype # "dir"
        BY <1>2, <1>8, <3>3, <3>4, <3>7 DEF Empty
      <4> QED
        BY <3>2, <3>5, <3>7, <4>1 DEF InodeOf
    <3> QED
      BY <3>6, <3>7
  <2>2. ASSUME NEW i \in 1..inodeNum'-1, i # n PROVE i \in 1..inodeNum-1 /\ Q[i] = P[i] /\ Same(i)
    <3>1. i \in 1..n-1 /\ i \in Nat /\ i # o.ino /\ i \in 1..n
      BY <1>2, <1>8, <2>2
    <3>2. Latest(i)' = Latest(i)
      BY <1>5, <3>1
    <3>3. Extra(i)' = Extra(i)
      BY <1>10, <3>1
    <3>4. mapped'[i] = mapped[i] /\ Q[i] = P[i]
      BY <1>2, <1>8, <3>1
    <3> QED
      BY <1>8, <3>1, <3>2, <3>3, <3>4 DEF Same
  <2>3. ASSUME NEW i \in 1..inodeNum'-1 PROVE InodeOf(Q, i)' \/ (i \in 1..inodeNum-1 /\ Q[i] = P[i] /\ Same(i))
    <3>1. CASE i = n
      <4>1. n > 0
        BY <3>1
      <4>2. InodeOf(Q, n)' <=> InodeOf(Q, i)'
        BY <3>1
      <4> QED
        BY <2>1, <4>1, <4>2
    <3> QED
      BY <2>2, <3>1
  <2> QED
    BY <1>2, <2>3, InodesOn
<1>12. DirsOf(Q)'
  <2>1. ASSUME NEW i \in 1..inodeNum'-1, NEW a, InMap(i, a)'
        PROVE  i \in 1..inodeNum-1 /\ InMap(i, a) /\ ~Pending(a) /\ disk'[a] = disk[a]
    <3>1. InMap(i, a)
      BY <1>2, <2>1 DEF InMap
    <3>2. i # n
      BY <1>9, <3>1 DEF InMap
    <3>3. i \in 1..n-1
      BY <1>2, <1>8, <3>2
    <3>4. i \in 1..MaxBlks
      <4>1. n <= MaxBlks
        BY <1>8, InosFit
      <4> QED
        BY <1>1, <3>3, <4>1
    <3>5. a \in 0..blks-1
      BY <3>1, <3>4, MapsAre DEF InMap
    <3> QED
      BY <1>4, <1>8, <3>1, <3>3, <3>5 DEF Pending, FileStep
  <2>2. \A i \in 1..inodeNum'-1 : \A a : InMap(i, a)' =>
              \/ Pending(a)' \/ DirBlk(Q, i, a)'
              \/ i \in 1..inodeNum-1 /\ InMap(i, a) /\ ~Pending(a) /\ disk'[a] = disk[a]
    BY <2>1
  <2>3. inodeNum <= inodeNum'
    BY <1>1, <1>2
  <2> QED
    BY <1>5, <2>2, <2>3, DirsOn
<1>13. MappedOnce' /\ NoInode'
  <2>1. inodeNum' \in Nat /\ inodeNum <= inodeNum'
    BY <1>1, <1>2
  <2> QED
    BY <1>2, <2>1, MappedOn
<1>14. Prog(Q)'
  <2>1. First'
    <3>1. /\ Len(Dinodes) \in Nat /\ Len(Dinodes') \in Nat /\ Len(Dinodes) <= Len(Dinodes')
          /\ \A i \in 1..Len(Dinodes) : Dinodes'[i] = Dinodes[i]
          /\ Dinodes'[inodeNum + 1] = b
          /\ ~HasFree("dinode") => /\ Len(Dinodes') = inodeNum + Bulks["dinode"]
                                   /\ Dinodes'[inodeNum + 2] = b + 1
      BY DinodesGrow DEF Makes
    <3>2. orgblks' = orgblks
      BY <1>3 DEF Taken
    <3>3. CASE n = 0
      <4>1. b = orgblks /\ ~HasFree("dinode")
        BY <1>8, <3>3
      <4>2. PICK k \in Nat : k = Bulks["dinode"] /\ k >= 2
        BY <1>1, BulksAssumption
      <4>3. Len(Dinodes') = 0 + k /\ Dinodes'[0 + 1] = b /\ Dinodes'[0 + 2] = b + 1
        BY <1>8, <3>1, <3>3, <4>1, <4>2
      <4>4. Len(Dinodes') >= 2 /\ Dinodes'[1] = b /\ Dinodes'[2] = b + 1
        BY <4>2, <4>3
      <4> QED
        BY <3>2, <4>1, <4>4 DEF First
    <3>4. CASE n # 0
      <4>1. Len(Dinodes) >= 2 /\ Dinodes[1] = orgblks /\ Dinodes[2] = orgblks + 1
        BY <1>1, <1>8, <3>4 DEF Prog, First
      <4>2. 1 \in 1..Len(Dinodes) /\ 2 \in 1..Len(Dinodes) /\ Len(Dinodes') >= 2
        BY <3>1, <4>1
      <4> QED
        BY <3>1, <3>2, <4>1, <4>2 DEF First
    <3> QED
      BY <3>3, <3>4
  <2>2. inodeNum' > 1 => core'["root"].di_mode = "dir" /\ Q[1] = <<>>
    <3>1. core \in [Handles -> Obj12] /\ "root" \in Handles
      BY <1>1 DEF Mem, Handles
    <3>2. CASE n = 1
      <4>1. h = "root"
        BY <1>8, <3>2 DEF Makes
      <4> QED
        BY <1>2, <1>8, <3>1, <3>2, <4>1
    <3>3. CASE n > 1
      <4>1. h # "root"
        BY <1>8, <3>3 DEF Makes
      <4>2. core["root"].di_mode = "dir" /\ P[1] = <<>>
        BY <1>1, <1>8, <3>3 DEF Prog
      <4>3. 1 \in 1..inodeNum-1
        BY <1>8, <3>3
      <4> QED
        BY <1>2, <3>1, <4>1, <4>2, <4>3
    <3>4. n > 1 \/ n = 1 \/ n = 0
      OBVIOUS
    <3> QED
      BY <1>2, <1>8, <3>2, <3>3, <3>4
  <2> QED
    BY <1>1, <1>2, <2>1, <2>2 DEF Prog
<1> QED
  BY <1>1, <1>2, <1>4, <1>5, <1>6, <1>7, <1>11, <1>12, <1>13, <1>14, GoesOn

LEMMA NewIs ==
    ASSUME NEW i \in Int, NEW p \in Int, NEW b \in Int, NEW t \in Modes, NEW o, o = NewInode(i, p, b, t)
    PROVE  /\ o \in Obj12 /\ o.ino = i /\ o.pino = p /\ o.blkno = b /\ o.ftype = t /\ o.di_mode = t
           /\ o.di_size = 0 /\ o.di_blocks = 0 /\ o.di_nExtents = 0 /\ o.di_directExtent = <<>>
           /\ o.di_rootIndExt = 0
<1>1. PICK X : X = Seq(EM!Extents)
  OBVIOUS
<1>2. PICK M : M = Modes
  OBVIOUS
<1>3. <<>> \in X
  BY <1>1
<1>4. PICK n \in Int : n = TARBLK_NONE
  BY DEF TARBLK_NONE
<1>5. o = [ino |-> i, pino |-> p, blkno |-> b, ftype |-> t,
           di_mode |-> t, di_nlink |-> 1, di_size |-> 0, di_blocks |-> 0,
           di_header |-> n, di_nExtents |-> 0, di_directExtent |-> <<>>, di_rootIndExt |-> 0]
  BY <1>4 DEF NewInode
<1> DEFINE S == [ino : Int, pino : Int, blkno : Int, ftype : M,
       di_mode : M, di_nlink : Nat, di_size : Nat, di_blocks : Nat, di_header : Int,
       di_nExtents : Nat, di_directExtent : X, di_rootIndExt : Nat]
<1>6. Obj12 = S
  BY <1>1, <1>2, Zenon DEF Obj12
<1>7. o \in S
  BY <1>2, <1>3, <1>5
<1> HIDE DEF S
<1>8. o \in Obj12
  BY <1>6, <1>7
<1> QED
  BY <1>5, <1>8

LEMMA BlankIs ==
    ASSUME NEW i, NEW o, o.di_rootIndExt = 0,
           i = TARFS_FREE_INO \/ o.di_mode = "dir" => o.di_nExtents = 0 /\ o.di_directExtent = <<>>
    PROVE  MapOf(i, DiOf(o)) = MapOf(i, DiOf(NoObject))
<1>1. PICK d : d = DiOf(o)
  OBVIOUS
<1>2. PICK e : e = DiOf(NoObject)
  OBVIOUS
<1>3. e.di_nExtents = 0 /\ e.di_directExtent = <<>> /\ e.di_rootIndExt = 0
  BY <1>2 DEF DiOf, NoObject, NewInode
<1>4. d.di_mode = o.di_mode /\ d.di_nExtents = o.di_nExtents /\ d.di_directExtent = o.di_directExtent
      /\ d.di_rootIndExt = o.di_rootIndExt
  BY <1>1, DiOfIs
<1>5. MapOf(i, d) = MapOf(i, e)
  BY <1>3, <1>4 DEF MapOf
<1> QED
  BY <1>1, <1>2, <1>5

LEMMA InitFreeGoes ==
    ASSUME NEW inds, NEW thrown, NEW P, Active(inds, thrown, P), InitFree, Remember PROVE Goes
<1>1. /\ phase = "run" /\ ins = NoFrame /\ pc = "init" /\ pc' = "allocRoot" /\ Fits("dinode")
      /\ allocBlock("dinode") /\ inodeNum' = 1
      /\ core' = [core EXCEPT !["free"] =
                    NewInode(TARFS_FREE_INO, TARFS_FREE_INO, NextBlock("dinode"), "none")]
      /\ Call("free", Extent(0, NextBlock("dinode"), Bulks["dinode"]))
      /\ UNCHANGED <<files, cur, comp, dirh, phase>>
  BY DEF InitFree, At, Goto, addVars
<1>2. mapped' = mapped
  BY <1>1 DEF Remember
<1>3. Mem /\ Prog(P) /\ PcOf(P) /\ "dinode" \in Managers /\ P \in [Inos -> Seq(EntNames)]
  BY StateIs DEF Prog
<1>4. Booting /\ inodeNum = 0 /\ blks = orgblks /\ ~HasFree("dinode")
  BY <1>1, <1>3, PcIs
<1>5. PICK b \in Nat : b = NextBlock("dinode")
  <2>1. PICK a \in Nat : Taken("dinode", a)
    BY <1>1, <1>3, TakenIs
  <2> QED
    BY <2>1 DEF Taken
<1>6. b = orgblks
  BY <1>4, <1>5 DEF NextBlock, HasFree
<1>7. PICK o : o = NewInode(0, 0, b, "none")
  OBVIOUS
<1>8. /\ o \in Obj12 /\ o.ino = 0 /\ o.blkno = b /\ o.di_nExtents = 0 /\ o.di_directExtent = <<>>
      /\ o.di_rootIndExt = 0
  <2>1. b \in Int /\ 0 \in Int /\ "none" \in Modes
    BY DEF Modes
  <2> QED
    BY <1>7, <2>1, NewIs
<1>9. MapOf(0, DiOf(o)) = MapOf(0, DiOf(NoObject))
  BY <1>8, BlankIs
<1>10. "free" \in Handles /\ ~Loaded("free")
  BY <1>3, <1>4 DEF Mem, Handles, Loaded
<1>11. GetsChunk(b)
  BY <1>1, <1>4, <1>5 DEF GetsChunk
<1>12. core' = [core EXCEPT !["free"] = o]
  BY <1>1, <1>5, <1>7 DEF TARFS_FREE_INO
<1>13. Makes("free", o, b)
  <2>1. inodeNum' = inodeNum + 1 /\ o.ino = inodeNum
        /\ ("free" = "free" <=> inodeNum = 0) /\ ("free" = "root" <=> inodeNum = 1)
    BY <1>1, <1>4, <1>8
  <2>2. MapOf(inodeNum, DiOf(o)) = MapOf(inodeNum, DiOf(NoObject))
    BY <1>4, <1>9
  <2>3. ins = NoFrame /\ Fits("dinode") /\ allocBlock("dinode")
        /\ UNCHANGED <<mapped, phase, files, cur, dirh>>
    BY <1>1, <1>2
  <2> QED
    BY <1>5, <1>8, <1>10, <1>11, <1>12, <2>1, <2>2, <2>3 DEF Makes
<1>14. InsFree'
  BY <1>1, <1>2, <1>5, <1>11, DinodesGrow
<1>15. Booting'
  <2>1. core'["dir"] = core["dir"] /\ core'["next"] = core["next"]
    BY <1>3, <1>12 DEF Mem, Handles
  <2> QED
    BY <1>1, <1>4, <2>1 DEF Booting, Loaded
<1>16. PcOf(P)'
  BY <1>1, <1>14, <1>15 DEF PcOf
<1> QED
  BY <1>1, <1>3, <1>4, <1>6, <1>13, <1>16, MakesGoes

LEMMA AllocRootGoes ==
    ASSUME NEW inds, NEW thrown, NEW P, Active(inds, thrown, P), AllocRoot, Remember PROVE Goes
<1>0. PICK o : o = NewInode(inodeNum, TARFS_ROOT_INO, NextBlock("dinode"), "dir")
  OBVIOUS
<1>1. /\ phase = "run" /\ ins = NoFrame /\ pc = "allocRoot" /\ Fits("dinode")
      /\ allocBlock("dinode") /\ inodeNum' = inodeNum + 1
      /\ core' = [core EXCEPT !["root"] = o]
      /\ IF HasFree("dinode") THEN UNCHANGED ins
         ELSE Call("free", Extent(inodeNum, NextBlock("dinode"), Bulks["dinode"]))
      /\ pc' = IF isDir(o) THEN "dirInit" ELSE "addEntry"
      /\ UNCHANGED <<files, cur, comp, dirh, phase>>
  BY <1>0 DEF AllocRoot, allocInode, fresh, At, Goto, addVars
<1>2. mapped' = mapped
  BY <1>1 DEF Remember
<1>3. Mem /\ Prog(P) /\ PcOf(P) /\ "dinode" \in Managers /\ P \in [Inos -> Seq(EntNames)]
  BY StateIs DEF Prog
<1>4. Booting /\ inodeNum = 1
  BY <1>1, <1>3, PcIs
<1>5. PICK b \in Nat : b = NextBlock("dinode")
  <2>1. PICK a \in Nat : Taken("dinode", a)
    BY <1>1, <1>3, TakenIs
  <2> QED
    BY <2>1 DEF Taken
<1>6. /\ o \in Obj12 /\ o.ino = 1 /\ o.blkno = b /\ o.ftype = "dir" /\ o.di_mode = "dir"
      /\ o.di_size = 0 /\ o.di_blocks = 0 /\ o.di_nExtents = 0 /\ o.di_directExtent = <<>>
      /\ o.di_rootIndExt = 0
  <2>1. b \in Int /\ 1 \in Int /\ "dir" \in Modes
    BY DEF Modes
  <2>2. o = NewInode(1, 1, b, "dir")
    BY <1>0, <1>4, <1>5 DEF TARFS_ROOT_INO
  <2> QED
    BY <2>1, <2>2, NewIs
<1>7. MapOf(1, DiOf(o)) = MapOf(1, DiOf(NoObject))
  BY <1>6, BlankIs
<1>8. "root" \in Handles /\ ~Loaded("root")
  BY <1>3, <1>4 DEF Mem, Handles, Loaded
<1>9. GetsChunk(b)
  BY <1>1, <1>5 DEF GetsChunk
<1>10. Makes("root", o, b)
  BY <1>1, <1>2, <1>4, <1>5, <1>6, <1>7, <1>8, <1>9 DEF Makes
<1>11. PICK Q : Q = [P EXCEPT ![1] = <<>>]
  OBVIOUS
<1>12. Q \in [Inos -> Seq(EntNames)] /\ Q[1] = <<>>
  <2>1. <<>> \in Seq(EntNames) /\ 1 \in Inos
    BY Given DEF Inos
  <2> QED
    BY <1>3, <1>11, <2>1
<1>13. InsFree'
  BY <1>1, <1>2, <1>5, <1>9, DinodesGrow
<1>14. Booting' /\ New("root")'
  <2>1. core'["dir"] = core["dir"] /\ core'["next"] = core["next"] /\ core'["root"] = o
    BY <1>1, <1>3 DEF Mem, Handles
  <2> QED
    BY <1>1, <1>4, <1>6, <2>1 DEF Booting, Loaded, New
<1>15. pc' = "dirInit" /\ cur' = 0
  BY <1>1, <1>4, <1>6 DEF isDir, Booting
<1>16. PcOf(Q)'
  BY <1>1, <1>4, <1>13, <1>14, <1>15 DEF PcOf
<1>17. Empty(Q, o)
  BY <1>6 DEF Empty
<1>18. \A i \in 1..inodeNum-1 : Q[i] = P[i]
  BY <1>4
<1>19. inodeNum # 0 /\ pc \notin {"dots", "newBlock"} /\ pc' \notin {"dots", "newBlock"}
  BY <1>1, <1>4, <1>15
<1> QED
  BY <1>6, <1>10, <1>12, <1>16, <1>17, <1>18, <1>19, MakesGoes

(* What LookupMiss makes.                                                   *)
Made(o, b) ==
    /\ o \in Obj12 /\ o.ino = inodeNum /\ o.blkno = b /\ o.di_rootIndExt = 0
    /\ isDir(o) <=> o.di_mode = "dir"
    /\ o.di_mode = "dir" => /\ o.di_size = 0 /\ o.di_blocks = 0
                            /\ o.di_nExtents = 0 /\ o.di_directExtent = <<>>
    /\ o.di_mode # "dir" => /\ LastComp /\ File.ftype # "dir" /\ o.di_size = File.size
                            /\ o.di_size = 0 => /\ o.di_blocks = 0 /\ o.di_nExtents = 0
                                                /\ o.di_directExtent = <<>>

LEMMA MadeIs ==
    ASSUME NEW inds, NEW thrown, NEW P, Active(inds, thrown, P), Adding(P), NEW b \in Nat, NEW o,
           \/ o = NewInode(inodeNum, DirObj.ino, b, "dir")
           \/ LastComp /\ o = setFile(NewInode(inodeNum, DirObj.ino, b, File.ftype), File, HeaderBlk(files, cur))
    PROVE  Made(o, b)
<1>1. PICK n \in Int, p \in Int : n = inodeNum /\ p = DirObj.ino
  <2>1. DirObj \in Obj12 /\ inodeNum \in Nat
    BY AddingIs, StateIs
  <2> QED
    BY <2>1 DEF Obj12
<1>2. CASE o = NewInode(n, p, b, "dir")
  <2>1. "dir" \in Modes /\ b \in Int
    BY DEF Modes
  <2>2. /\ o \in Obj12 /\ o.ino = n /\ o.blkno = b /\ o.ftype = "dir" /\ o.di_mode = "dir"
        /\ o.di_size = 0 /\ o.di_blocks = 0 /\ o.di_nExtents = 0 /\ o.di_directExtent = <<>>
        /\ o.di_rootIndExt = 0
    BY <1>2, <2>1, NewIs
  <2> QED
    BY <1>1, <2>2 DEF Made, isDir
<1>3. CASE LastComp /\ o = setFile(NewInode(n, p, b, File.ftype), File, HeaderBlk(files, cur))
  <2>1. PICK t : t = File.ftype
    OBVIOUS
  <2>2. t \in Modes /\ b \in Int /\ File.ftype \in STRING /\ File.size \in Nat
    BY <2>1, AddingIs DEF Modes
  <2>3. PICK v : v = NewInode(n, p, b, t)
    OBVIOUS
  <2>4. /\ v \in Obj12 /\ v.ino = n /\ v.blkno = b /\ v.ftype = t
        /\ v.di_size = 0 /\ v.di_blocks = 0 /\ v.di_nExtents = 0 /\ v.di_directExtent = <<>>
        /\ v.di_rootIndExt = 0
    BY <2>2, <2>3, NewIs
  <2>5. PICK k \in Nat : k = HeaderBlk(files, cur)
    BY HeaderFits
  <2>6. o = setFile(v, File, k)
    BY <1>3, <2>1, <2>3, <2>5
  <2>7. FileSet(v, File, o)
    BY <2>2, <2>4, <2>6, SetFileIs
  <2>8. /\ o \in Obj12 /\ o.ino = n /\ o.blkno = b /\ o.ftype = t /\ o.di_mode = t /\ o.di_rootIndExt = 0
        /\ t = "dir" => o.di_size = 0 /\ o.di_blocks = 0 /\ o.di_nExtents = 0 /\ o.di_directExtent = <<>>
        /\ t # "dir" => /\ o.di_size = File.size
                        /\ File.size = 0 => o.di_blocks = 0 /\ o.di_nExtents = 0 /\ o.di_directExtent = <<>>
    BY <2>1, <2>4, <2>7 DEF FileSet
  <2> QED
    BY <1>1, <1>3, <2>1, <2>8 DEF Made, isDir
<1> QED
  BY <1>1, <1>2, <1>3

LEMMA LookupMissGoes ==
    ASSUME NEW inds, NEW thrown, NEW P, Active(inds, thrown, P), LookupMiss, Remember PROVE Goes
<1>1. /\ phase = "run" /\ ins = NoFrame /\ pc = "lookup"
      /\ UNCHANGED <<files, cur, comp, dirh, phase>>
  BY DEF LookupMiss, LooksUp, At, addVars
<1>2. Mem /\ Prog(P) /\ PcOf(P) /\ "dinode" \in Managers /\ P \in [Inos -> Seq(EntNames)] /\ inodeNum \in Nat
  BY StateIs DEF Prog
<1>3. Adding(P) /\ ~Loaded("next") /\ inodeNum > 1
  BY <1>1, <1>2, PcIs DEF Adding
<1>4. PICK o : /\ allocInode("next", o)
               /\ \/ o = NewInode(inodeNum, DirObj.ino, NextBlock("dinode"), "dir")
                  \/ LastComp /\ o = setFile(NewInode(inodeNum, DirObj.ino, NextBlock("dinode"), File.ftype),
                                             File, HeaderBlk(files, cur))
  BY DEF LookupMiss, fresh
<1>5. /\ Fits("dinode") /\ allocBlock("dinode") /\ inodeNum' = inodeNum + 1
      /\ core' = [core EXCEPT !["next"] = o]
      /\ IF HasFree("dinode") THEN UNCHANGED ins
         ELSE Call("free", Extent(inodeNum, NextBlock("dinode"), Bulks["dinode"]))
      /\ pc' = IF isDir(o) THEN "dirInit" ELSE "addEntry"
  BY <1>4 DEF allocInode, Goto
<1>6. PICK b \in Nat : b = NextBlock("dinode")
  <2>1. PICK a \in Nat : Taken("dinode", a)
    BY <1>1, <1>2, <1>5, TakenIs
  <2> QED
    BY <2>1 DEF Taken
<1>7. Made(o, b)
  <2>1. \/ o = NewInode(inodeNum, DirObj.ino, b, "dir")
        \/ LastComp /\ o = setFile(NewInode(inodeNum, DirObj.ino, b, File.ftype), File, HeaderBlk(files, cur))
    BY <1>4, <1>6
  <2> QED
    BY <1>3, <2>1, MadeIs
<1>8. mapped' = mapped /\ pc' \in {"dirInit", "addEntry"} /\ (pc' = "dirInit" <=> o.di_mode = "dir")
  <2>1. pc' \in {"dirInit", "addEntry"} /\ (pc' = "dirInit" <=> o.di_mode = "dir")
    BY <1>5, <1>7 DEF Made
  <2> QED
    BY <1>1, <2>1 DEF Remember
<1>9. MapOf(inodeNum, DiOf(o)) = MapOf(inodeNum, DiOf(NoObject))
  <2>1. inodeNum # TARFS_FREE_INO
    BY <1>3 DEF TARFS_FREE_INO
  <2> QED
    BY <1>7, <2>1, BlankIs DEF Made
<1>10. GetsChunk(b)
  BY <1>5, <1>6 DEF GetsChunk
<1>11. Makes("next", o, b)
  <2>1. "next" \in Handles /\ ("next" = "free" <=> inodeNum = 0) /\ ("next" = "root" <=> inodeNum = 1)
    BY <1>3 DEF Handles
  <2>2. o \in Obj12 /\ o.ino = inodeNum /\ o.blkno = b
    BY <1>7 DEF Made
  <2> QED
    BY <1>1, <1>3, <1>5, <1>6, <1>8, <1>9, <1>10, <2>1, <2>2 DEF Makes
<1>12. PICK n \in Nat : n = inodeNum
  BY <1>2
<1>13. PICK s : s = SubSeq(File.path, 1, comp)
  OBVIOUS
<1>14. PICK Q : Q = [P EXCEPT ![n] = s]
  OBVIOUS
<1>15. Q \in [Inos -> Seq(EntNames)] /\ Q[n] = s /\ \A i \in 1..n-1 : Q[i] = P[i]
  <2>1. s \in Seq(EntNames)
    BY <1>3, <1>13, AddingIs
  <2>2. n \in Inos
    BY <1>12, InosFit, StateIs DEF Inos
  <2>3. PICK N : N = Seq(EntNames)
    OBVIOUS
  <2>4. P \in [Inos -> N] /\ s \in N
    BY <1>2, <2>1, <2>3
  <2>5. Q \in [Inos -> N] /\ Q[n] = s
    BY <1>14, <2>2, <2>4
  <2>6. \A i \in 1..n-1 : Q[i] = P[i]
    BY <1>14
  <2> QED
    BY <2>3, <2>5, <2>6
<1>16. Empty(Q, o)
  <2>1. CASE o.di_mode = "dir"
    BY <1>7, <2>1 DEF Made, Empty
  <2>2. CASE o.di_mode # "dir"
    <3>1. /\ LastComp /\ File.ftype # "dir" /\ o.di_size = File.size
          /\ o.di_size = 0 => o.di_blocks = 0 /\ o.di_nExtents = 0 /\ o.di_directExtent = <<>>
      BY <1>7, <2>2 DEF Made
    <3>2. Q[n] = File.path /\ cur \in Nat /\ cur # 0 /\ File.size \in Nat
      <4>1. comp = Len(File.path) /\ File.path \in Seq(DOMAIN NameLen)
        BY <1>3, <3>1, AddingIs DEF LastComp
      <4>2. SubSeq(File.path, 1, comp) = File.path
        BY <4>1
      <4> QED
        BY <1>3, <1>13, <1>15, <4>2, AddingIs
    <3>3. o.di_size # 0 => files[cur].path = Q[n] /\ files[cur].size > 0 /\ files[cur].ftype # "dir"
      BY <3>1, <3>2 DEF File
    <3>4. cur \in 1..cur
      BY <3>2
    <3>5. o.di_size # 0 =>
            \E j \in 1..cur : files[j].path = Q[inodeNum] /\ files[j].size > 0 /\ files[j].ftype # "dir"
      BY <1>12, <3>3, <3>4
    <3> QED
      BY <2>2, <3>1, <3>5 DEF Empty
  <2> QED
    BY <2>1, <2>2
<1>17. InsFree'
  BY <1>1, <1>6, <1>8, <1>10, DinodesGrow
<1>18. /\ core'["next"] = o /\ core'["dir"] = core["dir"] /\ core'[dirh] = core[dirh]
       /\ dirh \in {"root", "dir"}
  <2>1. core \in [Handles -> Obj12] /\ dirh \in {"root", "dir"} /\ {"root", "dir", "next"} \subseteq Handles
    BY <1>2 DEF Mem, Prog, Handles
  <2> QED
    BY <1>5, <2>1
<1>19. PICK a \in Nat : a = DirObj.ino /\ a \in 1..n-1
  BY <1>3, <1>12, AddingIs
<1>20. Adding(Q)'
  <2>1. DirObj' = DirObj /\ File' = File
    BY <1>1, <1>18 DEF DirObj, File
  <2>2. (Loaded(dirh)' <=> Loaded(dirh)) /\ (Loaded("dir")' <=> Loaded("dir"))
    BY <1>1, <1>18 DEF Loaded
  <2>3. Q[DirObj.ino] = P[DirObj.ino]
    BY <1>15, <1>19
  <2>4. inodeNum' > 1
    BY <1>3, <1>5, <1>12
  <2> QED
    BY <1>1, <1>3, <2>1, <2>2, <2>3, <2>4 DEF Adding
<1>21. HasNext(Q)'
  <2>1. NextObj' = o /\ DirObj' = DirObj /\ File' = File /\ (LastComp' <=> LastComp)
    BY <1>1, <1>18 DEF DirObj, File, NextObj, LastComp
  <2>2. o.ino = n
    BY <1>7, <1>12 DEF Made
  <2>3. Loaded("next")' /\ DirObj.ino < n
    BY <1>18, <1>19, <2>2 DEF Loaded
  <2>4. ~LastComp => o.di_mode = "dir"
    BY <1>7 DEF Made
  <2>5. Q[n] = SubSeq(File'.path, 1, comp')
    BY <1>1, <1>13, <1>15, <2>1
  <2> QED
    BY <2>1, <2>2, <2>3, <2>4, <2>5 DEF HasNext
<1>22. pc' = "dirInit" => New("next")' /\ cur' # 0
  <2>1. cur # 0
    BY <1>3, AddingIs
  <2> QED
    BY <1>1, <1>7, <1>8, <1>18, <2>1 DEF New, Made
<1>23. PcOf(Q)'
  <2>1. CASE pc' = "dirInit"
    BY <1>17, <1>20, <1>21, <1>22, <2>1 DEF PcOf
  <2>2. CASE pc' = "addEntry"
    BY <1>17, <1>20, <1>21, <2>2 DEF PcOf
  <2> QED
    BY <1>8, <2>1, <2>2
<1>24. \A i \in 1..inodeNum-1 : Q[i] = P[i]
  BY <1>12, <1>15
<1>25. ~(inodeNum = 0) /\ ~(inodeNum = 1) /\ pc \notin {"dots", "newBlock"} /\ pc' \notin {"dots", "newBlock"}
  BY <1>1, <1>3, <1>8
<1> QED
  BY <1>11, <1>15, <1>16, <1>23, <1>24, <1>25, MakesGoes

(* A running insBlock works on the free inode or on a directory.            *)
LEMMA InsObjIs ==
    ASSUME NEW inds, NEW thrown, NEW P, Active(inds, thrown, P), ins # NoFrame
    PROVE  LET h == ins.obj
               i == core[h].ino
           IN  /\ h \in Handles /\ Loaded(h) /\ core[h] \in Obj12 /\ i \in 0..inodeNum-1 /\ i \in Inos
               /\ Latest(i) = DiOf(core[h]) /\ HasMap(i, core[h])
               /\ h = "free" <=> i = 0
               /\ ins \in Frames
               /\ h = "free" => pc \in {"allocRoot", "dirInit", "addEntry"}
               /\ h # "free" => /\ pc \in {"dots", "newBlock"} /\ core[h].di_mode = "dir" /\ i \in 1..MaxBlks
                                /\ h = (IF pc = "dots" THEN newh ELSE dirh) /\ Target(h) /\ ins.de.de_blkno = dirblk
<1>1. Mem /\ Prog(P) /\ inodeNum \in Nat /\ Inos = 0..MaxBlks /\ MaxBlks \in Nat
  BY StateIs
<1>2. inodeNum <= MaxBlks
  BY InosFit
<1>3. PICK h : h = ins.obj
  OBVIOUS
<1>4. ins \in Frames /\ h \in Handles /\ Loaded(h)
  BY <1>1, <1>3 DEF Mem, Frames
<1>5. Latest(core[h].ino) = DiOf(core[h]) /\ core[h] \in Obj12 /\ core[h].ino \in 0..inodeNum-1
  BY <1>1, <1>4, LatestMem
<1>6. PcOf(P)
  BY <1>1 DEF Prog
<1>7. /\ h = "free" => pc \in {"allocRoot", "dirInit", "addEntry"}
      /\ h # "free" => /\ pc \in {"dots", "newBlock"}
                       /\ h = (IF pc = "dots" THEN newh ELSE dirh) /\ Target(h) /\ ins.de.de_blkno = dirblk
                       /\ core[h].di_mode = "dir"
  <2>1. CASE pc \in {"allocRoot", "dirInit", "addEntry"}
    <3>1. InsFree
      BY <1>6, <2>1, PcIs
    <3> QED
      BY <1>3, <2>1, <3>1 DEF InsFree
  <2>2. CASE pc = "dots" /\ cur = 0
    <3>1. New("root") /\ Target("root") /\ InsFor("root")
      BY <1>6, <2>2, PcIs
    <3> QED
      BY <1>3, <2>2, <3>1 DEF InsFor, newh, New
  <2>3. CASE pc = "dots" /\ cur # 0
    <3>1. New("next") /\ Target("next") /\ InsFor("next")
      BY <1>6, <2>3, PcIs
    <3> QED
      BY <1>3, <2>3, <3>1 DEF InsFor, newh, New
  <2>4. CASE pc = "newBlock"
    <3>1. Target(dirh) /\ InsFor(dirh) /\ Adding(P)
      BY <1>6, <2>4, PcIs
    <3>2. dirh # "free" /\ DirObj.di_mode = "dir"
      BY <1>1, <3>1 DEF Prog, Adding
    <3> QED
      BY <1>3, <2>4, <3>1, <3>2 DEF InsFor, DirObj
  <2>5. CASE pc \in {"init", "get", "lookup", "sync", "syncDir", "syncRoot", "syncFree", "super"}
    BY <1>6, <2>5, PcIs DEF Quiet
  <2> QED
    BY <1>6, <2>1, <2>2, <2>3, <2>4, <2>5 DEF PcOf
<1>8. h = "free" <=> core[h].ino = 0
  BY <1>1, <1>3, FrameSeen
<1>9. HasMap(core[h].ino, core[h])
  BY <1>7, <1>8 DEF HasMap, TARFS_FREE_INO
<1>10. PICK i \in 0..inodeNum-1 : i = core[h].ino
  BY <1>5
<1>11. i \in Inos /\ (h # "free" => i \in 1..MaxBlks)
  BY <1>1, <1>2, <1>8, <1>10
<1> QED
  BY <1>3, <1>4, <1>5, <1>7, <1>8, <1>9, <1>10, <1>11

(* What a step of insBlock does to the object, to the frame and to the file.*)
InsTo(f) == f \in Frames \union {NoFrame} /\ (f # NoFrame => f.obj = ins.obj /\ f.de = ins.de)
Grows(o, x) ==
    /\ x \in Obj12 /\ x.ino = o.ino /\ x.blkno = o.blkno
    /\ x.di_mode = o.di_mode /\ x.di_size = o.di_size /\ x.di_blocks = o.di_blocks
InsDid(x, W) ==
    /\ core' = [core EXCEPT ![ins.obj] = x] /\ Grows(core[ins.obj], x)
    /\ InsTo(ins')
    /\ FileStep(W) /\ W \subseteq used["iex"] /\ \A b \in W : disk'[b].kind = "iex"
    /\ orgblks' = orgblks
    /\ used' = used \/ \E b : Taken("iex", b)

(* The blocks it writes are nobody's dinodes.                               *)
LEMMA StayIex ==
    ASSUME NEW inds, NEW thrown, NEW P, Active(inds, thrown, P), NEW W, FileStep(W), W \subseteq used["iex"]
    PROVE  \A i \in Nat : DisksStay(i)
<1>1. UsedOnce /\ {"dir", "iex", "dinode"} \subseteq Managers /\ inodeNum \in Nat
  BY StateIs
<1>2. ASSUME NEW i \in Nat, i < inodeNum PROVE disk'[Dinodes[i + 1]] = disk[Dinodes[i + 1]]
  <2>1. i + 1 \in 1..inodeNum
    BY <1>1, <1>2
  <2>2. Dinodes[i + 1] \in used["dinode"] /\ Dinodes[i + 1] \in 0..blks-1
    BY <2>1, MapsAre
  <2>3. "iex" # "dinode" /\ used["iex"] \intersect used["dinode"] = {}
    BY <1>1 DEF UsedOnce
  <2>4. Dinodes[i + 1] \notin W
    BY <2>2, <2>3
  <2> QED
    BY <2>2, <2>4 DEF FileStep
<1> QED
  BY <1>2 DEF DisksStay

(* What the history notes when insBlock returns.                            *)
Noted == mapped' = IF ins' = NoFrame THEN [mapped EXCEPT ![core[ins.obj].ino] = @ \o Grown(ins.de)] ELSE mapped

LEMMA NotedIs ==
    ASSUME NEW inds, NEW thrown, NEW P, Active(inds, thrown, P), ins # NoFrame, pc' = pc, Remember
    PROVE  Noted
<1>1. ~(pc = "lookup" /\ pc' = "sync")
  OBVIOUS
<1> QED
  BY <1>1 DEF Remember, Noted

LEMMA InsSets ==
    ASSUME NEW inds, NEW thrown, NEW P, Active(inds, thrown, P), ins # NoFrame, inodeNum' = inodeNum, Noted,
           NEW x, NEW W, InsDid(x, W)
    PROVE  LET i == core[ins.obj].ino
           IN  /\ Dinodes' = Dinodes /\ Sets(ins.obj, x) /\ x.ino = i /\ Mem' /\ OnDisk'
               /\ MapCore' = [MapCore EXCEPT ![i] = MapOf(i, DiOf(x))]
               /\ \A j \in Nat : Latest(j)' = IF j = i THEN DiOf(x) ELSE Latest(j)
               /\ core'[ins.obj].ino = i
<1>1. Mem /\ inodeNum \in Nat /\ mapped \in [Inos -> Seq(Nat)] /\ TARFS_FREE_INO \in Inos
  BY StateIs DEF TARFS_FREE_INO
<1>2. PICK h : h = ins.obj
  OBVIOUS
<1>3. PICK o : o = core[h]
  OBVIOUS
<1>4. PICK i : i = o.ino
  OBVIOUS
<1>5. /\ h \in Handles /\ Loaded(h) /\ o \in Obj12 /\ i \in 0..inodeNum-1 /\ i \in Inos
      /\ h = "free" <=> i = 0
  BY <1>2, <1>3, <1>4, InsObjIs
<1>6. x \in Obj12 /\ x.ino = i /\ x.blkno = o.blkno /\ core' = [core EXCEPT ![h] = x] /\ InsTo(ins')
  BY <1>2, <1>3, <1>4 DEF InsDid, Grows
<1>7. Dinodes' = Dinodes
  <2>1. CASE ins' = NoFrame /\ h = "free"
    <3>1. mapped'[TARFS_FREE_INO] = mapped[TARFS_FREE_INO] \o Grown(ins.de)
      BY <1>1, <1>2, <1>3, <1>4, <1>5, <2>1 DEF Noted, TARFS_FREE_INO
    <3> QED
      BY <1>2, <2>1, <3>1 DEF Dinodes
  <2>2. CASE ins' = NoFrame /\ h # "free"
    <3>1. i # TARFS_FREE_INO
      BY <1>5, <2>2 DEF TARFS_FREE_INO
    <3>2. mapped'[TARFS_FREE_INO] = mapped[TARFS_FREE_INO]
      BY <1>1, <1>2, <1>3, <1>4, <2>2, <3>1 DEF Noted
    <3> QED
      BY <1>2, <2>2, <3>2 DEF Dinodes
  <2>3. CASE ins' # NoFrame
    <3>1. mapped' = mapped /\ ins'.obj = h /\ ins'.de = ins.de
      BY <1>2, <1>6, <2>3 DEF Noted, InsTo
    <3>2. Grown(ins.de)' = Grown(ins.de)
      BY <3>1 DEF Grown
    <3> QED
      BY <1>2, <2>3, <3>1, <3>2 DEF Dinodes, TARFS_FREE_INO
  <2> QED
    BY <2>1, <2>2, <2>3
<1>8. Dwell
  BY <1>7 DEF Dwell
<1>9. Sets(h, x)
  <2>1. o.ino # -1 /\ i \in Nat
    BY <1>1, <1>3, <1>5 DEF Loaded
  <2>2. \A g \in Handles : g # h => core[g].ino # i
    BY <1>1, <1>3, <1>4, <1>5 DEF Mem
  <2>3. x.blkno = Dinodes'[i + 1]
    BY <1>1, <1>3, <1>4, <1>5, <1>6, <1>7 DEF Mem
  <2>4. h = "root" <=> i = 1
    <3>1. inodeNum > 1 => core["root"].ino = 1
      BY <1>1 DEF Mem
    <3>2. h = "root" => core["root"].ino # -1
      BY <1>5 DEF Loaded
    <3>3. h = "root" => i = 1
      BY <1>1, <1>3, <1>4, <3>1, <3>2 DEF Mem
    <3>4. i = 1 => inodeNum > 1
      BY <1>1, <1>5
    <3>5. i = 1 => h = "root"
      BY <1>5, <2>2, <3>1, <3>4 DEF Handles
    <3> QED
      BY <3>3, <3>5
  <2>5. i < inodeNum
    BY <1>1, <1>5
  <2> QED
    BY <1>3, <1>4, <1>5, <1>6, <2>1, <2>2, <2>3, <2>4, <2>5 DEF Sets
<1>10. \A j \in Nat : DisksStay(j)
  BY StayIex DEF InsDid
<1>11. Mem'
  <2>1. ins' \in Frames \union {NoFrame} /\ (ins' # NoFrame => ins'.obj = h)
    BY <1>2, <1>6 DEF InsTo
  <2> QED
    BY <1>8, <1>9, <2>1, MemOn
<1>12. OnDisk' /\ MapCore' = [MapCore EXCEPT ![i] = MapOf(i, DiOf(x))]
  BY <1>6, <1>8, <1>9, <1>10, OnDiskOn, MapCoreOn
<1>13. \A j \in Nat : Latest(j)' = IF j = i THEN DiOf(x) ELSE Latest(j)
  BY <1>6, <1>8, <1>9, <1>10, LatestOn
<1>14. core'[h].ino = i
  BY <1>1, <1>5, <1>6 DEF Mem
<1> QED
  BY <1>2, <1>3, <1>4, <1>6, <1>7, <1>9, <1>11, <1>12, <1>13, <1>14

(* The map of an object grows.                                              *)
GrowsTo(o, x, e, n, r) ==
    Grows(o, x) /\ x.di_directExtent = e /\ x.di_nExtents = n /\ x.di_rootIndExt = r

LEMMA GrowsIs ==
    ASSUME NEW o \in Obj12, NEW e \in Seq(EM!Extents), NEW n \in Nat, NEW r \in Nat
    PROVE  /\ GrowsTo(o, o, o.di_directExtent, o.di_nExtents, o.di_rootIndExt)
           /\ GrowsTo(o, [o EXCEPT !.di_directExtent = e], e, o.di_nExtents, o.di_rootIndExt)
           /\ GrowsTo(o, [o EXCEPT !.di_directExtent = e, !.di_nExtents = n], e, n, o.di_rootIndExt)
           /\ GrowsTo(o, [o EXCEPT !.di_rootIndExt = r], o.di_directExtent, o.di_nExtents, r)
           /\ GrowsTo(o, [o EXCEPT !.di_nExtents = n], o.di_directExtent, n, o.di_rootIndExt)
<1>1. PICK X : X = Seq(EM!Extents)
  OBVIOUS
<1>2. PICK M : M = Modes
  OBVIOUS
<1> DEFINE S == [ino : Int, pino : Int, blkno : Int, ftype : M,
       di_mode : M, di_nlink : Nat, di_size : Nat, di_blocks : Nat, di_header : Int,
       di_nExtents : Nat, di_directExtent : X, di_rootIndExt : Nat]
           G(x, e2, n2, r2) ==
              /\ x \in S /\ x.ino = o.ino /\ x.blkno = o.blkno
              /\ x.di_mode = o.di_mode /\ x.di_size = o.di_size /\ x.di_blocks = o.di_blocks
              /\ x.di_directExtent = e2 /\ x.di_nExtents = n2 /\ x.di_rootIndExt = r2
<1>3. Obj12 = S
  BY <1>1, <1>2, Zenon DEF Obj12
<1>4. o \in S /\ e \in X
  BY <1>1, <1>3
<1>5. G(o, o.di_directExtent, o.di_nExtents, o.di_rootIndExt)
  BY <1>4
<1>6. G([o EXCEPT !.di_directExtent = e], e, o.di_nExtents, o.di_rootIndExt)
  BY <1>4
<1>7. G([o EXCEPT !.di_directExtent = e, !.di_nExtents = n], e, n, o.di_rootIndExt)
  BY <1>4
<1>8. G([o EXCEPT !.di_rootIndExt = r], o.di_directExtent, o.di_nExtents, r)
  BY <1>4
<1>9. G([o EXCEPT !.di_nExtents = n], o.di_directExtent, n, o.di_rootIndExt)
  BY <1>4
<1> HIDE DEF S
<1>10. ASSUME NEW x, NEW e2, NEW n2, NEW r2, G(x, e2, n2, r2) PROVE GrowsTo(o, x, e2, n2, r2)
  BY <1>3, <1>10 DEF GrowsTo, Grows
<1> HIDE DEF G
<1> QED
  BY <1>5, <1>6, <1>7, <1>8, <1>9, <1>10

ViewOf(n, e, r) == [di_nExtents |-> n, di_directExtent |-> e, di_rootIndExt |-> r]

ViewPuts(M, i, n0, e0, r0, n, e, r) ==
    /\ [M EXCEPT ![i] = ViewOf(n0, e0, r0)] = M
    /\ [M EXCEPT ![i] = ViewOf(n0, e, r0)] = [M EXCEPT ![i].di_directExtent = e]
    /\ [M EXCEPT ![i] = ViewOf(n, e, r0)] = [M EXCEPT ![i].di_directExtent = e, ![i].di_nExtents = n]
    /\ [M EXCEPT ![i] = ViewOf(n0, e0, r)] = [M EXCEPT ![i].di_rootIndExt = r]
    /\ [M EXCEPT ![i] = ViewOf(n, e0, r0)] = [M EXCEPT ![i].di_nExtents = n]

LEMMA ViewPut ==
    ASSUME NEW D, NEW M, M = [j \in D |-> M[j]], NEW i \in D,
           NEW n0, NEW e0, NEW r0, M[i] = ViewOf(n0, e0, r0), NEW n, NEW e, NEW r
    PROVE  ViewPuts(M, i, n0, e0, r0, n, e, r)
<1>1. DOMAIN M = D
  OBVIOUS
<1>2. [M EXCEPT ![i] = ViewOf(n0, e0, r0)] = M
  <2>1. [M EXCEPT ![i] = ViewOf(n0, e0, r0)] = [j \in D |-> IF j = i THEN ViewOf(n0, e0, r0) ELSE M[j]]
    BY <1>1
  <2>2. \A j \in D : M[j] = IF j = i THEN ViewOf(n0, e0, r0) ELSE M[j]
    OBVIOUS
  <2> QED
    BY <2>1, <2>2
<1>3. ViewOf(n0, e, r0) = [ViewOf(n0, e0, r0) EXCEPT !.di_directExtent = e]
  BY DEF ViewOf
<1>4. [M EXCEPT ![i].di_directExtent = e] = [M EXCEPT ![i] = ViewOf(n0, e, r0)]
  BY <1>3
<1>5. PICK N : N = [M EXCEPT ![i].di_directExtent = e]
  OBVIOUS
<1>6. N = [j \in D |-> IF j = i THEN ViewOf(n0, e, r0) ELSE M[j]]
  BY <1>1, <1>4, <1>5
<1>7. [ViewOf(n0, e, r0) EXCEPT !.di_nExtents = n] = ViewOf(n, e, r0)
  BY DEF ViewOf
<1>8. [N EXCEPT ![i].di_nExtents = n] = [j \in D |-> IF j = i THEN ViewOf(n, e, r0) ELSE M[j]]
  BY <1>6, <1>7
<1>9. [M EXCEPT ![i] = ViewOf(n, e, r0)] = [j \in D |-> IF j = i THEN ViewOf(n, e, r0) ELSE M[j]]
  BY <1>1
<1>10. ViewOf(n0, e0, r) = [ViewOf(n0, e0, r0) EXCEPT !.di_rootIndExt = r]
  BY DEF ViewOf
<1>11. [M EXCEPT ![i].di_rootIndExt = r] = [M EXCEPT ![i] = ViewOf(n0, e0, r)]
  BY <1>10
<1>12. ViewOf(n, e0, r0) = [ViewOf(n0, e0, r0) EXCEPT !.di_nExtents = n]
  BY DEF ViewOf
<1>13. [M EXCEPT ![i].di_nExtents = n] = [M EXCEPT ![i] = ViewOf(n, e0, r0)]
  BY <1>12
<1>14. [M EXCEPT ![i] = ViewOf(n, e, r0)] = [M EXCEPT ![i].di_directExtent = e, ![i].di_nExtents = n]
  BY <1>5, <1>8, <1>9
<1> QED
  BY <1>2, <1>4, <1>11, <1>13, <1>14 DEF ViewPuts

(* The frame and the object as the maps have them.                          *)
FrameAt(a, h, de, p, q) == [at |-> a, obj |-> h, de |-> de, ind_off |-> p, new |-> q]

LEMMA InsSeen ==
    ASSUME NEW inds, NEW thrown, NEW P, Active(inds, thrown, P), ins # NoFrame
    PROVE  LET h == ins.obj
               i == core[h].ino
           IN  /\ MapIns # EM!NoFrame
               /\ MapIns = FrameAt(ins.at, i, ins.de, ins.ind_off, ins.new)
               /\ ins = FrameAt(ins.at, h, ins.de, ins.ind_off, ins.new)
               /\ EM!Obj = ViewOf(core[h].di_nExtents, core[h].di_directExtent, core[h].di_rootIndExt)
               /\ EM!Obj = MapCore[i]
<1>1. PICK f : f = ins
  OBVIOUS
<1>2. PICK h : h = f.obj
  OBVIOUS
<1>3. PICK i : i = core[h].ino
  OBVIOUS
<1>4. f \in Frames /\ f # NoFrame /\ h \in Handles /\ Mem /\ i \in Inos /\ HasMap(i, core[h]) /\ Latest(i) = DiOf(core[h])
  BY <1>1, <1>2, <1>3, InsObjIs, StateIs
<1>5. MapIns # EM!NoFrame
  BY <1>1, <1>4, FrameSeen
<1>6. MapIns = [f EXCEPT !.obj = i]
  BY <1>1, <1>2, <1>3, <1>4 DEF MapIns
<1>7. f = FrameAt(f.at, h, f.de, f.ind_off, f.new)
  BY <1>2, <1>4 DEF Frames, FrameAt
<1>8. [f EXCEPT !.obj = i] = FrameAt(f.at, i, f.de, f.ind_off, f.new)
  BY <1>7 DEF FrameAt
<1>9. EM!Obj = MapCore[i]
  <2>1. MapIns.obj = i
    BY <1>6, <1>8 DEF FrameAt
  <2> QED
    BY <2>1 DEF EM!Obj
<1>10. MapCore[i] = MapOf(i, DiOf(core[h]))
  BY <1>4, InosAre DEF MapCore
<1>11. MapOf(i, DiOf(core[h])) = ViewOf(core[h].di_nExtents, core[h].di_directExtent, core[h].di_rootIndExt)
  <2>1. PICK o : o = core[h]
    OBVIOUS
  <2>2. PICK e : e = DiOf(o)
    OBVIOUS
  <2>3. /\ e.di_mode = o.di_mode /\ e.di_nExtents = o.di_nExtents
        /\ e.di_directExtent = o.di_directExtent /\ e.di_rootIndExt = o.di_rootIndExt
    BY <2>2, DiOfIs
  <2>4. i = TARFS_FREE_INO \/ e.di_mode = "dir"
    BY <1>4, <2>1, <2>3 DEF HasMap
  <2> QED
    BY <2>1, <2>2, <2>3, <2>4 DEF MapOf, ViewOf
<1> QED
  BY <1>1, <1>2, <1>3, <1>5, <1>6, <1>7, <1>8, <1>9, <1>10, <1>11

(* The same after the step.                                                 *)
LEMMA InsSeenOn ==
    ASSUME NEW inds, NEW thrown, NEW P, Active(inds, thrown, P), ins # NoFrame, inodeNum' = inodeNum, Noted,
           NEW x, NEW W, InsDid(x, W)
    PROVE  LET h == ins.obj
               i == core[h].ino
           IN  /\ ins' = NoFrame => MapIns' = EM!NoFrame
               /\ \A a, p, q : ins' = FrameAt(a, h, ins.de, p, q) => MapIns' = FrameAt(a, i, ins.de, p, q)
               /\ MapCore' = [MapCore EXCEPT ![i] = ViewOf(x.di_nExtents, x.di_directExtent, x.di_rootIndExt)]
<1>1. PICK h, i, de, o : h = ins.obj /\ i = core[h].ino /\ de = ins.de /\ o = core[h]
  OBVIOUS
<1>2. core'[h].ino = i /\ MapCore' = [MapCore EXCEPT ![i] = MapOf(i, DiOf(x))]
  BY <1>1, InsSets
<1>3. HasMap(i, o) /\ x.di_mode = o.di_mode
  BY <1>1, InsObjIs DEF InsDid, Grows
<1>4. ins' = NoFrame => MapIns' = EM!NoFrame
  BY DEF MapIns, NoFrame, EM!NoFrame
<1>5. ASSUME NEW a, NEW p, NEW q, ins' = FrameAt(a, h, de, p, q) PROVE MapIns' = FrameAt(a, i, de, p, q)
  <2>1. PICK f : f = ins'
    OBVIOUS
  <2>2. f.obj = h /\ [f EXCEPT !.obj = i] = FrameAt(a, i, de, p, q) /\ f # NoFrame
    <3>1. NoFrame # f
      <4>1. DOMAIN NoFrame = {"at"} /\ "obj" \in DOMAIN f
        BY <1>5, <2>1 DEF NoFrame, FrameAt
      <4> QED
        BY <4>1
    <3> QED
      BY <1>5, <2>1, <3>1 DEF FrameAt
  <2>3. MapIns' = [ins' EXCEPT !.obj = core'[ins'.obj].ino]
    BY <2>1, <2>2 DEF MapIns, NoFrame
  <2>4. core'[ins'.obj].ino = i
    BY <1>2, <2>1, <2>2
  <2> QED
    BY <2>1, <2>2, <2>3, <2>4
<1>6. MapOf(i, DiOf(x)) = ViewOf(x.di_nExtents, x.di_directExtent, x.di_rootIndExt)
  <2>1. PICK e : e = DiOf(x)
    OBVIOUS
  <2>2. /\ e.di_mode = x.di_mode /\ e.di_nExtents = x.di_nExtents
        /\ e.di_directExtent = x.di_directExtent /\ e.di_rootIndExt = x.di_rootIndExt
    BY <2>1, DiOfIs
  <2>3. i = TARFS_FREE_INO \/ e.di_mode = "dir"
    BY <1>3, <2>2 DEF HasMap
  <2> QED
    BY <2>1, <2>2, <2>3 DEF MapOf, ViewOf
<1> QED
  BY <1>1, <1>2, <1>4, <1>5, <1>6

(* What is written alike on both sides.                                     *)
LEMMA InsSame ==
    /\ \A exts, de : (Merges(exts, de) <=> EM!Merges(exts, de)) /\ Merge(exts, de) = EM!Merge(exts, de)
    /\ \A c, b : writeIex(c, b) <=> EM!writeIex(c, b)
    /\ \A exts, next : IndExt(exts, next) = EM!IndExt(exts, next)
    /\ TARBLK_NONE = EM!TARBLK_NONE /\ (UNCHANGED spaceVars <=> UNCHANGED EM!spaceVars)
<1>1. \A exts, de : Merges(exts, de) <=> EM!Merges(exts, de)
  BY DEF Merges, EM!Merges, Follows, EM!Follows
<1>2. \A exts, de : Merge(exts, de) = EM!Merge(exts, de)
  BY Zenon DEF Merge, EM!Merge, Follows, EM!Follows
<1>3. \A c, b : writeIex(c, b) <=> EM!writeIex(c, b)
  BY Zenon DEF writeIex, EM!writeIex, writeBlock, EM!writeBlock
<1>4. \A exts, next : IndExt(exts, next) = EM!IndExt(exts, next)
  BY Zenon DEF IndExt, EM!IndExt
<1>5. TARBLK_NONE = EM!TARBLK_NONE /\ (UNCHANGED spaceVars <=> UNCHANGED EM!spaceVars)
  BY DEF TARBLK_NONE, EM!TARBLK_NONE, spaceVars, EM!spaceVars
<1> QED
  BY <1>1, <1>2, <1>3, <1>4, <1>5

Did == \E x, W : InsDid(x, W)

(* The file, if nothing or one indirect block is written.                   *)
LEMMA InsStill ==
    ASSUME NEW inds, NEW thrown, NEW P, Active(inds, thrown, P), UNCHANGED spaceVars, InsTo(ins'),
           NEW x, core' = [core EXCEPT ![ins.obj] = x], Grows(core[ins.obj], x)
    PROVE  InsDid(x, {})
<1>1. blks \in Nat /\ DOMAIN disk = 0..blks-1
  BY StateIs
<1>2. FileStep({})
  BY <1>1 DEF FileStep, spaceVars
<1> QED
  BY <1>2 DEF InsDid, spaceVars

LEMMA InsTakes ==
    ASSUME NEW inds, NEW thrown, NEW P, Active(inds, thrown, P), NEW b, Taken("iex", b), InsTo(ins'),
           NEW x, core' = [core EXCEPT ![ins.obj] = x], Grows(core[ins.obj], x)
    PROVE  InsDid(x, {})
<1>1. {"dir", "iex", "dinode"} \subseteq Managers
  BY StateIs
<1>2. FileStep({})
  BY <1>1, TakesFile
<1>3. orgblks' = orgblks
  BY DEF Taken
<1> QED
  BY <1>2, <1>3 DEF InsDid

LEMMA InsWrites ==
    ASSUME NEW inds, NEW thrown, NEW P, Active(inds, thrown, P), phase' = phase,
           UNCHANGED <<orgblks, head, used, calls>>, InsTo(ins'),
           NEW b \in used["iex"], NEW c, c.kind = "iex", writeIex(c, b),
           NEW x, core' = [core EXCEPT ![ins.obj] = x], Grows(core[ins.obj], x)
    PROVE  InsDid(x, {b})
<1>1. EM!BP!IInv /\ phase = "run" /\ blks \in Nat /\ DOMAIN disk = 0..blks-1
  BY StateIs DEF Active
<1>2. blks' = blks /\ b \in 0..blks-1 /\ disk' = [disk EXCEPT ![b] = c]
  BY <1>1, InsSame, Given, BulksAssumption, IndExtAssumption, EM!IexSeen
<1>3. FileStep({b}) /\ disk'[b] = c
  BY <1>1, <1>2 DEF FileStep
<1> QED
  BY <1>3 DEF InsDid

LEMMA CoreSame ==
    ASSUME NEW inds, NEW thrown, NEW P, Active(inds, thrown, P), ins # NoFrame
    PROVE  /\ [core EXCEPT ![ins.obj] = core[ins.obj]] = core /\ Grows(core[ins.obj], core[ins.obj])
           /\ core[ins.obj] \in Obj12 /\ core \in [Handles -> Obj12] /\ ins.obj \in Handles
<1>1. core \in [Handles -> Obj12] /\ ins.obj \in Handles
  BY StateIs, InsObjIs DEF Mem
<1> QED
  BY <1>1 DEF Grows

LEMMA CoreSeen ==
    ASSUME NEW inds, NEW thrown, NEW P, Active(inds, thrown, P), ins # NoFrame,
           NEW o, o = core[ins.obj], NEW i, i = core[ins.obj].ino, NEW n, NEW e, NEW r
    PROVE  ViewPuts(MapCore, i, o.di_nExtents, o.di_directExtent, o.di_rootIndExt, n, e, r)
<1>1. i \in Inos
  BY InsObjIs
<1>2. PICK M : M = MapCore
  OBVIOUS
<1>3. M[i] = ViewOf(o.di_nExtents, o.di_directExtent, o.di_rootIndExt)
  BY <1>2, InsSeen
<1>4. M = [j \in Inos |-> MapOf(j, Latest(j))]
  BY <1>2, InosAre DEF MapCore
<1>5. M = [j \in Inos |-> M[j]]
  BY <1>4
<1>6. PICK n0, e0, r0 : n0 = o.di_nExtents /\ e0 = o.di_directExtent /\ r0 = o.di_rootIndExt
  OBVIOUS
<1>7. M[i] = ViewOf(n0, e0, r0)
  BY <1>3, <1>6
<1>8. ViewPuts(M, i, n0, e0, r0, n, e, r)
  BY <1>1, <1>5, <1>7, ViewPut
<1> QED
  BY <1>2, <1>6, <1>8

LEMMA DirectMergeDoes ==
    ASSUME NEW inds, NEW thrown, NEW P, Active(inds, thrown, P), ins # NoFrame, inodeNum' = inodeNum, Noted,
           InsDirectMerge
    PROVE  EM!InsDirectMerge /\ Did
<1>1. PICK h, o, i, de : h = ins.obj /\ o = core[h] /\ i = o.ino /\ de = ins.de
  OBVIOUS
<1>2. PICK e : e = Merge(o.di_directExtent, de)
  OBVIOUS
<1>3. o \in Obj12 /\ o.di_directExtent \in Seq(EM!Extents) /\ de \in EM!Extents
  <2>1. o \in Obj12 /\ ins \in Frames
    BY <1>1, InsObjIs
  <2>2. PICK X : X = Seq(EM!Extents)
    OBVIOUS
  <2>3. o.di_directExtent \in X
    BY <2>1, <2>2 DEF Obj12
  <2> QED
    BY <1>1, <2>1, <2>2, <2>3 DEF Frames
<1>4. ins.at = "direct" /\ Merges(o.di_directExtent, de)
  BY <1>1 DEF InsDirectMerge, Running, Obj
<1>5. e \in Seq(EM!Extents)
  BY <1>2, <1>3, <1>4, InsSame, EM!MergeIs, Given, BulksAssumption, IndExtAssumption
<1>6. PICK x : x = [o EXCEPT !.di_directExtent = e]
  OBVIOUS
<1>7. GrowsTo(o, x, e, o.di_nExtents, o.di_rootIndExt)
  <2>1. PICK n \in Nat, r \in Nat : n = 0 /\ r = 0
    OBVIOUS
  <2> QED
    BY <1>3, <1>5, <1>6, <2>1, GrowsIs
<1>8. core' = [core EXCEPT ![h] = x]
  <2>1. core' = [core EXCEPT ![h].di_directExtent = e]
    BY <1>1, <1>2 DEF InsDirectMerge
  <2> QED
    BY <1>1, <1>6, <2>1
<1>9. ins' = NoFrame /\ UNCHANGED spaceVars
  BY DEF InsDirectMerge, Return
<1>10. InsDid(x, {})
  BY <1>1, <1>7, <1>8, <1>9, InsStill DEF InsTo, GrowsTo
<1>11. MapIns' = EM!NoFrame /\ MapCore' = [MapCore EXCEPT ![i] = ViewOf(x.di_nExtents, x.di_directExtent, x.di_rootIndExt)]
  BY <1>1, <1>9, <1>10, InsSeenOn
<1>12. /\ MapIns.at = "direct" /\ MapIns.obj = i /\ MapIns.de = de
       /\ EM!Obj.di_directExtent = o.di_directExtent /\ EM!Obj = MapCore[i]
  BY <1>1, <1>4, InsSeen DEF FrameAt, ViewOf
<1>13. MapCore' = [MapCore EXCEPT ![i].di_directExtent = e]
  <2>1. ViewOf(x.di_nExtents, x.di_directExtent, x.di_rootIndExt) = ViewOf(o.di_nExtents, e, o.di_rootIndExt)
    BY <1>7 DEF GrowsTo
  <2>2. ViewPuts(MapCore, i, o.di_nExtents, o.di_directExtent, o.di_rootIndExt, 0, e, 0)
    BY <1>1, CoreSeen
  <2>3. [MapCore EXCEPT ![i] = ViewOf(o.di_nExtents, e, o.di_rootIndExt)] = [MapCore EXCEPT ![i].di_directExtent = e]
    BY <2>2 DEF ViewPuts
  <2> QED
    BY <1>11, <2>1, <2>3
<1>14. EM!InsDirectMerge
  <2>1. MapCore' = [MapCore EXCEPT ![MapIns.obj].di_directExtent = EM!Merge(@, MapIns.de)]
    <3>1. EM!Merge(MapCore[i].di_directExtent, de) = e
      BY <1>2, <1>12, InsSame
    <3> QED
      BY <1>12, <1>13, <3>1
  <2>2. EM!Merges(EM!Obj.di_directExtent, MapIns.de)
    BY <1>4, <1>12, InsSame
  <2> QED
    BY <1>9, <1>11, <1>12, <2>1, <2>2, InsSame DEF EM!InsDirectMerge, EM!Running, EM!Return
<1> QED
  BY <1>10, <1>14 DEF Did

LEMMA InsHeld ==
    ASSUME NEW inds, NEW thrown, NEW P, Active(inds, thrown, P), ins # NoFrame,
           NEW o, o = core[ins.obj], NEW i, i = o.ino
    PROVE  /\ o \in Obj12 /\ o.di_directExtent \in Seq(EM!Extents) /\ o.di_nExtents \in Nat
           /\ o.di_rootIndExt \in Nat /\ ins.de \in EM!Extents /\ ins.ind_off \in Nat /\ ins.new \in Nat
           /\ MapIns # EM!NoFrame /\ MapIns.at = ins.at /\ MapIns.obj = i /\ MapIns.de = ins.de
           /\ MapIns.ind_off = ins.ind_off /\ MapIns.new = ins.new
           /\ EM!Obj.di_directExtent = o.di_directExtent /\ EM!Obj.di_nExtents = o.di_nExtents
           /\ EM!Obj.di_rootIndExt = o.di_rootIndExt /\ EM!Obj = MapCore[i]
           /\ EM!indExt = indExt
<1>1. o \in Obj12 /\ ins \in Frames
  BY InsObjIs
<1>2. PICK X : X = Seq(EM!Extents)
  OBVIOUS
<1>3. o.di_directExtent \in X /\ o.di_nExtents \in Nat /\ o.di_rootIndExt \in Nat
  BY <1>1, <1>2 DEF Obj12
<1>4. /\ MapIns # EM!NoFrame /\ MapIns = FrameAt(ins.at, i, ins.de, ins.ind_off, ins.new)
      /\ EM!Obj = ViewOf(o.di_nExtents, o.di_directExtent, o.di_rootIndExt) /\ EM!Obj = MapCore[i]
  BY InsSeen
<1>5. ins.de \in EM!Extents /\ ins.ind_off \in Nat /\ ins.new \in Nat
  BY <1>1 DEF Frames
<1>6. /\ MapIns.at = ins.at /\ MapIns.obj = i /\ MapIns.de = ins.de
      /\ MapIns.ind_off = ins.ind_off /\ MapIns.new = ins.new
  BY <1>4 DEF FrameAt
<1>7. /\ EM!Obj.di_directExtent = o.di_directExtent /\ EM!Obj.di_nExtents = o.di_nExtents
      /\ EM!Obj.di_rootIndExt = o.di_rootIndExt
  BY <1>4 DEF ViewOf
<1>8. EM!indExt = indExt
  BY <1>6 DEF EM!indExt, indExt
<1> QED
  BY <1>1, <1>2, <1>3, <1>4, <1>5, <1>6, <1>7, <1>8

LEMMA DirectAppendDoes ==
    ASSUME NEW inds, NEW thrown, NEW P, Active(inds, thrown, P), ins # NoFrame, inodeNum' = inodeNum, Noted,
           InsDirectAppend
    PROVE  EM!InsDirectAppend /\ Did
<1>1. PICK h, o, i, de : h = ins.obj /\ o = core[h] /\ i = o.ino /\ de = ins.de
  OBVIOUS
<1>2. /\ o \in Obj12 /\ o.di_directExtent \in Seq(EM!Extents) /\ de \in EM!Extents /\ o.di_nExtents \in Nat
      /\ MapIns.at = ins.at /\ MapIns.obj = i /\ MapIns.de = de
      /\ EM!Obj.di_directExtent = o.di_directExtent /\ EM!Obj.di_nExtents = o.di_nExtents /\ EM!Obj = MapCore[i]
  BY <1>1, InsHeld
<1>3. PICK e, n : e = Append(o.di_directExtent, de) /\ n = o.di_nExtents + 1
  OBVIOUS
<1>4. ins.at = "direct" /\ ~Merges(o.di_directExtent, de) /\ o.di_nExtents < MAX_DINODE_DIRECT
  BY <1>1 DEF InsDirectAppend, Running, Obj
<1>5. e \in Seq(EM!Extents) /\ n \in Nat
  <2>1. PICK X : X = EM!Extents
    OBVIOUS
  <2>2. o.di_directExtent \in Seq(X) /\ de \in X
    BY <1>2, <2>1
  <2>3. Append(o.di_directExtent, de) \in Seq(X)
    BY <2>2
  <2> QED
    BY <1>2, <1>3, <2>1, <2>3
<1>6. PICK x : x = [o EXCEPT !.di_directExtent = e, !.di_nExtents = n]
  OBVIOUS
<1>7. GrowsTo(o, x, e, n, o.di_rootIndExt)
  <2>1. PICK r \in Nat : r = 0
    OBVIOUS
  <2> QED
    BY <1>2, <1>5, <1>6, <2>1, GrowsIs
<1>8. core' = [core EXCEPT ![h] = x]
  <2>1. core' = [core EXCEPT ![h].di_directExtent = Append(@, de), ![h].di_nExtents = @ + 1]
    BY <1>1 DEF InsDirectAppend
  <2>2. PICK c : c = core
    OBVIOUS
  <2>3. c = [g \in Handles |-> c[g]] /\ h \in Handles /\ c[h] = o /\ DOMAIN c = Handles
    BY <1>1, <2>2, CoreSame
  <2>4. PICK c1 : c1 = [c EXCEPT ![h].di_directExtent = Append(@, de)]
    OBVIOUS
  <2>5. PICK x1 : x1 = [o EXCEPT !.di_directExtent = e]
    OBVIOUS
  <2>6. c1 = [g \in Handles |-> IF g = h THEN x1 ELSE c[g]]
    BY <1>3, <2>3, <2>4, <2>5
  <2>7. x1.di_nExtents = o.di_nExtents /\ x = [x1 EXCEPT !.di_nExtents = n]
    BY <1>2, <1>6, <2>5 DEF Obj12
  <2>8. [c1 EXCEPT ![h].di_nExtents = @ + 1] = [g \in Handles |-> IF g = h THEN x ELSE c[g]]
    <3>1. c1[h].di_nExtents + 1 = n /\ c1[h] = x1
      BY <1>3, <2>3, <2>6, <2>7
    <3> QED
      BY <2>3, <2>6, <2>7, <3>1
  <2>9. [c EXCEPT ![h] = x] = [g \in Handles |-> IF g = h THEN x ELSE c[g]]
    BY <2>3
  <2>10. core' = [c1 EXCEPT ![h].di_nExtents = @ + 1]
    BY <2>1, <2>2, <2>4
  <2> QED
    BY <2>2, <2>8, <2>9, <2>10
<1>9. ins' = NoFrame /\ UNCHANGED spaceVars
  BY DEF InsDirectAppend, Return
<1>10. InsDid(x, {})
  BY <1>1, <1>7, <1>8, <1>9, InsStill DEF InsTo, GrowsTo
<1>11. MapIns' = EM!NoFrame /\ MapCore' = [MapCore EXCEPT ![i] = ViewOf(x.di_nExtents, x.di_directExtent, x.di_rootIndExt)]
  BY <1>1, <1>9, <1>10, InsSeenOn
<1>12. MapCore' = [MapCore EXCEPT ![i].di_directExtent = e, ![i].di_nExtents = n]
  <2>1. ViewOf(x.di_nExtents, x.di_directExtent, x.di_rootIndExt) = ViewOf(n, e, o.di_rootIndExt)
    BY <1>7 DEF GrowsTo
  <2>2. ViewPuts(MapCore, i, o.di_nExtents, o.di_directExtent, o.di_rootIndExt, n, e, 0)
    BY <1>1, CoreSeen
  <2>3. [MapCore EXCEPT ![i] = ViewOf(n, e, o.di_rootIndExt)]
           = [MapCore EXCEPT ![i].di_directExtent = e, ![i].di_nExtents = n]
    BY <2>2 DEF ViewPuts
  <2> QED
    BY <1>11, <2>1, <2>3
<1>13. EM!InsDirectAppend
  <2>1. MapCore' = [MapCore EXCEPT ![MapIns.obj].di_directExtent = Append(@, MapIns.de),
                                   ![MapIns.obj].di_nExtents = @ + 1]
    <3>1. PICK M : M = MapCore
      OBVIOUS
    <3>2. /\ M[i].di_directExtent = o.di_directExtent /\ M[i].di_nExtents = o.di_nExtents
          /\ M = [j \in Inos |-> M[j]] /\ i \in Inos /\ M[i] = ViewOf(o.di_nExtents, o.di_directExtent, o.di_rootIndExt)
      <4>1. M = [j \in Inos |-> MapOf(j, Latest(j))]
        BY <3>1, InosAre DEF MapCore
      <4>2. M = [j \in Inos |-> M[j]]
        BY <4>1
      <4>3. i \in Inos /\ M[i] = ViewOf(o.di_nExtents, o.di_directExtent, o.di_rootIndExt)
        BY <1>1, <3>1, InsObjIs, InsSeen
      <4> QED
        BY <4>2, <4>3 DEF ViewOf
    <3>3. PICK M1 : M1 = [M EXCEPT ![i].di_directExtent = e]
      OBVIOUS
    <3>4. M1 = [M EXCEPT ![i].di_directExtent = Append(@, de)] /\ M1[i].di_nExtents = o.di_nExtents
      BY <1>3, <3>2, <3>3 DEF ViewOf
    <3>5. [M1 EXCEPT ![i].di_nExtents = @ + 1] = [M1 EXCEPT ![i].di_nExtents = n]
      BY <1>3, <3>4
    <3>6. MapCore' = [M1 EXCEPT ![i].di_nExtents = n]
      BY <1>12, <3>1, <3>3
    <3> QED
      BY <1>2, <3>1, <3>4, <3>5, <3>6
  <2>2. ~EM!Merges(EM!Obj.di_directExtent, MapIns.de)
    BY <1>2, <1>4, InsSame
  <2> QED
    BY <1>2, <1>4, <1>9, <1>11, <2>1, <2>2, InsSame DEF EM!InsDirectAppend, EM!Running, EM!Return
<1> QED
  BY <1>10, <1>13 DEF Did

(* The frame moves on.                                                      *)
Moves(f, a, h, de, p, q, b, c) ==
    /\ [f EXCEPT !.at = b] = FrameAt(b, h, de, p, q)
    /\ [f EXCEPT !.ind_off = c] = FrameAt(a, h, de, c, q)
    /\ [f EXCEPT !.at = b, !.ind_off = c] = FrameAt(b, h, de, c, q)
    /\ [f EXCEPT !.at = b, !.new = c] = FrameAt(b, h, de, p, c)

LEMMA FrameMoves ==
    ASSUME NEW a, NEW h, NEW de, NEW p, NEW q, NEW f, f = FrameAt(a, h, de, p, q), NEW b, NEW c
    PROVE  Moves(f, a, h, de, p, q, b, c)
<1>1. [f EXCEPT !.at = b] = FrameAt(b, h, de, p, q)
  BY DEF FrameAt
<1>2. [f EXCEPT !.ind_off = c] = FrameAt(a, h, de, c, q)
  BY DEF FrameAt
<1>5. PICK f1 : f1 = [f EXCEPT !.at = b]
  OBVIOUS
<1>6. f1 = FrameAt(b, h, de, p, q)
  BY <1>1, <1>5
<1>7. [f1 EXCEPT !.ind_off = c] = FrameAt(b, h, de, c, q)
  BY <1>6 DEF FrameAt
<1>8. [f1 EXCEPT !.new = c] = FrameAt(b, h, de, p, c)
  BY <1>6 DEF FrameAt
<1>3. [f EXCEPT !.at = b, !.ind_off = c] = FrameAt(b, h, de, c, q)
  BY <1>5, <1>7
<1>4. [f EXCEPT !.at = b, !.new = c] = FrameAt(b, h, de, p, c)
  BY <1>5, <1>8
<1> QED
  BY <1>1, <1>2, <1>3, <1>4 DEF Moves

LEMMA InsMoves ==
    ASSUME NEW inds, NEW thrown, NEW P, Active(inds, thrown, P), ins # NoFrame,
           NEW i, i = core[ins.obj].ino, NEW b, NEW c
    PROVE  /\ Moves(ins, ins.at, ins.obj, ins.de, ins.ind_off, ins.new, b, c)
           /\ Moves(MapIns, ins.at, i, ins.de, ins.ind_off, ins.new, b, c)
BY InsSeen, FrameMoves

(* The first indirect block of a map.                                       *)
LEMMA FirstIndirectDoes ==
    ASSUME NEW inds, NEW thrown, NEW P, Active(inds, thrown, P), ins # NoFrame, inodeNum' = inodeNum, Noted,
           phase' = phase, InsFirstIndirect, Fits("iex")
    PROVE  EM!InsFirstIndirect /\ Did
<1>1. PICK h, o, i, de : h = ins.obj /\ o = core[h] /\ i = o.ino /\ de = ins.de
  OBVIOUS
<1>2. /\ o \in Obj12 /\ de \in EM!Extents /\ ins.ind_off \in Nat
      /\ MapIns.at = ins.at /\ MapIns.obj = i /\ MapIns.de = de
      /\ EM!Obj.di_directExtent = o.di_directExtent /\ EM!Obj.di_nExtents = o.di_nExtents /\ EM!Obj = MapCore[i]
  BY <1>1, InsHeld
<1>3. {"dir", "iex", "dinode"} \subseteq Managers /\ allocBlock("iex")
  BY StateIs DEF InsFirstIndirect
<1>4. PICK b \in Nat : Taken("iex", b)
  BY <1>3, TakenIs
<1>5. b = NextBlock("iex") /\ b = EM!NextBlock("iex")
  BY <1>3, <1>4, SameAlloc DEF Taken
<1>6. ins.at = "direct" /\ ~Merges(o.di_directExtent, de) /\ o.di_nExtents = MAX_DINODE_DIRECT
  BY <1>1 DEF InsFirstIndirect, NeedsFirst, Running, Obj
<1>7. PICK x : x = [o EXCEPT !.di_rootIndExt = b]
  OBVIOUS
<1>8. GrowsTo(o, x, o.di_directExtent, o.di_nExtents, b)
  <2>1. PICK e \in Seq(EM!Extents), n \in Nat : e = o.di_directExtent /\ n = 0
    BY <1>1, InsHeld
  <2> QED
    BY <1>2, <1>7, <2>1, GrowsIs
<1>9. core' = [core EXCEPT ![h] = x]
  <2>1. core' = [core EXCEPT ![h].di_rootIndExt = b]
    BY <1>1, <1>5 DEF InsFirstIndirect
  <2> QED
    BY <1>1, <1>7, <2>1
<1>10. PICK p : p = ins.ind_off
  OBVIOUS
<1>11. ins' = FrameAt("fill", h, de, p, b)
  <2>1. Moves(ins, ins.at, h, de, p, ins.new, "fill", b)
    BY <1>1, <1>10, InsMoves
  <2>2. ins' = [ins EXCEPT !.at = "fill", !.new = b]
    BY <1>5 DEF InsFirstIndirect
  <2> QED
    BY <2>1, <2>2 DEF Moves
<1>12. InsTo(ins')
  <2>1. h \in Handles /\ p \in Nat
    BY <1>1, <1>2, <1>10, InsObjIs
  <2>2. ins' \in Frames /\ ins'.obj = h /\ ins'.de = de
    BY <1>2, <1>11, <2>1 DEF Frames, FrameAt
  <2> QED
    BY <1>1, <2>2 DEF InsTo
<1>13. InsDid(x, {})
  BY <1>1, <1>4, <1>8, <1>9, <1>12, InsTakes DEF GrowsTo
<1>14. /\ MapIns' = FrameAt("fill", i, de, p, b)
       /\ MapCore' = [MapCore EXCEPT ![i] = ViewOf(x.di_nExtents, x.di_directExtent, x.di_rootIndExt)]
  BY <1>1, <1>11, <1>13, InsSeenOn
<1>15. MapCore' = [MapCore EXCEPT ![i].di_rootIndExt = b]
  <2>1. ViewOf(x.di_nExtents, x.di_directExtent, x.di_rootIndExt) = ViewOf(o.di_nExtents, o.di_directExtent, b)
    BY <1>8 DEF GrowsTo
  <2>2. ViewPuts(MapCore, i, o.di_nExtents, o.di_directExtent, o.di_rootIndExt, 0, 0, b)
    BY <1>1, CoreSeen
  <2>3. [MapCore EXCEPT ![i] = ViewOf(o.di_nExtents, o.di_directExtent, b)] = [MapCore EXCEPT ![i].di_rootIndExt = b]
    BY <2>2 DEF ViewPuts
  <2> QED
    BY <1>14, <2>1, <2>3
<1>16. MapIns' = [MapIns EXCEPT !.at = "fill", !.new = b]
  <2>1. Moves(MapIns, ins.at, i, de, p, ins.new, "fill", b)
    BY <1>1, <1>10, InsMoves
  <2> QED
    BY <1>14, <2>1 DEF Moves
<1>17. EM!InsFirstIndirect
  <2>1. ~EM!Merges(EM!Obj.di_directExtent, MapIns.de) /\ EM!allocBlock("iex")
    BY <1>2, <1>3, <1>6, InsSame, SameAlloc
  <2>2. EM!NeedsFirst
    BY <1>2, <1>6, <2>1 DEF EM!NeedsFirst, EM!Running
  <2> QED
    BY <1>2, <1>5, <1>15, <1>16, <2>1, <2>2 DEF EM!InsFirstIndirect
<1> QED
  BY <1>13, <1>17 DEF Did

LEMMA InsKeeps ==
    ASSUME NEW inds, NEW thrown, NEW P, Active(inds, thrown, P), ins # NoFrame, inodeNum' = inodeNum, Noted,
           core' = core, NEW W, InsDid(core[ins.obj], W)
    PROVE  MapCore' = MapCore
<1>1. PICK o, i : o = core[ins.obj] /\ i = o.ino
  OBVIOUS
<1>2. MapCore' = [MapCore EXCEPT ![i] = ViewOf(o.di_nExtents, o.di_directExtent, o.di_rootIndExt)]
  BY <1>1, InsSeenOn
<1>3. ViewPuts(MapCore, i, o.di_nExtents, o.di_directExtent, o.di_rootIndExt, 0, 0, 0)
  BY <1>1, CoreSeen
<1> QED
  BY <1>2, <1>3 DEF ViewPuts

LEMMA DescendDoes ==
    ASSUME NEW inds, NEW thrown, NEW P, Active(inds, thrown, P), ins # NoFrame, inodeNum' = inodeNum, Noted,
           InsDescend
    PROVE  EM!InsDescend /\ Did
<1>1. PICK h, o, i, de : h = ins.obj /\ o = core[h] /\ i = o.ino /\ de = ins.de
  OBVIOUS
<1>2. /\ o \in Obj12 /\ de \in EM!Extents /\ ins.new \in Nat /\ o.di_rootIndExt \in Nat
      /\ MapIns.at = ins.at /\ MapIns.obj = i /\ MapIns.de = de
      /\ EM!Obj.di_directExtent = o.di_directExtent /\ EM!Obj.di_nExtents = o.di_nExtents
      /\ EM!Obj.di_rootIndExt = o.di_rootIndExt
  BY <1>1, InsHeld
<1>3. ins.at = "direct" /\ ~Merges(o.di_directExtent, de) /\ o.di_nExtents > MAX_DINODE_DIRECT
  BY <1>1 DEF InsDescend, Running, Obj
<1>4. PICK q, r : q = ins.new /\ r = o.di_rootIndExt
  OBVIOUS
<1>5. ins' = FrameAt("walk", h, de, r, q)
  <2>1. Moves(ins, ins.at, h, de, ins.ind_off, q, "walk", r)
    BY <1>1, <1>4, InsMoves
  <2>2. ins' = [ins EXCEPT !.at = "walk", !.ind_off = r]
    BY <1>1, <1>4 DEF InsDescend, Obj
  <2> QED
    BY <2>1, <2>2 DEF Moves
<1>6. InsTo(ins')
  <2>1. h \in Handles /\ q \in Nat /\ r \in Nat
    BY <1>1, <1>2, <1>4, InsObjIs
  <2>2. ins' \in Frames /\ ins'.obj = h /\ ins'.de = de
    BY <1>2, <1>5, <2>1 DEF Frames, FrameAt
  <2> QED
    BY <1>1, <2>2 DEF InsTo
<1>7. core' = core /\ UNCHANGED spaceVars
  BY DEF InsDescend, spaceVars
<1>8. InsDid(o, {})
  BY <1>1, <1>6, <1>7, CoreSame, InsStill
<1>9. MapIns' = FrameAt("walk", i, de, r, q) /\ MapCore' = MapCore
  BY <1>1, <1>5, <1>7, <1>8, InsSeenOn, InsKeeps
<1>10. MapIns' = [MapIns EXCEPT !.at = "walk", !.ind_off = r]
  <2>1. Moves(MapIns, ins.at, i, de, ins.ind_off, q, "walk", r)
    BY <1>1, <1>4, InsMoves
  <2> QED
    BY <1>9, <2>1 DEF Moves
<1>11. EM!InsDescend
  <2>1. ~EM!Merges(EM!Obj.di_directExtent, MapIns.de) /\ UNCHANGED EM!spaceVars
    BY <1>2, <1>3, <1>7, InsSame
  <2> QED
    BY <1>2, <1>3, <1>4, <1>9, <1>10, <2>1 DEF EM!InsDescend, EM!Running, EM!spaceVars
<1> QED
  BY <1>8, <1>11 DEF Did

(* The indirect block it looks at, and the one it has taken.                *)
LEMMA IndHeld ==
    ASSUME NEW inds, NEW thrown, NEW P, Active(inds, thrown, P), ins # NoFrame
    PROVE  /\ ins.at \in {"walk", "link"} => /\ ins.ind_off \in used["iex"] /\ indExt \in EM!IndExts
                                             /\ indExt.ie_dext \in Seq(EM!Extents)
           /\ ins.at \in {"link", "fill"} => ins.new \in used["iex"]
<1>1. PICK i : i = core[ins.obj].ino
  OBVIOUS
<1>2. /\ EM!Alive(inds, thrown) /\ i \in EM!Handles /\ MapIns # EM!NoFrame /\ MapIns.at = ins.at
      /\ MapIns.obj = i /\ MapIns.ind_off = ins.ind_off /\ MapIns.new = ins.new
  BY <1>1, StateIs, InsHeld, InsObjIs, InosAre
<1>3. EM!FrameOf(inds)
  BY <1>2 DEF EM!Alive, EM!RunInv, EM!ChainInv
<1>4. ASSUME NEW g \in EM!Handles, NEW k \in 1..Len(inds[g]), ins.ind_off = inds[g][k]
      PROVE  ins.ind_off \in used["iex"] /\ indExt \in EM!IndExts /\ indExt.ie_dext \in Seq(EM!Extents)
  <2>1. inds[g][k] \in used["iex"] /\ disk[inds[g][k]] \in EM!IndExts
    BY <1>2, Given, BulksAssumption, IndExtAssumption, EM!ChainsAre
  <2>2. indExt \in EM!IndExts
    BY <1>4, <2>1 DEF indExt
  <2>3. PICK X : X = Seq(EM!Extents)
    OBVIOUS
  <2>4. indExt.ie_dext \in X
    BY <2>2, <2>3 DEF EM!IndExts
  <2> QED
    BY <1>4, <2>1, <2>2, <2>3, <2>4
<1>5. ASSUME ins.at = "walk"
      PROVE  ins.ind_off \in used["iex"] /\ indExt \in EM!IndExts /\ indExt.ie_dext \in Seq(EM!Extents)
  <2>1. \E k \in 1..Len(inds[i]) : ins.ind_off = inds[i][k]
    BY <1>2, <1>3, <1>5 DEF EM!FrameOf
  <2> QED
    BY <1>2, <1>4, <2>1
<1>6. ASSUME ins.at = "link"
      PROVE  ins.ind_off \in used["iex"] /\ indExt \in EM!IndExts /\ indExt.ie_dext \in Seq(EM!Extents)
  <2>1. Len(inds[i]) > 0 /\ ins.ind_off = inds[i][Len(inds[i])]
    BY <1>2, <1>3, <1>6 DEF EM!FrameOf
  <2>2. Len(inds[i]) \in Nat
    BY <1>2, Given, BulksAssumption, IndExtAssumption, EM!ChainsAre
  <2>3. Len(inds[i]) \in 1..Len(inds[i])
    BY <2>1, <2>2
  <2> QED
    BY <1>2, <1>4, <2>1, <2>3
<1>7. ins.at \in {"link", "fill"} => ins.new \in used["iex"]
  BY <1>2, <1>3 DEF EM!FrameOf
<1> QED
  BY <1>5, <1>6, <1>7

LEMMA WalkMergeDoes ==
    ASSUME NEW inds, NEW thrown, NEW P, Active(inds, thrown, P), ins # NoFrame, inodeNum' = inodeNum, Noted,
           phase' = phase, InsWalkMerge
    PROVE  EM!InsWalkMerge /\ Did
<1>1. PICK h, o, i, de, b : h = ins.obj /\ o = core[h] /\ i = o.ino /\ de = ins.de /\ b = ins.ind_off
  OBVIOUS
<1>2. /\ MapIns.at = ins.at /\ MapIns.obj = i /\ MapIns.de = de /\ MapIns.ind_off = b /\ EM!indExt = indExt
      /\ de \in EM!Extents
  BY <1>1, InsHeld
<1>3. ins.at = "walk" /\ Merges(indExt.ie_dext, de) /\ ins' = NoFrame /\ core' = core
      /\ UNCHANGED <<orgblks, head, used, calls>>
  BY <1>1 DEF InsWalkMerge, Running, Return
<1>4. b \in used["iex"] /\ indExt \in EM!IndExts
  BY <1>1, <1>3, IndHeld
<1>5. PICK c : c = [indExt EXCEPT !.ie_dext = Merge(@, de)]
  OBVIOUS
<1>6. c.kind = "iex" /\ writeIex(c, b)
  <2>1. writeIex(c, b)
    BY <1>1, <1>5 DEF InsWalkMerge
  <2>2. c.kind = "iex"
    BY <1>4, <1>5 DEF EM!IndExts
  <2> QED
    BY <2>1, <2>2
<1>7. InsDid(o, {b})
  BY <1>1, <1>3, <1>4, <1>6, CoreSame, InsWrites DEF InsTo
<1>8. MapIns' = EM!NoFrame /\ MapCore' = MapCore
  BY <1>1, <1>3, <1>7, InsSeenOn, InsKeeps
<1>9. EM!InsWalkMerge
  <2>1. EM!Merges(EM!indExt.ie_dext, MapIns.de)
    BY <1>2, <1>3, InsSame
  <2>2. EM!writeIex([EM!indExt EXCEPT !.ie_dext = EM!Merge(@, MapIns.de)], MapIns.ind_off)
    <3>1. PICK x : x = indExt
      OBVIOUS
    <3>2. c = [x EXCEPT !.ie_dext = EM!Merge(@, de)]
      BY <1>5, <3>1, InsSame
    <3>3. EM!writeIex(c, b)
      BY <1>6, InsSame
    <3> QED
      BY <1>2, <3>1, <3>2, <3>3
  <2> QED
    BY <1>2, <1>3, <1>8, <2>1, <2>2 DEF EM!InsWalkMerge, EM!Running, EM!Return
<1> QED
  BY <1>7, <1>9 DEF Did

LEMMA WalkAppendDoes ==
    ASSUME NEW inds, NEW thrown, NEW P, Active(inds, thrown, P), ins # NoFrame, inodeNum' = inodeNum, Noted,
           phase' = phase, InsWalkAppend
    PROVE  EM!InsWalkAppend /\ Did
<1>1. PICK h, o, i, de, b : h = ins.obj /\ o = core[h] /\ i = o.ino /\ de = ins.de /\ b = ins.ind_off
  OBVIOUS
<1>2. /\ MapIns.at = ins.at /\ MapIns.obj = i /\ MapIns.de = de /\ MapIns.ind_off = b /\ EM!indExt = indExt
  BY <1>1, InsHeld
<1>3. /\ ins.at = "walk" /\ ~Merges(indExt.ie_dext, de) /\ ins' = NoFrame /\ core' = core
      /\ indExt.ie_next = TARBLK_NONE /\ Len(indExt.ie_dext) < MAX_INDEXT
      /\ UNCHANGED <<orgblks, head, used, calls>>
  BY <1>1 DEF InsWalkAppend, Running, Return
<1>4. b \in used["iex"] /\ indExt \in EM!IndExts
  BY <1>1, <1>3, IndHeld
<1>5. PICK c : c = [indExt EXCEPT !.ie_dext = Append(@, de)]
  OBVIOUS
<1>6. c.kind = "iex" /\ writeIex(c, b)
  <2>1. writeIex(c, b)
    BY <1>1, <1>5 DEF InsWalkAppend
  <2>2. c.kind = "iex"
    BY <1>4, <1>5 DEF EM!IndExts
  <2> QED
    BY <2>1, <2>2
<1>7. InsDid(o, {b})
  BY <1>1, <1>3, <1>4, <1>6, CoreSame, InsWrites DEF InsTo
<1>8. MapIns' = EM!NoFrame /\ MapCore' = MapCore
  BY <1>1, <1>3, <1>7, InsSeenOn, InsKeeps
<1>9. EM!InsWalkAppend
  <2>1. ~EM!Merges(EM!indExt.ie_dext, MapIns.de) /\ EM!indExt.ie_next = EM!TARBLK_NONE
    BY <1>2, <1>3, InsSame
  <2>2. EM!writeIex([EM!indExt EXCEPT !.ie_dext = Append(@, MapIns.de)], MapIns.ind_off)
    <3>1. PICK x : x = indExt
      OBVIOUS
    <3>2. c = [x EXCEPT !.ie_dext = Append(@, de)]
      BY <1>5, <3>1
    <3>3. EM!writeIex(c, b)
      BY <1>6, InsSame
    <3> QED
      BY <1>2, <3>1, <3>2, <3>3
  <2> QED
    BY <1>2, <1>3, <1>8, <2>1, <2>2 DEF EM!InsWalkAppend, EM!Running, EM!Return
<1> QED
  BY <1>7, <1>9 DEF Did

LEMMA InsToIs ==
    ASSUME NEW inds, NEW thrown, NEW P, Active(inds, thrown, P), ins # NoFrame,
           NEW a \in {"direct", "walk", "link", "fill"}, NEW p \in Nat, NEW q \in Nat,
           ins' = FrameAt(a, ins.obj, ins.de, p, q)
    PROVE  InsTo(ins')
<1>1. PICK h, de : h = ins.obj /\ de = ins.de
  OBVIOUS
<1>2. h \in Handles /\ de \in EM!Extents
  BY <1>1, InsObjIs, InsHeld
<1>3. ins' \in Frames /\ ins'.obj = h /\ ins'.de = de
  BY <1>1, <1>2 DEF Frames, FrameAt
<1> QED
  BY <1>1, <1>3 DEF InsTo

LEMMA WalkNextDoes ==
    ASSUME NEW inds, NEW thrown, NEW P, Active(inds, thrown, P), ins # NoFrame, inodeNum' = inodeNum, Noted,
           InsWalkNext
    PROVE  EM!InsWalkNext /\ Did
<1>1. PICK h, o, i, de, p, q, r : /\ h = ins.obj /\ o = core[h] /\ i = o.ino /\ de = ins.de /\ p = ins.ind_off
                                  /\ q = ins.new /\ r = indExt.ie_next
  OBVIOUS
<1>2. /\ MapIns.at = ins.at /\ MapIns.obj = i /\ MapIns.de = de /\ MapIns.ind_off = p /\ EM!indExt = indExt
      /\ q \in Nat
  BY <1>1, InsHeld
<1>3. /\ ins.at = "walk" /\ ~Merges(indExt.ie_dext, de) /\ r # TARBLK_NONE /\ core' = core
      /\ UNCHANGED spaceVars
  BY <1>1 DEF InsWalkNext, Running, spaceVars
<1>4. r \in Nat
  <2>1. indExt \in EM!IndExts
    BY <1>3, IndHeld
  <2> QED
    BY <1>1, <1>3, <2>1 DEF EM!IndExts, EM!TARBLK_NONE, TARBLK_NONE
<1>5. ins' = FrameAt("walk", h, de, r, q)
  <2>1. Moves(ins, "walk", h, de, p, q, "walk", r)
    BY <1>1, <1>3, InsMoves
  <2>2. ins' = [ins EXCEPT !.ind_off = r]
    BY <1>1 DEF InsWalkNext
  <2> QED
    BY <2>1, <2>2 DEF Moves
<1>6. InsTo(ins')
  BY <1>1, <1>2, <1>4, <1>5, InsToIs
<1>7. InsDid(o, {})
  BY <1>1, <1>3, <1>6, CoreSame, InsStill
<1>8. MapIns' = FrameAt("walk", i, de, r, q) /\ MapCore' = MapCore
  BY <1>1, <1>3, <1>5, <1>7, InsSeenOn, InsKeeps
<1>9. MapIns' = [MapIns EXCEPT !.ind_off = r]
  <2>1. Moves(MapIns, "walk", i, de, p, q, "walk", r)
    BY <1>1, <1>3, InsMoves
  <2> QED
    BY <1>8, <2>1 DEF Moves
<1>10. EM!InsWalkNext
  <2>1. /\ ~EM!Merges(EM!indExt.ie_dext, MapIns.de) /\ EM!indExt.ie_next # EM!TARBLK_NONE
        /\ EM!indExt.ie_next = r /\ UNCHANGED EM!spaceVars
    BY <1>1, <1>2, <1>3, InsSame
  <2> QED
    BY <1>2, <1>3, <1>8, <1>9, <2>1 DEF EM!InsWalkNext, EM!Running, EM!spaceVars
<1> QED
  BY <1>7, <1>10 DEF Did

LEMMA WalkFullDoes ==
    ASSUME NEW inds, NEW thrown, NEW P, Active(inds, thrown, P), ins # NoFrame, inodeNum' = inodeNum, Noted,
           phase' = phase, InsWalkFull, Fits("iex")
    PROVE  EM!InsWalkFull /\ Did
<1>1. PICK h, o, i, de, p, q : /\ h = ins.obj /\ o = core[h] /\ i = o.ino /\ de = ins.de /\ p = ins.ind_off
                               /\ q = ins.new
  OBVIOUS
<1>2. /\ MapIns.at = ins.at /\ MapIns.obj = i /\ MapIns.de = de /\ MapIns.ind_off = p /\ EM!indExt = indExt
      /\ p \in Nat
  BY <1>1, InsHeld
<1>3. /\ ins.at = "walk" /\ ~Merges(indExt.ie_dext, de) /\ indExt.ie_next = TARBLK_NONE
      /\ Len(indExt.ie_dext) = MAX_INDEXT /\ core' = core /\ allocBlock("iex")
  BY <1>1 DEF InsWalkFull, NeedsNext, Running
<1>4. {"dir", "iex", "dinode"} \subseteq Managers
  BY StateIs
<1>5. PICK b \in Nat : Taken("iex", b)
  BY <1>3, <1>4, TakenIs
<1>6. b = NextBlock("iex") /\ b = EM!NextBlock("iex")
  BY <1>3, <1>5, SameAlloc DEF Taken
<1>7. ins' = FrameAt("link", h, de, p, b)
  <2>1. Moves(ins, "walk", h, de, p, q, "link", b)
    BY <1>1, <1>3, InsMoves
  <2>2. ins' = [ins EXCEPT !.at = "link", !.new = b]
    BY <1>6 DEF InsWalkFull
  <2> QED
    BY <2>1, <2>2 DEF Moves
<1>8. InsTo(ins')
  BY <1>1, <1>2, <1>7, InsToIs
<1>9. InsDid(o, {})
  BY <1>1, <1>3, <1>5, <1>8, CoreSame, InsTakes
<1>10. MapIns' = FrameAt("link", i, de, p, b) /\ MapCore' = MapCore
  BY <1>1, <1>3, <1>7, <1>9, InsSeenOn, InsKeeps
<1>11. MapIns' = [MapIns EXCEPT !.at = "link", !.new = b]
  <2>1. Moves(MapIns, "walk", i, de, p, q, "link", b)
    BY <1>1, <1>3, InsMoves
  <2> QED
    BY <1>10, <2>1 DEF Moves
<1>12. EM!InsWalkFull
  <2>1. /\ ~EM!Merges(EM!indExt.ie_dext, MapIns.de) /\ EM!indExt.ie_next = EM!TARBLK_NONE
        /\ EM!allocBlock("iex")
    BY <1>2, <1>3, InsSame, SameAlloc
  <2> QED
    BY <1>2, <1>3, <1>6, <1>10, <1>11, <2>1 DEF EM!InsWalkFull, EM!NeedsNext, EM!Running
<1> QED
  BY <1>9, <1>12 DEF Did

LEMMA LinkDoes ==
    ASSUME NEW inds, NEW thrown, NEW P, Active(inds, thrown, P), ins # NoFrame, inodeNum' = inodeNum, Noted,
           phase' = phase, InsLink
    PROVE  EM!InsLink /\ Did
<1>1. PICK h, o, i, de, p, q : /\ h = ins.obj /\ o = core[h] /\ i = o.ino /\ de = ins.de /\ p = ins.ind_off
                               /\ q = ins.new
  OBVIOUS
<1>2. /\ MapIns.at = ins.at /\ MapIns.obj = i /\ MapIns.de = de /\ MapIns.ind_off = p /\ EM!indExt = indExt
      /\ MapIns.new = q /\ p \in Nat /\ q \in Nat
  BY <1>1, InsHeld
<1>3. ins.at = "link" /\ core' = core /\ UNCHANGED <<orgblks, head, used, calls>>
  BY DEF InsLink, Running
<1>4. p \in used["iex"] /\ indExt \in EM!IndExts
  BY <1>1, <1>3, IndHeld
<1>5. PICK c : c = [indExt EXCEPT !.ie_next = q]
  OBVIOUS
<1>6. c.kind = "iex" /\ writeIex(c, p)
  <2>1. writeIex(c, p)
    BY <1>1, <1>5 DEF InsLink
  <2>2. c.kind = "iex"
    BY <1>4, <1>5 DEF EM!IndExts
  <2> QED
    BY <2>1, <2>2
<1>7. ins' = FrameAt("fill", h, de, p, q)
  <2>1. Moves(ins, "link", h, de, p, q, "fill", 0)
    BY <1>1, <1>3, InsMoves
  <2>2. ins' = [ins EXCEPT !.at = "fill"]
    BY DEF InsLink
  <2> QED
    BY <2>1, <2>2 DEF Moves
<1>8. InsTo(ins')
  BY <1>1, <1>2, <1>7, InsToIs
<1>9. InsDid(o, {p})
  BY <1>1, <1>3, <1>4, <1>6, <1>8, CoreSame, InsWrites
<1>10. MapIns' = FrameAt("fill", i, de, p, q) /\ MapCore' = MapCore
  BY <1>1, <1>3, <1>7, <1>9, InsSeenOn, InsKeeps
<1>11. MapIns' = [MapIns EXCEPT !.at = "fill"]
  <2>1. Moves(MapIns, "link", i, de, p, q, "fill", 0)
    BY <1>1, <1>3, InsMoves
  <2> QED
    BY <1>10, <2>1 DEF Moves
<1>12. EM!InsLink
  <2>1. EM!writeIex([EM!indExt EXCEPT !.ie_next = MapIns.new], MapIns.ind_off)
    BY <1>2, <1>5, <1>6, InsSame
  <2> QED
    BY <1>2, <1>3, <1>10, <1>11, <2>1 DEF EM!InsLink, EM!Running
<1> QED
  BY <1>9, <1>12 DEF Did

LEMMA FillDoes ==
    ASSUME NEW inds, NEW thrown, NEW P, Active(inds, thrown, P), ins # NoFrame, inodeNum' = inodeNum, Noted,
           phase' = phase, InsFill
    PROVE  EM!InsFill /\ Did
<1>1. PICK h, o, i, de, q : h = ins.obj /\ o = core[h] /\ i = o.ino /\ de = ins.de /\ q = ins.new
  OBVIOUS
<1>2. /\ MapIns.at = ins.at /\ MapIns.obj = i /\ MapIns.de = de /\ MapIns.new = q
      /\ o \in Obj12 /\ o.di_nExtents \in Nat /\ o.di_directExtent \in Seq(EM!Extents)
      /\ EM!Obj.di_nExtents = o.di_nExtents /\ EM!Obj = MapCore[i]
  BY <1>1, InsHeld
<1>3. ins.at = "fill" /\ ins' = NoFrame /\ UNCHANGED <<orgblks, head, used, calls>>
  BY DEF InsFill, Running, Return
<1>4. q \in used["iex"]
  BY <1>1, <1>3, IndHeld
<1>5. PICK c, n : c = IndExt(<<de>>, TARBLK_NONE) /\ n = o.di_nExtents + 1
  OBVIOUS
<1>6. c.kind = "iex" /\ writeIex(c, q)
  BY <1>1, <1>5 DEF InsFill, IndExt
<1>7. PICK x : x = [o EXCEPT !.di_nExtents = n]
  OBVIOUS
<1>8. GrowsTo(o, x, o.di_directExtent, n, o.di_rootIndExt)
  <2>1. PICK e \in Seq(EM!Extents), r \in Nat : e = o.di_directExtent /\ r = 0
    BY <1>2
  <2>2. n \in Nat
    BY <1>2, <1>5
  <2> QED
    BY <1>2, <1>7, <2>1, <2>2, GrowsIs
<1>9. core' = [core EXCEPT ![h] = x]
  <2>1. core' = [core EXCEPT ![h].di_nExtents = @ + 1]
    BY <1>1 DEF InsFill
  <2>2. core[h].di_nExtents + 1 = n
    BY <1>1, <1>5
  <2> QED
    BY <1>1, <1>7, <2>1, <2>2
<1>10. InsDid(x, {q})
  BY <1>1, <1>3, <1>4, <1>6, <1>8, <1>9, InsWrites DEF InsTo, GrowsTo
<1>11. MapIns' = EM!NoFrame /\ MapCore' = [MapCore EXCEPT ![i] = ViewOf(x.di_nExtents, x.di_directExtent, x.di_rootIndExt)]
  BY <1>1, <1>3, <1>10, InsSeenOn
<1>12. MapCore' = [MapCore EXCEPT ![i].di_nExtents = n]
  <2>1. ViewOf(x.di_nExtents, x.di_directExtent, x.di_rootIndExt) = ViewOf(n, o.di_directExtent, o.di_rootIndExt)
    BY <1>8 DEF GrowsTo
  <2>2. ViewPuts(MapCore, i, o.di_nExtents, o.di_directExtent, o.di_rootIndExt, n, 0, 0)
    BY <1>1, CoreSeen
  <2>3. [MapCore EXCEPT ![i] = ViewOf(n, o.di_directExtent, o.di_rootIndExt)] = [MapCore EXCEPT ![i].di_nExtents = n]
    BY <2>2 DEF ViewPuts
  <2> QED
    BY <1>11, <2>1, <2>3
<1>13. EM!InsFill
  <2>1. EM!writeIex(EM!IndExt(<<MapIns.de>>, EM!TARBLK_NONE), MapIns.new)
    BY <1>2, <1>5, <1>6, InsSame
  <2>2. MapCore' = [MapCore EXCEPT ![MapIns.obj].di_nExtents = @ + 1]
    <3>1. MapCore[i].di_nExtents + 1 = n
      BY <1>2, <1>5
    <3> QED
      BY <1>2, <1>12, <3>1
  <2> QED
    BY <1>2, <1>3, <1>11, <2>1, <2>2 DEF EM!InsFill, EM!Running, EM!Return
<1> QED
  BY <1>10, <1>13 DEF Did

(* Each step of insBlock is one that the maps know.                         *)
LEMMA InsDoes ==
    ASSUME NEW inds, NEW thrown, NEW P, Active(inds, thrown, P), InsStep, Remember
    PROVE  /\ EM!InsStep /\ Did /\ Noted /\ ins # NoFrame /\ inodeNum' = inodeNum
           /\ UNCHANGED <<files, cur, comp, dirh, pc, dirblk, phase>>
<1>1. /\ ins # NoFrame /\ inodeNum' = inodeNum
      /\ UNCHANGED <<files, cur, comp, dirh, pc, dirblk, phase>>
  BY DEF InsStep, progVars, addVars, countVars
<1>2. Noted
  BY <1>1, NotedIs
<1>3. CASE InsOther
  <2>1. EM!InsOther /\ Did
    <3>1. CASE InsDirectMerge
      BY <1>1, <1>2, <3>1, DirectMergeDoes DEF EM!InsOther
    <3>2. CASE InsDirectAppend
      BY <1>1, <1>2, <3>2, DirectAppendDoes DEF EM!InsOther
    <3>3. CASE InsDescend
      BY <1>1, <1>2, <3>3, DescendDoes DEF EM!InsOther
    <3>4. CASE InsWalkMerge
      BY <1>1, <1>2, <3>4, WalkMergeDoes DEF EM!InsOther
    <3>5. CASE InsWalkNext
      BY <1>1, <1>2, <3>5, WalkNextDoes DEF EM!InsOther
    <3>6. CASE InsWalkAppend
      BY <1>1, <1>2, <3>6, WalkAppendDoes DEF EM!InsOther
    <3>7. CASE InsLink
      BY <1>1, <1>2, <3>7, LinkDoes DEF EM!InsOther
    <3>8. CASE InsFill
      BY <1>1, <1>2, <3>8, FillDoes DEF EM!InsOther
    <3> QED
      BY <1>3, <3>1, <3>2, <3>3, <3>4, <3>5, <3>6, <3>7, <3>8 DEF InsOther
  <2> QED
    BY <1>1, <1>2, <2>1 DEF EM!InsStep
<1>4. CASE Fits("iex") /\ InsAlloc
  <2>1. EM!InsAlloc /\ Did
    <3>1. CASE InsFirstIndirect
      BY <1>1, <1>2, <1>4, <3>1, FirstIndirectDoes DEF EM!InsAlloc
    <3>2. CASE InsWalkFull
      BY <1>1, <1>2, <1>4, <3>2, WalkFullDoes DEF EM!InsAlloc
    <3> QED
      BY <1>4, <3>1, <3>2 DEF InsAlloc
  <2>2. EM!Fits("iex")
    BY <1>4, SameAlloc
  <2> QED
    BY <1>1, <1>2, <2>1, <2>2 DEF EM!InsStep
<1> QED
  BY <1>3, <1>4 DEF InsStep

(* The maps after it: the new block of a directory is in, or nothing is.    *)
LEMMA InsMaps ==
    ASSUME NEW inds, NEW thrown, NEW P, Active(inds, thrown, P), ins # NoFrame, Noted,
           NEW h, h = ins.obj, NEW i, i = core[h].ino
    PROVE  /\ ins' # NoFrame \/ h = "free" => \A j \in 1..MaxBlks : mapped'[j] = mapped[j]
           /\ ins' = NoFrame /\ h # "free" =>
                 /\ \A j \in 1..MaxBlks : j # i => mapped'[j] = mapped[j]
                 /\ Len(mapped[i]) \in Nat /\ Len(mapped'[i]) = Len(mapped[i]) + 1
                 /\ \A k \in 1..Len(mapped[i]) : mapped'[i][k] = mapped[i][k]
                 /\ mapped'[i][Len(mapped[i]) + 1] = dirblk
<1>1. /\ mapped \in [Inos -> Seq(Nat)] /\ Inos = 0..MaxBlks /\ MaxBlks \in Nat /\ EM!Alive(inds, thrown)
      /\ i \in Inos /\ (h = "free" <=> i = 0)
  BY StateIs, InsObjIs
<1>2. ASSUME ins' # NoFrame PROVE mapped' = mapped
  BY <1>2 DEF Noted
<1>3. ASSUME ins' = NoFrame PROVE mapped' = [mapped EXCEPT ![i] = @ \o Grown(ins.de)]
  BY <1>3 DEF Noted
<1>4. ASSUME ins' = NoFrame, NEW j \in 1..MaxBlks, j # i PROVE mapped'[j] = mapped[j]
  BY <1>1, <1>3, <1>4
<1>5. ASSUME ins' = NoFrame, h # "free"
      PROVE  /\ Len(mapped[i]) \in Nat /\ Len(mapped'[i]) = Len(mapped[i]) + 1
             /\ \A k \in 1..Len(mapped[i]) : mapped'[i][k] = mapped[i][k]
             /\ mapped'[i][Len(mapped[i]) + 1] = dirblk
  <2>1. PICK s \in Seq(Nat), de \in EM!Extents : s = mapped[i] /\ de = ins.de
    BY <1>1, InsHeld
  <2>2. mapped'[i] = s \o Grown(de)
    BY <1>1, <1>3, <1>5, <2>1
  <2>3. Grown(de) = EM!Grown(de)
    BY DEF Grown, EM!Grown
  <2>4. de.de_nblks = 1 /\ de.de_blkno = dirblk
    <3>1. EM!GrownInv /\ MapIns # EM!NoFrame /\ MapIns.obj = i /\ MapIns.de = de
      BY <1>1, <2>1, InsHeld DEF EM!Alive, EM!RunInv
    <3>2. i \in 1..MaxBlks
      BY <1>1, <1>5
    <3>3. ins.de.de_blkno = dirblk
      BY <1>5, InsObjIs
    <3> QED
      BY <2>1, <3>1, <3>2, <3>3 DEF EM!GrownInv
  <2>5. PICK t : t = s \o EM!Grown(de)
    OBVIOUS
  <2>6. /\ Len(t) = Len(s) + de.de_nblks /\ \A k \in 1..Len(s) : t[k] = s[k]
        /\ \A k \in 1..de.de_nblks : t[Len(s) + k] = de.de_blkno + k - 1
    BY <2>5, Given, BulksAssumption, IndExtAssumption, EM!GrownIs
  <2>7. PICK b \in Nat : b = de.de_blkno
    BY DEF EM!Extents
  <2>8. t[Len(s) + 1] = b
    <3>1. t[Len(s) + 1] = b + 1 - 1
      BY <2>4, <2>6, <2>7
    <3> QED
      BY <3>1
  <2>9. Len(s) \in Nat /\ mapped'[i] = t
    BY <2>2, <2>3, <2>5
  <2> QED
    BY <2>1, <2>4, <2>6, <2>7, <2>8, <2>9
<1>6. ASSUME h = "free" PROVE \A j \in 1..MaxBlks : mapped'[j] = mapped[j]
  <2>1. i = 0
    BY <1>1, <1>6
  <2> QED
    BY <1>2, <1>4, <2>1
<1> QED
  BY <1>2, <1>4, <1>5, <1>6

LEMMA InsInMap ==
    ASSUME NEW inds, NEW thrown, NEW P, Active(inds, thrown, P), ins # NoFrame, Noted,
           NEW h, h = ins.obj, NEW i, i = core[h].ino, NEW j \in 1..MaxBlks, NEW b
    PROVE  InMap(j, b)' <=> InMap(j, b) \/ (ins' = NoFrame /\ h # "free" /\ j = i /\ b = dirblk)
<1>1. CASE ins' # NoFrame \/ h = "free"
  <2>1. mapped'[j] = mapped[j]
    BY <1>1, InsMaps
  <2> QED
    BY <1>1, <2>1 DEF InMap
<1>2. CASE ins' = NoFrame /\ h # "free" /\ j # i
  <2>1. mapped'[j] = mapped[j]
    BY <1>2, InsMaps
  <2> QED
    BY <1>2, <2>1 DEF InMap
<1>3. CASE ins' = NoFrame /\ h # "free" /\ j = i
  <2>1. PICK s, t, z, d : s = mapped[i] /\ t = mapped'[i] /\ z = Len(s) /\ d = dirblk
    OBVIOUS
  <2>2. z \in Nat /\ Len(t) = z + 1 /\ (\A k \in 1..z : t[k] = s[k]) /\ t[z + 1] = d
    <3>1. ins' = NoFrame /\ h # "free" =>
                 /\ \A l \in 1..MaxBlks : l # i => mapped'[l] = mapped[l]
                 /\ Len(mapped[i]) \in Nat /\ Len(mapped'[i]) = Len(mapped[i]) + 1
                 /\ \A k \in 1..Len(mapped[i]) : mapped'[i][k] = mapped[i][k]
                 /\ mapped'[i][Len(mapped[i]) + 1] = dirblk
      BY InsMaps, SMTT(30)
    <3>2. /\ Len(mapped[i]) \in Nat /\ Len(mapped'[i]) = Len(mapped[i]) + 1
          /\ \A k \in 1..Len(mapped[i]) : mapped'[i][k] = mapped[i][k]
          /\ mapped'[i][Len(mapped[i]) + 1] = dirblk
      BY <1>3, <3>1, Zenon
    <3> QED
      BY <2>1, <3>2
  <2>3. (\E k \in 1..z+1 : t[k] = b) <=> (\E k \in 1..z : s[k] = b) \/ b = d
    <3>1. ASSUME NEW k \in 1..z+1, t[k] = b PROVE (\E l \in 1..z : s[l] = b) \/ b = d
      <4>1. k \in 1..z \/ k = z + 1
        BY <2>2
      <4> QED
        BY <2>2, <3>1, <4>1
    <3>2. ASSUME NEW k \in 1..z, s[k] = b PROVE \E l \in 1..z+1 : t[l] = b
      <4>1. k \in 1..z+1
        BY <2>2
      <4> QED
        BY <2>2, <3>2, <4>1
    <3>3. z + 1 \in 1..z+1
      BY <2>2
    <3> QED
      BY <2>2, <3>1, <3>2, <3>3
  <2>4. InMap(j, b)' <=> \E k \in 1..z+1 : t[k] = b
    BY <1>3, <2>1, <2>2 DEF InMap
  <2>5. InMap(j, b) <=> \E k \in 1..z : s[k] = b
    BY <1>3, <2>1 DEF InMap
  <2> QED
    BY <1>3, <2>1, <2>3, <2>4, <2>5
<1> QED
  BY <1>1, <1>2, <1>3

InsRuns(x, W) ==
    /\ ins # NoFrame /\ Noted /\ InsDid(x, W) /\ inodeNum' = inodeNum
    /\ UNCHANGED <<files, cur, comp, dirh, pc, dirblk, phase>>

(* What stays as it is in the objects.                                      *)
LEMMA InsCore ==
    ASSUME NEW inds, NEW thrown, NEW P, Active(inds, thrown, P), NEW x, NEW W, InsRuns(x, W)
    PROVE  \A g \in Handles : /\ core'[g].ino = core[g].ino /\ core'[g].di_mode = core[g].di_mode
                              /\ core'[g].di_size = core[g].di_size /\ core'[g].di_blocks = core[g].di_blocks
<1>1. core \in [Handles -> Obj12]
  BY StateIs DEF Mem
<1>2. PICK h : h = ins.obj
  OBVIOUS
<1>3. core' = [core EXCEPT ![h] = x] /\ Grows(core[h], x)
  BY <1>2 DEF InsRuns, InsDid
<1> QED
  BY <1>1, <1>3 DEF Grows

LEMMA InsUsed ==
    ASSUME NEW inds, NEW thrown, NEW P, Active(inds, thrown, P), NEW x, NEW W, InsRuns(x, W)
    PROVE  UsedOnce' /\ used["dir"] \subseteq used'["dir"]
<1>1. UsedOnce /\ {"dir", "iex", "dinode"} \subseteq Managers
  BY StateIs
<1>2. CASE used' = used
  BY <1>1, <1>2 DEF UsedOnce
<1>3. ASSUME NEW b, Taken("iex", b) PROVE UsedOnce' /\ used["dir"] \subseteq used'["dir"]
  BY <1>1, <1>3, UsedOn
<1> QED
  BY <1>2, <1>3 DEF InsRuns, InsDid

LEMMA InsProg ==
    ASSUME NEW inds, NEW thrown, NEW P, Active(inds, thrown, P), NEW x, NEW W, InsRuns(x, W)
    PROVE  Prog(P)'
<1>1. Prog(P) /\ Mem /\ inodeNum \in Nat
  BY StateIs
<1>2. \A g \in Handles : /\ core'[g].ino = core[g].ino /\ core'[g].di_mode = core[g].di_mode
                         /\ core'[g].di_size = core[g].di_size /\ core'[g].di_blocks = core[g].di_blocks
  BY InsCore
<1>3. PICK h, i : h = ins.obj /\ i = core[h].ino
  OBVIOUS
<1>4. /\ ins # NoFrame /\ Noted /\ inodeNum' = inodeNum /\ InsTo(ins')
      /\ UNCHANGED <<files, cur, comp, dirh, pc, dirblk, phase>> /\ orgblks' = orgblks
  BY DEF InsRuns, InsDid
<1>5. Dinodes' = Dinodes
  BY InsSets DEF InsRuns
<1>6. \A g \in Handles : Loaded(g)' <=> Loaded(g)
  BY <1>2 DEF Loaded
<1>7. Booting => Booting'
  BY <1>4, <1>6 DEF Booting, Handles
<1>8. dirh \in Handles /\ "next" \in Handles /\ "dir" \in Handles /\ "root" \in Handles
  BY <1>1 DEF Prog, Handles
<1>9. Adding(P) => Adding(P)'
  <2>1. DirObj'.ino = DirObj.ino /\ DirObj'.di_mode = DirObj.di_mode
    BY <1>2, <1>4, <1>8 DEF DirObj
  <2>2. File' = File
    BY <1>4 DEF File
  <2> QED
    BY <1>4, <1>6, <1>8, <2>1, <2>2 DEF Adding
<1>10. HasNext(P) => HasNext(P)'
  <2>1. DirObj'.ino = DirObj.ino /\ NextObj'.ino = NextObj.ino /\ NextObj'.di_mode = NextObj.di_mode
    BY <1>2, <1>4, <1>8 DEF DirObj, NextObj
  <2>2. File' = File /\ LastComp' = LastComp
    BY <1>4 DEF File, LastComp
  <2> QED
    BY <1>4, <1>6, <1>8, <2>1, <2>2 DEF HasNext
<1>11. InsFree => InsFree'
  BY <1>4 DEF InsFree, InsTo
<1>12. New("root") => New("root")'
  BY <1>2, <1>8 DEF New
<1>13. New("next") => New("next")'
  BY <1>2, <1>8 DEF New
<1>14. ASSUME NEW g \in Handles, InsFor(g) PROVE InsFor(g)'
  BY <1>4, <1>14 DEF InsFor, InsTo
<1>15. ASSUME NEW g \in Handles, g # "free", InsFor(g), Target(g) PROVE Target(g)'
  <2>1. g = h
    BY <1>3, <1>4, <1>15 DEF InsFor
  <2>2. used["dir"] \subseteq used'["dir"] /\ dirblk' = dirblk
    BY <1>4, InsUsed
  <2>3. CASE ins' = NoFrame
    <3>1. Len(mapped[i]) \in Nat /\ Len(mapped'[i]) = Len(mapped[i]) + 1 /\ mapped'[i][Len(mapped[i]) + 1] = dirblk
      BY <1>3, <1>4, <1>15, <2>1, <2>3, InsMaps
    <3>2. core'[g].ino = i
      BY <1>2, <1>3, <2>1
    <3>3. PICK s, z : s = mapped'[i] /\ z = Len(mapped[i])
      OBVIOUS
    <3>4. Len(s) > 0 /\ s[Len(s)] = dirblk
      BY <3>1, <3>3
    <3> QED
      BY <1>15, <2>2, <2>3, <3>2, <3>3, <3>4 DEF Target
  <2>4. CASE ins' # NoFrame
    <3>1. mapped' = mapped
      BY <1>4, <2>4 DEF Noted
    <3>2. \A j \in 1..MaxBlks : ~InMap(j, dirblk)
      BY <1>4, <1>15 DEF Target
    <3>3. \A j \in 1..MaxBlks : ~InMap(j, dirblk)'
      BY <2>2, <3>1, <3>2 DEF InMap
    <3> QED
      BY <1>15, <2>2, <2>4, <3>3 DEF Target
  <2> QED
    BY <2>3, <2>4
<1>16. PcOf(P)
  BY <1>1 DEF Prog
<1>17. pc' = pc /\ cur' = cur /\ inodeNum' = inodeNum
  BY <1>4
<1>18. PcOf(P)'
  <2>1. CASE pc = "allocRoot"
    <3>1. Booting /\ inodeNum = 1 /\ InsFree
      BY <1>16, <2>1, PcIs
    <3> QED
      BY <1>7, <1>11, <1>17, <2>1, <3>1 DEF PcOf
  <2>2. CASE pc = "dirInit" /\ cur = 0
    <3>1. Booting /\ inodeNum = 2 /\ InsFree /\ New("root")
      BY <1>16, <2>2, PcIs
    <3> QED
      BY <1>7, <1>11, <1>12, <1>17, <2>2, <3>1 DEF PcOf
  <2>3. CASE pc = "dots" /\ cur = 0
    <3>1. Booting /\ inodeNum = 2 /\ New("root") /\ Target("root") /\ InsFor("root")
      BY <1>16, <2>3, PcIs
    <3>2. Target("root")' /\ InsFor("root")'
      BY <1>8, <1>14, <1>15, <3>1
    <3> QED
      BY <1>7, <1>12, <1>17, <2>3, <3>1, <3>2 DEF PcOf
  <2>4. CASE pc = "dirInit" /\ cur # 0
    <3>1. Adding(P) /\ HasNext(P) /\ InsFree /\ New("next")
      BY <1>16, <2>4, PcIs
    <3> QED
      BY <1>9, <1>10, <1>11, <1>13, <1>17, <2>4, <3>1 DEF PcOf
  <2>5. CASE pc = "dots" /\ cur # 0
    <3>1. Adding(P) /\ HasNext(P) /\ New("next") /\ Target("next") /\ InsFor("next")
      BY <1>16, <2>5, PcIs
    <3>2. Target("next")' /\ InsFor("next")'
      BY <1>8, <1>14, <1>15, <3>1
    <3> QED
      BY <1>9, <1>10, <1>13, <1>17, <2>5, <3>1, <3>2 DEF PcOf
  <2>6. CASE pc = "addEntry"
    <3>1. Adding(P) /\ HasNext(P) /\ InsFree
      BY <1>16, <2>6, PcIs
    <3> QED
      BY <1>9, <1>10, <1>11, <1>17, <2>6, <3>1 DEF PcOf
  <2>7. CASE pc = "newBlock"
    <3>1. Adding(P) /\ HasNext(P) /\ Target(dirh) /\ InsFor(dirh)
      BY <1>16, <2>7, PcIs
    <3>2. PICK g \in {"root", "dir"} : g = dirh
      BY <1>1 DEF Prog
    <3>3. Target(g)' /\ InsFor(g)'
      BY <1>14, <1>15, <3>1, <3>2 DEF Handles
    <3>4. Target(dirh)' /\ InsFor(dirh)'
      <4>1. dirh' = g
        BY <1>4, <3>2
      <4> QED
        BY <3>3, <4>1 DEF Target, InsFor
    <3> QED
      BY <1>9, <1>10, <1>17, <2>7, <3>1, <3>4 DEF PcOf
  <2>8. CASE pc \in {"init", "get", "lookup", "sync", "syncDir", "syncRoot", "syncFree", "super"}
    <3>1. Quiet
      BY <1>16, <2>8, PcIs
    <3> QED
      BY <1>4, <3>1 DEF Quiet
  <2> QED
    BY <1>16, <2>1, <2>2, <2>3, <2>4, <2>5, <2>6, <2>7, <2>8 DEF PcOf
<1>19. core'["root"].di_mode = core["root"].di_mode
  BY <1>2, <1>8
<1> QED
  BY <1>1, <1>4, <1>5, <1>18, <1>19 DEF Prog, First

LEMMA InsExtra ==
    ASSUME NEW inds, NEW thrown, NEW P, Active(inds, thrown, P), NEW x, NEW W, InsRuns(x, W),
           NEW h, h = ins.obj, NEW i, i = core[h].ino, NEW j \in 1..inodeNum-1
    PROVE  /\ Extra(j) = 0
           /\ Extra(j)' = IF ins' = NoFrame /\ h # "free" /\ j = i THEN 1 ELSE 0
<1>1. /\ ins # NoFrame /\ UNCHANGED <<cur, dirh, pc>>
  BY DEF InsRuns
<1>2. \A g \in Handles : core'[g].ino = core[g].ino
  BY InsCore
<1>3. Extra(j) = 0
  BY <1>1 DEF Extra, AtTarget
<1>4. newh \in Handles /\ newh' = newh /\ dirh \in Handles
  BY <1>1, StateIs DEF newh, Handles, Prog
<1>5. /\ h = "free" => pc \in {"allocRoot", "dirInit", "addEntry"}
      /\ h # "free" => pc \in {"dots", "newBlock"} /\ h = (IF pc = "dots" THEN newh ELSE dirh)
  BY <1>1, InsObjIs
<1>6. AtTarget(j)' <=> ins' = NoFrame /\ ((pc = "dots" /\ core[newh].ino = j) \/ (pc = "newBlock" /\ core[dirh].ino = j))
  <2>1. core'[newh'].ino = core[newh].ino
    BY <1>2, <1>4
  <2>2. DirObj'.ino = core[dirh].ino
    BY <1>1, <1>2, <1>4 DEF DirObj
  <2> QED
    BY <1>1, <2>1, <2>2 DEF AtTarget
<1>7. AtTarget(j)' <=> ins' = NoFrame /\ h # "free" /\ j = i
  <2>1. CASE h = "free"
    BY <1>5, <1>6, <2>1
  <2>2. CASE h # "free"
    BY <1>5, <1>6, <2>2
  <2> QED
    BY <2>1, <2>2
<1> QED
  BY <1>3, <1>7 DEF Extra

LEMMA InsInodes ==
    ASSUME NEW inds, NEW thrown, NEW P, Active(inds, thrown, P), NEW x, NEW W, InsRuns(x, W)
    PROVE  Inodes(P)'
<1>1. Inodes(P) /\ inodeNum \in Nat /\ inodeNum <= MaxBlks /\ MaxBlks \in Nat
  BY StateIs, InosFit
<1>2. PICK h, i, o : h = ins.obj /\ i = core[h].ino /\ o = core[h]
  OBVIOUS
<1>3. /\ ins # NoFrame /\ Noted /\ InsDid(x, W) /\ inodeNum' = inodeNum /\ files' = files /\ cur' = cur
  BY DEF InsRuns
<1>4. /\ Latest(i) = DiOf(o) /\ (h = "free" <=> i = 0) /\ (h # "free" => o.di_mode = "dir")
      /\ x.di_mode = o.di_mode /\ x.di_size = o.di_size /\ x.di_blocks = o.di_blocks /\ o \in Obj12
      /\ i \in 0..inodeNum-1
  BY <1>2, <1>3, InsObjIs DEF InsDid, Grows
<1>5. \A j \in Nat : Latest(j)' = IF j = i THEN DiOf(x) ELSE Latest(j)
  BY <1>2, <1>3, InsSets
<1>6. ASSUME NEW j \in 1..inodeNum-1 PROVE InodeOf(P, j)' \/ Same(j)
  <2>1. /\ Extra(j) = 0 /\ Extra(j)' = IF ins' = NoFrame /\ h # "free" /\ j = i THEN 1 ELSE 0
    BY <1>2, InsExtra
  <2>2. j \in 1..MaxBlks /\ j \in Nat
    BY <1>1
  <2>3. CASE j # i
    <3>1. mapped'[j] = mapped[j]
      BY <1>2, <1>3, <2>2, <2>3, InsMaps
    <3> QED
      BY <1>5, <2>1, <2>2, <2>3, <3>1 DEF Same
  <2>4. CASE j = i
    <3>1. h # "free" /\ o.di_mode = "dir"
      BY <1>4, <2>4
    <3>2. PICK d, e : d = DiOf(o) /\ e = DiOf(x)
      OBVIOUS
    <3>3. /\ d.di_mode = "dir" /\ d.di_size = o.di_size /\ d.di_blocks = o.di_blocks
          /\ e.di_mode = "dir" /\ e.di_size = o.di_size /\ e.di_blocks = o.di_blocks
      BY <1>4, <3>1, <3>2, DiOfIs
    <3>4. PICK m \in Nat : m = o.di_blocks
      BY <1>4 DEF Obj12
    <3>5. o.di_size = TAR_BLOCKSIZE * m /\ Len(mapped[i]) = m
      <4>1. InodeOf(P, i)
        BY <1>1, <2>4 DEF Inodes
      <4>2. Latest(i) = d
        BY <1>4, <3>2
      <4>3. o.di_size = TAR_BLOCKSIZE * m /\ Len(mapped[i]) = m + 0
        BY <2>1, <2>4, <3>3, <3>4, <4>1, <4>2 DEF InodeOf
      <4> QED
        BY <4>3
    <3>6. Len(mapped'[i]) = m + Extra(i)'
      <4>1. CASE ins' = NoFrame
        <5>1. Len(mapped'[i]) = Len(mapped[i]) + 1
          BY <1>2, <1>3, <3>1, <4>1, InsMaps
        <5>2. Extra(i)' = 1
          BY <2>1, <2>4, <3>1, <4>1
        <5> QED
          BY <3>5, <5>1, <5>2
      <4>2. CASE ins' # NoFrame
        <5>1. mapped' = mapped /\ Extra(i)' = 0
          BY <1>3, <2>1, <2>4, <4>2 DEF Noted
        <5> QED
          BY <3>5, <5>1
      <4> QED
        BY <4>1, <4>2
    <3>7. Latest(i)' = e
      BY <1>5, <2>2, <2>4, <3>2
    <3>8. InodeOf(P, i)'
      BY <3>3, <3>4, <3>5, <3>6, <3>7 DEF InodeOf
    <3> QED
      BY <2>4, <3>8
  <2> QED
    BY <2>3, <2>4
<1>7. \A j \in 1..inodeNum'-1 : InodeOf(P, j)' \/ (j \in 1..inodeNum-1 /\ P[j] = P[j] /\ Same(j))
  BY <1>3, <1>6
<1> QED
  BY <1>3, <1>7, InodesOn

LEMMA InsDirs ==
    ASSUME NEW inds, NEW thrown, NEW P, Active(inds, thrown, P), NEW x, NEW W, InsRuns(x, W)
    PROVE  DirsOf(P)' /\ MappedOnce' /\ NoInode'
<1>1. /\ DirsOf(P) /\ MappedOnce /\ NoInode /\ UsedOnce /\ inodeNum \in Nat /\ inodeNum <= MaxBlks /\ MaxBlks \in Nat
      /\ {"dir", "iex", "dinode"} \subseteq Managers /\ mapped \in [Inos -> Seq(Nat)] /\ blks \in Nat
  BY StateIs, InosFit
<1>2. PICK h, i, N : h = ins.obj /\ i = core[h].ino /\ N = (ins' = NoFrame /\ h # "free")
  OBVIOUS
<1>3. /\ ins # NoFrame /\ Noted /\ InsDid(x, W) /\ inodeNum' = inodeNum /\ pc' = pc /\ dirblk' = dirblk
  BY DEF InsRuns
<1>4. \A j \in 1..MaxBlks : \A b : InMap(j, b)' <=> InMap(j, b) \/ (N /\ j = i /\ b = dirblk)
  BY <1>2, <1>3, InsInMap
<1>5. N => /\ pc \in {"dots", "newBlock"} /\ \A j \in 1..MaxBlks : ~InMap(j, dirblk)
  BY <1>2, <1>3, InsObjIs DEF Target
<1>6. i \in 0..inodeNum-1
  BY <1>2, <1>3, InsObjIs
<1>7. Mem'
  BY <1>3, InsSets
<1>8. DirsOf(P)'
  <2>1. ASSUME NEW j \in 1..inodeNum-1, NEW b, InMap(j, b)'
        PROVE  Pending(b)' \/ (InMap(j, b) /\ ~Pending(b) /\ disk'[b] = disk[b])
    <3>1. j \in 1..MaxBlks
      BY <1>1
    <3>2. CASE Pending(b)
      BY <1>3, <3>2 DEF Pending
    <3>3. CASE ~Pending(b) /\ InMap(j, b)
      <4>1. b \in used["dir"] /\ b \in 0..blks-1
        BY <3>1, <3>3, MapsAre DEF InMap
      <4>2. b \notin W
        <5>1. W \subseteq used["iex"]
          BY <1>3 DEF InsDid
        <5>2. used["dir"] \intersect used["iex"] = {}
          BY <1>1 DEF UsedOnce
        <5> QED
          BY <4>1, <5>1, <5>2
      <4>3. disk'[b] = disk[b]
        BY <1>3, <4>1, <4>2 DEF InsDid, FileStep
      <4> QED
        BY <3>3, <4>3
    <3>4. CASE ~InMap(j, b)
      <4>1. N /\ b = dirblk
        BY <1>4, <2>1, <3>1, <3>4
      <4> QED
        BY <1>3, <1>5, <4>1 DEF Pending
    <3> QED
      BY <3>2, <3>3, <3>4
  <2>2. \A j \in 1..inodeNum'-1 : \A b : InMap(j, b)' =>
              \/ Pending(b)' \/ DirBlk(P, j, b)'
              \/ j \in 1..inodeNum-1 /\ InMap(j, b) /\ ~Pending(b) /\ disk'[b] = disk[b]
    BY <1>3, <2>1
  <2> QED
    BY <1>1, <1>3, <1>7, <2>2, DirsOn
<1>9. MappedOnce'
  <2>1. ASSUME NEW j \in 1..MaxBlks, NEW l \in 1..MaxBlks, NEW b, InMap(j, b)', InMap(l, b)' PROVE j = l
    <3>1. CASE N /\ b = dirblk
      BY <1>4, <1>5, <2>1, <3>1
    <3>2. CASE ~(N /\ b = dirblk)
      <4>1. InMap(j, b) /\ InMap(l, b)
        BY <1>4, <2>1, <3>2
      <4> QED
        BY <1>1, <4>1 DEF MappedOnce, InMap
    <3> QED
      BY <3>1, <3>2
  <2>2. ASSUME NEW j \in 1..MaxBlks, NEW l \in 1..MaxBlks, NEW k \in 1..Len(mapped'[j]), InMap(l, mapped[j][k])'
        PROVE  j = l
    <3>1. PICK b : b = mapped'[j][k]
      OBVIOUS
    <3>2. InMap(j, b)' /\ InMap(l, b)'
      BY <2>2, <3>1 DEF InMap
    <3> QED
      BY <2>1, <3>2
  <2> QED
    BY <2>2 DEF MappedOnce
<1>10. NoInode'
  <2>1. ASSUME NEW j \in 1..MaxBlks, j >= inodeNum PROVE mapped'[j] = <<>>
    <3>1. j # i
      BY <1>1, <1>6, <2>1
    <3>2. mapped'[j] = mapped[j]
      BY <1>2, <1>3, <3>1, InsMaps
    <3> QED
      BY <1>1, <2>1, <3>2 DEF NoInode
  <2> QED
    BY <1>3, <2>1 DEF NoInode
<1> QED
  BY <1>8, <1>9, <1>10

(* insBlock.                                                                *)
LEMMA InsStepGoes ==
    ASSUME NEW inds, NEW thrown, NEW P, Active(inds, thrown, P), InsStep, Remember PROVE Goes
<1>1. /\ EM!InsStep /\ Did /\ Noted /\ ins # NoFrame /\ inodeNum' = inodeNum
      /\ UNCHANGED <<files, cur, comp, dirh, pc, dirblk, phase>>
  BY InsDoes
<1>2. PICK x, W : InsDid(x, W)
  BY <1>1 DEF Did
<1>3. InsRuns(x, W)
  BY <1>1, <1>2 DEF InsRuns
<1>4. PICK i, h, de : h = ins.obj /\ i = core[h].ino /\ de = ins.de
  OBVIOUS
<1>5. /\ EM!Alive(inds, thrown) /\ phase = "run" /\ P \in [Inos -> Seq(EntNames)]
      /\ MapIns # EM!NoFrame /\ MapIns.obj = i /\ MapIns.de = de
  BY <1>1, <1>4, StateIs, InsHeld
<1>6. MapIns' = EM!NoFrame <=> ins' = NoFrame
  <2>1. ins' = NoFrame => MapIns' = EM!NoFrame
    BY DEF MapIns, NoFrame, EM!NoFrame
  <2>2. ASSUME ins' # NoFrame PROVE MapIns' # EM!NoFrame
    <3>1. PICK f : f = ins'
      OBVIOUS
    <3>2. f \in Frames
      BY <1>2, <2>2, <3>1 DEF InsDid, InsTo
    <3>3. PICK j : j = core'[f.obj].ino
      OBVIOUS
    <3>4. MapIns' = [f EXCEPT !.obj = j]
      BY <2>2, <3>1, <3>3 DEF MapIns, NoFrame
    <3>5. [f EXCEPT !.obj = j].at # "none"
      BY <3>2 DEF Frames
    <3> QED
      BY <3>4, <3>5 DEF EM!NoFrame
  <2> QED
    BY <2>1, <2>2
<1>7. mapped' = IF MapIns # EM!NoFrame /\ MapIns' = EM!NoFrame
                THEN [mapped EXCEPT ![MapIns.obj] = @ \o EM!Grown(MapIns.de)] ELSE mapped
  <2>1. Grown(de) = EM!Grown(de)
    BY DEF Grown, EM!Grown
  <2> QED
    BY <1>1, <1>4, <1>5, <1>6, <2>1 DEF Noted
<1>8. /\ \/ \E m \in Managers : EM!BP!Alloc(m)
         \/ \E b \in EM!BP!AllUsed : EM!BP!WriteUsed(b)
         \/ UNCHANGED EM!BP!vars
      /\ EM!TypeInv'
      /\ \E new : EM!RunInv(new, thrown)'
  BY <1>1, <1>5, <1>7, Given, BulksAssumption, IndExtAssumption, EM!InsIs
<1>9. BPStep
  BY <1>8 DEF BPStep, EM!BP!ClientNext
<1>10. PICK new : EM!RunInv(new, thrown)'
  BY <1>8
<1>11. Mem' /\ OnDisk'
  BY <1>1, <1>2, InsSets
<1>12. AllFormed' /\ NoSuper'
  <2>1. FileStep(W) /\ \A b \in W : disk'[b].kind = "iex"
    BY <1>2 DEF InsDid
  <2>2. \A b \in W : disk'[b].kind # "super" /\ (disk'[b].kind = "dir" => Formed(disk'[b]))
    BY <2>1
  <2> QED
    BY <2>1, <2>2, FileOn
<1>13. UsedOnce'
  BY <1>3, InsUsed
<1>14. Inodes(P)' /\ DirsOf(P)' /\ MappedOnce' /\ NoInode' /\ Prog(P)'
  BY <1>3, InsInodes, InsDirs, InsProg
<1> QED
  BY <1>1, <1>5, <1>8, <1>9, <1>10, <1>11, <1>12, <1>13, <1>14, GoesOn
-----------------------------------------------------------------------------
(* The end.  What a reader finds of a complete file system.                 *)
LEMMA EndedSound == ASSUME NEW inds, Ended(inds) PROVE SuperblockSound
<1> DEFINE s == mapped[TARFS_FREE_INO]
<1>1. /\ orgblks \in Nat /\ blks \in Nat /\ inodeNum \in Nat /\ inodeNum > 1
      /\ s \in Seq(Nat) /\ inodeNum <= Len(s) /\ s[1] = orgblks /\ s[2] = orgblks + 1
      /\ \A i \in 1..inodeNum : s[i] \in orgblks..blks-2 /\ disk[s[i]].kind = "dinode"
      /\ Sb.tarfs_size = blks - orgblks /\ Sb.tarfs_inodes = inodeNum
      /\ Sb.tarfs_flist = head /\ Sb.tarfs_free = orgblks /\ Sb.tarfs_root = orgblks + 1
      /\ \A m \in Managers : HasFree(m) => \E e \in orgblks..blks-2 : Chain(m, e)
  BY DEF Ended, InodesThere, ListsThere
<1>2. PICK d : d = DiskFree
  OBVIOUS
<1>3. MapFields(d, MapCore[TARFS_FREE_INO])
  <2>1. disk[orgblks].di = DiOf(core["free"])
    <3>1. Dinode(core["free"]) = [kind |-> "dinode", di |-> DiOf(core["free"])]
      BY DinodeIs DEF Ended
    <3>2. disk[orgblks] = Dinode(core["free"])
      BY DEF Ended
    <3> QED
      BY <3>1, <3>2
  <2>2. d = LoadInode(TARFS_FREE_INO, TARFS_FREE_INO, orgblks)
    BY <1>1, <1>2 DEF DiskFree
  <2>3. MapFields(d, DiOf(core["free"]))
    BY <2>1, <2>2 DEF LoadInode, MapFields
  <2> QED
    BY <2>3 DEF Ended, MapOf, MapFields
<1>4. ASSUME NEW off \in Nat, off < Len(s) PROVE GetBlock(d, off) = s[off + 1]
  <2>1. EM!GetBlock(MapCore[TARFS_FREE_INO], off) = s[off + 1]
    BY <1>4, Given, BulksAssumption, IndExtAssumption, EM!GetBlockFound DEF Ended
  <2> QED
    BY <1>3, <2>1, SameBlock
<1> HIDE DEF s
<1>5. GetBlock(DiskFree, TARFS_FREE_INO) = orgblks
  <2>1. 0 \in Nat /\ 0 < Len(s) /\ 0 + 1 = 1
    BY <1>1
  <2>2. GetBlock(d, 0) = s[1]
    BY <1>4, <2>1
  <2> QED
    BY <1>1, <1>2, <2>2 DEF TARFS_FREE_INO
<1>6. GetBlock(DiskFree, TARFS_ROOT_INO) = orgblks + 1
  <2>1. 1 \in Nat /\ 1 < Len(s) /\ 1 + 1 = 2
    BY <1>1
  <2>2. GetBlock(d, 1) = s[2]
    BY <1>4, <2>1
  <2> QED
    BY <1>1, <1>2, <2>2 DEF TARFS_ROOT_INO
<1>7. ASSUME NEW ino \in 0..inodeNum-1
      PROVE  GetBlock(DiskFree, ino) \in orgblks..blks-2 /\ disk[GetBlock(DiskFree, ino)].kind = "dinode"
  <2>1. ino \in Nat /\ ino < Len(s) /\ ino + 1 \in 1..inodeNum
    BY <1>1
  <2>2. GetBlock(d, ino) = s[ino + 1]
    BY <1>4, <2>1
  <2> QED
    BY <1>1, <1>2, <2>1, <2>2
<1>8. \A m \in Managers : Sb.tarfs_flist[m] # TARBLK_NONE => \E e \in orgblks..blks-2 : Chain(m, e)
  BY <1>1 DEF HasFree
<1>9. blks - Sb.tarfs_size = orgblks
  BY <1>1
<1> QED
  BY <1>1, <1>5, <1>6, <1>7, <1>8, <1>9 DEF SuperblockSound

LEMMA WriteSuperIs ==
    ASSUME NEW inds, NEW thrown, NEW P, Active(inds, thrown, P), WriteSuper, Remember
    PROVE  /\ blks' = blks + 1 /\ DOMAIN disk' = 0..blks /\ disk'[blks] = Super
           /\ \A b \in 0..blks-1 : disk'[b] = disk[b]
           /\ EM!BP!Complete /\ phase' = "done" /\ ins = NoFrame
           /\ UNCHANGED <<orgblks, head, used, calls, core, ins, inodeNum, mapped>>
           /\ AllFormed'
           /\ inodeNum > 1 /\ ~Loaded("dir") /\ ~Loaded("next") /\ Synced("root") /\ Synced("free") /\ First
<1>1. /\ phase = "run" /\ ins = NoFrame /\ pc = "super" /\ blks < MaxBlks /\ write(Super, blks)
      /\ phase' = "done" /\ pc' = pc
      /\ UNCHANGED <<orgblks, head, used, calls, core, ins, inodeNum>>
  BY DEF WriteSuper, At, inodeVars, countVars
<1>2. mapped' = mapped
  BY <1>1 DEF Remember
<1>3. blks \in Nat /\ MaxBlks \in Nat /\ DOMAIN disk = 0..blks-1
  BY StateIs
<1>4. PICK f : f = [i \in 0..0 |-> Super]
  OBVIOUS
<1>5. writeBlock(f, blks, 1) /\ f[0] = Super
  BY <1>1, <1>4 DEF write
<1>6. blks' = blks + 1
  BY <1>3, <1>5 DEF writeBlock
<1>7. disk' = [b \in 0..blks+1-1 |-> IF b \in blks..blks+1-1 THEN f[b - blks] ELSE disk[b]]
  <2>1. disk' = [b \in 0..blks'-1 |-> IF b \in blks..blks+1-1 THEN f[b - blks] ELSE disk[b]]
    BY <1>5 DEF writeBlock
  <2>2. PICK n : n = blks' - 1
    OBVIOUS
  <2>3. n = blks + 1 - 1
    BY <1>3, <1>6, <2>2
  <2>4. disk' = [b \in 0..n |-> IF b \in blks..blks+1-1 THEN f[b - blks] ELSE disk[b]]
    BY <2>1, <2>2
  <2> QED
    BY <2>3, <2>4
<1>8. DOMAIN disk' = 0..blks
  BY <1>3, <1>7
<1>9. disk'[blks] = Super
  <2>1. blks \in 0..blks+1-1 /\ blks \in blks..blks+1-1 /\ blks - blks = 0
    BY <1>3
  <2> QED
    BY <1>5, <1>7, <2>1
<1>10. \A b \in 0..blks-1 : disk'[b] = disk[b]
  BY <1>3, <1>7
<1>11. EM!BP!Complete
  <2> DEFINE a == [i \in 0..0 |-> EM!BP!SuperBlock]
  <2>1. \A i \in 0..1-1 : EM!Abstract(f[i]) = a[i]
    BY <1>5 DEF EM!Abstract, Super, EM!BP!SuperBlock
  <2>2. blks \in 0..blks /\ EM!writeBlock(f, blks, 1) /\ 1 \in Nat
    BY <1>3, <1>5 DEF writeBlock, EM!writeBlock
  <2>3. EM!BP!IInv
    BY DEF Active
  <2> HIDE DEF a
  <2>4. EM!BP!writeBlock(a, blks, 1)
    BY <2>1, <2>2, <2>3, Given, BulksAssumption, IndExtAssumption, EM!WriteSeen
  <2>5. EM!BP!Fits(1)
    BY <1>1, <1>3 DEF EM!BP!Fits
  <2> QED
    BY <1>1, <2>4, <2>5 DEF EM!BP!Complete, a
<1>12. AllFormed'
  <2> SUFFICES ASSUME NEW b \in 0..blks, disk'[b].kind = "dir" PROVE Formed(disk'[b])
    BY <1>8 DEF AllFormed
  <2>1. b # blks
    BY <1>9 DEF Super
  <2>2. b \in 0..blks-1
    BY <1>3, <2>1
  <2> QED
    BY <1>3, <1>10, <2>2 DEF Active, AllFormed
<1>13. Prog(P) /\ PcOf(P)
  BY StateIs DEF Prog
<1>14. NoneOpen /\ Synced("root") /\ Synced("free")
  BY <1>1, <1>13, PcIs
<1>15. inodeNum > 1 /\ ~Loaded("dir") /\ ~Loaded("next") /\ First
  <2>1. inodeNum \in Nat
    BY StateIs
  <2> QED
    BY <1>13, <1>14, <2>1 DEF NoneOpen, Prog
<1> QED
  BY <1>1, <1>2, <1>6, <1>8, <1>9, <1>10, <1>11, <1>12, <1>14, <1>15

(* The dinodes are all in the file by then, ...                             *)
LEMMA AllSynced ==
    ASSUME NEW inds, NEW thrown, NEW P, Active(inds, thrown, P), ins = NoFrame,
           inodeNum > 1, ~Loaded("dir"), ~Loaded("next"), Synced("root"), Synced("free"), First
    PROVE  LET s == mapped[TARFS_FREE_INO]
           IN  /\ s \in Seq(Nat) /\ inodeNum <= Len(s) /\ s[1] = orgblks /\ s[2] = orgblks + 1
               /\ disk[orgblks] = Dinode(core["free"]) /\ core["free"] \in Obj12
               /\ \A i \in 1..inodeNum : s[i] \in orgblks..blks-1 /\ disk[s[i]].kind = "dinode"
<1> DEFINE s == mapped[TARFS_FREE_INO]
<1>1. Dinodes = s
  BY DEF Dinodes
<1> HIDE DEF s
<1>2. /\ s \in Seq(Nat) /\ inodeNum <= Len(s) /\ inodeNum \in Nat
      /\ \A i \in 1..inodeNum : s[i] \in used["dinode"]
      /\ used["dinode"] \subseteq orgblks..blks-1
      /\ Mem /\ OnDisk
  BY <1>1, MapsAre, StateIs
<1>3. s[1] = orgblks /\ s[2] = orgblks + 1
  BY <1>1 DEF First
<1>4. /\ core["free"].ino = 0 /\ core["root"].ino = 1 /\ core["free"] \in Obj12 /\ core["root"] \in Obj12
      /\ core["free"].blkno = s[1] /\ core["root"].blkno = s[2]
  <2>1. core["free"].ino = 0 /\ core["root"].ino = 1 /\ "free" \in Handles /\ "root" \in Handles
    BY <1>2 DEF Mem, Handles
  <2>2. core["free"].blkno = s[0 + 1] /\ core["root"].blkno = s[1 + 1]
    BY <1>1, <1>2, <2>1 DEF Mem, Loaded
  <2> QED
    BY <1>2, <2>1, <2>2 DEF Mem
<1>5. disk[s[1]] = Dinode(core["free"]) /\ disk[s[2]] = Dinode(core["root"])
  BY <1>4 DEF Synced
<1>6. disk[s[1]].kind = "dinode" /\ disk[s[2]].kind = "dinode"
  BY <1>4, <1>5, DinodeIs
<1>7. ASSUME NEW i \in 1..inodeNum PROVE disk[s[i]].kind = "dinode"
  <2>1. CASE i = 1 \/ i = 2
    BY <1>6, <2>1
  <2>2. CASE i # 1 /\ i # 2
    <3>1. i - 1 \in 2..inodeNum-1 /\ (i - 1) + 1 = i
      BY <1>2, <2>2
    <3>2. ~InMem(i - 1)
      <4>1. i - 1 # 0 /\ i - 1 # 1 /\ i - 1 # -1
        BY <3>1
      <4> QED
        BY <1>4, <4>1 DEF InMem, Loaded, Handles
    <3>3. disk[Dinodes[(i - 1) + 1]] \in [kind : {"dinode"}, di : Di]
      BY <1>2, <3>1, <3>2 DEF OnDisk
    <3> QED
      BY <1>1, <3>1, <3>3
  <2> QED
    BY <2>1, <2>2
<1> QED
  BY <1>2, <1>3, <1>4, <1>5, <1>7 DEF s

(* ... and so are the lists of free blocks.                                 *)
LEMMA FreeListsAre ==
    ASSUME NEW inds, NEW thrown, NEW P, Active(inds, thrown, P), NEW m \in Managers, HasFree(m)
    PROVE  \E e \in orgblks..blks-1 : Chain(m, e)
<1>1. EM!BP!IInv /\ phase = "run" /\ blks \in Nat /\ orgblks \in Nat /\ DOMAIN disk = 0..blks-1
  BY StateIs DEF Active
<1>2. EM!BP!ChainsEnd /\ EM!BP!ChainsFresh
  BY <1>1 DEF EM!BP!IInv, EM!BP!ChainsIntact
<1>3. EM!BP!HasFree(m) /\ EM!HasFree(m)
  BY DEF HasFree, EM!HasFree, EM!BP!HasFree, TARBLK_NONE, EM!TARBLK_NONE, EM!BP!TARBLK_NONE
<1>4. PICK e \in 0..blks-1 : EM!BP!Chain(m, e)
  BY <1>2, <1>3 DEF EM!BP!ChainsEnd
<1>5. EM!Chain(m, e)
  BY <1>1, <1>3, <1>4, Given, BulksAssumption, IndExtAssumption, EM!ChainSeen
<1>6. Chain(m, e)
  BY <1>5 DEF Chain, EM!Chain, Free, EM!Free, TARBLK_NONE, EM!TARBLK_NONE
<1>7. head[m] <= e /\ head[m] \in Nat
  <2>1. head[m] \in Nat \union {TARBLK_NONE}
    BY StateIs
  <2> QED
    BY <1>6, <2>1 DEF Chain, HasFree
<1>8. e >= orgblks
  <2>1. e \in head[m]..e
    BY <1>7
  <2> QED
    BY <1>2, <1>3, <1>4, <2>1 DEF EM!BP!ChainsFresh
<1>9. e \in orgblks..blks-1
  BY <1>1, <1>8
<1> QED
  BY <1>6, <1>9

LEMMA SuperEnds ==
    ASSUME NEW inds, NEW thrown, NEW P, Active(inds, thrown, P), WriteSuper, Remember
    PROVE  Ended(inds)'
<1> DEFINE s == mapped[TARFS_FREE_INO]
<1>1. /\ blks' = blks + 1 /\ DOMAIN disk' = 0..blks /\ disk'[blks] = Super
      /\ \A b \in 0..blks-1 : disk'[b] = disk[b]
      /\ ins = NoFrame
      /\ UNCHANGED <<orgblks, head, used, calls, core, ins, inodeNum, mapped>>
      /\ inodeNum > 1 /\ ~Loaded("dir") /\ ~Loaded("next") /\ Synced("root") /\ Synced("free") /\ First
  BY WriteSuperIs
<1>2. /\ EM!Alive(inds, thrown) /\ orgblks \in Nat /\ blks \in Nat /\ inodeNum \in Nat /\ Mem
      /\ orgblks <= blks /\ head \in [Managers -> Nat \union {TARBLK_NONE}]
  BY StateIs
<1>3. /\ s \in Seq(Nat) /\ inodeNum <= Len(s) /\ s[1] = orgblks /\ s[2] = orgblks + 1
      /\ disk[orgblks] = Dinode(core["free"]) /\ core["free"] \in Obj12
      /\ \A i \in 1..inodeNum : s[i] \in orgblks..blks-1 /\ disk[s[i]].kind = "dinode"
  BY <1>1, AllSynced
<1>4. TARFS_FREE_INO \in EM!Handles /\ TARFS_FREE_INO = 0
  BY DEF EM!Handles, EM!TARFS_FREE_INO, TARFS_FREE_INO
<1>5. EM!Whole(inds, TARFS_FREE_INO)
  <2>1. EM!Settled(TARFS_FREE_INO)
    BY <1>1, FrameSeen, StateIs DEF EM!Settled
  <2> QED
    BY <1>2, <1>4, <2>1, Given, BulksAssumption, IndExtAssumption, EM!WholeIs
<1>6. /\ MapCore[TARFS_FREE_INO] = MapOf(TARFS_FREE_INO, DiOf(core["free"]))
      /\ MapCore'[TARFS_FREE_INO] = MapOf(TARFS_FREE_INO, DiOf(core["free"]))
  <2>1. "free" \in Handles /\ core["free"].ino = 0 /\ \A g \in Handles : core[g].ino = core["free"].ino => g = "free"
    BY <1>1, <1>2 DEF Mem, Handles, Loaded
  <2>2. /\ LatestIn(core, inodeNum, Dinodes, disk, 0) = DiOf(core["free"])
        /\ LatestIn(core, inodeNum, Dinodes', disk', 0) = DiOf(core["free"])
    BY <2>1, HeldIs
  <2>3. Latest(0) = DiOf(core["free"]) /\ Latest(0)' = DiOf(core["free"])
    BY <1>1, <2>2 DEF Latest
  <2>4. MapCore[0] = MapOf(0, Latest(0)) /\ MapCore'[0] = MapOf(0, Latest(0)')
    BY <1>4 DEF MapCore, MapOf
  <2> QED
    BY <1>4, <2>3, <2>4
<1>7. EM!Whole(inds, TARFS_FREE_INO)'
  <2> DEFINE h == TARFS_FREE_INO
             t == inds[h]
  <2>1. PICK o : o = MapCore[h]
    OBVIOUS
  <2>2. MapCore[h] = o /\ MapCore'[h] = o
    BY <1>6, <2>1
  <2>3. \A k \in 1..Len(t) : disk'[t[k]] = disk[t[k]]
    BY <1>1, <1>2, <1>4, Given, BulksAssumption, IndExtAssumption, EM!ChainsAre
  <2> HIDE DEF h
  <2>4. EM!CoreOf(inds, h)'
    BY <1>5, <2>2 DEF EM!Whole, EM!CoreOf, EM!Direct, h
  <2>5. EM!ExtentsOf(inds, h)'
    <3>1. /\ \A k \in 0..Len(t) : EM!AllRight(EM!Exts(inds, h, k), mapped[h])
          /\ \A off \in 0..Len(mapped[h])-1 : \E k \in 0..Len(t) : EM!Somewhere(EM!Exts(inds, h, k), off)
      BY <1>5 DEF EM!Whole, EM!ExtentsOf, h
    <3>2. t \in Seq(Nat)
      BY <1>5 DEF EM!Whole, h
    <3>3. \A k \in 0..Len(t) : EM!Exts(inds, h, k)' = EM!Exts(inds, h, k)
      <4> SUFFICES ASSUME NEW k \in 0..Len(t) PROVE EM!Exts(inds, h, k)' = EM!Exts(inds, h, k)
        OBVIOUS
      <4>1. CASE k = 0
        BY <2>2, <4>1 DEF EM!Exts, EM!Direct
      <4>2. CASE k # 0
        <5>1. k \in 1..Len(t)
          BY <3>2, <4>2
        <5> QED
          BY <2>3, <4>2, <5>1 DEF EM!Exts, EM!Dext
      <4> QED
        BY <4>1, <4>2
    <3>4. mapped'[h] = mapped[h]
      BY <1>1
    <3> HIDE DEF t
    <3> QED
      BY <3>1, <3>3, <3>4 DEF EM!ExtentsOf, t
  <2>6. \A k \in 1..Len(t) : disk'[t[k]] \in EM!IndExts
                             /\ disk'[t[k]].ie_next = IF k < Len(t) THEN t[k + 1] ELSE EM!TARBLK_NONE
    BY <1>5, <2>3 DEF EM!Whole, h
  <2>7. t \in Seq(Nat) /\ o \in EM!Objects /\ mapped[h] \in Seq(Nat)
    BY <1>5, <2>2 DEF EM!Whole, h
  <2>8. EM!IndExts' = EM!IndExts /\ EM!Objects' = EM!Objects
    BY DEF EM!IndExts, EM!Objects, EM!Extents
  <2> QED
    BY <1>1, <2>2, <2>4, <2>5, <2>6, <2>7, <2>8 DEF EM!Whole, h
<1>8. /\ Sb'.kind = "super" /\ Sb'.tarfs_size = blks' - orgblks /\ Sb'.tarfs_inodes = inodeNum
      /\ Sb'.tarfs_flist = head /\ Sb'.tarfs_free = orgblks /\ Sb'.tarfs_root = orgblks + 1
  <2>1. blks' - 1 = blks
    BY <1>1, <1>2
  <2>2. Sb' = Super
    BY <1>1, <2>1 DEF Sb
  <2>3. /\ Super.kind = "super" /\ Super.tarfs_size = blks + 1 - orgblks /\ Super.tarfs_inodes = inodeNum
        /\ Super.tarfs_flist = head /\ Super.tarfs_free = orgblks /\ Super.tarfs_root = orgblks + 1
    BY DEF Super
  <2>4. blks' - orgblks = blks + 1 - orgblks
    BY <1>1, <1>2
  <2> QED
    BY <2>2, <2>3, <2>4
<1>9. disk'[orgblks] = Dinode(core["free"])
  <2>1. orgblks \in 0..blks-1
    <3>1. 1 \in 1..inodeNum
      BY <1>1, <1>2
    <3>2. orgblks \in orgblks..blks-1
      BY <1>3, <3>1
    <3> QED
      BY <1>2, <3>2
  <2> QED
    BY <1>1, <1>3, <2>1
<1>10. ASSUME NEW i \in 1..inodeNum PROVE s[i] \in orgblks..blks'-2 /\ disk'[s[i]].kind = "dinode"
  <2>1. s[i] \in orgblks..blks-1 /\ disk[s[i]].kind = "dinode"
    BY <1>3
  <2>2. s[i] \in 0..blks-1 /\ s[i] \in orgblks..blks'-2
    BY <1>1, <1>2, <2>1
  <2> QED
    BY <1>1, <2>1, <2>2
<1>11. ASSUME NEW m \in Managers, HasFree(m)
       PROVE  \E e \in orgblks..blks'-2 : Chain(m, e)'
  <2>1. PICK e \in orgblks..blks-1 : Chain(m, e)
    BY <1>11, FreeListsAre
  <2>2. head[m] \in Nat /\ head'[m] = head[m] /\ e \in Nat /\ e < blks /\ e < blks'
    BY <1>1, <1>2, <1>11, <2>1 DEF HasFree
  <2>3. \A b \in head[m]..e : disk'[b] = disk[b]
    BY <1>1, <1>2, <2>2
  <2>4. Chain(m, e)'
    BY <2>1, <2>2, <2>3 DEF Chain
  <2>5. e \in orgblks..blks'-2
    BY <1>1, <1>2, <2>1, SMTT(30)
  <2> QED
    BY <2>4, <2>5
<1>12. \A m \in Managers : HasFree(m)' <=> HasFree(m)
  BY <1>1 DEF HasFree
<1>13. /\ ins' = NoFrame /\ orgblks' \in Nat /\ blks' \in Nat /\ inodeNum' \in Nat /\ inodeNum' > 1
       /\ core'["free"] \in Obj12 /\ disk'[orgblks'] = Dinode(core'["free"])
  <2>1. blks' \in Nat
    BY <1>1, <1>2
  <2>2. ins' = NoFrame /\ orgblks' = orgblks /\ inodeNum' = inodeNum /\ core' = core
    BY <1>1
  <2> QED
    BY <1>1, <1>2, <1>3, <1>9, <2>1, <2>2
<1>14. MapCore'[TARFS_FREE_INO] = MapOf(TARFS_FREE_INO, DiOf(core'["free"]))
  <2>1. core' = core
    BY <1>1
  <2> QED
    BY <1>6, <2>1
<1>15. InodesThere'
  <2>1. orgblks' = orgblks /\ inodeNum' = inodeNum /\ mapped'[TARFS_FREE_INO] = s
    BY <1>1
  <2> HIDE DEF s
  <2> QED
    BY <1>3, <1>10, <2>1 DEF InodesThere
<1>16. ListsThere'
  <2>1. orgblks' = orgblks
    BY <1>1
  <2> QED
    BY <1>11, <1>12, <2>1 DEF ListsThere
<1>17. /\ Sb'.kind = "super" /\ Sb'.tarfs_size = blks' - orgblks' /\ Sb'.tarfs_inodes = inodeNum'
       /\ Sb'.tarfs_flist = head' /\ Sb'.tarfs_free = orgblks' /\ Sb'.tarfs_root = orgblks' + 1
  <2>1. orgblks' = orgblks /\ inodeNum' = inodeNum /\ head' = head
    BY <1>1
  <2> QED
    BY <1>8, <2>1, Zenon
<1> HIDE DEF s
<1> QED
  BY <1>7, <1>13, <1>14, <1>15, <1>16, <1>17, Zenon DEF Ended

(* What fails is cut back to the archive, and what is killed stays as it is. *)
LEMMA Stops ==
    ASSUME NEW inds, NEW thrown, NEW P, Active(inds, thrown, P), rollback, phase' = "failed"
    PROVE  BPStep /\ IInv'
<1>1. EM!BP!IInv /\ phase = "run" /\ AllFormed /\ NoSuper
  BY DEF Active
<1>2. EM!rollback
  BY DEF rollback, EM!rollback
<1>3. EM!BP!Fail
  BY <1>1, <1>2, Given, BulksAssumption, IndExtAssumption, EM!FailSeen
<1>4. BPStep
  BY <1>3 DEF BPStep, EM!BP!ClientNext
<1>5. EM!BP!IInv'
  BY <1>1, <1>4, Given, BulksAssumption, IndExtAssumption, EM!BP!NextIInv DEF BPStep
<1>6. orgblks \in Nat /\ blks \in Nat /\ orgblks <= blks /\ DOMAIN disk = 0..blks-1
  BY StateIs
<1>7. disk' = [b \in 0..orgblks-1 |-> disk[b]]
  BY DEF rollback
<1>8. DOMAIN disk' = 0..orgblks-1 /\ \A b \in 0..orgblks-1 : b \in DOMAIN disk /\ disk'[b] = disk[b]
  BY <1>6, <1>7
<1>9. AllFormed' /\ NoSuper'
  BY <1>1, <1>8 DEF AllFormed, NoSuper
<1> QED
  BY <1>4, <1>5, <1>9 DEF IInv

LEMMA KillStops ==
    ASSUME IInv, Kill
    PROVE  BPStep /\ IInv'
<1>1. EM!BP!IInv /\ phase = "run" /\ AllFormed /\ NoSuper /\ phase' = "killed"
      /\ UNCHANGED <<orgblks, blks, disk, head, used, calls>>
  BY DEF IInv, Kill, spaceVars
<1>2. EM!BP!Kill
  BY <1>1 DEF EM!BP!Kill, EM!BP!spaceVars
<1>3. BPStep
  BY <1>2 DEF BPStep, EM!BP!ClientNext
<1>4. EM!BP!IInv'
  BY <1>1, <1>3, Given, BulksAssumption, IndExtAssumption, EM!BP!NextIInv DEF BPStep
<1>5. AllFormed' /\ NoSuper'
  BY <1>1 DEF AllFormed, NoSuper
<1> QED
  BY <1>1, <1>3, <1>4, <1>5 DEF IInv

(* Where no path that had a size is made a directory, every directory's      *)
(* blocks are what mkfs has made for it, and none is data.                  *)
LEMMA NoData ==
    ASSUME NEW inds, NEW thrown, NEW P, Active(inds, thrown, P), LookupData
    PROVE  FALSE
<1>1. pc = "lookup" /\ ins = NoFrame /\ DirObj.di_size > 0 /\ GetBlock(DirObj, 0) \notin orgblks..blks-1
  BY DEF LookupData, At, HoldsData
<1>2. Adding(P)
  BY <1>1, StateIs, PcIs DEF Prog
<1>3. InHand(dirh) /\ DirObj.ino \in 1..inodeNum-1
  BY <1>1, <1>2, AddingIs DEF InHand, DirObj
<1>4. PICK i : i = DirObj.ino
  OBVIOUS
<1>5. /\ i \in 1..MaxBlks /\ DirBlks(DirObj) = mapped[i] /\ mapped[i] \in Seq(Nat)
      /\ DirObj \in Obj12 /\ Len(mapped[i]) = DirObj.di_blocks
  BY <1>3, <1>4, DirBlksAre DEF DirObj
<1>6. 1 \in 1..Len(mapped[i]) /\ mapped[i][1] = GetBlock(DirObj, 0)
  <2>1. DirObj.di_size \in Nat
    BY <1>5 DEF Obj12
  <2>2. DirBlks(DirObj) = [k \in 1..(DirObj.di_size \div TAR_BLOCKSIZE) |-> GetBlock(DirObj, k - 1)]
    BY DEF DirBlks
  <2>3. DirObj.di_size = TAR_BLOCKSIZE * DirObj.di_blocks /\ DirObj.di_blocks \in Nat
    <3>1. InodeOf(P, i) /\ Latest(i) = DiOf(DirObj)
      BY <1>3, <1>4, StateIs, DirBlksAre DEF DirObj, Inodes
    <3>2. Latest(i).di_mode = "dir" /\ Latest(i).di_size = DirObj.di_size /\ Latest(i).di_blocks = DirObj.di_blocks
      BY <1>3, <3>1, DiOfIs DEF InHand, DirObj
    <3>3. DirObj.di_blocks \in Nat
      BY <1>5 DEF Obj12
    <3> QED
      BY <3>1, <3>2, <3>3 DEF InodeOf
  <2>4. PICK m, n : m = DirObj.di_size /\ n = DirObj.di_blocks
    OBVIOUS
  <2>5. m = 512 * n /\ n \in Nat /\ m > 0 /\ m \div 512 = n /\ n >= 1
    BY <1>1, <2>3, <2>4 DEF TAR_BLOCKSIZE
  <2>6. 1 \in 1..Len(mapped[i])
    BY <1>5, <2>4, <2>5
  <2>7. DirBlks(DirObj)[1] = GetBlock(DirObj, 0)
    <3>1. 1 \in 1..(DirObj.di_size \div TAR_BLOCKSIZE)
      BY <2>4, <2>5 DEF TAR_BLOCKSIZE
    <3>2. DirBlks(DirObj)[1] = GetBlock(DirObj, 1 - 1)
      BY <2>2, <3>1
    <3> QED
      BY <3>2
  <2> QED
    BY <1>5, <2>6, <2>7
<1>7. mapped[i][1] \in orgblks..blks-1
  <2>1. mapped[i][1] \in used["dir"]
    BY <1>5, <1>6, MapsAre
  <2> QED
    BY <2>1, StateIs
<1> QED
  BY <1>1, <1>6, <1>7

(* Every step of mkfs is one of the block layer's client, or none.          *)
LEMMA WorkIs ==
    ASSUME IInv, Work
    PROVE  BPStep /\ IInv'
<1>1. phase = "run" /\ Remember
  BY DEF Work, InitFree, AllocRoot, DirInit, Dots, Get, Eof, LookupData, LookupMiss, LookupDir,
     LookupNotDir, LookupAgain, AddEntry, AddBlock, NewBlock, Sync, SyncDir, SyncRoot, SyncFree,
     WriteSuper, InsStep, LooksUp, At
<1>2. PICK inds, thrown, P : Active(inds, thrown, P)
  BY <1>1 DEF IInv, Active
<1>3. ASSUME Goes PROVE BPStep /\ IInv'
  BY <1>3 DEF Goes, Active, IInv
<1>4. ASSUME WriteSuper PROVE BPStep /\ IInv'
  <2>1. EM!BP!Complete /\ phase' = "done" /\ AllFormed'
    BY <1>1, <1>2, <1>4, WriteSuperIs
  <2>2. BPStep
    BY <2>1 DEF BPStep, EM!BP!ClientNext
  <2>3. EM!BP!IInv'
    BY <2>2, Given, BulksAssumption, IndExtAssumption, EM!BP!NextIInv DEF BPStep, IInv
  <2>4. Ended(inds)'
    BY <1>1, <1>2, <1>4, SuperEnds
  <2> QED
    BY <2>1, <2>2, <2>3, <2>4 DEF IInv
<1>5. ASSUME LookupNotDir PROVE BPStep /\ IInv'
  BY <1>2, <1>5, Stops DEF LookupNotDir
<1>6. ASSUME InitFree \/ AllocRoot \/ DirInit \/ Dots PROVE Goes
  BY <1>1, <1>2, <1>6, InitFreeGoes, AllocRootGoes, DirInitGoes, DotsGoes
<1>7. ASSUME Get \/ Eof \/ LookupMiss \/ LookupDir \/ LookupAgain PROVE Goes
  BY <1>1, <1>2, <1>7, GetGoes, EofGoes, LookupMissGoes, LookupDirGoes, LookupAgainGoes
<1>8. ASSUME AddEntry \/ AddBlock \/ NewBlock PROVE Goes
  BY <1>1, <1>2, <1>8, AddEntryGoes, AddBlockGoes, NewBlockGoes
<1>9. ASSUME Sync \/ SyncDir \/ SyncRoot \/ SyncFree PROVE Goes
  BY <1>1, <1>2, <1>9, SyncGoes, SyncDirGoes, SyncRootGoes, SyncFreeGoes
<1>10. ASSUME InsStep PROVE Goes
  BY <1>1, <1>2, <1>10, InsStepGoes
<1>11. ~LookupData
  BY <1>2, NoData
<1> QED
  BY <1>3, <1>4, <1>5, <1>6, <1>7, <1>8, <1>9, <1>10, <1>11 DEF Work

LEMMA Stands ==
    ASSUME NEW inds, NEW thrown, NEW P, Runs(inds, thrown, P), UNCHANGED vars
    PROVE  Runs(inds, thrown, P)'
<1>1. UNCHANGED <<orgblks, blks, disk, head, used, calls, core, ins, files, pc, cur, comp, dirh,
                  dirblk, inodeNum, dataSize, mapped, phase>>
  BY DEF vars, spaceVars, inodeVars, progVars, addVars, countVars
<1>2. Dinodes' = Dinodes
  BY <1>1 DEF Dinodes
<1>3. \A i : Latest(i)' = Latest(i)
  BY <1>1, <1>2 DEF Latest
<1>4. MapCore' = MapCore /\ MapIns' = MapIns
  BY <1>1, <1>3 DEF MapCore, MapIns
<1>5. EM!TypeInv'
  BY <1>1, <1>4 DEF Runs, EM!TypeInv
<1>6. EM!ChainInv(inds, thrown)'
  BY <1>1, <1>4 DEF Runs, EM!RunInv, EM!ChainInv, EM!CoreOf, EM!BlocksOf, EM!BlockOf, EM!LinkOf,
     EM!NoneShared, EM!Chained, EM!Taken, EM!FrameOf, EM!Direct, EM!Dext
<1>7. EM!ExtentInv(inds)'
  BY <1>1, <1>4 DEF Runs, EM!RunInv, EM!ExtentInv, EM!ExtentsOf, EM!Exts, EM!Direct, EM!Dext
<1>8. EM!GrownInv'
  BY <1>1, <1>4 DEF Runs, EM!RunInv, EM!GrownInv
<1>9. EM!InodeInv'
  BY <1>1, <1>4 DEF Runs, EM!RunInv, EM!InodeInv, EM!Dinodes, EM!Chain, EM!HasFree
<1>10. Mem'
  BY <1>1, <1>2 DEF Runs, Mem, Loaded
<1>11. OnDisk'
  BY <1>1, <1>2 DEF Runs, OnDisk, InMem
<1>12. Inodes(P)'
  BY <1>1, <1>3 DEF Runs, Inodes, InodeOf, Extra, AtTarget, newh, DirObj
<1>13. DirsOf(P)'
  <2>1. ASSUME NEW i, NEW b PROVE DirBlk(P, i, b)' <=> DirBlk(P, i, b)
    BY <1>1 DEF DirBlk
  <2>2. ASSUME NEW b PROVE Pending(b)' <=> Pending(b)
    BY <1>1 DEF Pending
  <2>3. DirsOf(P)
    BY DEF Runs
  <2> QED
    BY <1>1, <2>1, <2>2, <2>3 DEF DirsOf
<1>14. UsedOnce' /\ MappedOnce' /\ NoInode'
  BY <1>1 DEF Runs, UsedOnce, MappedOnce, NoInode, InMap
<1>15. PcOf(P)'
  <2>1. /\ Booting' = Booting /\ Quiet' = Quiet /\ InsFree' = InsFree /\ NoneOpen' = NoneOpen
        /\ Adding(P)' = Adding(P) /\ HasNext(P)' = HasNext(P)
        /\ HasFree("dinode")' = HasFree("dinode")
    BY <1>1 DEF Booting, Quiet, InsFree, NoneOpen, Adding, HasNext, HasFree, Loaded, DirObj, NextObj, File, LastComp
  <2>2. ASSUME NEW h
        PROVE  /\ New(h)' = New(h) /\ Target(h)' = Target(h) /\ InsFor(h)' = InsFor(h)
               /\ Synced(h)' = Synced(h) /\ Loaded(h)' = Loaded(h)
    BY <1>1 DEF New, Target, InsFor, Synced, Loaded, InMap
  <2>3. PcOf(P)
    BY DEF Runs, Prog
  <2>4. Target(dirh)' = Target(dirh) /\ InsFor(dirh)' = InsFor(dirh)
    BY <1>1 DEF Target, InsFor, InMap
  <2> QED
    BY <1>1, <2>1, <2>2, <2>3, <2>4 DEF PcOf
<1>16. Prog(P)'
  BY <1>1, <1>2, <1>15 DEF Runs, Prog, First
<1> QED
  BY <1>1, <1>5, <1>6, <1>7, <1>8, <1>9, <1>10, <1>11, <1>12, <1>13, <1>14, <1>16 DEF Runs, EM!RunInv

LEMMA EndStands ==
    ASSUME NEW inds, Ended(inds), UNCHANGED vars
    PROVE  Ended(inds)'
<1>1. UNCHANGED <<orgblks, blks, disk, head, used, calls, core, ins, inodeNum, mapped>>
  BY DEF vars, spaceVars, inodeVars, progVars, addVars, countVars
<1>2. Dinodes' = Dinodes
  BY <1>1 DEF Dinodes
<1>3. \A i : Latest(i)' = Latest(i)
  BY <1>1, <1>2 DEF Latest
<1>4. MapCore' = MapCore
  BY <1>3 DEF MapCore
<1>5. EM!Whole(inds, TARFS_FREE_INO)'
  BY <1>1, <1>4 DEF Ended, EM!Whole, EM!CoreOf, EM!ExtentsOf, EM!Exts, EM!Direct, EM!Dext
<1>6. Sb' = Sb
  BY <1>1 DEF Sb
<1> QED
  BY <1>1, <1>4, <1>5, <1>6 DEF Ended, InodesThere, ListsThere, HasFree, Chain

LEMMA StepIs ==
    ASSUME IInv, [Next]_vars
    PROVE  BPStep /\ IInv'
<1>1. CASE Work
  BY <1>1, WorkIs
<1>2. CASE Fail
  <2>1. PICK inds, thrown, P : Active(inds, thrown, P)
    BY <1>2 DEF IInv, Active, Fail
  <2> QED
    BY <1>2, <2>1, Stops DEF Fail
<1>3. CASE Kill
  BY <1>3, KillStops
<1>4. CASE UNCHANGED vars
  <2>1. UNCHANGED <<orgblks, blks, disk, head, used, calls, phase>>
    BY <1>4 DEF vars, spaceVars, progVars
  <2>2. BPStep
    BY <2>1 DEF BPStep, EM!BP!vars
  <2>3. EM!BP!IInv'
    BY <2>2, Given, BulksAssumption, IndExtAssumption, EM!BP!NextIInv DEF BPStep, IInv
  <2>4. AllFormed'
    BY <2>1 DEF IInv, AllFormed
  <2>5. phase' # "done" => NoSuper'
    BY <2>1 DEF IInv, NoSuper
  <2>6. phase' = "done" => \E inds : Ended(inds)'
    BY <1>4, <2>1, EndStands DEF IInv
  <2>7. phase' = "run" => \E inds, thrown, P : Runs(inds, thrown, P)'
    BY <1>4, <2>1, Stands DEF IInv
  <2> QED
    BY <2>2, <2>3, <2>4, <2>5, <2>6, <2>7 DEF IInv
<1> QED
  BY <1>1, <1>2, <1>3, <1>4 DEF Next

LEMMA InitIs == ASSUME Init, ~DataAsDir(files) PROVE EM!BP!ClientInit /\ IInv
<1>1. /\ files \in Archives /\ SpaceInit(TarBlks(files)) /\ core = [h \in Handles |-> NoObject]
      /\ ins = NoFrame /\ pc = "init" /\ cur = 0 /\ comp = 0 /\ dirh = "root"
      /\ inodeNum = 0 /\ mapped = [i \in 0..MaxBlks |-> <<>>] /\ phase = "run"
  BY DEF Init, Handles
<1>2. PICK n : n = TarBlks(files)
  OBVIOUS
<1>3. n \in 1..MaxBlks /\ files \in Seq([path : Seq(DOMAIN NameLen) \ {<<>>}, ftype : STRING \ {"none"}, size : Nat])
  BY <1>1, <1>2, ArchivesAssumption
<1>4. /\ orgblks = n /\ blks = n /\ disk = [b \in 0..n-1 |-> TarBlock]
      /\ head = [m \in Managers |-> TARBLK_NONE] /\ used = [m \in Managers |-> {}]
      /\ calls = [m \in Managers |-> 0]
  BY <1>1, <1>2 DEF SpaceInit
<1>5. EM!SpaceInit(n)
  BY <1>4 DEF EM!SpaceInit, TarBlock, EM!TarBlock, TARBLK_NONE, EM!TARBLK_NONE
<1>6. \A h \in Handles : core[h] = NoObject /\ core[h].ino = -1
  BY <1>1 DEF NoObject, NewInode
<1>7. ASSUME NEW i \in Inos PROVE MapOf(i, Latest(i)) = EM!EmptyMap
  <2>1. i \in Nat
    BY Given DEF Inos
  <2>2. ~\E h \in Handles : core[h].ino = i
    BY <1>6, <2>1
  <2>3. Latest(i) = DiOf(NoObject)
    BY <1>1, <2>1, <2>2 DEF Latest, LatestIn
  <2>4. DiOf(NoObject).di_nExtents = 0 /\ DiOf(NoObject).di_directExtent = <<>>
        /\ DiOf(NoObject).di_rootIndExt = 0
    BY DEF DiOf, NoObject, NewInode
  <2> QED
    BY <2>3, <2>4 DEF MapOf, EM!EmptyMap
<1>8. MapCore = [h \in EM!Handles |-> EM!EmptyMap]
  <2>1. MapCore = [i \in Inos |-> MapOf(i, Latest(i))]
    BY InosAre DEF MapCore
  <2>2. MapCore = [i \in Inos |-> EM!EmptyMap]
    BY <1>7, <2>1
  <2> QED
    BY <2>2, InosAre
<1>9. MapIns = EM!NoFrame
  BY <1>1 DEF MapIns, NoFrame, EM!NoFrame
<1>10. mapped = [h \in EM!Handles |-> <<>>]
  BY <1>1, InosAre DEF Inos
<1> DEFINE inds == [h \in EM!Handles |-> <<>>]
           P == [i \in Inos |-> <<>>]
<1>11. EM!BP!ClientInit /\ EM!BP!IInv /\ EM!TypeInv /\ EM!RunInv(inds, {})
  BY <1>1, <1>3, <1>5, <1>8, <1>9, <1>10, Given, BulksAssumption, IndExtAssumption, EM!StartIs
<1>12. AllFormed /\ NoSuper
  <2>1. \A b \in DOMAIN disk : disk[b].kind = "tar"
    BY <1>4 DEF TarBlock
  <2> QED
    BY <2>1 DEF AllFormed, NoSuper
<1>13. Mem
  <2>1. NoObject \in Obj12
    <3>1. "none" \in Modes /\ TARBLK_NONE \in Int /\ -1 \in Int
      BY DEF Modes, TARBLK_NONE
    <3>2. PICK M, X : M = Modes /\ X = Seq(EM!Extents)
      OBVIOUS
    <3>3. <<>> \in X
      BY <3>2
    <3> QED
      BY <3>1, <3>2, <3>3 DEF NoObject, NewInode, Obj12
  <2>2. core \in [Handles -> Obj12]
    BY <1>1, <2>1
  <2>3. "free" \in Handles /\ "root" \in Handles
    BY DEF Handles
  <2> QED
    BY <1>1, <1>6, <2>2, <2>3 DEF Mem, Loaded
<1>14. OnDisk /\ Inodes(P) /\ DirsOf(P)
  BY <1>1 DEF OnDisk, Inodes, DirsOf
<1>15. \A i \in Inos : mapped[i] = <<>> /\ Len(mapped[i]) = 0
  BY <1>1 DEF Inos
<1>16. UsedOnce /\ MappedOnce /\ NoInode
  <2>1. 1..MaxBlks \subseteq Inos
    BY InosAre
  <2> QED
    BY <1>4, <1>15, <2>1 DEF UsedOnce, MappedOnce, NoInode
<1>17. Prog(P)
  <2>1. ~HasFree("dinode")
    BY <1>4, Given DEF HasFree
  <2>2. Booting
    BY <1>1, <1>6 DEF Booting, Loaded, Handles
  <2>3. PcOf(P)
    BY <1>1, <1>4, <2>1, <2>2 DEF PcOf, Quiet
  <2>4. cur \in 0..Len(files)
    BY <1>1, <1>3
  <2> QED
    BY <1>1, <2>3, <2>4 DEF Prog
<1>18. P \in [Inos -> Seq(EntNames)]
  OBVIOUS
<1>19. Runs(inds, {}, P)
  <2> HIDE DEF inds, P
  <2> QED
    BY <1>11, <1>13, <1>14, <1>16, <1>17, <1>18 DEF Runs
<1> HIDE DEF inds, P
<1> QED
  BY <1>1, <1>11, <1>12, <1>19 DEF IInv

LEMMA Inductive == Spec /\ ~DataAsDir(files) => []IInv
<1>1. Init /\ ~DataAsDir(files) => IInv
  BY InitIs
<1>2. IInv /\ [Next]_vars => IInv'
  BY StepIs
<1> QED
  BY <1>1, <1>2, PTL DEF Spec
-----------------------------------------------------------------------------
(* mkfs.tarfs, wherever it fails or is killed, writes only blocks that      *)
(* allocBlock has handed out and one superblock past the end: it implements *)
(* the client of the block layer; for archives that make no directory of a  *)
(* path that had a size (for the others see LookupData).                    *)
THEOREM ClientOfBlocks == Spec /\ ~DataAsDir(files) => ObeysBlockLayer
<1>1. Init /\ ~DataAsDir(files) => BlockLayer!ClientInit
  <2>1. EM!BP!ClientInit => BlockLayer!ClientInit
    BY DEF EM!BP!ClientInit, BlockLayer!ClientInit, EM!BP!SpaceInit, BlockLayer!SpaceInit,
       EM!BP!TarBlock, BlockLayer!TarBlock, EM!BP!TARBLK_NONE, BlockLayer!TARBLK_NONE, EM!Abstract, Abstract
  <2> QED
    BY <2>1, InitIs
<1>2. BPStep => [BlockLayer!ClientNext]_BlockLayer!vars
  BY DEF BPStep, Abstract, EM!Abstract, EM!BP!ClientNext, BlockLayer!ClientNext, EM!BP!vars, BlockLayer!vars,
     EM!BP!Alloc, BlockLayer!Alloc, EM!BP!allocBlock, BlockLayer!allocBlock, EM!BP!HasFree, BlockLayer!HasFree,
     EM!BP!Fits, BlockLayer!Fits, EM!BP!TARBLK_NONE, BlockLayer!TARBLK_NONE, EM!BP!Refill, BlockLayer!Refill,
     EM!BP!PopFree, BlockLayer!PopFree, EM!BP!HandOut, BlockLayer!HandOut, EM!BP!NextBlock, BlockLayer!NextBlock,
     EM!BP!writeBlock, BlockLayer!writeBlock, EM!BP!FreeChunk, BlockLayer!FreeChunk, EM!BP!Free, BlockLayer!Free,
     EM!BP!WriteUsed, BlockLayer!WriteUsed, EM!BP!AllUsed, BlockLayer!AllUsed, EM!BP!DataBlock, BlockLayer!DataBlock,
     EM!BP!Complete, BlockLayer!Complete, EM!BP!SuperBlock, BlockLayer!SuperBlock, EM!BP!Fail, BlockLayer!Fail,
     EM!BP!rollback, BlockLayer!rollback, EM!BP!Kill, BlockLayer!Kill, EM!BP!spaceVars, BlockLayer!spaceVars,
     EM!BP!KillInRefill, BlockLayer!KillInRefill
<1>3. IInv /\ [Next]_vars => BPStep
  BY StepIs
<1> QED
  BY <1>1, <1>2, <1>3, Inductive, PTL DEF Spec, ObeysBlockLayer, BlockLayer!ClientSpec

(* A file with a superblock at its end is whole: its pointers, the map of   *)
(* the dinodes and the free lists agree with the blocks they name; for the  *)
(* archives of ClientOfBlocks.                                              *)
THEOREM SuperblockIsSound == Spec /\ ~DataAsDir(files) => []SuperblockSound
<1>1. IInv => SuperblockSound
  <2> SUFFICES ASSUME IInv PROVE SuperblockSound
    OBVIOUS
  <2>1. CASE phase = "done"
    BY <2>1, EndedSound DEF IInv
  <2>2. CASE phase # "done"
    BY <2>2 DEF IInv, NoSuper, SuperblockSound, Mountable, Sb
  <2> QED
    BY <2>1, <2>2
<1> QED
  BY <1>1, Inductive, PTL

LEMMA SumIs ==
    ASSUME NEW es \in Seq(Ents), NEW f \in [0..Len(es) -> Nat], Sum(f, es)
    PROVE  LET sum[j \in 0..Len(es)] == IF j = 0 THEN 0 ELSE sum[j-1] + es[j].d_reclen
           IN  sum[Len(es)] = f[Len(es)]
<1> DEFINE n == Len(es)
           Sums(g) == g = [j \in 0..n |-> IF j = 0 THEN 0 ELSE g[j-1] + es[j].d_reclen]
           sum == CHOOSE g : Sums(g)
<1>1. n \in Nat
  OBVIOUS
<1> HIDE DEF n
<1>2. Sums(f)
  <2>1. [j \in 0..n |-> IF j = 0 THEN 0 ELSE f[j-1] + es[j].d_reclen] = [j \in 0..n |-> f[j]]
    <3>1. \A j \in 0..n : (IF j = 0 THEN 0 ELSE f[j-1] + es[j].d_reclen) = f[j]
      <4> SUFFICES ASSUME NEW j \in 0..n PROVE (IF j = 0 THEN 0 ELSE f[j-1] + es[j].d_reclen) = f[j]
        OBVIOUS
      <4>1. CASE j = 0
        BY <4>1 DEF Sum
      <4>2. CASE j # 0
        <5>1. j \in 1..Len(es)
          BY <1>1, <4>2 DEF n
        <5> QED
          BY <4>2, <5>1 DEF Sum
      <4> QED
        BY <4>1, <4>2
    <3> QED
      BY <3>1
  <2>2. [j \in 0..n |-> f[j]] = f
    BY DEF n
  <2> QED
    BY <2>1, <2>2
<1>3. Sums(sum)
  <2> HIDE DEF Sums
  <2> QED
    BY <1>2
<1> HIDE DEF sum
<1>4. \A j \in 0..n : sum[j] = f[j]
  <2> DEFINE T == {j \in 0..n : sum[j] = f[j]}
  <2>1. 0 \in T
    <3>1. sum[0] = 0
      BY <1>1, <1>3
    <3> QED
      BY <1>1, <3>1 DEF Sum
  <2>2. ASSUME NEW j \in 1..n, j - 1 \in T PROVE j \in T
    <3>1. j # 0 /\ j \in 0..n /\ j \in 1..Len(es)
      BY <1>1 DEF n
    <3>2. sum[j] = sum[j-1] + es[j].d_reclen
      BY <1>3, <3>1
    <3>3. f[j] = f[j-1] + es[j].d_reclen
      BY <3>1 DEF Sum
    <3> QED
      BY <2>2, <3>1, <3>2, <3>3
  <2> HIDE DEF T
  <2>3. 0..n \subseteq T
    BY <1>1, <2>1, <2>2, UpTo
  <2> QED
    BY <2>3 DEF T
<1>5. sum[n] = f[n]
  BY <1>1, <1>4
<1> QED
  BY <1>5 DEF n, sum, Sums

(* However entries were split, the records of every directory block fill it *)
(* to the byte, aligned and each with room for its name; for the archives   *)
(* of ClientOfBlocks.                                                       *)
THEOREM DirBlocksAreFormed == Spec /\ ~DataAsDir(files) => []DirBlocksFormed
<1>1. IInv => DirBlocksFormed
  <2> SUFFICES ASSUME IInv, NEW b \in DOMAIN disk, disk[b].kind = "dir"
               PROVE  LET es == disk[b].ents
                          sum[j \in 0..Len(es)] == IF j = 0 THEN 0 ELSE sum[j-1] + es[j].d_reclen
                      IN  /\ sum[Len(es)] = TAR_BLOCKSIZE
                          /\ \A j \in DOMAIN es : /\ es[j].d_reclen % 4 = 0
                                                  /\ DIRENT_SIZE(strlen(es[j].d_name)) <= es[j].d_reclen
    BY DEF DirBlocksFormed
  <2>1. PICK es : es = disk[b].ents
    OBVIOUS
  <2>2. Formed(disk[b])
    BY DEF IInv, AllFormed
  <2>3. /\ es \in Seq(Ents)
        /\ \A j \in 1..Len(es) : es[j].d_reclen % 4 = 0 /\ DIRENT_SIZE(strlen(es[j].d_name)) <= es[j].d_reclen
    BY <2>1, <2>2 DEF Formed
  <2>4. PICK f \in [0..Len(es) -> Nat] : Sum(f, es) /\ f[Len(es)] = TAR_BLOCKSIZE
    BY <2>1, <2>2 DEF Formed
  <2>5. LET sum[j \in 0..Len(es)] == IF j = 0 THEN 0 ELSE sum[j-1] + es[j].d_reclen
        IN  sum[Len(es)] = TAR_BLOCKSIZE
    BY <2>3, <2>4, SumIs
  <2>6. DOMAIN es = 1..Len(es)
    BY <2>3
  <2> QED
    BY <2>1, <2>3, <2>5, <2>6
<1> QED
  BY <1>1, Inductive, PTL

(* Where no path that had a size is made a directory, mkfs never takes data *)
(* for entries, and at work, complete, failed or killed the file starts     *)
(* with the archive, unaltered; what fails leaves nothing else.             *)
THEOREM ArchiveKept == Spec /\ ~DataAsDir(files) => [](phase # "astray" /\ ArchiveStays)
<1> DEFINE Kept == phase # "astray" /\ ArchiveStays
<1>1. Init => Kept
  <2> SUFFICES ASSUME Init PROVE Kept
    OBVIOUS
  <2>1. PICK n : n = TarBlks(files) /\ SpaceInit(n) /\ phase = "run"
    BY DEF Init
  <2> QED
    BY <2>1 DEF ArchiveStays, SpaceInit
<1>2. IInv /\ Kept /\ [Next]_vars => Kept'
  <2> SUFFICES ASSUME IInv, phase # "astray", ArchiveStays, [Next]_vars PROVE Kept'
    OBVIOUS
  <2>1. EM!BP!IInv /\ BPStep
    BY StepIs DEF IInv
  <2> DEFINE a == [b \in DOMAIN disk |-> EM!Abstract(disk[b])]
             c == [b \in DOMAIN disk' |-> EM!Abstract(disk'[b])]
  <2>2. /\ orgblks' = orgblks
        /\ \A b \in 0..orgblks-1 : b \in DOMAIN c /\ c[b] = a[b]
    BY <2>1, Given, BulksAssumption, IndExtAssumption, EM!BP!ArchiveKept DEF BPStep
  <2>3. ASSUME NEW b \in 0..orgblks-1 PROVE b \in DOMAIN disk' /\ disk'[b] = TarBlock
    <3>1. b \in DOMAIN disk' /\ EM!Abstract(disk'[b]) = EM!Abstract(disk[b]) /\ disk[b] = TarBlock
      BY <2>2, <2>3 DEF ArchiveStays
    <3>2. EM!Abstract(disk'[b]) = TarBlock
      BY <3>1 DEF EM!Abstract, TarBlock
    <3>3. PICK x : x = disk'[b]
      OBVIOUS
    <3>4. x = TarBlock
      <4>1. EM!Abstract(x).kind = "tar" /\ EM!Abstract(x) = TarBlock
        BY <3>2, <3>3 DEF TarBlock
      <4>2. x.kind \in {"tar", "free"}
        <5>1. CASE x.kind \notin {"tar", "free"}
          BY <4>1, <5>1 DEF EM!Abstract
        <5> QED
          BY <5>1
      <4> QED
        BY <4>1, <4>2 DEF EM!Abstract
    <3> QED
      BY <3>1, <3>3, <3>4
  <2>4. phase' # "astray" /\ (phase' = "failed" => DOMAIN disk' = 0..orgblks'-1)
    <3>1. CASE Fail \/ LookupNotDir
      BY <3>1 DEF Fail, LookupNotDir, rollback
    <3>2. CASE Kill
      BY <3>2 DEF Kill
    <3>3. CASE Work /\ ~LookupNotDir
      <4>1. ~LookupData
        <5>1. SUFFICES ASSUME LookupData PROVE FALSE
          OBVIOUS
        <5>2. phase = "run"
          BY <5>1 DEF LookupData, At
        <5>3. PICK inds, thrown, P : Active(inds, thrown, P)
          BY <5>2 DEF IInv, Active
        <5> QED
          BY <5>1, <5>3, NoData
      <4>2. phase' \in {"run", "done"}
        BY <3>3, <4>1 DEF Work, InitFree, AllocRoot, DirInit, Dots, Get, Eof, LookupMiss, LookupDir,
           LookupAgain, AddEntry, AddBlock, NewBlock, Sync, SyncDir, SyncRoot, SyncFree, WriteSuper,
           InsStep, LooksUp, At, progVars
      <4> QED
        BY <4>2
    <3>4. CASE UNCHANGED vars
      BY <2>2, <3>4 DEF vars, progVars, spaceVars, ArchiveStays
    <3> QED
      BY <3>1, <3>2, <3>3, <3>4 DEF Next
  <2> QED
    BY <2>2, <2>3, <2>4 DEF ArchiveStays
<1> HIDE DEF Kept
<1>3. Spec /\ ~DataAsDir(files) => []Kept
  BY <1>1, <1>2, Inductive, PTL DEF Spec
<1> QED
  BY <1>3 DEF Kept
=============================================================================
