--------------------------- MODULE ExtentMapProofs ---------------------------
(***************************************************************************)
(* Proofs about ExtentMap for every number of directories, of direct and   *)
(* indirect extents, every chunk size and every medium: insBlock keeps to  *)
(* the blocks it was given, and the maps it builds are right.               *)
(***************************************************************************)
EXTENDS ExtentMap, FiniteSets, FiniteSetTheorems, SequenceTheorems, TLAPS
-----------------------------------------------------------------------------
(* Numbers: a set of them has a least one.                                  *)
LEMMA Least ==
    ASSUME NEW T \in SUBSET Nat, T # {}
    PROVE  \E x \in T : \A y \in T : x <= y
<1> DEFINE F == {0..n : n \in T}
<1>1. F \subseteq FiniteSubsetsOf(Nat) /\ F # {}
  <2>1. ASSUME NEW n \in T PROVE 0..n \in FiniteSubsetsOf(Nat)
    <3>1. n \in Int /\ 0 \in Int /\ 0..n \subseteq Nat
      OBVIOUS
    <3>2. IsFiniteSet(0..n)
      BY <3>1, FS_Interval
    <3> QED
      BY <3>1, <3>2 DEF FiniteSubsetsOf
  <2> QED
    BY <2>1
<1>2. IsWellFoundedOn(StrictSubsetOrdering(Nat), FiniteSubsetsOf(Nat))
  BY FS_StrictSubsetOrderingWellFounded
<1>3. PICK I \in F : \A J \in F : ~(<<J, I>> \in StrictSubsetOrdering(Nat))
  <2> HIDE DEF F
  <2> QED
    BY <1>1, <1>2, WFMin
<1>4. PICK x \in T : I = 0..x
  OBVIOUS
<1>5. ASSUME NEW y \in T, y < x PROVE FALSE
  <2>1. 0..y \in F /\ 0..y \subseteq Nat /\ I \subseteq Nat
    BY <1>4
  <2>2. 0..y \subseteq I /\ 0..y # I
    BY <1>4, <1>5
  <2>3. <<0..y, I>> \in StrictSubsetOrdering(Nat)
    BY <2>1, <2>2 DEF StrictSubsetOrdering
  <2> QED
    BY <1>3, <2>1, <2>3
<1> QED
  BY <1>5

(* So what holds of 0, and of a number when it does of the one below, holds *)
(* of all up to n: such a set of them has no first exception.               *)
LEMMA UpTo ==
    ASSUME NEW n \in Nat, NEW T, 0 \in T,
           \A i \in 1..n : i - 1 \in T => i \in T
    PROVE  0..n \subseteq T
<1>1. SUFFICES ASSUME (0..n) \ T # {} PROVE FALSE
  OBVIOUS
<1>2. PICK x \in (0..n) \ T : \A y \in (0..n) \ T : x <= y
  <2>1. (0..n) \ T \in SUBSET Nat
    OBVIOUS
  <2> QED
    BY <1>1, <2>1, Least
<1>3. x # 0 /\ x \in 1..n /\ x - 1 \in 0..n
  BY <1>2
<1>4. x - 1 \in T
  BY <1>2, <1>3
<1> QED
  BY <1>2, <1>3, <1>4
-----------------------------------------------------------------------------

(* What is proved of the block layer holds of the abstract file.            *)
BP == INSTANCE BlockClientsProofs WITH disk <- [b \in DOMAIN disk |-> Abstract(disk[b])]
-----------------------------------------------------------------------------
(* The invariant.  What the code has nowhere and the proofs need is inds:   *)
(* the indirect blocks that hold extents, for each map in their order, and  *)
(* lost: those of maps that FsMaker threw away (none in this module).       *)
Extents == [de_off : Nat, de_blkno : Nat, de_nblks : Nat \ {0}]
Objects == [di_nExtents : Nat, di_directExtent : Seq(Extents), di_rootIndExt : Nat]
IndExts == [kind : {"iex"}, ie_dext : Seq(Extents), ie_next : Nat \union {TARBLK_NONE}]
Frames == [at : {"direct", "walk", "link", "fill"}, obj : Handles, de : Extents,
           ind_off : Nat, new : Nat]

TypeInv ==
    /\ core \in [Handles -> Objects]
    /\ ins \in Frames \union {NoFrame}
    /\ inodeNum \in Nat
    /\ mapped \in [Handles -> Seq(Nat)]
    /\ phase \in {"run", "failed", "killed", "done"}

Direct(h) == core[h].di_directExtent
Dext(b) == disk[b].ie_dext

(* Each map's chain: full but for its last block, which links to nothing,   *)
(* or already to the one that insBlock is about to fill.                    *)
LinkOf(inds, h, k) ==
    IF k < Len(inds[h]) THEN inds[h][k + 1]
    ELSE IF ins.at = "fill" /\ ins.obj = h THEN ins.new
    ELSE TARBLK_NONE

BlockOf(inds, h, k) ==
    LET b == inds[h][k]
    IN  /\ b \in used["iex"]
        /\ disk[b] \in IndExts
        /\ disk[b].ie_next = LinkOf(inds, h, k)
        /\ Len(Dext(b)) <= MAX_INDEXT
        /\ k < Len(inds[h]) => Len(Dext(b)) = MAX_INDEXT

CoreOf(inds, h) ==
    /\ Len(Direct(h)) <= MAX_DINODE_DIRECT
    /\ core[h].di_nExtents = Len(Direct(h)) + Len(inds[h])
    /\ Len(inds[h]) > 0 => /\ Len(Direct(h)) = MAX_DINODE_DIRECT
                           /\ core[h].di_rootIndExt = inds[h][1]

BlocksOf(inds) == \A h \in Handles : \A k \in 1..Len(inds[h]) : BlockOf(inds, h, k)

NoneShared(inds) ==
    \A g, h \in Handles : \A j \in 1..Len(inds[g]), k \in 1..Len(inds[h]) :
        inds[g][j] = inds[h][k] => g = h /\ j = k

Chained(inds, b) == \E h \in Handles : \E k \in 1..Len(inds[h]) : b = inds[h][k]
Taken(b) == ins.at \in {"link", "fill"} /\ b = ins.new

FrameOf(inds) ==
    LET h == ins.obj
        n == Len(inds[h])
    IN  /\ ins.at = "walk" => \E k \in 1..n : ins.ind_off = inds[h][k]
        /\ ins.at = "link" => n > 0 /\ ins.ind_off = inds[h][n]
        /\ ins.at \in {"link", "fill"} => ins.new \in used["iex"] /\ ~Chained(inds, ins.new)
        /\ ins.at = "link" => Len(Dext(inds[h][n])) = MAX_INDEXT
        /\ ins.at = "fill" =>
              /\ Len(Direct(h)) = MAX_DINODE_DIRECT
              /\ IF n = 0 THEN core[h].di_rootIndExt = ins.new
                 ELSE Len(Dext(inds[h][n])) = MAX_INDEXT

ChainInv(inds, lost) ==
    /\ inds \in [Handles -> Seq(Nat)]
    /\ \A h \in Handles : CoreOf(inds, h)
    /\ BlocksOf(inds)
    /\ NoneShared(inds)
    /\ \A b \in used["iex"] : Chained(inds, b) \/ Taken(b) \/ b \in lost
    /\ ins # NoFrame => FrameOf(inds)

(* Every extent, wherever it is, says the truth, and every offset has one.  *)
Right(s, e) ==
    /\ e.de_off + e.de_nblks <= Len(s)
    /\ \A j \in 1..e.de_nblks : s[e.de_off + j] = e.de_blkno + j - 1

AllRight(exts, s) == \A i \in 1..Len(exts) : Right(s, exts[i])
Somewhere(exts, off) == \E i \in 1..Len(exts) : Covers(exts[i], off)

Exts(inds, h, k) == IF k = 0 THEN Direct(h) ELSE Dext(inds[h][k])

ExtentsOf(inds, h) ==
    /\ \A k \in 0..Len(inds[h]) : AllRight(Exts(inds, h, k), mapped[h])
    /\ \A off \in 0..Len(mapped[h])-1 :
          \E k \in 0..Len(inds[h]) : Somewhere(Exts(inds, h, k), off)

ExtentInv(inds) == \A h \in Handles : ExtentsOf(inds, h)

(* The blocks of a map ascend, and what is about to be inserted comes last. *)
Ascends(s) == \A i, j \in 1..Len(s) : i < j => s[i] < s[j]
Below(s, b) == \A i \in 1..Len(s) : s[i] < b

GrownInv ==
    /\ \A h \in Handles : Ascends(mapped[h]) /\ Below(mapped[h], blks)
    /\ \A h \in Dirs : \A i \in 1..Len(mapped[h]) : mapped[h][i] \in used["dir"]
    /\ ins # NoFrame =>
          /\ ins.de.de_off = Len(mapped[ins.obj])
          /\ Below(mapped[ins.obj], ins.de.de_blkno)
          /\ ins.de.de_blkno + ins.de.de_nblks <= blks
          /\ ins.obj \in Dirs => ins.de.de_nblks = 1 /\ ins.de.de_blkno \in used["dir"]

(* The dinodes that were given out are the first of those in the map of the *)
(* free inode, and those left of its chunk are the rest, in order.          *)
Dinodes == IF ins # NoFrame /\ ins.obj = TARFS_FREE_INO THEN mapped[TARFS_FREE_INO] \o Grown(ins.de)
           ELSE mapped[TARFS_FREE_INO]

InodeInv ==
    LET n == Len(Dinodes)
    IN  /\ inodeNum <= n
        /\ \A i \in 1..inodeNum : Dinodes[i] \in used["dinode"]
        /\ ~HasFree("dinode") => inodeNum = n
        /\ HasFree("dinode") =>
              /\ inodeNum < n
              /\ \A i \in inodeNum+1..n : Dinodes[i] = head["dinode"] + (i - inodeNum - 1)
              /\ Chain("dinode", Dinodes[n])

RunInv(inds, lost) == ChainInv(inds, lost) /\ ExtentInv(inds) /\ GrownInv /\ InodeInv

IInv == BP!IInv /\ TypeInv /\ (phase = "run" => \E inds : RunInv(inds, {}))
-----------------------------------------------------------------------------
(* The block layer under this client.                                       *)
LEMMA FileIs ==
    ASSUME BP!IInv
    PROVE  /\ orgblks \in Nat /\ blks \in Nat /\ orgblks <= blks /\ blks <= MaxBlks
           /\ DOMAIN disk = 0..blks-1
           /\ head \in [Managers -> Nat \union {TARBLK_NONE}]
           /\ phase = "run" => used \in [Managers -> SUBSET (orgblks..blks-1)]
<1>1. BP!TypeOK
  BY DEF BP!IInv
<1>2. DOMAIN [b \in DOMAIN disk |-> Abstract(disk[b])] = 0..blks-1
  BY <1>1 DEF BP!TypeOK
<1>3. DOMAIN disk = 0..blks-1
  BY <1>2
<1> QED
  BY <1>1, <1>3 DEF BP!TypeOK, BP!TARBLK_NONE, TARBLK_NONE

LEMMA FreeSeen ==
    ASSUME NEW c, NEW x
    PROVE  Abstract(c) = Free(x) <=> c = Free(x)
<1>1. Free(x).kind = "free"
  BY DEF Free
<1>2. ASSUME Abstract(c) = Free(x) PROVE c = Free(x)
  <2>1. CASE c.kind \in {"tar", "free"}
    BY <1>2, <2>1 DEF Abstract
  <2>2. CASE c.kind \notin {"tar", "free"}
    <3>1. Abstract(c).kind \in {"super", "data"}
      BY <2>2 DEF Abstract
    <3> QED
      BY <1>1, <1>2, <3>1
  <2> QED
    BY <2>1, <2>2
<1>3. ASSUME c = Free(x) PROVE Abstract(c) = Free(x)
  BY <1>1, <1>3 DEF Abstract
<1> QED
  BY <1>2, <1>3

LEMMA ChainSeen ==
    ASSUME BP!IInv, NEW m \in Managers, HasFree(m), NEW e \in 0..blks-1
    PROVE  BP!Chain(m, e) <=> Chain(m, e)
<1>1. /\ blks \in Nat /\ DOMAIN disk = 0..blks-1 /\ head[m] \in Nat
  BY FileIs DEF HasFree
<1>2. ASSUME head[m] <= e, NEW b \in head[m]..e
      PROVE  b \in DOMAIN disk
  BY <1>1
<1> QED
  BY <1>1, <1>2, FreeSeen DEF BP!Chain, Chain, BP!Free, BP!TARBLK_NONE, Free, TARBLK_NONE

(* A write of blocks, as the block layer sees it.                           *)
LEMMA WriteSeen ==
    ASSUME BP!IInv, NEW bufp, NEW abuf, NEW b \in 0..blks, NEW n \in Nat,
           \A i \in 0..n-1 : Abstract(bufp[i]) = abuf[i],
           writeBlock(bufp, b, n)
    PROVE  BP!writeBlock(abuf, b, n)
<1>1. blks \in Nat /\ DOMAIN disk = 0..blks-1
  BY FileIs
<1>2. /\ blks' = IF b + n > blks THEN b + n ELSE blks
      /\ disk' = [c \in 0..blks'-1 |-> IF c \in b..b+n-1 THEN bufp[c - b] ELSE disk[c]]
  BY DEF writeBlock
<1>3. [c \in DOMAIN disk' |-> Abstract(disk'[c])]
        = [c \in 0..blks'-1 |-> Abstract(disk'[c])]
  BY <1>2
<1>4. ASSUME NEW c \in 0..blks'-1
      PROVE  Abstract(disk'[c]) =
               IF c \in b..b+n-1 THEN abuf[c - b]
               ELSE [d \in DOMAIN disk |-> Abstract(disk[d])][c]
  <2>1. CASE c \in b..b+n-1
    <3>1. c - b \in 0..n-1 /\ disk'[c] = bufp[c - b]
      BY <1>2, <2>1
    <3> QED
      BY <2>1, <3>1
  <2>2. CASE c \notin b..b+n-1
    <3>1. c \in DOMAIN disk /\ disk'[c] = disk[c]
      BY <1>1, <1>2, <2>2
    <3> QED
      BY <2>2, <3>1
  <2> QED
    BY <2>1, <2>2
<1>5. [c \in DOMAIN disk' |-> Abstract(disk'[c])]
        = [c \in 0..blks'-1 |-> IF c \in b..b+n-1 THEN abuf[c - b]
                                ELSE [d \in DOMAIN disk |-> Abstract(disk[d])][c]]
  BY <1>3, <1>4
<1> QED
  BY <1>2, <1>5 DEF BP!writeBlock

(* allocBlock is what the client of BlockClients calls.                     *)
LEMMA AllocSeen ==
    ASSUME BP!IInv, phase = "run", phase' = phase,
           NEW m \in Managers, Fits(m), allocBlock(m)
    PROVE  BP!Alloc(m)
<1>1. blks \in Nat /\ DOMAIN disk = 0..blks-1 /\ head \in [Managers -> Nat \union {TARBLK_NONE}]
  BY FileIs
<1>2. Bulks[m] \in Nat /\ Bulks[m] >= 2
  BY BulksAssumption
<1>3. BP!HandOut(m)
  BY DEF allocBlock, HandOut, NextBlock, BP!HandOut, BP!NextBlock, BP!TARBLK_NONE, TARBLK_NONE
<1>4. CASE Refill(m)
  <2>1. \A i \in 0..Bulks[m]-1 :
           Abstract(FreeChunk(blks, Bulks[m])[i]) = BP!FreeChunk(blks, Bulks[m])[i]
    BY DEF FreeChunk, BP!FreeChunk, Free, BP!Free, BP!TARBLK_NONE, TARBLK_NONE, Abstract
  <2>2. writeBlock(FreeChunk(blks, Bulks[m]), blks, Bulks[m]) /\ blks \in 0..blks
    BY <1>1, <1>4 DEF Refill
  <2>3. BP!writeBlock(BP!FreeChunk(blks, Bulks[m]), blks, Bulks[m])
    BY <1>2, <2>1, <2>2, WriteSeen
  <2>4. BP!Refill(m)
    BY <1>4, <2>3 DEF Refill, BP!Refill, BP!TARBLK_NONE, TARBLK_NONE
  <2> QED
    BY <1>3, <2>4 DEF allocBlock, BP!Alloc, BP!allocBlock, Fits, BP!Fits, HasFree, BP!HasFree,
       BP!TARBLK_NONE, TARBLK_NONE
<1>5. CASE PopFree(m)
  <2>1. HasFree(m) /\ disk' = disk /\ blks' = blks
    BY <1>5 DEF PopFree, HasFree
  <2>2. PICK e \in 0..blks-1 : Chain(m, e)
    <3>1. BP!HasFree(m)
      BY <2>1 DEF HasFree, BP!HasFree, BP!TARBLK_NONE, TARBLK_NONE
    <3>2. \E e \in 0..blks-1 : BP!Chain(m, e)
      BY <3>1 DEF BP!IInv, BP!ChainsIntact, BP!ChainsEnd
    <3> QED
      BY <2>1, <3>2, ChainSeen
  <2>3. head[m] \in 0..blks-1 /\ head[m] \in head[m]..e
    BY <1>1, <2>1, <2>2 DEF Chain, HasFree
  <2>4. PICK x : disk[head[m]] = Free(x)
    BY <2>2, <2>3 DEF Chain
  <2>5. [d \in DOMAIN disk |-> Abstract(disk[d])][head[m]] = disk[head[m]]
    BY <1>1, <2>3, <2>4, FreeSeen
  <2>6. BP!PopFree(m)
    BY <1>5, <2>1, <2>5 DEF PopFree, BP!PopFree, BP!TARBLK_NONE, TARBLK_NONE
  <2> QED
    BY <1>3, <2>1, <2>6 DEF allocBlock, BP!Alloc, BP!allocBlock, HasFree, BP!HasFree,
       BP!TARBLK_NONE, TARBLK_NONE
<1> QED
  BY <1>4, <1>5 DEF allocBlock

(* The same for the write of a block that was handed out.                   *)
LEMMA UsedSeen ==
    ASSUME BP!IInv, phase = "run", phase' = phase, UNCHANGED <<orgblks, head, used, calls>>,
           NEW m \in Managers, NEW b \in used[m],
           NEW c, c.kind \notin {"tar", "free", "super"}, writeIex(c, b)
    PROVE  /\ b \in BP!AllUsed /\ BP!WriteUsed(b)
           /\ blks' = blks /\ b \in 0..blks-1
           /\ disk' = [disk EXCEPT ![b] = c]
<1>1. /\ blks \in Nat /\ DOMAIN disk = 0..blks-1
      /\ used \in [Managers -> SUBSET (orgblks..blks-1)] /\ orgblks \in Nat
  BY FileIs
<1>2. b \in BP!AllUsed /\ b \in 0..blks-1 /\ b \in 0..blks
  BY <1>1 DEF BP!AllUsed
<1>3. writeBlock([i \in 0..0 |-> c], b, 1)
  BY DEF writeIex
<1>4. \A i \in 0..1-1 : Abstract([j \in 0..0 |-> c][i]) = [j \in 0..0 |-> BP!DataBlock][i]
  BY DEF Abstract, BP!DataBlock
<1>5. BP!writeBlock([j \in 0..0 |-> BP!DataBlock], b, 1)
  BY <1>2, <1>3, <1>4, WriteSeen
<1>6. blks' = blks
  BY <1>1, <1>2, <1>3 DEF writeBlock
<1>7. disk' = [d \in 0..blks-1 |-> IF d \in b..b+1-1 THEN [i \in 0..0 |-> c][d - b] ELSE disk[d]]
  BY <1>3, <1>6 DEF writeBlock
<1>8. ASSUME NEW d \in 0..blks-1
      PROVE  (IF d \in b..b+1-1 THEN [i \in 0..0 |-> c][d - b] ELSE disk[d])
               = IF d = b THEN c ELSE disk[d]
  BY <1>2
<1>9. disk' = [d \in 0..blks-1 |-> IF d = b THEN c ELSE disk[d]]
  BY <1>7, <1>8
<1>10. disk' = [disk EXCEPT ![b] = c]
  BY <1>1, <1>9
<1> QED
  BY <1>2, <1>5, <1>6, <1>10 DEF BP!WriteUsed

LEMMA IexSeen ==
    ASSUME BP!IInv, phase = "run", phase' = phase, UNCHANGED <<orgblks, head, used, calls>>,
           NEW b \in used["iex"], NEW c, c.kind = "iex", writeIex(c, b)
    PROVE  /\ b \in BP!AllUsed /\ BP!WriteUsed(b)
           /\ blks' = blks /\ b \in 0..blks-1
           /\ disk' = [disk EXCEPT ![b] = c]
<1>1. "iex" \in Managers /\ c.kind \notin {"tar", "free", "super"}
  BY IndExtAssumption
<1> QED
  BY <1>1, UsedSeen

LEMMA FailSeen ==
    ASSUME BP!IInv, phase = "run", rollback, phase' = "failed"
    PROVE  BP!Fail
<1>1. orgblks \in Nat /\ blks \in Nat /\ orgblks <= blks /\ DOMAIN disk = 0..blks-1
  BY FileIs
<1>2. disk' = [b \in 0..orgblks-1 |-> disk[b]] /\ blks' = orgblks
  BY DEF rollback
<1>3. [b \in DOMAIN disk' |-> Abstract(disk'[b])]
        = [b \in 0..orgblks-1 |-> [d \in DOMAIN disk |-> Abstract(disk[d])][b]]
  BY <1>1, <1>2
<1> QED
  BY <1>2, <1>3 DEF rollback, BP!Fail, BP!rollback
-----------------------------------------------------------------------------
(* Extents and the blocks they stand for.                                   *)
LEMMA GrownIs ==
    ASSUME NEW de \in Extents, NEW s \in Seq(Nat)
    PROVE  /\ Grown(de) \in Seq(Nat) /\ Len(Grown(de)) = de.de_nblks
           /\ s \o Grown(de) \in Seq(Nat)
           /\ Len(s \o Grown(de)) = Len(s) + de.de_nblks
           /\ \A i \in 1..Len(s) : (s \o Grown(de))[i] = s[i]
           /\ \A i \in 1..de.de_nblks : (s \o Grown(de))[Len(s) + i] = de.de_blkno + i - 1
<1>1. de.de_nblks \in Nat /\ de.de_blkno \in Nat
  BY DEF Extents
<1>2. /\ Grown(de) \in Seq(Nat) /\ Len(Grown(de)) = de.de_nblks
      /\ \A i \in 1..de.de_nblks : Grown(de)[i] = de.de_blkno + i - 1
  <2>1. PICK n \in Nat, b \in Nat : n = de.de_nblks /\ b = de.de_blkno
    BY <1>1
  <2>2. Grown(de) = [i \in 1..n |-> b + i - 1]
    BY <2>1 DEF Grown
  <2>3. \A i \in 1..n : b + i - 1 \in Nat
    OBVIOUS
  <2>4. Grown(de) \in Seq(Nat) /\ Len(Grown(de)) = n
    BY <2>2, <2>3
  <2> QED
    BY <2>1, <2>2, <2>4
<1>3. /\ s \o Grown(de) \in Seq(Nat)
      /\ Len(s \o Grown(de)) = Len(s) + de.de_nblks
      /\ \A i \in 1..Len(s) + de.de_nblks :
            (s \o Grown(de))[i] = IF i <= Len(s) THEN s[i] ELSE Grown(de)[i - Len(s)]
  <2>1. Grown(de) \in Seq(Nat) /\ Len(Grown(de)) = de.de_nblks
    BY <1>2
  <2> QED
    BY <2>1, ConcatProperties
<1>4. Len(s) \in Nat
  OBVIOUS
<1>5. ASSUME NEW i \in 1..de.de_nblks
      PROVE  (s \o Grown(de))[Len(s) + i] = de.de_blkno + i - 1
  <2>1. Len(s) + i \in 1..Len(s) + de.de_nblks /\ ~(Len(s) + i <= Len(s)) /\ Len(s) + i - Len(s) = i
    BY <1>1, <1>4
  <2> QED
    BY <1>2, <1>3, <2>1
<1> QED
  BY <1>1, <1>2, <1>3, <1>4, <1>5

LEMMA RightKept ==
    ASSUME NEW s \in Seq(Nat), NEW e \in Extents, NEW de \in Extents, Right(s, e)
    PROVE  Right(s \o Grown(de), e)
<1>1. /\ Len(s \o Grown(de)) = Len(s) + de.de_nblks
      /\ \A i \in 1..Len(s) : (s \o Grown(de))[i] = s[i]
  BY GrownIs
<1>2. e.de_off \in Nat /\ e.de_nblks \in Nat /\ de.de_nblks \in Nat /\ Len(s) \in Nat
  BY DEF Extents
<1>3. e.de_off + e.de_nblks <= Len(s) + de.de_nblks
  BY <1>2 DEF Right
<1>4. ASSUME NEW j \in 1..e.de_nblks
      PROVE  (s \o Grown(de))[e.de_off + j] = e.de_blkno + j - 1
  <2>1. e.de_off + j \in 1..Len(s)
    BY <1>2 DEF Right
  <2> QED
    BY <1>1, <2>1 DEF Right
<1> QED
  BY <1>1, <1>3, <1>4 DEF Right

LEMMA RightNew ==
    ASSUME NEW s \in Seq(Nat), NEW de \in Extents, de.de_off = Len(s)
    PROVE  Right(s \o Grown(de), de)
BY GrownIs DEF Right, Extents

(* The reason why insBlock need not look at offsets: a block that follows   *)
(* an extent on the disk and is above all that were inserted can only be    *)
(* what comes next in the file.                                             *)
LEMMA RightMerged ==
    ASSUME NEW s \in Seq(Nat), NEW e \in Extents, NEW de \in Extents,
           Right(s, e), Follows(e, de), de.de_off = Len(s), Ascends(s), Below(s, de.de_blkno),
           NEW m \in Extents, m = Extent(e.de_off, e.de_blkno, e.de_nblks + de.de_nblks)
    PROVE  /\ Right(s \o Grown(de), m)
           /\ m.de_off + m.de_nblks = Len(s) + de.de_nblks
<1>1. PICK o \in Nat, b \in Nat, n \in Nat, k \in Nat, z \in Nat :
         /\ e.de_off = o /\ e.de_blkno = b /\ e.de_nblks = n /\ n # 0
         /\ de.de_nblks = k /\ z = Len(s)
  BY DEF Extents
<1>2. /\ m.de_off = o /\ m.de_blkno = b /\ m.de_nblks = n + k
      /\ de.de_blkno = b + n /\ o + n <= z
      /\ \A j \in 1..n : s[o + j] = b + j - 1
  BY <1>1 DEF Right, Follows, Extent
<1>3. o + n = z
  <2> SUFFICES ASSUME o + n < z PROVE FALSE
    BY <1>1, <1>2
  <2>1. o + n \in 1..z /\ o + n + 1 \in 1..z /\ o + n < o + n + 1 /\ n \in 1..n
    BY <1>1
  <2>2. s[o + n] = b + n - 1
    BY <1>2, <2>1
  <2>3. s[o + n] < s[o + n + 1] /\ s[o + n + 1] < b + n
    BY <1>1, <1>2, <2>1 DEF Ascends, Below
  <2>4. s[o + n + 1] \in Nat
    BY <1>1, <2>1
  <2> QED
    BY <2>2, <2>3, <2>4
<1>4. /\ Len(s \o Grown(de)) = z + k
      /\ \A i \in 1..z : (s \o Grown(de))[i] = s[i]
      /\ \A i \in 1..k : (s \o Grown(de))[z + i] = b + n + i - 1
  <2>1. PICK t : t = s \o Grown(de)
    OBVIOUS
  <2>2. /\ Len(t) = Len(s) + de.de_nblks
        /\ \A i \in 1..Len(s) : t[i] = s[i]
        /\ \A i \in 1..de.de_nblks : t[Len(s) + i] = de.de_blkno + i - 1
    BY <2>1, GrownIs
  <2>3. /\ Len(t) = z + k
        /\ \A i \in 1..z : t[i] = s[i]
        /\ \A i \in 1..k : t[z + i] = b + n + i - 1
    BY <1>1, <1>2, <2>2
  <2> QED
    BY <2>1, <2>3
<1>5. ASSUME NEW j \in 1..n+k
      PROVE  (s \o Grown(de))[o + j] = b + j - 1
  <2>1. CASE j <= n
    <3>1. j \in 1..n /\ o + j \in 1..z
      BY <1>3, <2>1
    <3> QED
      BY <1>2, <1>4, <3>1
  <2>2. CASE j > n
    <3>1. j - n \in 1..k /\ o + j = z + (j - n)
      BY <1>3, <2>2
    <3>2. (s \o Grown(de))[z + (j - n)] = b + n + (j - n) - 1
      BY <1>4, <3>1
    <3> QED
      <4>1. b + n + (j - n) - 1 = b + j - 1
        BY <1>1, <1>5
      <4> QED
        BY <3>1, <3>2, <4>1
  <2>3. j <= n \/ j > n
    OBVIOUS
  <2> QED
    BY <2>1, <2>2, <2>3, Zenon
<1>6. o + (n + k) <= Len(s \o Grown(de))
  BY <1>3, <1>4
<1>7. m.de_off + m.de_nblks = Len(s) + de.de_nblks
  <2>1. o + (n + k) = z + k
    BY <1>3
  <2> QED
    BY <1>1, <1>2, <2>1, Zenon
<1>8. Right(s \o Grown(de), m)
  BY <1>2, <1>5, <1>6 DEF Right
<1> QED
  BY <1>7, <1>8
-----------------------------------------------------------------------------
(* Arrays of extents.                                                       *)
LEMMA MergeIs ==
    ASSUME NEW exts \in Seq(Extents), NEW de \in Extents, Merges(exts, de)
    PROVE  /\ Merge(exts, de) \in Seq(Extents) /\ Len(Merge(exts, de)) = Len(exts)
           /\ \E i \in 1..Len(exts) :
                 /\ Follows(exts[i], de)
                 /\ Merge(exts, de)[i]
                       = Extent(exts[i].de_off, exts[i].de_blkno, exts[i].de_nblks + de.de_nblks)
                 /\ \A j \in 1..Len(exts) : j # i => Merge(exts, de)[j] = exts[j]
<1> DEFINE T == {i \in 1..Len(exts) : Follows(exts[i], de)}
           First(i) == /\ i \in DOMAIN exts /\ Follows(exts[i], de)
                       /\ \A j \in 1..i-1 : ~Follows(exts[j], de)
<1>1. DOMAIN exts = 1..Len(exts) /\ Len(exts) \in Nat
  OBVIOUS
<1>2. PICK x \in T : \A y \in T : x <= y
  <2>1. T \in SUBSET Nat /\ T # {}
    BY <1>1 DEF Merges
  <2> QED
    BY <2>1, Least
<1>3. First(x)
  BY <1>1, <1>2
<1>4. PICK i : First(i) /\ i = CHOOSE j \in DOMAIN exts : Follows(exts[j], de)
                                    /\ \A k \in 1..j-1 : ~Follows(exts[k], de)
  BY <1>3
<1>5. Merge(exts, de) = [exts EXCEPT ![i].de_nblks = @ + de.de_nblks]
  BY <1>4 DEF Merge
<1>6. i \in 1..Len(exts) /\ Follows(exts[i], de) /\ exts[i] \in Extents
  BY <1>1, <1>4
<1>7. exts[i] = Extent(exts[i].de_off, exts[i].de_blkno, exts[i].de_nblks)
  BY <1>6 DEF Extents, Extent
<1> DEFINE e == Extent(exts[i].de_off, exts[i].de_blkno, exts[i].de_nblks + de.de_nblks)
<1>8. e \in Extents /\ [exts[i] EXCEPT !.de_nblks = @ + de.de_nblks] = e
  <2>1. PICK o \in Nat, b \in Nat, n \in Nat, k \in Nat :
           /\ exts[i] = Extent(o, b, n) /\ exts[i].de_off = o /\ exts[i].de_blkno = b
           /\ exts[i].de_nblks = n /\ n # 0 /\ de.de_nblks = k /\ k # 0
    BY <1>6, <1>7 DEF Extents
  <2>2. e = Extent(o, b, n + k) /\ n + k \in Nat \ {0}
    BY <2>1
  <2>3. e \in Extents
    BY <2>2 DEF Extents, Extent
  <2>4. [exts[i] EXCEPT !.de_nblks = @ + de.de_nblks] = Extent(o, b, n + k)
    BY <2>1 DEF Extent
  <2> QED
    BY <2>2, <2>3, <2>4
<1>9. Merge(exts, de) = [exts EXCEPT ![i] = e]
  BY <1>5, <1>8
<1> HIDE DEF e
<1>10. /\ Merge(exts, de) \in Seq(Extents) /\ Len(Merge(exts, de)) = Len(exts)
       /\ Merge(exts, de)[i] = e
       /\ \A j \in 1..Len(exts) : j # i => Merge(exts, de)[j] = exts[j]
  BY <1>1, <1>6, <1>8, <1>9, ExceptSeq
<1> QED
  BY <1>6, <1>10 DEF e

(* What an array must be once de is in it: right about the longer file, and *)
(* nothing it covered is lost.                                              *)
Holds(new, exts, s, de) ==
    /\ new \in Seq(Extents)
    /\ AllRight(new, s \o Grown(de))
    /\ \A off \in Nat : Somewhere(exts, off) => Somewhere(new, off)
    /\ \A off \in Len(s)..Len(s)+de.de_nblks-1 : Somewhere(new, off)

LEMMA AllKept ==
    ASSUME NEW exts \in Seq(Extents), NEW s \in Seq(Nat), NEW de \in Extents, AllRight(exts, s)
    PROVE  AllRight(exts, s \o Grown(de))
<1> SUFFICES ASSUME NEW i \in 1..Len(exts) PROVE Right(s \o Grown(de), exts[i])
  BY DEF AllRight
<1>1. exts[i] \in Extents /\ Right(s, exts[i])
  BY DEF AllRight
<1> QED
  BY <1>1, RightKept

LEMMA MergeHolds ==
    ASSUME NEW exts \in Seq(Extents), NEW s \in Seq(Nat), NEW de \in Extents,
           AllRight(exts, s), Merges(exts, de),
           de.de_off = Len(s), Ascends(s), Below(s, de.de_blkno)
    PROVE  Holds(Merge(exts, de), exts, s, de)
<1> DEFINE new == Merge(exts, de)
<1>1. PICK i \in 1..Len(exts) :
         /\ Follows(exts[i], de)
         /\ new[i] = Extent(exts[i].de_off, exts[i].de_blkno, exts[i].de_nblks + de.de_nblks)
         /\ \A j \in 1..Len(exts) : j # i => new[j] = exts[j]
  BY MergeIs
<1>2. new \in Seq(Extents) /\ Len(new) = Len(exts)
  BY MergeIs
<1> HIDE DEF new
<1>3. exts[i] \in Extents /\ new[i] \in Extents /\ Right(s, exts[i])
  BY <1>2 DEF AllRight
<1>4. /\ Right(s \o Grown(de), new[i])
      /\ new[i].de_off + new[i].de_nblks = Len(s) + de.de_nblks
  BY <1>1, <1>3, RightMerged
<1>5. AllRight(exts, s \o Grown(de))
  BY AllKept
<1>6. AllRight(new, s \o Grown(de))
  BY <1>1, <1>2, <1>4, <1>5 DEF AllRight
<1>7. /\ exts[i].de_off \in Nat /\ exts[i].de_nblks \in Nat /\ de.de_nblks \in Nat /\ Len(s) \in Nat
      /\ new[i].de_off = exts[i].de_off /\ new[i].de_nblks = exts[i].de_nblks + de.de_nblks
      /\ exts[i].de_off + exts[i].de_nblks <= Len(s)
  BY <1>1, <1>3 DEF Extents, Extent, Right
<1>8. ASSUME NEW off \in Nat, Somewhere(exts, off) PROVE Somewhere(new, off)
  <2>1. PICK j \in 1..Len(exts) : Covers(exts[j], off)
    BY <1>8 DEF Somewhere
  <2>2. CASE j = i
    <3>1. Covers(new[i], off)
      BY <1>7, <2>1, <2>2 DEF Covers
    <3> QED
      BY <1>2, <3>1 DEF Somewhere
  <2>3. CASE j # i
    BY <1>1, <1>2, <2>1, <2>3 DEF Somewhere
  <2> QED
    BY <2>2, <2>3
<1>9. ASSUME NEW off \in Len(s)..Len(s)+de.de_nblks-1 PROVE Somewhere(new, off)
  <2>1. PICK o \in Nat, n \in Nat, k \in Nat, z \in Nat :
           /\ new[i].de_off = o /\ new[i].de_nblks = n + k /\ de.de_nblks = k /\ z = Len(s)
           /\ o + n <= z /\ o + (n + k) = z + k
    BY <1>4, <1>7
  <2>2. o <= off /\ off < o + (n + k)
    BY <2>1
  <2>3. Covers(new[i], off)
    BY <2>1, <2>2 DEF Covers
  <2> QED
    BY <1>2, <2>3 DEF Somewhere
<1>10. Holds(new, exts, s, de)
  BY <1>2, <1>6, <1>8, <1>9 DEF Holds
<1> QED
  BY <1>10 DEF new

LEMMA AppendHolds ==
    ASSUME NEW exts \in Seq(Extents), NEW s \in Seq(Nat), NEW de \in Extents,
           AllRight(exts, s), de.de_off = Len(s)
    PROVE  Holds(Append(exts, de), exts, s, de)
<1> DEFINE new == Append(exts, de)
<1>1. /\ new \in Seq(Extents) /\ Len(new) = Len(exts) + 1 /\ Len(exts) \in Nat
      /\ \A i \in 1..Len(exts) : new[i] = exts[i]
      /\ new[Len(exts) + 1] = de
  BY AppendProperties
<1> HIDE DEF new
<1>2. AllRight(exts, s \o Grown(de)) /\ Right(s \o Grown(de), de)
  BY AllKept, RightNew
<1>3. AllRight(new, s \o Grown(de))
  BY <1>1, <1>2 DEF AllRight
<1>4. ASSUME NEW off \in Nat, Somewhere(exts, off) PROVE Somewhere(new, off)
  BY <1>1, <1>4 DEF Somewhere
<1>5. ASSUME NEW off \in Len(s)..Len(s)+de.de_nblks-1 PROVE Somewhere(new, off)
  <2>1. Covers(de, off)
    BY DEF Covers, Extents
  <2>2. Len(exts) + 1 \in 1..Len(new)
    BY <1>1
  <2> QED
    BY <1>1, <2>1, <2>2 DEF Somewhere
<1>6. Holds(new, exts, s, de)
  BY <1>1, <1>3, <1>4, <1>5 DEF Holds
<1> QED
  BY <1>6 DEF new
-----------------------------------------------------------------------------
(* What a step must leave alone for each part of the invariant.             *)
Alive(inds, lost) == BP!IInv /\ TypeInv /\ phase = "run" /\ RunInv(inds, lost)

LEMMA AliveIs ==
    ASSUME NEW inds, NEW lost, Alive(inds, lost)
    PROVE  /\ orgblks \in Nat /\ blks \in Nat /\ orgblks <= blks /\ DOMAIN disk = 0..blks-1
           /\ head \in [Managers -> Nat \union {TARBLK_NONE}]
           /\ used \in [Managers -> SUBSET (orgblks..blks-1)]
           /\ {"dir", "iex", "dinode"} \subseteq Managers /\ TARFS_FREE_INO \notin Dirs
           /\ core \in [Handles -> Objects] /\ ins \in Frames \union {NoFrame}
           /\ inodeNum \in Nat /\ mapped \in [Handles -> Seq(Nat)] /\ phase = "run"
           /\ inds \in [Handles -> Seq(Nat)]
           /\ ins \in Frames <=> ins # NoFrame
<1>1. ASSUME ins \in Frames PROVE ins # NoFrame
  <2>1. ins.at \in {"direct", "walk", "link", "fill"} /\ NoFrame.at = "none"
    BY <1>1 DEF Frames, NoFrame
  <2> QED
    BY <2>1
<1> QED
  BY <1>1, FileIs, IndExtAssumption, ExtentMapAssumption DEF Alive, TypeInv, RunInv, ChainInv

LEMMA GrownKept ==
    ASSUME NEW inds, NEW lost, Alive(inds, lost),
           mapped' = mapped, blks' \in Nat, blks <= blks', used["dir"] \subseteq used'["dir"],
           ins \in Frames, ins' \in Frames, ins'.obj = ins.obj, ins'.de = ins.de
    PROVE  GrownInv'
<1>1. GrownInv /\ blks \in Nat /\ ins # NoFrame /\ mapped \in [Handles -> Seq(Nat)]
  BY AliveIs DEF Alive, RunInv
<1>2. ASSUME NEW h \in Handles
      PROVE  Ascends(mapped'[h]) /\ Below(mapped'[h], blks')
  <2>1. Ascends(mapped[h]) /\ Below(mapped[h], blks) /\ mapped[h] \in Seq(Nat)
    BY <1>1 DEF GrownInv
  <2>2. Below(mapped[h], blks')
    BY <1>1, <2>1 DEF Below
  <2> QED
    BY <2>1, <2>2
<1>3. \A h \in Dirs : \A i \in 1..Len(mapped'[h]) : mapped'[h][i] \in used'["dir"]
  BY <1>1 DEF GrownInv
<1>4. /\ ins'.de.de_off = Len(mapped'[ins'.obj])
      /\ Below(mapped'[ins'.obj], ins'.de.de_blkno)
      /\ ins'.obj \in Dirs => ins'.de.de_nblks = 1 /\ ins'.de.de_blkno \in used'["dir"]
  BY <1>1 DEF GrownInv
<1>5. ins'.de.de_blkno + ins'.de.de_nblks <= blks'
  <2>1. ins.de.de_blkno + ins.de.de_nblks <= blks
    BY <1>1 DEF GrownInv
  <2>2. ins.de.de_blkno \in Nat /\ ins.de.de_nblks \in Nat
    BY DEF Frames, Extents
  <2> QED
    BY <1>1, <2>1, <2>2
<1> QED
  BY <1>2, <1>3, <1>4, <1>5 DEF GrownInv

(* When insBlock returns, what was to be inserted is the end of the map.    *)
Returned ==
    /\ ins \in Frames /\ ins' = NoFrame
    /\ mapped' = [mapped EXCEPT ![ins.obj] = @ \o Grown(ins.de)]

LEMMA ReturnedIs ==
    ASSUME NEW inds, NEW lost, Alive(inds, lost), Returned
    PROVE  LET h == ins.obj
               s == mapped[h]
               de == ins.de
           IN  /\ h \in Handles /\ s \in Seq(Nat) /\ de \in Extents
               /\ de.de_off = Len(s) /\ Ascends(s) /\ Below(s, de.de_blkno)
               /\ mapped'[h] = s \o Grown(de)
               /\ \A g \in Handles : g # h => mapped'[g] = mapped[g]
               /\ mapped' \in [Handles -> Seq(Nat)]
<1>1. /\ ins \in Frames /\ ins # NoFrame /\ mapped \in [Handles -> Seq(Nat)] /\ GrownInv
      /\ mapped' = [mapped EXCEPT ![ins.obj] = mapped[ins.obj] \o Grown(ins.de)]
  BY AliveIs DEF Alive, RunInv, Returned
<1>2. ins.obj \in Handles /\ ins.de \in Extents /\ mapped[ins.obj] \in Seq(Nat)
  BY <1>1 DEF Frames
<1>3. mapped[ins.obj] \o Grown(ins.de) \in Seq(Nat)
  BY <1>2, GrownIs
<1>4. /\ mapped'[ins.obj] = mapped[ins.obj] \o Grown(ins.de)
      /\ \A g \in Handles : g # ins.obj => mapped'[g] = mapped[g]
      /\ mapped' \in [Handles -> Seq(Nat)]
  BY <1>1, <1>2, <1>3
<1>5. /\ ins.de.de_off = Len(mapped[ins.obj]) /\ Ascends(mapped[ins.obj])
      /\ Below(mapped[ins.obj], ins.de.de_blkno)
  BY <1>1, <1>2 DEF GrownInv
<1> QED
  BY <1>2, <1>4, <1>5

LEMMA GrownReturned ==
    ASSUME NEW inds, NEW lost, Alive(inds, lost), Returned, blks' = blks, used' = used
    PROVE  GrownInv'
<1> DEFINE h == ins.obj
           s == mapped[h]
           t == mapped'[h]
<1>1. PICK z \in Nat, b \in Nat, n \in Nat :
        /\ z = Len(s) /\ b = ins.de.de_blkno /\ n = ins.de.de_nblks
        /\ h \in Handles /\ s \in Seq(Nat) /\ ins.de \in Extents
        /\ Ascends(s) /\ Below(s, b)
        /\ t = s \o Grown(ins.de)
        /\ \A g \in Handles : g # h => mapped'[g] = mapped[g]
  <2>1. h \in Handles /\ s \in Seq(Nat) /\ ins.de \in Extents
    BY ReturnedIs
  <2>2. Len(s) \in Nat /\ ins.de.de_blkno \in Nat /\ ins.de.de_nblks \in Nat
    BY <2>1 DEF Extents
  <2> QED
    BY <2>1, <2>2, ReturnedIs
<1>2. /\ blks \in Nat /\ GrownInv /\ ins # NoFrame /\ b + n <= blks
      /\ h \in Dirs => n = 1 /\ b \in used["dir"]
  BY <1>1, AliveIs DEF Alive, RunInv, GrownInv, Returned
<1>3. /\ t \in Seq(Nat) /\ Len(t) = z + n
      /\ \A i \in 1..z : t[i] = s[i]
      /\ \A i \in 1..n : t[z + i] = b + i - 1
  <2>1. PICK u : u = s \o Grown(ins.de)
    OBVIOUS
  <2>2. /\ u \in Seq(Nat) /\ Len(u) = Len(s) + ins.de.de_nblks
        /\ \A i \in 1..Len(s) : u[i] = s[i]
        /\ \A i \in 1..ins.de.de_nblks : u[Len(s) + i] = ins.de.de_blkno + i - 1
    BY <1>1, <2>1, GrownIs
  <2>3. t = u
    BY <1>1, <2>1
  <2> HIDE DEF s, t
  <2> QED
    BY <1>1, <2>2, <2>3
<1> HIDE DEF h, s, t
<1>4. ASSUME NEW i \in 1..z+n
      PROVE  \/ i \in 1..z /\ t[i] = s[i] /\ s[i] < b /\ s[i] \in Nat
             \/ i - z \in 1..n /\ t[i] = b + (i - z) - 1
  <2>1. CASE i <= z
    <3>1. i \in 1..z
      BY <2>1
    <3> QED
      BY <1>1, <1>3, <3>1 DEF Below
  <2>2. CASE i > z
    <3>1. i - z \in 1..n /\ z + (i - z) = i
      BY <2>2
    <3> QED
      BY <1>3, <3>1
  <2> QED
    BY <2>1, <2>2
<1>5. Ascends(t)
  <2> SUFFICES ASSUME NEW i \in 1..z+n, NEW j \in 1..z+n, i < j PROVE t[i] < t[j]
    BY <1>3 DEF Ascends
  <2>1. CASE j \in 1..z
    BY <1>1, <1>3, <2>1 DEF Ascends
  <2>2. CASE j - z \in 1..n
    BY <1>4, <2>2
  <2> QED
    BY <1>4, <2>1, <2>2
<1>6. Below(t, blks)
  <2> SUFFICES ASSUME NEW i \in 1..z+n PROVE t[i] < blks
    BY <1>3 DEF Below
  <2> QED
    BY <1>2, <1>4
<1>7. ASSUME NEW g \in Handles PROVE Ascends(mapped'[g]) /\ Below(mapped'[g], blks')
  <2>1. CASE g = h
    BY <1>5, <1>6, <2>1 DEF t
  <2>2. CASE g # h
    BY <1>1, <1>2, <1>7, <2>2 DEF GrownInv
  <2> QED
    BY <2>1, <2>2
<1>8. ASSUME NEW g \in Dirs, NEW i \in 1..Len(mapped'[g]) PROVE mapped'[g][i] \in used'["dir"]
  <2>1. g \in Handles /\ \A k \in 1..Len(mapped[g]) : mapped[g][k] \in used["dir"]
    BY <1>2 DEF Handles, GrownInv
  <2>2. CASE g # h
    BY <1>1, <2>1, <2>2
  <2>3. CASE g = h
    <3>1. i \in 1..z+n /\ n = 1 /\ b \in used["dir"] /\ t = mapped'[g] /\ s = mapped[g]
      BY <1>2, <1>3, <2>3 DEF s, t
    <3>2. CASE i \in 1..z
      BY <1>1, <1>3, <2>1, <3>1, <3>2
    <3>3. CASE i - z \in 1..n /\ t[i] = b + (i - z) - 1
      BY <3>1, <3>3
    <3> QED
      BY <1>4, <3>1, <3>2, <3>3
  <2> QED
    BY <2>2, <2>3
<1> QED
  BY <1>7, <1>8 DEF GrownInv, Returned, NoFrame

(* The free inode's map is a sequence of blocks of the file.                *)
LEMMA DinodesIs ==
    ASSUME NEW inds, NEW lost, Alive(inds, lost)
    PROVE  /\ Dinodes \in Seq(Nat)
           /\ HasFree("dinode") =>
                 /\ Dinodes[Len(Dinodes)] \in Nat /\ head["dinode"] \in Nat
                 /\ head["dinode"] <= Dinodes[Len(Dinodes)]
                 /\ Dinodes[Len(Dinodes)] < blks
<1>1. TARFS_FREE_INO \in Handles /\ mapped[TARFS_FREE_INO] \in Seq(Nat)
  BY AliveIs DEF Handles
<1>2. Dinodes \in Seq(Nat)
  <2>1. CASE ins # NoFrame /\ ins.obj = TARFS_FREE_INO
    <3>1. ins.de \in Extents
      BY <2>1, AliveIs DEF Frames
    <3> QED
      BY <1>1, <2>1, <3>1, GrownIs DEF Dinodes
  <2>2. CASE ~(ins # NoFrame /\ ins.obj = TARFS_FREE_INO)
    BY <1>1, <2>2 DEF Dinodes
  <2> QED
    BY <2>1, <2>2
<1>3. ASSUME HasFree("dinode")
      PROVE  /\ Dinodes[Len(Dinodes)] \in Nat /\ head["dinode"] \in Nat
             /\ head["dinode"] <= Dinodes[Len(Dinodes)]
             /\ Dinodes[Len(Dinodes)] < blks
  <2>1. inodeNum < Len(Dinodes) /\ Chain("dinode", Dinodes[Len(Dinodes)]) /\ inodeNum \in Nat
    BY <1>3, AliveIs DEF Alive, RunInv, InodeInv
  <2>2. Len(Dinodes) \in 1..Len(Dinodes)
    BY <1>2, <2>1
  <2>3. Dinodes[Len(Dinodes)] \in Nat
    BY <1>2, <2>2
  <2>4. head["dinode"] \in Nat
    BY <1>3, AliveIs DEF HasFree
  <2> QED
    BY <2>1, <2>3, <2>4 DEF Chain
<1> QED
  BY <1>2, <1>3

LEMMA InodesKept ==
    ASSUME NEW inds, NEW lost, Alive(inds, lost), Dinodes' = Dinodes, inodeNum' = inodeNum,
           head'["dinode"] = head["dinode"], used'["dinode"] = used["dinode"],
           blks' \in Nat, blks <= blks',
           \A b \in 0..blks-1 : (\E m \in Managers : b \in used[m]) \/ disk'[b] = disk[b]
    PROVE  InodeInv'
<1>1. InodeInv /\ blks \in Nat /\ "dinode" \in Managers /\ "iex" \in Managers
  BY AliveIs DEF Alive, RunInv
<1>2. HasFree("dinode")' <=> HasFree("dinode")
  BY DEF HasFree
<1>3. ASSUME HasFree("dinode") PROVE Chain("dinode", Dinodes[Len(Dinodes)])'
  <2> DEFINE e == Dinodes[Len(Dinodes)]
  <2>1. Chain("dinode", e)
    BY <1>1, <1>3 DEF InodeInv
  <2>5. e \in Nat /\ head["dinode"] \in Nat /\ head["dinode"] <= e /\ e < blks
    BY <1>3, DinodesIs
  <2>2. head["dinode"] \in Nat
    BY <2>5
  <2>3. ASSUME NEW b \in head["dinode"]..e PROVE disk'[b] = disk[b]
    <3>1. b \in 0..blks-1 /\ e \in 0..blks-1
      BY <1>1, <2>3, <2>5
    <3>2. BP!Chain("dinode", e) /\ BP!HasFree("dinode")
      BY <1>1, <1>3, <2>1, <3>1, ChainSeen DEF Alive, HasFree, BP!HasFree, BP!TARBLK_NONE, TARBLK_NONE
    <3>3. BP!ChainsFresh
      BY DEF Alive, BP!IInv, BP!ChainsIntact
    <3>4. \A m \in Managers : b \notin used[m]
      BY <1>1, <2>3, <3>1, <3>2, <3>3 DEF BP!ChainsFresh
    <3> QED
      BY <3>1, <3>4
  <2>4. head'["dinode"] <= e /\ e < blks'
    BY <1>1, <2>5
  <2>6. Chain("dinode", e)'
    BY <2>1, <2>3, <2>4 DEF Chain
  <2> QED
    BY <2>6
<1>4. Len(Dinodes)' = Len(Dinodes)
  OBVIOUS
<1> QED
  BY <1>1, <1>2, <1>3 DEF InodeInv

LEMMA InodeKept ==
    ASSUME NEW inds, NEW lost, Alive(inds, lost), Dinodes' = Dinodes, inodeNum' = inodeNum,
           head'["dinode"] = head["dinode"], used'["dinode"] = used["dinode"],
           blks' \in Nat, blks <= blks',
           \A b \in 0..blks-1 : b \in used["iex"] \/ disk'[b] = disk[b]
    PROVE  InodeInv'
<1>1. \A b \in 0..blks-1 : (\E m \in Managers : b \in used[m]) \/ disk'[b] = disk[b]
  BY IndExtAssumption
<1> QED
  BY <1>1, InodesKept
-----------------------------------------------------------------------------
(* The indirect blocks of the chains and what is in them.                   *)
LEMMA ChainsAre ==
    ASSUME NEW inds, NEW lost, Alive(inds, lost), NEW h \in Handles
    PROVE  /\ inds[h] \in Seq(Nat) /\ Len(inds[h]) \in Nat
           /\ Direct(h) \in Seq(Extents) /\ Len(Direct(h)) \in Nat /\ core[h] \in Objects
           /\ CoreOf(inds, h)
           /\ \A k \in 1..Len(inds[h]) :
                 /\ BlockOf(inds, h, k) /\ inds[h][k] \in used["iex"] /\ inds[h][k] \in Nat
                 /\ inds[h][k] \in 0..blks-1
                 /\ disk[inds[h][k]] \in IndExts /\ Dext(inds[h][k]) \in Seq(Extents)
<1>1. /\ inds[h] \in Seq(Nat) /\ Len(inds[h]) \in Nat /\ core[h] \in Objects
      /\ CoreOf(inds, h) /\ BlocksOf(inds)
      /\ blks \in Nat /\ orgblks \in Nat /\ "iex" \in Managers
      /\ used \in [Managers -> SUBSET (orgblks..blks-1)]
  <2>1. CoreOf(inds, h) /\ BlocksOf(inds)
    BY DEF Alive, RunInv, ChainInv
  <2>2. inds[h] \in Seq(Nat) /\ core[h] \in Objects
    BY AliveIs
  <2>3. Len(inds[h]) \in Nat
    BY <2>2
  <2> QED
    BY <2>1, <2>2, <2>3, AliveIs
<1>2. Direct(h) \in Seq(Extents) /\ Len(Direct(h)) \in Nat
  BY <1>1 DEF Direct, Objects
<1>3. ASSUME NEW k \in 1..Len(inds[h])
      PROVE  /\ BlockOf(inds, h, k) /\ inds[h][k] \in used["iex"] /\ inds[h][k] \in Nat
             /\ inds[h][k] \in 0..blks-1
             /\ disk[inds[h][k]] \in IndExts /\ Dext(inds[h][k]) \in Seq(Extents)
  <2>1. BlockOf(inds, h, k)
    BY <1>1 DEF BlocksOf
  <2>2. inds[h][k] \in used["iex"] /\ disk[inds[h][k]] \in IndExts
    BY <2>1 DEF BlockOf
  <2>3. Dext(inds[h][k]) \in Seq(Extents)
    BY <2>2 DEF Dext, IndExts
  <2> QED
    BY <1>1, <2>1, <2>2, <2>3
<1> QED
  BY <1>1, <1>2, <1>3

LEMMA ChainedUsed ==
    ASSUME NEW inds, NEW lost, Alive(inds, lost), NEW b, Chained(inds, b)
    PROVE  b \in used["iex"] /\ b \in 0..blks-1
<1>1. PICK h \in Handles : \E k \in 1..Len(inds[h]) : b = inds[h][k]
  BY DEF Chained
<1> QED
  BY <1>1, ChainsAre

(* Steps that write no block of a chain, and at most start a first one.     *)
LEMMA BlocksKept ==
    ASSUME NEW inds, NEW lost, Alive(inds, lost), used["iex"] \subseteq used'["iex"],
           \A b \in used["iex"] : disk'[b] = disk[b],
           ins.at # "fill", ins'.at = "fill" => Len(inds[ins'.obj]) = 0
    PROVE  BlocksOf(inds)'
<1> SUFFICES ASSUME NEW h \in Handles, NEW k \in 1..Len(inds[h]) PROVE BlockOf(inds, h, k)'
  BY DEF BlocksOf
<1>1. /\ BlockOf(inds, h, k) /\ inds[h][k] \in used["iex"] /\ disk'[inds[h][k]] = disk[inds[h][k]]
      /\ Len(inds[h]) \in Nat
  BY ChainsAre
<1>2. LinkOf(inds, h, k)' = LinkOf(inds, h, k)
  BY <1>1 DEF LinkOf
<1> QED
  BY <1>1, <1>2 DEF BlockOf, Dext

(* Steps that write one of them.                                            *)
LEMMA BlocksWritten ==
    ASSUME NEW inds, NEW lost, Alive(inds, lost), used' = used, ins.at # "fill",
           NEW g \in Handles, NEW j \in 1..Len(inds[g]), NEW c \in IndExts,
           disk' = [disk EXCEPT ![inds[g][j]] = c],
           Len(c.ie_dext) <= MAX_INDEXT, j < Len(inds[g]) => Len(c.ie_dext) = MAX_INDEXT,
           c.ie_next = LinkOf(inds, g, j)',
           ins'.at = "fill" => ins'.obj = g /\ j = Len(inds[g])
    PROVE  BlocksOf(inds)'
<1> SUFFICES ASSUME NEW h \in Handles, NEW k \in 1..Len(inds[h]) PROVE BlockOf(inds, h, k)'
  BY DEF BlocksOf
<1>1. /\ BlockOf(inds, h, k) /\ inds[h][k] \in used["iex"] /\ inds[h][k] \in 0..blks-1
      /\ inds[g][j] \in used["iex"] /\ inds[g][j] \in 0..blks-1
      /\ Len(inds[h]) \in Nat /\ DOMAIN disk = 0..blks-1
  BY ChainsAre, AliveIs
<1>2. CASE h = g /\ k = j
  <2>1. disk'[inds[h][k]] = c
    BY <1>1, <1>2
  <2> QED
    BY <1>1, <1>2, <2>1 DEF BlockOf, Dext
<1>3. CASE ~(h = g /\ k = j)
  <2>1. inds[h][k] # inds[g][j]
    BY <1>3 DEF Alive, RunInv, ChainInv, NoneShared
  <2>2. disk'[inds[h][k]] = disk[inds[h][k]]
    BY <1>1, <2>1
  <2>3. LinkOf(inds, h, k)' = LinkOf(inds, h, k)
    BY <1>1, <1>3 DEF LinkOf
  <2> QED
    BY <1>1, <2>2, <2>3 DEF BlockOf, Dext
<1> QED
  BY <1>2, <1>3
-----------------------------------------------------------------------------
(* The extents of a map that is left alone, and of the one that insBlock    *)
(* has put an extent into.                                                  *)
LEMMA ExtentsKept ==
    ASSUME NEW inds, NEW lost, Alive(inds, lost), NEW new, NEW h \in Handles,
           new[h] = inds[h], mapped'[h] = mapped[h], Direct(h)' = Direct(h),
           \A k \in 1..Len(inds[h]) : Dext(inds[h][k])' = Dext(inds[h][k])
    PROVE  ExtentsOf(new, h)'
<1>1. ExtentsOf(inds, h) /\ Len(inds[h]) \in Nat
  BY ChainsAre DEF Alive, RunInv, ExtentInv
<1>2. ASSUME NEW k \in 0..Len(inds[h]) PROVE Exts(new, h, k)' = Exts(inds, h, k)
  <2>1. CASE k = 0
    BY <2>1 DEF Exts
  <2>2. CASE k # 0
    <3>1. k \in 1..Len(inds[h])
      BY <1>1, <2>2
    <3> QED
      BY <2>2, <3>1 DEF Exts, Dext
  <2> QED
    BY <2>1, <2>2
<1> QED
  BY <1>1, <1>2 DEF ExtentsOf

LEMMA ExtentsReturned ==
    ASSUME NEW inds, NEW lost, Alive(inds, lost), Returned, NEW h \in Handles, h = ins.obj,
           NEW new, NEW n \in 0..Len(new[h]), Len(new[h]) \in Nat, Len(inds[h]) <= Len(new[h]),
           \A k \in 0..Len(new[h]) :
              k # n => k <= Len(inds[h]) /\ Exts(new, h, k)' = Exts(inds, h, k),
           NEW old, n <= Len(inds[h]) => old = Exts(inds, h, n),
           Holds(Exts(new, h, n)', old, mapped[h], ins.de)
    PROVE  ExtentsOf(new, h)'
<1> DEFINE s == mapped[h]
<1>1. /\ s \in Seq(Nat) /\ ins.de \in Extents /\ Len(s) \in Nat
      /\ mapped'[h] = s \o Grown(ins.de)
      /\ Len(inds[h]) \in Nat /\ ExtentsOf(inds, h)
  <2>1. /\ s \in Seq(Nat) /\ ins.de \in Extents /\ mapped'[h] = s \o Grown(ins.de)
    BY ReturnedIs
  <2>2. Len(inds[h]) \in Nat /\ ExtentsOf(inds, h)
    BY ChainsAre DEF Alive, RunInv, ExtentInv
  <2> QED
    BY <2>1, <2>2
<1>2. ins.de.de_nblks \in Nat /\ Len(mapped'[h]) = Len(s) + ins.de.de_nblks
  BY <1>1, GrownIs DEF Extents
<1>3. /\ AllRight(Exts(new, h, n)', mapped'[h])
      /\ \A off \in Nat : Somewhere(old, off) => Somewhere(Exts(new, h, n)', off)
      /\ \A off \in Len(s)..Len(s)+ins.de.de_nblks-1 : Somewhere(Exts(new, h, n)', off)
  BY <1>1 DEF Holds
<1>4. ASSUME NEW k \in 0..Len(inds[h]) PROVE Exts(inds, h, k) \in Seq(Extents)
  <2>1. CASE k = 0
    BY <1>1, <2>1, ChainsAre DEF Exts
  <2>2. CASE k # 0
    <3>1. k \in 1..Len(inds[h])
      BY <1>1, <2>2
    <3> QED
      BY <1>1, <2>2, <3>1, ChainsAre DEF Exts
  <2> QED
    BY <2>1, <2>2
<1>5. ASSUME NEW k \in 0..Len(new[h]) PROVE AllRight(Exts(new, h, k)', mapped'[h])
  <2>1. CASE k = n
    BY <1>3, <2>1
  <2>2. CASE k # n
    <3>1. k \in 0..Len(inds[h]) /\ Exts(new, h, k)' = Exts(inds, h, k)
      BY <1>1, <2>2
    <3>2. AllRight(Exts(inds, h, k), s)
      BY <1>1, <3>1 DEF ExtentsOf
    <3>3. AllRight(Exts(inds, h, k), s \o Grown(ins.de))
      BY <1>1, <1>4, <3>1, <3>2, AllKept
    <3> QED
      BY <1>1, <3>1, <3>3
  <2> QED
    BY <2>1, <2>2
<1>6. ASSUME NEW off \in 0..Len(mapped'[h])-1
      PROVE  \E k \in 0..Len(new[h]) : Somewhere(Exts(new, h, k)', off)
  <2>1. CASE off >= Len(s)
    <3>1. Somewhere(Exts(new, h, n)', off)
      BY <1>1, <1>2, <1>3, <2>1
    <3> QED
      BY <3>1
  <2>2. CASE off < Len(s)
    <3>0. off \in 0..Len(s)-1
      BY <1>1, <2>2
    <3>1. PICK k \in 0..Len(inds[h]) : Somewhere(Exts(inds, h, k), off)
      BY <1>1, <3>0 DEF ExtentsOf
    <3>2. k \in 0..Len(new[h])
      BY <1>1
    <3>3. CASE k = n
      BY <1>3, <3>1, <3>3
    <3>4. CASE k # n
      BY <3>1, <3>2, <3>4
    <3> QED
      BY <3>3, <3>4
  <2> QED
    BY <1>1, <2>1, <2>2
<1>7. ExtentsOf(new, h)'
  BY <1>5, <1>6 DEF ExtentsOf
<1> QED
  BY <1>7
-----------------------------------------------------------------------------
(* A step of insBlock that does not return, and one that does.              *)
Carries ==
    /\ ins \in Frames /\ ins' \in Frames /\ ins'.obj = ins.obj /\ ins'.de = ins.de
    /\ phase' = phase /\ mapped' = mapped /\ inodeNum' = inodeNum

LEMMA CarriesOn ==
    ASSUME NEW inds, NEW lost, Alive(inds, lost), Carries, core' \in [Handles -> Objects], ChainInv(inds, lost)',
           \A h \in Handles : Direct(h)' = Direct(h),
           \A b \in used["iex"] : Dext(b)' = Dext(b),
           \A b \in 0..blks-1 : b \in used["iex"] \/ disk'[b] = disk[b],
           blks' \in Nat, blks <= blks', head'["dinode"] = head["dinode"],
           used'["dinode"] = used["dinode"], used'["dir"] = used["dir"]
    PROVE  TypeInv' /\ RunInv(inds, lost)'
<1>1. TypeInv'
  BY DEF Alive, Carries, TypeInv
<1>2. ASSUME NEW h \in Handles PROVE ExtentsOf(inds, h)'
  <2>1. \A k \in 1..Len(inds[h]) : Dext(inds[h][k])' = Dext(inds[h][k])
    BY ChainsAre
  <2> QED
    BY <2>1, ExtentsKept DEF Carries
<1>3. GrownInv'
  BY GrownKept DEF Carries
<1>4. Dinodes' = Dinodes
  <2>1. ins # NoFrame /\ ins' # NoFrame
    BY DEF Carries, Frames, NoFrame
  <2> QED
    BY <2>1 DEF Carries, Dinodes
<1>5. InodeInv'
  BY <1>4, InodeKept DEF Carries
<1> QED
  BY <1>1, <1>2, <1>3, <1>5 DEF RunInv, ExtentInv

LEMMA ReturnsOn ==
    ASSUME NEW inds, NEW lost, Alive(inds, lost), Returned, core' \in [Handles -> Objects],
           NEW new, ChainInv(new, lost)', ExtentInv(new)', phase' = phase, inodeNum' = inodeNum,
           \A b \in 0..blks-1 : b \in used["iex"] \/ disk'[b] = disk[b],
           blks' = blks, head' = head, used' = used
    PROVE  TypeInv' /\ RunInv(new, lost)'
<1>1. TypeInv'
  <2>1. mapped' \in [Handles -> Seq(Nat)]
    BY ReturnedIs
  <2> QED
    BY <2>1 DEF Alive, Returned, TypeInv
<1>2. GrownInv'
  BY GrownReturned
<1>3. Dinodes' = Dinodes
  <2>1. ins # NoFrame /\ ins' = NoFrame /\ Dinodes' = mapped'[TARFS_FREE_INO]
    BY AliveIs DEF Returned, Dinodes
  <2>2. TARFS_FREE_INO \in Handles
    BY DEF Handles
  <2> QED
    BY <2>1, <2>2, ReturnedIs DEF Dinodes
<1>4. InodeInv'
  BY <1>3, InodeKept, AliveIs
<1> QED
  BY <1>1, <1>2, <1>4 DEF RunInv
-----------------------------------------------------------------------------
(* insBlock in the direct extents.                                          *)
DirectPut(h) ==
    /\ h = ins.obj /\ ins.at = "direct" /\ Returned
    /\ core' \in [Handles -> Objects] /\ \A i \in Handles : i # h => core'[i] = core[i]
    /\ Holds(Direct(h)', Direct(h), mapped[h], ins.de)
    /\ phase' = phase /\ inodeNum' = inodeNum /\ UNCHANGED spaceVars

LEMMA DirectHeld ==
    ASSUME NEW inds, NEW lost, Alive(inds, lost), NEW h \in Handles, h = ins.obj, Returned
    PROVE  /\ mapped[h] \in Seq(Nat) /\ ins.de \in Extents
           /\ ins.de.de_off = Len(mapped[h])
           /\ Ascends(mapped[h]) /\ Below(mapped[h], ins.de.de_blkno)
           /\ AllRight(Direct(h), mapped[h])
           /\ \A k \in 1..Len(inds[h]) : AllRight(Dext(inds[h][k]), mapped[h])
<1>1. \A k \in 0..Len(inds[h]) : AllRight(Exts(inds, h, k), mapped[h])
  BY DEF Alive, RunInv, ExtentInv, ExtentsOf
<1>2. AllRight(Direct(h), mapped[h])
  <2>1. 0 \in 0..Len(inds[h]) /\ Exts(inds, h, 0) = Direct(h)
    BY ChainsAre DEF Exts
  <2> QED
    BY <1>1, <2>1
<1>3. ASSUME NEW k \in 1..Len(inds[h]) PROVE AllRight(Dext(inds[h][k]), mapped[h])
  <2>1. k \in 0..Len(inds[h]) /\ Exts(inds, h, k) = Dext(inds[h][k])
    BY ChainsAre DEF Exts
  <2> QED
    BY <1>1, <2>1
<1> QED
  BY <1>2, <1>3, ReturnedIs

LEMMA DirectPutOn ==
    ASSUME NEW inds, NEW lost, Alive(inds, lost), NEW h \in Handles, DirectPut(h), CoreOf(inds, h)'
    PROVE  TypeInv' /\ RunInv(inds, lost)'
<1>1. /\ h = ins.obj /\ ins.at = "direct" /\ Returned /\ ins' = NoFrame
      /\ core' \in [Handles -> Objects] /\ \A i \in Handles : i # h => core'[i] = core[i]
      /\ UNCHANGED spaceVars
  BY DEF DirectPut, Returned
<1>2. ChainInv(inds, lost)'
  <2>1. ASSUME NEW i \in Handles PROVE CoreOf(inds, i)'
    <3>1. CoreOf(inds, i)
      BY ChainsAre
    <3>2. CASE i # h
      BY <1>1, <3>1, <3>2 DEF CoreOf, Direct
    <3> QED
      BY <3>2
  <2>2. BlocksOf(inds)'
    BY <1>1, BlocksKept DEF spaceVars, NoFrame
  <2>3. \A b \in used'["iex"] : Chained(inds, b) \/ b \in lost
    BY <1>1 DEF Alive, RunInv, ChainInv, Taken, spaceVars
  <2> QED
    BY <1>1, <2>1, <2>2, <2>3 DEF Alive, RunInv, ChainInv, NoneShared, Chained
<1>3. ExtentInv(inds)'
  <2> SUFFICES ASSUME NEW i \in Handles PROVE ExtentsOf(inds, i)'
    BY DEF ExtentInv
  <2>1. CASE i = h
    <3>1. Holds(Direct(h)', Direct(h), mapped[h], ins.de)
      BY DEF DirectPut
    <3>2. \A k \in 0..Len(inds[h]) : k # 0 => Exts(inds, h, k)' = Exts(inds, h, k)
      BY <1>1 DEF Exts, Dext, spaceVars
    <3>3. Exts(inds, h, 0)' = Direct(h)' /\ Exts(inds, h, 0) = Direct(h) /\ Len(inds[h]) \in Nat
      BY ChainsAre DEF Exts
    <3> QED
      BY <1>1, <2>1, <3>1, <3>2, <3>3, ExtentsReturned
  <2>2. CASE i # h
    <3>1. Direct(i)' = Direct(i) /\ \A k \in 1..Len(inds[i]) : Dext(inds[i][k])' = Dext(inds[i][k])
      BY <1>1, <2>2 DEF Direct, Dext, spaceVars
    <3>2. mapped'[i] = mapped[i]
      BY <1>1, <2>2, ReturnedIs
    <3> QED
      BY <3>1, <3>2, ExtentsKept
  <2> QED
    BY <2>1, <2>2
<1> QED
  BY <1>1, <1>2, <1>3, ReturnsOn DEF spaceVars, DirectPut

LEMMA DirectMerge ==
    ASSUME NEW inds, NEW lost, Alive(inds, lost), InsDirectMerge, Returned, phase' = phase, inodeNum' = inodeNum
    PROVE  TypeInv' /\ RunInv(inds, lost)'
<1>1. PICK h \in Handles : h = ins.obj
  BY DEF Returned, Frames
<1>2. Direct(h) \in Seq(Extents) /\ ins.de \in Extents /\ core \in [Handles -> Objects]
  BY <1>1, ChainsAre, DirectHeld, AliveIs
<1>3. Merges(Direct(h), ins.de) /\ UNCHANGED spaceVars /\ ins.at = "direct"
  BY <1>1 DEF InsDirectMerge, Obj, Direct, Return, Running
<1>4. core' = [core EXCEPT ![h].di_directExtent = Merge(Direct(h), ins.de)]
  BY <1>1 DEF InsDirectMerge, Direct
<1>5. /\ Merge(Direct(h), ins.de) \in Seq(Extents)
      /\ Len(Merge(Direct(h), ins.de)) = Len(Direct(h))
  BY <1>2, <1>3, MergeIs
<1>6. /\ core' \in [Handles -> Objects]
      /\ \A i \in Handles : i # h => core'[i] = core[i]
      /\ core'[h].di_directExtent = Merge(Direct(h), ins.de)
      /\ core'[h].di_nExtents = core[h].di_nExtents
      /\ core'[h].di_rootIndExt = core[h].di_rootIndExt
  BY <1>2, <1>4, <1>5 DEF Objects
<1>7. CoreOf(inds, h)'
  <2>1. CoreOf(inds, h)
    BY ChainsAre
  <2> QED
    BY <1>5, <1>6, <2>1 DEF CoreOf, Direct
<1>8. Holds(Direct(h)', Direct(h), mapped[h], ins.de)
  BY <1>1, <1>2, <1>3, <1>6, DirectHeld, MergeHolds DEF Direct
<1> QED
  BY <1>1, <1>3, <1>6, <1>7, <1>8, DirectPutOn DEF DirectPut

LEMMA DirectAppend ==
    ASSUME NEW inds, NEW lost, Alive(inds, lost), InsDirectAppend, Returned, phase' = phase, inodeNum' = inodeNum
    PROVE  TypeInv' /\ RunInv(inds, lost)'
<1>1. PICK h \in Handles : h = ins.obj
  BY DEF Returned, Frames
<1>2. Direct(h) \in Seq(Extents) /\ ins.de \in Extents /\ core \in [Handles -> Objects]
  BY <1>1, ChainsAre, DirectHeld, AliveIs
<1>3. core[h].di_nExtents < MAX_DINODE_DIRECT /\ UNCHANGED spaceVars /\ ins.at = "direct"
  BY <1>1 DEF InsDirectAppend, Obj, Return, Running
<1>4. core' = [core EXCEPT ![h].di_directExtent = Append(Direct(h), ins.de),
                           ![h].di_nExtents = core[h].di_nExtents + 1]
  BY <1>1 DEF InsDirectAppend, Direct
<1>5. /\ Append(Direct(h), ins.de) \in Seq(Extents)
      /\ Len(Append(Direct(h), ins.de)) = Len(Direct(h)) + 1
      /\ core[h].di_nExtents \in Nat /\ Len(Direct(h)) \in Nat /\ Len(inds[h]) \in Nat
  BY <1>2, ChainsAre, AppendProperties DEF Objects
<1>6. /\ core' \in [Handles -> Objects]
      /\ \A i \in Handles : i # h => core'[i] = core[i]
      /\ core'[h].di_directExtent = Append(Direct(h), ins.de)
      /\ core'[h].di_nExtents = core[h].di_nExtents + 1
      /\ core'[h].di_rootIndExt = core[h].di_rootIndExt
  <2> DEFINE d == [core[h] EXCEPT !.di_directExtent = Append(Direct(h), ins.de),
                                  !.di_nExtents = core[h].di_nExtents + 1]
  <2>1. core' = [core EXCEPT ![h] = d]
    BY <1>4, Zenon
  <2>2. core[h] \in Objects /\ core[h].di_nExtents + 1 \in Nat
    BY <1>2, <1>5
  <2>3. /\ d \in Objects /\ d.di_directExtent = Append(Direct(h), ins.de)
        /\ d.di_nExtents = core[h].di_nExtents + 1
        /\ d.di_rootIndExt = core[h].di_rootIndExt
    BY <1>5, <2>2 DEF Objects
  <2> HIDE DEF d
  <2>4. core' \in [Handles -> Objects] /\ core'[h] = d /\ \A i \in Handles : i # h => core'[i] = core[i]
    BY <1>2, <2>1, <2>3
  <2> QED
    BY <2>3, <2>4
<1>7. CoreOf(inds, h)'
  <2>1. /\ core[h].di_nExtents = Len(Direct(h)) + Len(inds[h])
        /\ Len(inds[h]) > 0 => Len(Direct(h)) = MAX_DINODE_DIRECT
    BY ChainsAre DEF CoreOf
  <2>2. MAX_DINODE_DIRECT \in Nat
    BY IndExtAssumption
  <2>3. Len(inds[h]) = 0 /\ Len(Direct(h)) + 1 <= MAX_DINODE_DIRECT
    BY <1>3, <1>5, <2>1, <2>2
  <2> QED
    BY <1>5, <1>6, <2>1, <2>3 DEF CoreOf, Direct
<1>8. Holds(Direct(h)', Direct(h), mapped[h], ins.de)
  BY <1>1, <1>2, <1>6, DirectHeld, AppendHolds DEF Direct
<1> QED
  BY <1>1, <1>3, <1>6, <1>7, <1>8, DirectPutOn DEF DirectPut
-----------------------------------------------------------------------------
(* What an allocation returns, and what it leaves alone.                    *)
Allocs(m, b) ==
    /\ b = NextBlock(m) /\ b \in Nat /\ orgblks <= b /\ b < blks'
    /\ \A k \in Managers : b \notin used[k]
    /\ \A c \in used[m] : c < b
    /\ used'[m] = used[m] \union {b}
    /\ \A k \in Managers : k # m => used'[k] = used[k] /\ head'[k] = head[k]
    /\ blks' \in Nat /\ blks <= blks'
    /\ \A c \in 0..blks-1 : disk'[c] = disk[c]

LEMMA AllocIs ==
    ASSUME NEW inds, NEW lost, Alive(inds, lost), phase' = phase, NEW m \in Managers, Fits(m), allocBlock(m)
    PROVE  BP!Alloc(m) /\ \E b \in Nat : Allocs(m, b)
<1>1. /\ BP!IInv /\ phase = "run" /\ orgblks \in Nat /\ blks \in Nat /\ DOMAIN disk = 0..blks-1
      /\ used \in [Managers -> SUBSET (orgblks..blks-1)]
      /\ head \in [Managers -> Nat \union {TARBLK_NONE}]
  BY AliveIs DEF Alive
<1>2. BP!Alloc(m)
  BY <1>1, AllocSeen
<1>3. NextBlock(m) = BP!NextBlock(m)
  BY DEF NextBlock, BP!NextBlock, TARBLK_NONE, BP!TARBLK_NONE
<1>4. /\ BP!NextBlock(m) \in orgblks..blks'-1
      /\ \A k \in Managers : BP!NextBlock(m) \notin used[k]
      /\ \A c \in used[m] : c < BP!NextBlock(m)
      /\ blks <= blks'
  BY <1>1, <1>2, BP!AllocFresh, BulksAssumption, ExtentMapAssumption
<1>5. /\ used' = [used EXCEPT ![m] = used[m] \union {NextBlock(m)}]
      /\ Refill(m) \/ PopFree(m)
  BY DEF allocBlock, HandOut
<1>6. Bulks[m] \in Nat /\ Bulks[m] >= 2
  BY BulksAssumption
<1>7. blks' \in Nat /\ blks <= blks' /\ \A c \in 0..blks-1 : disk'[c] = disk[c]
  <2>1. CASE PopFree(m)
    BY <1>1, <2>1 DEF PopFree
  <2>2. CASE Refill(m)
    <3>1. /\ blks' = IF blks + Bulks[m] > blks THEN blks + Bulks[m] ELSE blks
          /\ disk' = [b \in 0..blks'-1 |-> IF b \in blks..blks+Bulks[m]-1
                                          THEN FreeChunk(blks, Bulks[m])[b - blks] ELSE disk[b]]
      BY <2>2 DEF Refill, writeBlock
    <3>2. blks' = blks + Bulks[m]
      BY <1>1, <1>6, <3>1
    <3>3. ASSUME NEW c \in 0..blks-1 PROVE disk'[c] = disk[c]
      BY <1>1, <1>6, <3>1, <3>2
    <3> QED
      BY <1>1, <1>6, <3>2, <3>3
  <2> QED
    BY <1>5, <2>1, <2>2
<1>8. \A k \in Managers : k # m => used'[k] = used[k] /\ head'[k] = head[k]
  BY <1>1, <1>5 DEF Refill, PopFree
<1>9. used'[m] = used[m] \union {NextBlock(m)}
  BY <1>1, <1>5
<1>10. NextBlock(m) \in Nat /\ orgblks <= NextBlock(m) /\ NextBlock(m) < blks'
  BY <1>1, <1>3, <1>4, <1>7
<1>11. Allocs(m, NextBlock(m))
  BY <1>3, <1>4, <1>7, <1>8, <1>9, <1>10 DEF Allocs
<1> QED
  BY <1>2, <1>10, <1>11
-----------------------------------------------------------------------------
(* insBlock takes the first indirect block of a map.                        *)
LEMMA FirstIndirect ==
    ASSUME NEW inds, NEW lost, Alive(inds, lost), InsFirstIndirect, Fits("iex"),
           phase' = phase, mapped' = mapped, inodeNum' = inodeNum
    PROVE  BP!Alloc("iex") /\ TypeInv' /\ RunInv(inds, lost)'
<1>1. /\ ins.at = "direct" /\ ins \in Frames /\ allocBlock("iex") /\ "iex" \in Managers
      /\ core \in [Handles -> Objects] /\ blks \in Nat /\ "dir" # "iex" /\ "dinode" # "iex"
      /\ {"dir", "dinode"} \subseteq Managers
  BY AliveIs DEF InsFirstIndirect, NeedsFirst, Running, NoFrame
<1>2. PICK h \in Handles : h = ins.obj
  BY <1>1 DEF Frames
<1>3. BP!Alloc("iex")
  BY <1>1, AllocIs
<1>4. PICK b \in Nat : Allocs("iex", b)
  BY <1>1, AllocIs
<1>5. /\ core[h].di_nExtents = MAX_DINODE_DIRECT
      /\ core' = [core EXCEPT ![h].di_rootIndExt = b]
      /\ ins' = [ins EXCEPT !.at = "fill", !.new = b]
  BY <1>2, <1>4 DEF InsFirstIndirect, NeedsFirst, Obj, Allocs
<1>6. /\ ins' \in Frames /\ ins'.obj = h /\ ins'.de = ins.de /\ ins'.at = "fill" /\ ins'.new = b
      /\ ins' # NoFrame
  BY <1>1, <1>2, <1>5 DEF Frames, NoFrame
<1>7. /\ core' \in [Handles -> Objects] /\ core'[h].di_rootIndExt = b
      /\ \A i \in Handles : /\ core'[i].di_nExtents = core[i].di_nExtents
                            /\ core'[i].di_directExtent = core[i].di_directExtent
                            /\ i # h => core'[i] = core[i]
  BY <1>1, <1>5 DEF Objects
<1>8. Len(inds[h]) = 0 /\ Len(Direct(h)) = MAX_DINODE_DIRECT
  <2>1. /\ core[h].di_nExtents = Len(Direct(h)) + Len(inds[h]) /\ Len(Direct(h)) \in Nat
        /\ Len(inds[h]) > 0 => Len(Direct(h)) = MAX_DINODE_DIRECT
        /\ Len(inds[h]) \in Nat /\ MAX_DINODE_DIRECT \in Nat
    BY ChainsAre, IndExtAssumption DEF CoreOf
  <2> QED
    BY <1>5, <2>1
<1>9. /\ used'["iex"] = used["iex"] \union {b} /\ b \notin used["iex"]
      /\ used'["dinode"] = used["dinode"] /\ used'["dir"] = used["dir"]
      /\ head'["dinode"] = head["dinode"] /\ blks' \in Nat /\ blks <= blks'
      /\ \A c \in 0..blks-1 : disk'[c] = disk[c]
  BY <1>1, <1>4 DEF Allocs
<1>10. \A c \in used["iex"] : c \in 0..blks-1 /\ disk'[c] = disk[c]
  BY <1>1, <1>9, AliveIs
<1>11. ChainInv(inds, lost)'
  <2>1. ASSUME NEW i \in Handles PROVE CoreOf(inds, i)'
    <3>1. CoreOf(inds, i)
      BY ChainsAre
    <3>2. Direct(i)' = Direct(i) /\ core'[i].di_nExtents = core[i].di_nExtents
      BY <1>7 DEF Direct
    <3>3. CASE i = h
      BY <1>8, <3>1, <3>2, <3>3 DEF CoreOf
    <3>4. CASE i # h
      BY <1>7, <3>1, <3>2, <3>4 DEF CoreOf
    <3> QED
      BY <3>3, <3>4
  <2>2. BlocksOf(inds)'
    BY <1>1, <1>6, <1>8, <1>9, <1>10, BlocksKept
  <2>3. \A c \in used'["iex"] : Chained(inds, c) \/ Taken(c)' \/ c \in lost
    BY <1>1, <1>6, <1>9 DEF Alive, RunInv, ChainInv, Taken
  <2>4. ~Chained(inds, b)
    BY <1>9, ChainedUsed
  <2>5. FrameOf(inds)'
    <3>1. Len(Direct(h))' = MAX_DINODE_DIRECT
      BY <1>7, <1>8 DEF Direct
    <3> QED
      BY <1>6, <1>7, <1>8, <1>9, <2>4, <3>1 DEF FrameOf, Chained
  <2> QED
    BY <2>1, <2>2, <2>3, <2>5 DEF Alive, RunInv, ChainInv, NoneShared, Chained
<1>12. TypeInv' /\ RunInv(inds, lost)'
  <2>1. Carries
    BY <1>1, <1>2, <1>6 DEF Carries
  <2>2. \A i \in Handles : Direct(i)' = Direct(i)
    BY <1>7 DEF Direct
  <2>3. \A c \in used["iex"] : Dext(c)' = Dext(c)
    BY <1>10 DEF Dext
  <2> QED
    BY <1>7, <1>9, <1>11, <2>1, <2>2, <2>3, CarriesOn
<1> QED
  BY <1>3, <1>12
-----------------------------------------------------------------------------
(* The walk along the indirect blocks, as far as it writes nothing.         *)
LEMMA Descend ==
    ASSUME NEW inds, NEW lost, Alive(inds, lost), InsDescend, phase' = phase, mapped' = mapped, inodeNum' = inodeNum
    PROVE  TypeInv' /\ RunInv(inds, lost)'
<1>1. /\ ins.at = "direct" /\ ins \in Frames /\ UNCHANGED <<spaceVars, core>>
      /\ core \in [Handles -> Objects] /\ blks \in Nat
  BY AliveIs DEF InsDescend, Running, NoFrame
<1>2. PICK h \in Handles : h = ins.obj
  BY <1>1 DEF Frames
<1>3. /\ core[h].di_nExtents > MAX_DINODE_DIRECT
      /\ ins' = [ins EXCEPT !.at = "walk", !.ind_off = core[h].di_rootIndExt]
      /\ core[h].di_rootIndExt \in Nat
  BY <1>1, <1>2 DEF InsDescend, Obj, Objects
<1>4. /\ ins' \in Frames /\ ins'.obj = h /\ ins'.de = ins.de /\ ins'.at = "walk"
      /\ ins'.ind_off = core[h].di_rootIndExt /\ ins' # NoFrame
  BY <1>1, <1>2, <1>3 DEF Frames, NoFrame
<1>5. Len(inds[h]) > 0 /\ 1 \in 1..Len(inds[h]) /\ core[h].di_rootIndExt = inds[h][1]
  <2>1. /\ core[h].di_nExtents = Len(Direct(h)) + Len(inds[h]) /\ Len(Direct(h)) \in Nat
        /\ Len(Direct(h)) <= MAX_DINODE_DIRECT
        /\ Len(inds[h]) > 0 => core[h].di_rootIndExt = inds[h][1]
        /\ Len(inds[h]) \in Nat /\ MAX_DINODE_DIRECT \in Nat
    BY ChainsAre, IndExtAssumption DEF CoreOf
  <2> QED
    BY <1>3, <2>1
<1>6. ChainInv(inds, lost)'
  <2>1. BlocksOf(inds)'
    BY <1>1, <1>4, BlocksKept DEF spaceVars
  <2>2. FrameOf(inds)'
    BY <1>1, <1>4, <1>5 DEF FrameOf
  <2>3. \A i \in Handles : CoreOf(inds, i)'
    <3> SUFFICES ASSUME NEW i \in Handles PROVE CoreOf(inds, i)'
      OBVIOUS
    <3>1. CoreOf(inds, i)
      BY ChainsAre
    <3> QED
      BY <1>1, <3>1 DEF CoreOf, Direct
  <2>4. \A b \in used'["iex"] : Chained(inds, b) \/ b \in lost
    BY <1>1 DEF Alive, RunInv, ChainInv, Taken, spaceVars
  <2> QED
    BY <2>1, <2>2, <2>3, <2>4 DEF Alive, RunInv, ChainInv, NoneShared, Chained
<1>7. Carries
  BY <1>1, <1>2, <1>4 DEF Carries
<1> QED
  BY <1>1, <1>6, <1>7, CarriesOn DEF spaceVars, Direct, Dext

(* Where the walk is.                                                       *)
WalkAt(inds, h, k, b) ==
    /\ h = ins.obj /\ b = inds[h][k] /\ b = ins.ind_off /\ ins \in Frames
    /\ indExt = disk[b] /\ disk[b] \in IndExts /\ b \in used["iex"] /\ b \in 0..blks-1
    /\ Dext(b) \in Seq(Extents) /\ BlockOf(inds, h, k)

LEMMA WalkIs ==
    ASSUME NEW inds, NEW lost, Alive(inds, lost), ins.at = "walk"
    PROVE  \E h \in Handles : \E k \in 1..Len(inds[h]) : \E b \in Nat : WalkAt(inds, h, k, b)
<1>1. ins \in Frames /\ ins # NoFrame
  BY AliveIs DEF NoFrame
<1>2. PICK h \in Handles : h = ins.obj
  BY <1>1 DEF Frames
<1>3. FrameOf(inds)
  BY <1>1 DEF Alive, RunInv, ChainInv
<1>4. PICK k \in 1..Len(inds[h]) : ins.ind_off = inds[h][k]
  BY <1>2, <1>3 DEF FrameOf
<1>5. WalkAt(inds, h, k, inds[h][k]) /\ inds[h][k] \in Nat
  BY <1>1, <1>2, <1>4, ChainsAre DEF WalkAt, indExt
<1> QED
  BY <1>4, <1>5

(* A block that links to no other is the last of its map.                   *)
LEMMA LastIs ==
    ASSUME NEW inds, NEW lost, Alive(inds, lost), ins.at = "walk",
           NEW h \in Handles, NEW k \in 1..Len(inds[h]), BlockOf(inds, h, k)
    PROVE  /\ Len(inds[h]) \in Nat
           /\ disk[inds[h][k]].ie_next = TARBLK_NONE => k = Len(inds[h])
           /\ disk[inds[h][k]].ie_next # TARBLK_NONE =>
                 /\ k + 1 \in 1..Len(inds[h]) /\ disk[inds[h][k]].ie_next = inds[h][k + 1]
<1>1. disk[inds[h][k]].ie_next = LinkOf(inds, h, k) /\ Len(inds[h]) \in Nat
  BY ChainsAre DEF BlockOf
<1>2. CASE k < Len(inds[h])
  <2>1. k + 1 \in 1..Len(inds[h]) /\ LinkOf(inds, h, k) = inds[h][k + 1]
    BY <1>1, <1>2 DEF LinkOf
  <2>2. inds[h][k + 1] \in Nat
    BY <2>1, ChainsAre
  <2> QED
    BY <1>1, <2>1, <2>2 DEF TARBLK_NONE
<1>3. CASE ~(k < Len(inds[h]))
  <2>1. k = Len(inds[h]) /\ LinkOf(inds, h, k) = TARBLK_NONE
    BY <1>1, <1>3 DEF LinkOf
  <2> QED
    BY <1>1, <2>1
<1> QED
  BY <1>2, <1>3

LEMMA WalkNext ==
    ASSUME NEW inds, NEW lost, Alive(inds, lost), InsWalkNext, phase' = phase, mapped' = mapped, inodeNum' = inodeNum
    PROVE  TypeInv' /\ RunInv(inds, lost)'
<1>1. /\ ins.at = "walk" /\ UNCHANGED <<spaceVars, core>>
      /\ core \in [Handles -> Objects] /\ blks \in Nat
  BY AliveIs DEF InsWalkNext, Running
<1>2. PICK h \in Handles : \E k \in 1..Len(inds[h]) : \E b \in Nat : WalkAt(inds, h, k, b)
  BY <1>1, WalkIs
<1>3. PICK k \in 1..Len(inds[h]) : \E b \in Nat : WalkAt(inds, h, k, b)
  BY <1>2
<1>4. PICK b \in Nat : WalkAt(inds, h, k, b)
  BY <1>3
<1>5. /\ k + 1 \in 1..Len(inds[h]) /\ inds[h][k + 1] \in Nat
      /\ ins' = [ins EXCEPT !.ind_off = inds[h][k + 1]]
  <2>1. disk[b].ie_next # TARBLK_NONE /\ ins' = [ins EXCEPT !.ind_off = disk[b].ie_next]
    BY <1>4 DEF InsWalkNext, WalkAt
  <2> QED
    <3>1. BlockOf(inds, h, k) /\ inds[h][k] = b
      BY <1>4 DEF WalkAt
    <3>2. k + 1 \in 1..Len(inds[h]) /\ disk[b].ie_next = inds[h][k + 1]
      BY <1>1, <2>1, <3>1, LastIs
    <3> QED
      BY <2>1, <3>2, ChainsAre
<1>6. /\ ins' \in Frames /\ ins'.obj = h /\ ins'.de = ins.de /\ ins'.at = "walk"
      /\ ins'.ind_off = inds[h][k + 1] /\ ins' # NoFrame /\ ins \in Frames /\ h = ins.obj
  BY <1>1, <1>4, <1>5 DEF Frames, NoFrame, WalkAt
<1>7. ChainInv(inds, lost)'
  <2>1. BlocksOf(inds)'
    BY <1>1, <1>6, BlocksKept DEF spaceVars
  <2>2. FrameOf(inds)'
    BY <1>5, <1>6 DEF FrameOf
  <2>3. \A i \in Handles : CoreOf(inds, i)'
    <3> SUFFICES ASSUME NEW i \in Handles PROVE CoreOf(inds, i)'
      OBVIOUS
    <3>1. CoreOf(inds, i)
      BY ChainsAre
    <3> QED
      BY <1>1, <3>1 DEF CoreOf, Direct
  <2>4. \A c \in used'["iex"] : Chained(inds, c) \/ c \in lost
    BY <1>1 DEF Alive, RunInv, ChainInv, Taken, spaceVars
  <2> QED
    BY <2>1, <2>2, <2>3, <2>4 DEF Alive, RunInv, ChainInv, NoneShared, Chained
<1>8. Carries
  BY <1>6 DEF Carries
<1> QED
  BY <1>1, <1>7, <1>8, CarriesOn DEF spaceVars, Direct, Dext

LEMMA WalkFull ==
    ASSUME NEW inds, NEW lost, Alive(inds, lost), InsWalkFull, Fits("iex"),
           phase' = phase, mapped' = mapped, inodeNum' = inodeNum
    PROVE  BP!Alloc("iex") /\ TypeInv' /\ RunInv(inds, lost)'
<1>1. /\ ins.at = "walk" /\ allocBlock("iex") /\ core' = core /\ "iex" \in Managers
      /\ core \in [Handles -> Objects] /\ blks \in Nat /\ "dir" # "iex" /\ "dinode" # "iex"
      /\ {"dir", "dinode"} \subseteq Managers
  BY AliveIs DEF InsWalkFull, NeedsNext, Running
<1>2. PICK h \in Handles : \E k \in 1..Len(inds[h]) : \E b \in Nat : WalkAt(inds, h, k, b)
  BY <1>1, WalkIs
<1>3. PICK k \in 1..Len(inds[h]) : \E b \in Nat : WalkAt(inds, h, k, b)
  BY <1>2
<1>4. PICK b \in Nat : WalkAt(inds, h, k, b)
  BY <1>3
<1>5. BP!Alloc("iex")
  BY <1>1, AllocIs
<1>6. PICK a \in Nat : Allocs("iex", a)
  BY <1>1, AllocIs
<1>7. /\ disk[b].ie_next = TARBLK_NONE /\ Len(Dext(b)) = MAX_INDEXT
      /\ ins' = [ins EXCEPT !.at = "link", !.new = a]
  BY <1>4, <1>6 DEF InsWalkFull, NeedsNext, WalkAt, Allocs, Dext
<1>8. k = Len(inds[h]) /\ Len(inds[h]) > 0 /\ b = inds[h][Len(inds[h])]
  <2>1. BlockOf(inds, h, k) /\ inds[h][k] = b
    BY <1>4 DEF WalkAt
  <2>2. k = Len(inds[h]) /\ Len(inds[h]) \in Nat
    BY <1>1, <1>7, <2>1, LastIs
  <2> QED
    BY <2>1, <2>2
<1>9. /\ ins' \in Frames /\ ins'.obj = h /\ ins'.de = ins.de /\ ins'.at = "link" /\ ins'.new = a
      /\ ins'.ind_off = b /\ ins' # NoFrame /\ ins \in Frames /\ h = ins.obj
  BY <1>1, <1>4, <1>7 DEF Frames, NoFrame, WalkAt
<1>10. /\ used'["iex"] = used["iex"] \union {a} /\ a \notin used["iex"]
       /\ used'["dinode"] = used["dinode"] /\ used'["dir"] = used["dir"]
       /\ head'["dinode"] = head["dinode"] /\ blks' \in Nat /\ blks <= blks'
       /\ \A c \in 0..blks-1 : disk'[c] = disk[c]
  BY <1>1, <1>6 DEF Allocs
<1>11. \A c \in used["iex"] : c \in 0..blks-1 /\ disk'[c] = disk[c]
  BY <1>1, <1>10, AliveIs
<1>12. ChainInv(inds, lost)'
  <2>1. BlocksOf(inds)'
    BY <1>1, <1>9, <1>10, <1>11, BlocksKept
  <2>2. ~Chained(inds, a)
    BY <1>10, ChainedUsed
  <2>3. FrameOf(inds)'
    <3>1. Len(Dext(b))' = MAX_INDEXT
      BY <1>4, <1>7, <1>11 DEF Dext, WalkAt
    <3> QED
      BY <1>8, <1>9, <1>10, <2>2, <3>1 DEF FrameOf, Chained
  <2>4. \A i \in Handles : CoreOf(inds, i)'
    <3> SUFFICES ASSUME NEW i \in Handles PROVE CoreOf(inds, i)'
      OBVIOUS
    <3>1. CoreOf(inds, i)
      BY ChainsAre
    <3> QED
      BY <1>1, <3>1 DEF CoreOf, Direct
  <2>5. \A c \in used'["iex"] : Chained(inds, c) \/ Taken(c)' \/ c \in lost
    BY <1>1, <1>9, <1>10 DEF Alive, RunInv, ChainInv, Taken
  <2> QED
    BY <2>1, <2>3, <2>4, <2>5 DEF Alive, RunInv, ChainInv, NoneShared, Chained
<1>13. TypeInv' /\ RunInv(inds, lost)'
  <2>1. Carries
    BY <1>9 DEF Carries
  <2>2. \A i \in Handles : Direct(i)' = Direct(i)
    BY <1>1 DEF Direct
  <2>3. \A c \in used["iex"] : Dext(c)' = Dext(c)
    BY <1>11 DEF Dext
  <2> QED
    BY <1>1, <1>10, <1>12, <2>1, <2>2, <2>3, CarriesOn
<1> QED
  BY <1>5, <1>13
-----------------------------------------------------------------------------
(* insBlock puts the extent into an indirect block of the chain.            *)
WalkPut(inds, h, k, b, c) ==
    /\ WalkAt(inds, h, k, b) /\ ins.at = "walk" /\ c \in IndExts /\ writeIex(c, b)
    /\ c.ie_next = disk[b].ie_next /\ Len(c.ie_dext) <= MAX_INDEXT
    /\ k < Len(inds[h]) => Len(c.ie_dext) = MAX_INDEXT
    /\ Holds(c.ie_dext, Dext(b), mapped[h], ins.de)
    /\ Returned /\ phase' = phase /\ inodeNum' = inodeNum
    /\ UNCHANGED <<orgblks, head, used, calls, core>>

LEMMA WalkPutOn ==
    ASSUME NEW inds, NEW lost, Alive(inds, lost), NEW h \in Handles, NEW k \in 1..Len(inds[h]), NEW b \in Nat,
           NEW c, WalkPut(inds, h, k, b, c)
    PROVE  b \in BP!AllUsed /\ BP!WriteUsed(b) /\ TypeInv' /\ RunInv(inds, lost)'
<1>1. /\ h = ins.obj /\ b = inds[h][k] /\ b \in used["iex"] /\ BlockOf(inds, h, k)
      /\ ins.at = "walk" /\ ins' = NoFrame /\ Returned /\ c \in IndExts /\ c.kind = "iex"
      /\ Len(c.ie_dext) <= MAX_INDEXT
      /\ k < Len(inds[h]) => Len(c.ie_dext) = MAX_INDEXT
      /\ used' = used /\ head' = head /\ core' = core /\ phase' = phase /\ inodeNum' = inodeNum
      /\ UNCHANGED <<orgblks, head, used, calls>> /\ writeIex(c, b)
      /\ c.ie_next = disk[b].ie_next /\ Holds(c.ie_dext, Dext(b), mapped[h], ins.de)
  BY DEF WalkPut, WalkAt, Returned, IndExts
<1>2. /\ b \in BP!AllUsed /\ BP!WriteUsed(b) /\ blks' = blks /\ b \in 0..blks-1
      /\ disk' = [disk EXCEPT ![b] = c]
  BY <1>1, IexSeen DEF Alive
<1>3. /\ core \in [Handles -> Objects] /\ DOMAIN disk = 0..blks-1 /\ blks \in Nat
      /\ Len(inds[h]) \in Nat
  BY AliveIs, ChainsAre
<1>4. disk'[b] = c /\ \A d \in 0..blks-1 : d # b => disk'[d] = disk[d]
  BY <1>2, <1>3
<1>5. ChainInv(inds, lost)'
  <2>1. BlocksOf(inds)'
    <3>1. LinkOf(inds, h, k)' = LinkOf(inds, h, k)
      BY <1>1 DEF LinkOf, NoFrame
    <3>2. c.ie_next = LinkOf(inds, h, k)'
      BY <1>1, <3>1 DEF BlockOf
    <3>3. ins.at # "fill" /\ ins'.at # "fill"
      BY <1>1 DEF NoFrame
    <3>4. disk' = [disk EXCEPT ![inds[h][k]] = c]
      BY <1>1, <1>2, Zenon
    <3>5. /\ c \in IndExts /\ Len(c.ie_dext) <= MAX_INDEXT /\ used' = used
          /\ k < Len(inds[h]) => Len(c.ie_dext) = MAX_INDEXT
      BY <1>1
    <3> QED
      BY <3>2, <3>3, <3>4, <3>5, BlocksWritten
  <2>2. \A i \in Handles : CoreOf(inds, i)'
    <3> SUFFICES ASSUME NEW i \in Handles PROVE CoreOf(inds, i)'
      OBVIOUS
    <3>1. CoreOf(inds, i)
      BY ChainsAre
    <3> QED
      BY <1>1, <3>1 DEF CoreOf, Direct
  <2>3. \A d \in used'["iex"] : Chained(inds, d) \/ d \in lost
    BY <1>1 DEF Alive, RunInv, ChainInv, Taken
  <2> QED
    BY <1>1, <2>1, <2>2, <2>3 DEF Alive, RunInv, ChainInv, NoneShared, Chained
<1>6. ExtentInv(inds)'
  <2> SUFFICES ASSUME NEW i \in Handles PROVE ExtentsOf(inds, i)'
    BY DEF ExtentInv
  <2>0. \A j \in Handles : \A n \in 1..Len(inds[j]) :
           ~(j = h /\ n = k) => Dext(inds[j][n])' = Dext(inds[j][n])
    <3> SUFFICES ASSUME NEW j \in Handles, NEW n \in 1..Len(inds[j]), ~(j = h /\ n = k)
                 PROVE  Dext(inds[j][n])' = Dext(inds[j][n])
      OBVIOUS
    <3>1. inds[j][n] # b
      BY <1>1 DEF Alive, RunInv, ChainInv, NoneShared
    <3>2. inds[j][n] \in 0..blks-1
      BY ChainsAre
    <3> QED
      BY <1>4, <3>1, <3>2 DEF Dext
  <2>1. CASE i = h
    <3>1. k \in 0..Len(inds[h]) /\ k # 0
      BY <1>3
    <3>2. Exts(inds, h, k)' = c.ie_dext /\ Exts(inds, h, k) = Dext(b)
      BY <1>1, <1>4, <3>1 DEF Exts, Dext
    <3>3. \A n \in 0..Len(inds[h]) : n # k => n <= Len(inds[h]) /\ Exts(inds, h, n)' = Exts(inds, h, n)
      <4> SUFFICES ASSUME NEW n \in 0..Len(inds[h]), n # k
                   PROVE  n <= Len(inds[h]) /\ Exts(inds, h, n)' = Exts(inds, h, n)
        OBVIOUS
      <4>1. n <= Len(inds[h]) /\ (n = 0 \/ n \in 1..Len(inds[h]))
        BY <1>3
      <4> QED
        BY <1>1, <2>0, <4>1 DEF Exts, Direct
    <3> QED
      BY <1>1, <1>3, <2>1, <3>1, <3>2, <3>3, ExtentsReturned
  <2>2. CASE i # h
    <3>1. Direct(i)' = Direct(i) /\ mapped'[i] = mapped[i]
      BY <1>1, <2>2, ReturnedIs DEF Direct
    <3> QED
      BY <2>0, <2>2, <3>1, ExtentsKept
  <2> QED
    BY <2>1, <2>2
<1>7. TypeInv' /\ RunInv(inds, lost)'
  <2>1. \A d \in 0..blks-1 : d \in used["iex"] \/ disk'[d] = disk[d]
    BY <1>1, <1>4
  <2> QED
    BY <1>1, <1>2, <1>3, <1>5, <1>6, <2>1, ReturnsOn
<1> QED
  BY <1>2, <1>7

(* What is written over block b.                                            *)
LEMMA IexIs ==
    ASSUME NEW o \in IndExts, NEW exts \in Seq(Extents), NEW link \in Nat \union {TARBLK_NONE}
    PROVE  /\ [o EXCEPT !.ie_dext = exts] \in IndExts
           /\ [o EXCEPT !.ie_dext = exts].ie_dext = exts
           /\ [o EXCEPT !.ie_dext = exts].ie_next = o.ie_next
           /\ [o EXCEPT !.ie_next = link] \in IndExts
           /\ [o EXCEPT !.ie_next = link].ie_dext = o.ie_dext
           /\ [o EXCEPT !.ie_next = link].ie_next = link
BY DEF IndExts

LEMMA WalkMerge ==
    ASSUME NEW inds, NEW lost, Alive(inds, lost), InsWalkMerge, Returned, phase' = phase, inodeNum' = inodeNum
    PROVE  (\E b \in BP!AllUsed : BP!WriteUsed(b)) /\ TypeInv' /\ RunInv(inds, lost)'
<1>1. ins.at = "walk"
  BY DEF InsWalkMerge, Running
<1>2. PICK h \in Handles : \E k \in 1..Len(inds[h]) : \E b \in Nat : WalkAt(inds, h, k, b)
  BY <1>1, WalkIs
<1>3. PICK k \in 1..Len(inds[h]) : \E b \in Nat : WalkAt(inds, h, k, b)
  BY <1>2
<1>4. PICK b \in Nat : WalkAt(inds, h, k, b)
  BY <1>3
<1>5. /\ h = ins.obj /\ b = ins.ind_off /\ b = inds[h][k] /\ indExt = disk[b] /\ disk[b] \in IndExts
      /\ Dext(b) \in Seq(Extents) /\ BlockOf(inds, h, k)
  BY <1>4 DEF WalkAt
<1>6. /\ mapped[h] \in Seq(Nat) /\ ins.de \in Extents
      /\ ins.de.de_off = Len(mapped[h])
      /\ Ascends(mapped[h]) /\ Below(mapped[h], ins.de.de_blkno)
      /\ AllRight(Dext(b), mapped[h])
  BY <1>5, DirectHeld
<1>7. Merges(Dext(b), ins.de)
  BY <1>5 DEF InsWalkMerge, Dext
<1> DEFINE exts == Merge(Dext(b), ins.de)
           c == [disk[b] EXCEPT !.ie_dext = exts]
<1>8. writeIex(c, b)
  BY <1>5 DEF InsWalkMerge, Dext
<1>9. exts \in Seq(Extents) /\ Len(exts) = Len(Dext(b))
  BY <1>5, <1>6, <1>7, MergeIs
<1>10. Holds(exts, Dext(b), mapped[h], ins.de)
  BY <1>5, <1>6, <1>7, MergeHolds
<1>11. c \in IndExts /\ c.ie_dext = exts /\ c.ie_next = disk[b].ie_next
  BY <1>5, <1>9, IexIs
<1> HIDE DEF exts, c
<1>12. /\ Len(exts) <= MAX_INDEXT
       /\ k < Len(inds[h]) => Len(exts) = MAX_INDEXT
  BY <1>5, <1>9 DEF BlockOf
<1>13. WalkPut(inds, h, k, b, c)
  BY <1>1, <1>4, <1>8, <1>10, <1>11, <1>12 DEF WalkPut, InsWalkMerge
<1> QED
  BY <1>13, WalkPutOn

LEMMA WalkAppend ==
    ASSUME NEW inds, NEW lost, Alive(inds, lost), InsWalkAppend, Returned, phase' = phase, inodeNum' = inodeNum
    PROVE  (\E b \in BP!AllUsed : BP!WriteUsed(b)) /\ TypeInv' /\ RunInv(inds, lost)'
<1>1. ins.at = "walk"
  BY DEF InsWalkAppend, Running
<1>2. PICK h \in Handles : \E k \in 1..Len(inds[h]) : \E b \in Nat : WalkAt(inds, h, k, b)
  BY <1>1, WalkIs
<1>3. PICK k \in 1..Len(inds[h]) : \E b \in Nat : WalkAt(inds, h, k, b)
  BY <1>2
<1>4. PICK b \in Nat : WalkAt(inds, h, k, b)
  BY <1>3
<1>5. /\ h = ins.obj /\ b = ins.ind_off /\ b = inds[h][k] /\ indExt = disk[b] /\ disk[b] \in IndExts
      /\ Dext(b) \in Seq(Extents) /\ BlockOf(inds, h, k)
  BY <1>4 DEF WalkAt
<1>6. /\ mapped[h] \in Seq(Nat) /\ ins.de \in Extents
      /\ ins.de.de_off = Len(mapped[h])
      /\ AllRight(Dext(b), mapped[h])
  BY <1>5, DirectHeld
<1>7. disk[b].ie_next = TARBLK_NONE /\ Len(Dext(b)) < MAX_INDEXT
  BY <1>5 DEF InsWalkAppend, Dext
<1> DEFINE exts == Append(Dext(b), ins.de)
           c == [disk[b] EXCEPT !.ie_dext = exts]
<1>8. writeIex(c, b)
  BY <1>5 DEF InsWalkAppend, Dext
<1>9. exts \in Seq(Extents) /\ Len(exts) = Len(Dext(b)) + 1 /\ Len(Dext(b)) \in Nat
  BY <1>5, <1>6, AppendProperties
<1>10. Holds(exts, Dext(b), mapped[h], ins.de)
  BY <1>5, <1>6, AppendHolds
<1>11. c \in IndExts /\ c.ie_dext = exts /\ c.ie_next = disk[b].ie_next
  BY <1>5, <1>9, IexIs
<1> HIDE DEF exts, c
<1>12. Len(exts) <= MAX_INDEXT /\ k = Len(inds[h]) /\ Len(inds[h]) \in Nat
  <2>1. k = Len(inds[h]) /\ Len(inds[h]) \in Nat
    BY <1>1, <1>5, <1>7, LastIs
  <2>2. MAX_INDEXT \in Nat
    BY IndExtAssumption
  <2> QED
    BY <1>7, <1>9, <2>1, <2>2
<1>13. WalkPut(inds, h, k, b, c)
  BY <1>1, <1>4, <1>8, <1>10, <1>11, <1>12 DEF WalkPut, InsWalkAppend
<1> QED
  BY <1>13, WalkPutOn
-----------------------------------------------------------------------------
(* insBlock links the new indirect block to the last one, ...               *)
LEMMA Link ==
    ASSUME NEW inds, NEW lost, Alive(inds, lost), InsLink, phase' = phase, mapped' = mapped, inodeNum' = inodeNum
    PROVE  (\E b \in BP!AllUsed : BP!WriteUsed(b)) /\ TypeInv' /\ RunInv(inds, lost)'
<1>1. /\ ins.at = "link" /\ ins \in Frames /\ ins # NoFrame
      /\ ins' = [ins EXCEPT !.at = "fill"]
      /\ UNCHANGED <<orgblks, head, used, calls>> /\ core' = core
      /\ core \in [Handles -> Objects] /\ DOMAIN disk = 0..blks-1 /\ blks \in Nat
  BY AliveIs DEF InsLink, Running, NoFrame
<1>2. PICK h \in Handles : h = ins.obj
  BY <1>1 DEF Frames
<1>3. PICK n \in Nat : n = Len(inds[h])
  BY ChainsAre
<1>4. /\ FrameOf(inds) /\ n > 0 /\ ins.ind_off = inds[h][n] /\ Len(Dext(inds[h][n])) = MAX_INDEXT
      /\ ins.new \in used["iex"] /\ ~Chained(inds, ins.new) /\ ins.new \in Nat
  BY <1>1, <1>2, <1>3 DEF Alive, RunInv, ChainInv, FrameOf, Frames
<1>5. PICK b \in Nat : b = inds[h][n]
  BY <1>3, <1>4, ChainsAre
<1>6. /\ n \in 1..n /\ disk[b] \in IndExts /\ b \in used["iex"] /\ Len(Dext(b)) = MAX_INDEXT
      /\ BlockOf(inds, h, n)
  BY <1>3, <1>4, <1>5, ChainsAre
<1> DEFINE c == [disk[b] EXCEPT !.ie_next = ins.new]
<1>7. writeIex(c, b)
  BY <1>1, <1>4, <1>5 DEF InsLink, indExt
<1>8. c \in IndExts /\ c.ie_dext = Dext(b) /\ c.ie_next = ins.new /\ c.kind = "iex"
  BY <1>4, <1>6 DEF Dext, IndExts
<1> HIDE DEF c
<1>9. /\ b \in BP!AllUsed /\ BP!WriteUsed(b) /\ blks' = blks /\ b \in 0..blks-1
      /\ disk' = [disk EXCEPT ![b] = c]
  BY <1>1, <1>6, <1>7, <1>8, IexSeen DEF Alive
<1>10. /\ ins' \in Frames /\ ins'.obj = h /\ ins'.de = ins.de /\ ins'.at = "fill"
       /\ ins'.new = ins.new /\ ins' # NoFrame
  BY <1>1, <1>2 DEF Frames, NoFrame
<1>11. disk'[b] = c /\ \A d \in 0..blks-1 : d # b => disk'[d] = disk[d]
  BY <1>1, <1>9
<1>12. ChainInv(inds, lost)'
  <2>1. BlocksOf(inds)'
    <3>1. LinkOf(inds, h, n)' = ins.new
      BY <1>3, <1>10 DEF LinkOf
    <3>2. disk' = [disk EXCEPT ![inds[h][n]] = c] /\ n \in 1..Len(inds[h]) /\ n = Len(inds[h])
      BY <1>3, <1>5, <1>6, <1>9
    <3>3. Len(c.ie_dext) = MAX_INDEXT /\ MAX_INDEXT \in Nat /\ c.ie_next = LinkOf(inds, h, n)'
      BY <1>6, <1>8, <3>1, IndExtAssumption
    <3> QED
      <4>1. used' = used /\ ins.at # "fill"
        BY <1>1
      <4>2. Len(c.ie_dext) <= MAX_INDEXT
        BY <3>3
      <4> QED
        BY <1>8, <1>10, <3>2, <3>3, <4>1, <4>2, BlocksWritten
  <2>2. \A i \in Handles : CoreOf(inds, i)'
    <3> SUFFICES ASSUME NEW i \in Handles PROVE CoreOf(inds, i)'
      OBVIOUS
    <3>1. CoreOf(inds, i)
      BY ChainsAre
    <3> QED
      BY <1>1, <3>1 DEF CoreOf, Direct
  <2>3. \A d \in used'["iex"] : Chained(inds, d) \/ Taken(d)' \/ d \in lost
    BY <1>1, <1>10 DEF Alive, RunInv, ChainInv, Taken
  <2>4. FrameOf(inds)'
    <3>1. Len(Dext(b))' = MAX_INDEXT
      BY <1>6, <1>8, <1>11 DEF Dext
    <3>2. Len(Direct(h))' = MAX_DINODE_DIRECT
      BY <1>1, <1>3, <1>4, ChainsAre DEF CoreOf, Direct
    <3> QED
      BY <1>1, <1>3, <1>4, <1>5, <1>10, <3>1, <3>2 DEF FrameOf, Chained
  <2> QED
    BY <1>1, <2>1, <2>2, <2>3, <2>4 DEF Alive, RunInv, ChainInv, NoneShared, Chained
<1>13. Carries
  BY <1>1, <1>2, <1>10 DEF Carries
<1>14. \A d \in used["iex"] : Dext(d)' = Dext(d)
  <2> SUFFICES ASSUME NEW d \in used["iex"] PROVE disk'[d].ie_dext = disk[d].ie_dext
    BY DEF Dext
  <2>1. d \in 0..blks-1
    BY AliveIs
  <2> QED
    BY <1>8, <1>11, <2>1 DEF Dext
<1>15. TypeInv' /\ RunInv(inds, lost)'
  <2>1. \A d \in 0..blks-1 : d \in used["iex"] \/ disk'[d] = disk[d]
    BY <1>6, <1>11
  <2>2. \A i \in Handles : Direct(i)' = Direct(i)
    BY <1>1 DEF Direct
  <2> QED
    BY <1>1, <1>9, <1>12, <1>13, <1>14, <2>1, <2>2, CarriesOn
<1> QED
  BY <1>9, <1>15

(* ... fills it and counts it.                                              *)
LEMMA Fill ==
    ASSUME NEW inds, NEW lost, Alive(inds, lost), InsFill, Returned, phase' = phase, inodeNum' = inodeNum
    PROVE  /\ \E b \in BP!AllUsed : BP!WriteUsed(b)
           /\ TypeInv'
           /\ \E new : RunInv(new, lost)'
<1>1. /\ ins.at = "fill" /\ ins \in Frames /\ ins # NoFrame /\ ins' = NoFrame
      /\ UNCHANGED <<orgblks, head, used, calls>> /\ used' = used /\ head' = head
      /\ core \in [Handles -> Objects] /\ DOMAIN disk = 0..blks-1 /\ blks \in Nat
      /\ inds \in [Handles -> Seq(Nat)]
  BY AliveIs DEF InsFill, Running, NoFrame, Returned
<1>2. PICK h \in Handles : h = ins.obj
  BY <1>1 DEF Frames
<1>3. PICK n \in Nat : n = Len(inds[h])
  BY ChainsAre
<1>4. PICK b \in Nat : b = ins.new
  BY <1>1 DEF Frames
<1>5. /\ FrameOf(inds) /\ b \in used["iex"] /\ ~Chained(inds, b)
      /\ Len(Direct(h)) = MAX_DINODE_DIRECT
      /\ n = 0 => core[h].di_rootIndExt = b
      /\ n # 0 => Len(Dext(inds[h][n])) = MAX_INDEXT
  BY <1>1, <1>2, <1>3, <1>4 DEF Alive, RunInv, ChainInv, FrameOf
<1>6. ins.de \in Extents /\ mapped[h] \in Seq(Nat) /\ ins.de.de_off = Len(mapped[h])
  BY <1>2, DirectHeld
<1> DEFINE c == IndExt(<<ins.de>>, TARBLK_NONE)
<1>7. writeIex(c, b) /\ core' = [core EXCEPT ![h].di_nExtents = core[h].di_nExtents + 1]
  BY <1>2, <1>4 DEF InsFill
<1>8. /\ c \in IndExts /\ c.ie_dext = <<ins.de>> /\ c.ie_next = TARBLK_NONE /\ c.kind = "iex"
      /\ Len(c.ie_dext) = 1
  BY <1>6 DEF IndExt, IndExts
<1> HIDE DEF c
<1>9. /\ b \in BP!AllUsed /\ BP!WriteUsed(b) /\ blks' = blks /\ b \in 0..blks-1
      /\ disk' = [disk EXCEPT ![b] = c]
  BY <1>1, <1>5, <1>7, <1>8, IexSeen DEF Alive
<1>10. disk'[b] = c /\ \A d \in 0..blks-1 : d # b => disk'[d] = disk[d]
  BY <1>1, <1>9
<1> DEFINE new == [inds EXCEPT ![h] = Append(inds[h], b)]
<1>11. /\ new \in [Handles -> Seq(Nat)] /\ Len(new[h]) = n + 1 /\ new[h][n + 1] = b
       /\ \A k \in 1..n : new[h][k] = inds[h][k]
       /\ \A i \in Handles : i # h => new[i] = inds[i]
  <2>1. inds[h] \in Seq(Nat)
    BY <1>1
  <2>2. /\ Append(inds[h], b) \in Seq(Nat) /\ Len(Append(inds[h], b)) = n + 1
        /\ Append(inds[h], b)[n + 1] = b
        /\ \A k \in 1..n : Append(inds[h], b)[k] = inds[h][k]
    BY <1>3, <2>1, AppendProperties
  <2> QED
    BY <1>1, <2>2
<1> HIDE DEF new
<1>12. ASSUME NEW i \in Handles, NEW k \in 1..Len(new[i])
       PROVE  \/ k \in 1..Len(inds[i]) /\ new[i][k] = inds[i][k] /\ ~(i = h /\ k = n + 1)
              \/ i = h /\ k = n + 1 /\ new[i][k] = b
  <2>1. CASE i # h
    BY <1>11, <2>1
  <2>2. CASE i = h
    <3>1. k \in 1..n \/ k = n + 1
      BY <1>11, <2>2
    <3> QED
      BY <1>3, <1>11, <2>2, <3>1
  <2> QED
    BY <2>1, <2>2
<1>13. ASSUME NEW i \in Handles, NEW k \in 1..Len(inds[i])
       PROVE  /\ inds[i][k] # b /\ inds[i][k] \in 0..blks-1
              /\ disk'[inds[i][k]] = disk[inds[i][k]]
  <2>1. inds[i][k] # b
    BY <1>5 DEF Chained
  <2>2. inds[i][k] \in 0..blks-1
    BY ChainsAre
  <2> QED
    BY <1>10, <2>1, <2>2
<1>14. /\ core' \in [Handles -> Objects] /\ core'[h].di_nExtents = core[h].di_nExtents + 1
       /\ \A i \in Handles : /\ core'[i].di_directExtent = core[i].di_directExtent
                             /\ core'[i].di_rootIndExt = core[i].di_rootIndExt
                             /\ i # h => core'[i] = core[i]
  <2>1. core[h].di_nExtents + 1 \in Nat
    BY <1>1 DEF Objects
  <2> QED
    BY <1>1, <1>7, <2>1 DEF Objects
<1>15. \A i \in Handles : CoreOf(new, i)'
  <2> SUFFICES ASSUME NEW i \in Handles PROVE CoreOf(new, i)'
    OBVIOUS
  <2>1. CoreOf(inds, i) /\ Direct(i)' = Direct(i)
    BY <1>14, ChainsAre DEF Direct
  <2>2. CASE i # h
    BY <1>11, <1>14, <2>1, <2>2 DEF CoreOf
  <2>3. CASE i = h
    <3>1. core'[h].di_nExtents = Len(Direct(h)) + (n + 1)
      <4>1. core[h].di_nExtents = Len(Direct(h)) + n /\ Len(Direct(h)) \in Nat
        BY <1>3, <2>1, <2>3, ChainsAre DEF CoreOf
      <4> QED
        BY <1>14, <4>1
    <3>2. core'[h].di_rootIndExt = new[h][1]
      <4>1. CASE n = 0
        BY <1>5, <1>11, <1>14, <4>1
      <4>2. CASE n # 0
        <5>1. 1 \in 1..n /\ core[h].di_rootIndExt = inds[h][1]
          BY <1>3, <2>1, <2>3, <4>2 DEF CoreOf
        <5> QED
          BY <1>11, <1>14, <5>1
      <4> QED
        BY <4>1, <4>2
    <3> QED
      BY <1>5, <1>11, <2>1, <2>3, <3>1, <3>2 DEF CoreOf
  <2> QED
    BY <2>2, <2>3
<1>16. BlocksOf(new)'
  <2> SUFFICES ASSUME NEW i \in Handles, NEW k \in 1..Len(new[i]) PROVE BlockOf(new, i, k)'
    BY DEF BlocksOf
  <2>1. CASE i = h /\ k = n + 1
    <3>1. new[i][k] = b /\ disk'[b] = c /\ b \in used'["iex"] /\ Len(new[i]) = k
      BY <1>1, <1>5, <1>10, <1>11, <2>1
    <3>2. LinkOf(new, i, k)' = TARBLK_NONE
      BY <1>1, <3>1 DEF LinkOf, NoFrame
    <3>3. 1 <= MAX_INDEXT /\ ~(k < k)
      BY <1>3, <2>1, IndExtAssumption
    <3> QED
      BY <1>8, <3>1, <3>2, <3>3 DEF BlockOf, Dext
  <2>2. CASE k \in 1..Len(inds[i]) /\ new[i][k] = inds[i][k] /\ ~(i = h /\ k = n + 1)
    <3>1. /\ BlockOf(inds, i, k) /\ disk'[new[i][k]] = disk[inds[i][k]]
          /\ inds[i][k] \in used'["iex"]
      BY <1>1, <1>13, <2>2, ChainsAre
    <3>2. LinkOf(new, i, k)' = LinkOf(inds, i, k)
      <4>1. CASE i # h
        BY <1>1, <1>2, <1>11, <4>1 DEF LinkOf, NoFrame
      <4>2. CASE i = h /\ k < n
        <5>1. k + 1 \in 1..n /\ k < Len(inds[h]) /\ k < Len(new[h])
          <6>1. k \in 1..n /\ k < n
            BY <1>3, <2>2, <4>2
          <6>2. Len(new[h]) = n + 1
            BY <1>11
          <6> QED
            BY <1>3, <6>1, <6>2
        <5> QED
          BY <1>11, <4>2, <5>1 DEF LinkOf
      <4>3. CASE i = h /\ k = n
        <5>1. LinkOf(inds, i, k) = b
          BY <1>1, <1>2, <1>3, <1>4, <4>3 DEF LinkOf
        <5>2. LinkOf(new, i, k)' = b
          BY <1>3, <1>11, <4>3 DEF LinkOf
        <5> QED
          BY <5>1, <5>2
      <4> QED
        BY <1>3, <2>2, <4>1, <4>2, <4>3
    <3>3. k < Len(new[i]) => Len(Dext(inds[i][k])) = MAX_INDEXT
      <4>1. CASE i # h
        BY <1>11, <3>1, <4>1 DEF BlockOf
      <4>2. CASE i = h /\ k < n
        BY <1>3, <3>1, <4>2 DEF BlockOf
      <4>3. CASE i = h /\ k = n
        BY <1>3, <1>5, <2>2, <4>3
      <4> QED
        BY <1>3, <2>2, <4>1, <4>2, <4>3
    <3> QED
      BY <2>2, <3>1, <3>2, <3>3 DEF BlockOf, Dext
  <2> QED
    BY <1>12, <2>1, <2>2
<1>17. NoneShared(new)
  <2> SUFFICES ASSUME NEW i \in Handles, NEW j \in Handles,
                      NEW k \in 1..Len(new[i]), NEW l \in 1..Len(new[j]),
                      new[i][k] = new[j][l]
               PROVE  i = j /\ k = l
    BY DEF NoneShared
  <2>1. NoneShared(inds)
    BY DEF Alive, RunInv, ChainInv
  <2>2. CASE i = h /\ k = n + 1
    BY <1>12, <1>13, <2>2
  <2>3. CASE ~(i = h /\ k = n + 1)
    <3>1. k \in 1..Len(inds[i]) /\ new[i][k] = inds[i][k] /\ inds[i][k] # b
      BY <1>12, <1>13, <2>3
    <3>2. l \in 1..Len(inds[j]) /\ new[j][l] = inds[j][l]
      BY <1>12, <3>1
    <3>3. inds[i][k] = inds[j][l]
      BY <3>1, <3>2
    <3> QED
      BY <2>1, <3>1, <3>2, <3>3 DEF NoneShared
  <2> QED
    BY <2>2, <2>3
<1>18. \A d \in used'["iex"] : Chained(new, d) \/ d \in lost
  <2> SUFFICES ASSUME NEW d \in used["iex"], d \notin lost PROVE Chained(new, d)
    BY <1>1
  <2>1. Chained(inds, d) \/ d = b
    BY <1>4 DEF Alive, RunInv, ChainInv, Taken
  <2>2. CASE d = b
    <3>1. n + 1 \in 1..Len(new[h])
      BY <1>11
    <3> QED
      BY <1>11, <2>2, <3>1 DEF Chained
  <2>3. CASE Chained(inds, d)
    <3>1. PICK i \in Handles : \E k \in 1..Len(inds[i]) : d = inds[i][k]
      BY <2>3 DEF Chained
    <3>2. PICK k \in 1..Len(inds[i]) : d = inds[i][k]
      BY <3>1
    <3>3. k \in 1..Len(new[i]) /\ new[i][k] = d
      BY <1>3, <1>11, <3>2
    <3> QED
      BY <3>3 DEF Chained
  <2> QED
    BY <2>1, <2>2, <2>3
<1>19. ChainInv(new, lost)'
  <2>1. NoneShared(new)'
    BY <1>17 DEF NoneShared
  <2>2. \A d \in used'["iex"] : Chained(new, d) \/ d \in lost
    BY <1>18 DEF Chained
  <2> QED
    BY <1>1, <1>11, <1>15, <1>16, <2>1, <2>2 DEF ChainInv
<1>20. ExtentInv(new)'
  <2> SUFFICES ASSUME NEW i \in Handles PROVE ExtentsOf(new, i)'
    BY DEF ExtentInv
  <2>1. CASE i # h
    <3>1. Direct(i)' = Direct(i) /\ mapped'[i] = mapped[i] /\ new[i] = inds[i]
      BY <1>2, <1>11, <1>14, <2>1, ReturnedIs DEF Direct
    <3>2. \A k \in 1..Len(inds[i]) : Dext(inds[i][k])' = Dext(inds[i][k])
      BY <1>13 DEF Dext
    <3> QED
      BY <3>1, <3>2, ExtentsKept
  <2>2. CASE i = h
    <3>1. Exts(new, h, n + 1)' = Append(<<>>, ins.de)
      <4>1. n + 1 # 0
        BY <1>3
      <4> QED
        BY <1>8, <1>10, <1>11, <4>1 DEF Exts, Dext
    <3>2. Holds(Append(<<>>, ins.de), <<>>, mapped[h], ins.de)
      <4>1. <<>> \in Seq(Extents) /\ AllRight(<<>>, mapped[h])
        BY DEF AllRight
      <4> QED
        BY <1>6, <4>1, AppendHolds
    <3>3. ASSUME NEW k \in 0..Len(new[h]), k # n + 1
          PROVE  k <= Len(inds[h]) /\ Exts(new, h, k)' = Exts(inds, h, k)
      <4>1. k <= n
        BY <1>11, <3>3
      <4>2. CASE k = 0
        BY <1>3, <1>14, <4>1, <4>2 DEF Exts, Direct
      <4>3. CASE k # 0
        <5>1. k \in 1..n /\ k \in 1..Len(inds[h])
          BY <1>3, <4>1, <4>3
        <5> QED
          BY <1>3, <1>11, <1>13, <4>3, <5>1 DEF Exts, Dext
      <4> QED
        BY <4>2, <4>3
    <3>4. n + 1 \in 0..Len(new[h]) /\ Len(new[h]) \in Nat /\ Len(inds[h]) <= Len(new[h])
          /\ ~(n + 1 <= Len(inds[h]))
      BY <1>3, <1>11
    <3> QED
      BY <1>2, <2>2, <3>1, <3>2, <3>3, <3>4, ExtentsReturned
  <2> QED
    BY <2>1, <2>2
<1>21. TypeInv' /\ RunInv(new, lost)'
  <2>1. \A d \in 0..blks-1 : d \in used["iex"] \/ disk'[d] = disk[d]
    BY <1>5, <1>10
  <2> QED
    BY <1>1, <1>9, <1>14, <1>19, <1>20, <2>1, ReturnsOn
<1> QED
  BY <1>9, <1>21
-----------------------------------------------------------------------------
(* The steps that call insBlock, or find that they need not.                *)
LEMMA Starts ==
    ASSUME NEW inds, NEW lost, Alive(inds, lost), ins = NoFrame, core' = core, mapped' = mapped,
           used'["iex"] = used["iex"], \A c \in 0..blks-1 : disk'[c] = disk[c],
           ins' = NoFrame \/ ins'.at = "direct"
    PROVE  ChainInv(inds, lost)' /\ ExtentInv(inds)'
<1>1. ins.at = "none" /\ ins'.at \in {"none", "direct"}
  BY DEF NoFrame
<1>2. \A b \in used["iex"] : b \in 0..blks-1 /\ disk'[b] = disk[b]
  BY AliveIs
<1>3. ChainInv(inds, lost)'
  <2>1. BlocksOf(inds)'
    BY <1>1, <1>2, BlocksKept
  <2>2. \A i \in Handles : CoreOf(inds, i)'
    <3> SUFFICES ASSUME NEW i \in Handles PROVE CoreOf(inds, i)'
      OBVIOUS
    <3>1. CoreOf(inds, i)
      BY ChainsAre
    <3> QED
      BY <3>1 DEF CoreOf, Direct
  <2>3. \A b \in used'["iex"] : Chained(inds, b) \/ b \in lost
    BY <1>1 DEF Alive, RunInv, ChainInv, Taken
  <2>4. FrameOf(inds)' \/ ins' = NoFrame
    BY <1>1 DEF FrameOf
  <2> QED
    BY <2>1, <2>2, <2>3, <2>4 DEF Alive, RunInv, ChainInv, NoneShared, Chained
<1>4. ASSUME NEW i \in Handles PROVE ExtentsOf(inds, i)'
  <2>1. \A k \in 1..Len(inds[i]) : Dext(inds[i][k])' = Dext(inds[i][k])
    BY <1>2, ChainsAre DEF Dext
  <2>2. Direct(i)' = Direct(i) /\ mapped'[i] = mapped[i]
    BY DEF Direct
  <2> QED
    BY <2>1, <2>2, ExtentsKept
<1> QED
  BY <1>3, <1>4 DEF ExtentInv

(* Nothing happens to the maps.                                             *)
LEMMA Stutters ==
    ASSUME NEW inds, NEW lost, Alive(inds, lost), ins = NoFrame, UNCHANGED vars
    PROVE  TypeInv' /\ RunInv(inds, lost)'
<1>1. /\ UNCHANGED <<orgblks, blks, disk, head, used, calls, core, ins, inodeNum, mapped, phase>>
      /\ blks \in Nat
  BY AliveIs DEF vars, spaceVars, inodeVars
<1>2. ChainInv(inds, lost)' /\ ExtentInv(inds)'
  BY <1>1, Starts
<1>3. GrownInv'
  BY <1>1 DEF Alive, RunInv, GrownInv, Ascends, Below, NoFrame
<1>4. InodeInv'
  <2>1. Dinodes' = Dinodes
    BY <1>1 DEF Dinodes, Grown, NoFrame
  <2> QED
    BY <1>1, <2>1, InodesKept
<1>5. TypeInv'
  BY <1>1 DEF Alive, TypeInv, Handles, NoFrame
<1> QED
  BY <1>2, <1>3, <1>4, <1>5 DEF RunInv


LEMMA DirGrows ==
    ASSUME NEW inds, NEW lost, Alive(inds, lost), NEW h \in Dirs, GrowDir(h), phase' = phase, mapped' = mapped
    PROVE  BP!Alloc("dir") /\ TypeInv' /\ RunInv(inds, lost)'
<1>1. /\ ins = NoFrame /\ Fits("dir") /\ allocBlock("dir") /\ core' = core /\ inodeNum' = inodeNum
      /\ "dir" \in Managers /\ "iex" \in Managers /\ "dinode" \in Managers
      /\ "dir" # "iex" /\ "dir" # "dinode" /\ h \in Handles /\ h # TARFS_FREE_INO
      /\ blks \in Nat /\ mapped \in [Handles -> Seq(Nat)] /\ GrownInv
      /\ core \in [Handles -> Objects]
  BY AliveIs DEF GrowDir, Handles, Alive, RunInv
<1>2. BP!Alloc("dir")
  BY <1>1, AllocIs
<1>3. PICK b \in Nat : Allocs("dir", b)
  BY <1>1, AllocIs
<1>4. /\ b < blks' /\ \A c \in used["dir"] : c < b
      /\ used'["dir"] = used["dir"] \union {b}
      /\ used'["iex"] = used["iex"] /\ used'["dinode"] = used["dinode"]
      /\ head'["dinode"] = head["dinode"] /\ blks' \in Nat /\ blks <= blks'
      /\ \A c \in 0..blks-1 : disk'[c] = disk[c] /\ b = NextBlock("dir")
  BY <1>1, <1>3 DEF Allocs
<1>5. PICK z \in Nat : z = Len(mapped[h])
  BY <1>1
<1>6. ins' = [at |-> "direct", obj |-> h, de |-> Extent(z, b, 1), ind_off |-> 0, new |-> 0]
  BY <1>3, <1>5 DEF GrowDir, Call, Allocs
<1>7. /\ ins' \in Frames /\ ins' # NoFrame /\ ins'.at = "direct" /\ ins'.obj = h
      /\ ins'.de.de_off = z /\ ins'.de.de_blkno = b /\ ins'.de.de_nblks = 1
  BY <1>1, <1>6 DEF Frames, Extents, Extent, NoFrame
<1>8. ChainInv(inds, lost)' /\ ExtentInv(inds)'
  BY <1>1, <1>4, <1>7, Starts
<1>9. TypeInv'
  BY <1>1, <1>7 DEF Alive, TypeInv
<1>10. GrownInv'
  <2>1. ASSUME NEW i \in Handles PROVE Ascends(mapped'[i]) /\ Below(mapped'[i], blks')
    <3>1. Ascends(mapped[i]) /\ Below(mapped[i], blks) /\ mapped[i] \in Seq(Nat)
      BY <1>1 DEF GrownInv
    <3>2. Below(mapped[i], blks')
      BY <1>1, <1>4, <3>1 DEF Below
    <3> QED
      BY <3>1, <3>2
  <2>2. \A i \in Dirs : \A k \in 1..Len(mapped'[i]) : mapped'[i][k] \in used'["dir"]
    BY <1>1, <1>4 DEF GrownInv
  <2>3. Below(mapped'[h], b)
    BY <1>1, <1>4 DEF GrownInv, Below
  <2>4. b + 1 <= blks' /\ b \in used'["dir"]
    BY <1>4
  <2> QED
    BY <1>5, <1>7, <2>1, <2>2, <2>3, <2>4 DEF GrownInv
<1>11. InodeInv'
  <2>1. Dinodes' = Dinodes
    BY <1>1, <1>7 DEF Dinodes
  <2> QED
    BY <1>1, <1>4, <2>1, InodeKept
<1> QED
  BY <1>2, <1>8, <1>9, <1>10, <1>11 DEF RunInv

(* A dinode from the chunk at hand: the next one in the map.                *)
LEMMA FreePops ==
    ASSUME NEW inds, NEW lost, Alive(inds, lost), GrowFree, HasFree("dinode"), phase' = phase, mapped' = mapped
    PROVE  BP!Alloc("dinode") /\ TypeInv' /\ RunInv(inds, lost)'
<1>1. /\ ins = NoFrame /\ Fits("dinode") /\ allocBlock("dinode") /\ core' = core
      /\ inodeNum' = inodeNum + 1 /\ ins' = NoFrame
      /\ "dir" \in Managers /\ "iex" \in Managers /\ "dinode" \in Managers
      /\ "dinode" # "iex" /\ "dir" # "dinode"
      /\ blks \in Nat /\ mapped \in [Handles -> Seq(Nat)] /\ GrownInv /\ inodeNum \in Nat
      /\ head \in [Managers -> Nat \union {TARBLK_NONE}]
  BY AliveIs DEF GrowFree, Alive, RunInv
<1>2. BP!Alloc("dinode")
  BY <1>1, AllocIs
<1>3. PICK b \in Nat : Allocs("dinode", b)
  BY <1>1, AllocIs
<1>4. /\ b = head["dinode"] /\ used'["dinode"] = used["dinode"] \union {b}
      /\ used'["iex"] = used["iex"] /\ used'["dir"] = used["dir"]
  BY <1>1, <1>3 DEF Allocs, NextBlock, HasFree
<1>5. /\ head' = [head EXCEPT !["dinode"] = disk[head["dinode"]].f_nextblkno]
      /\ blks' = blks /\ disk' = disk
  BY <1>1 DEF allocBlock, Refill, PopFree, HasFree
<1>6. ChainInv(inds, lost)' /\ ExtentInv(inds)'
  BY <1>1, <1>4, <1>5, Starts
<1>7. TypeInv'
  BY <1>1 DEF Alive, TypeInv
<1>8. GrownInv'
  BY <1>1, <1>4, <1>5 DEF GrownInv
<1>9. InodeInv'
  <2> DEFINE D == Dinodes
  <2>1. PICK n \in Nat, e \in Nat :
          /\ n = Len(D) /\ e = D[n] /\ b <= e /\ e < blks /\ inodeNum < n
          /\ \A i \in 1..inodeNum : D[i] \in used["dinode"]
          /\ \A i \in inodeNum+1..n : D[i] = b + (i - inodeNum - 1)
          /\ Chain("dinode", e)
    <3>1. /\ D \in Seq(Nat) /\ D[Len(D)] \in Nat /\ b <= D[Len(D)] /\ D[Len(D)] < blks
      BY <1>4, DinodesIs
    <3>2. Len(D) \in Nat
      BY <3>1
    <3> QED
      BY <1>4, <3>1, <3>2 DEF Alive, RunInv, InodeInv
  <2>2. Dinodes' = D
    BY <1>1 DEF Dinodes
  <2> HIDE DEF D
  <2>3. e = b + (n - inodeNum - 1)
    <3>1. n \in inodeNum+1..n
      BY <1>1, <2>1
    <3>2. D[n] = b + (n - inodeNum - 1)
      BY <2>1, <3>1
    <3> QED
      BY <2>1, <3>2
  <2>4. disk[b] = Free(IF b = e THEN TARBLK_NONE ELSE b + 1)
    <3>1. b \in head["dinode"]..e
      BY <1>4, <2>1
    <3> QED
      BY <2>1, <3>1 DEF Chain
  <2>5. head'["dinode"] = IF b = e THEN TARBLK_NONE ELSE b + 1
    BY <1>1, <1>4, <1>5, <2>4 DEF Free
  <2>6. \A i \in 1..inodeNum+1 : D[i] \in used'["dinode"]
    <3>1. D[inodeNum + 1] = b
      BY <1>1, <2>1
    <3>2. ASSUME NEW i \in 1..inodeNum+1 PROVE D[i] \in used'["dinode"]
      <4>1. i \in 1..inodeNum \/ i = inodeNum + 1
        BY <1>1
      <4> QED
        BY <1>4, <2>1, <3>1, <4>1
    <3> QED
      BY <3>2
  <2>7. CASE b = e
    <3>1. ~HasFree("dinode")' /\ inodeNum + 1 = n
      BY <1>1, <2>3, <2>5, <2>7 DEF HasFree
    <3> QED
      BY <1>1, <2>1, <2>2, <2>6, <3>1 DEF InodeInv
  <2>8. CASE b # e
    <3>1. head'["dinode"] = b + 1 /\ HasFree("dinode")' /\ inodeNum + 1 < n
      BY <1>1, <2>1, <2>3, <2>5, <2>8 DEF HasFree, TARBLK_NONE
    <3>2. \A i \in inodeNum+1+1..n : D[i] = b + 1 + (i - (inodeNum + 1) - 1)
      BY <1>1, <2>1
    <3>3. Chain("dinode", e)'
      <4>1. \A x \in b+1..e : x \in b..e
        OBVIOUS
      <4> QED
        BY <1>4, <1>5, <2>1, <2>8, <3>1, <4>1 DEF Chain
    <3> QED
      BY <1>1, <2>1, <2>2, <2>6, <3>1, <3>2, <3>3 DEF InodeInv
  <2> QED
    BY <2>7, <2>8
<1> QED
  BY <1>2, <1>6, <1>7, <1>8, <1>9 DEF RunInv

(* The first dinode of a new chunk, which the map of the free inode gets.   *)
LEMMA FreeRefills ==
    ASSUME NEW inds, NEW lost, Alive(inds, lost), GrowFree, ~HasFree("dinode"), phase' = phase, mapped' = mapped
    PROVE  BP!Alloc("dinode") /\ TypeInv' /\ RunInv(inds, lost)'
<1>1. /\ ins = NoFrame /\ Fits("dinode") /\ allocBlock("dinode") /\ core' = core
      /\ inodeNum' = inodeNum + 1
      /\ "dir" \in Managers /\ "iex" \in Managers /\ "dinode" \in Managers
      /\ "dinode" # "iex" /\ "dir" # "dinode" /\ TARFS_FREE_INO \in Handles /\ TARFS_FREE_INO \notin Dirs
      /\ blks \in Nat /\ mapped \in [Handles -> Seq(Nat)] /\ GrownInv /\ inodeNum \in Nat
      /\ head \in [Managers -> Nat \union {TARBLK_NONE}] /\ DOMAIN disk = 0..blks-1
      /\ core \in [Handles -> Objects]
  BY AliveIs DEF GrowFree, Handles, Alive, RunInv
<1>2. BP!Alloc("dinode")
  BY <1>1, AllocIs
<1>3. PICK b \in Nat : Allocs("dinode", b)
  BY <1>1, AllocIs
<1>4. /\ b = blks /\ used'["dinode"] = used["dinode"] \union {b}
      /\ used'["iex"] = used["iex"] /\ used'["dir"] = used["dir"]
      /\ \A c \in 0..blks-1 : disk'[c] = disk[c]
  BY <1>1, <1>3 DEF Allocs, NextBlock, HasFree
<1>5. PICK m \in Nat : m = Bulks["dinode"] /\ m >= 2
  BY <1>1, BulksAssumption
<1>6. /\ head' = [head EXCEPT !["dinode"] = b + 1]
      /\ blks' = IF b + m > b THEN b + m ELSE b
      /\ disk' = [c \in 0..blks'-1 |-> IF c \in b..b+m-1 THEN FreeChunk(b, m)[c - b] ELSE disk[c]]
  BY <1>1, <1>4, <1>5 DEF allocBlock, Refill, PopFree, HasFree, writeBlock
<1>7. head'["dinode"] = b + 1 /\ blks' = b + m /\ HasFree("dinode")'
  <2>1. head'["dinode"] = b + 1
    BY <1>1, <1>6
  <2> QED
    BY <1>5, <1>6, <2>1 DEF HasFree, TARBLK_NONE
<1>8. ASSUME NEW c \in b+1..b+m-1
      PROVE  disk'[c] = Free(IF c = b + m - 1 THEN TARBLK_NONE ELSE c + 1)
  <2>1. c \in 0..blks'-1 /\ c \in b..b+m-1
    BY <1>5, <1>7
  <2>2. disk'[c] = FreeChunk(b, m)[c - b]
    BY <1>6, <2>1
  <2>3. c - b \in 0..m-1 /\ b + (c - b) + 1 = c + 1 /\ (c - b = m - 1 <=> c = b + m - 1)
    BY <1>5
  <2> QED
    BY <2>2, <2>3 DEF FreeChunk
<1>9. PICK z \in Nat : /\ z = Len(mapped[TARFS_FREE_INO]) /\ inodeNum = z
                       /\ \A i \in 1..z : mapped[TARFS_FREE_INO][i] \in used["dinode"]
  <2>1. Dinodes = mapped[TARFS_FREE_INO] /\ Len(mapped[TARFS_FREE_INO]) \in Nat
    BY <1>1 DEF Dinodes
  <2>2. InodeInv
    BY DEF Alive, RunInv
  <2> QED
    BY <2>1, <2>2 DEF InodeInv
<1>10. ins' = [at |-> "direct", obj |-> TARFS_FREE_INO, de |-> Extent(z, b, m), ind_off |-> 0, new |-> 0]
  BY <1>3, <1>5, <1>9 DEF GrowFree, Call, Allocs
<1>11. /\ ins' \in Frames /\ ins' # NoFrame /\ ins'.at = "direct" /\ ins'.obj = TARFS_FREE_INO
       /\ ins'.de \in Extents
       /\ ins'.de.de_off = z /\ ins'.de.de_blkno = b /\ ins'.de.de_nblks = m
  BY <1>1, <1>5, <1>10 DEF Frames, Extents, Extent, NoFrame
<1>12. ChainInv(inds, lost)' /\ ExtentInv(inds)'
  BY <1>1, <1>4, <1>11, Starts
<1>13. TypeInv'
  BY <1>1, <1>11 DEF Alive, TypeInv
<1>14. GrownInv'
  <2>1. ASSUME NEW i \in Handles PROVE Ascends(mapped'[i]) /\ Below(mapped'[i], blks')
    <3>1. Ascends(mapped[i]) /\ Below(mapped[i], blks) /\ mapped[i] \in Seq(Nat)
      BY <1>1 DEF GrownInv
    <3>2. Below(mapped[i], blks')
      BY <1>1, <1>4, <1>5, <1>7, <3>1 DEF Below
    <3> QED
      BY <3>1, <3>2
  <2>2. \A i \in Dirs : \A k \in 1..Len(mapped'[i]) : mapped'[i][k] \in used'["dir"]
    BY <1>1, <1>4 DEF GrownInv
  <2>3. Below(mapped'[TARFS_FREE_INO], b)
    BY <1>1, <1>4 DEF GrownInv
  <2> QED
    BY <1>1, <1>7, <1>9, <1>11, <2>1, <2>2, <2>3 DEF GrownInv
<1>15. InodeInv'
  <2>0. PICK de \in Extents : de = ins'.de
    BY <1>11
  <2>10. PICK s \in Seq(Nat) : s = mapped[TARFS_FREE_INO]
    BY <1>1
  <2>1. PICK D : D = s \o Grown(de)
    OBVIOUS
  <2>2. Dinodes' = D
    <3>1. Dinodes' = mapped'[TARFS_FREE_INO] \o Grown(ins'.de)
      BY <1>11 DEF Dinodes, Grown
    <3> QED
      BY <1>1, <2>0, <2>1, <2>10, <3>1
  <2>3. /\ Len(D) = z + m
        /\ \A i \in 1..z : D[i] = mapped[TARFS_FREE_INO][i]
        /\ \A i \in 1..m : D[z + i] = b + i - 1
    <3>1. /\ Len(D) = Len(s) + de.de_nblks
          /\ \A i \in 1..Len(s) : D[i] = s[i]
          /\ \A i \in 1..de.de_nblks : D[Len(s) + i] = de.de_blkno + i - 1
      BY <2>1, GrownIs
    <3> QED
      BY <1>9, <1>11, <2>0, <2>10, <3>1
  <2>4. \A i \in 1..z+1 : D[i] \in used'["dinode"]
    <3>0. 1 \in 1..m /\ b + 1 - 1 = b
      BY <1>5
    <3>1. D[z + 1] = b
      BY <2>3, <3>0
    <3> SUFFICES ASSUME NEW i \in 1..z+1 PROVE D[i] \in used'["dinode"]
      OBVIOUS
    <3>2. i \in 1..z \/ i = z + 1
      OBVIOUS
    <3> QED
      BY <1>4, <1>9, <2>3, <3>1, <3>2
  <2>5. ASSUME NEW i \in z+1+1..z+m PROVE D[i] = b + 1 + (i - (z + 1) - 1)
    <3>1. i - z \in 1..m /\ z + (i - z) = i
      BY <1>5
    <3>2. D[z + (i - z)] = b + (i - z) - 1
      BY <2>3, <3>1
    <3>3. b + (i - z) - 1 = b + 1 + (i - (z + 1) - 1)
      BY <2>5
    <3> QED
      BY <3>1, <3>2, <3>3, Zenon
  <2>6. D[z + m] = b + m - 1
    <3>1. m \in 1..m
      BY <1>5
    <3> QED
      BY <2>3, <3>1
  <2>7. Chain("dinode", b + m - 1)'
    BY <1>5, <1>7, <1>8 DEF Chain
  <2>8. z + 1 < z + m /\ inodeNum' = z + 1
    BY <1>1, <1>5, <1>9
  <2>9. /\ inodeNum' < Len(D)
        /\ \A i \in 1..inodeNum' : D[i] \in used'["dinode"]
        /\ \A i \in inodeNum'+1..Len(D) : D[i] = head'["dinode"] + (i - inodeNum' - 1)
    BY <1>7, <2>3, <2>4, <2>5, <2>8
  <2>18. Chain("dinode", D[Len(D)])'
    BY <2>3, <2>6, <2>7
  <2>11. inodeNum' <= Len(D)
    BY <2>3, <2>8
  <2> QED
    BY <1>7, <2>2, <2>9, <2>18, <2>11 DEF InodeInv
<1> QED
  BY <1>2, <1>12, <1>13, <1>14, <1>15 DEF RunInv
-----------------------------------------------------------------------------
(* The invariant holds, and every step is one of the block layer's client.  *)
LEMMA StartIs ==
    ASSUME NEW n \in 1..MaxBlks, SpaceInit(n), phase = "run", ins = NoFrame, inodeNum = 0,
           core = [h \in Handles |-> EmptyMap], mapped = [h \in Handles |-> <<>>]
    PROVE  BP!ClientInit /\ BP!IInv /\ TypeInv /\ RunInv([h \in Handles |-> <<>>], {})
<1>1. MaxBlks \in Nat \ {0} /\ n \in Nat /\ "dinode" \in Managers
  BY ExtentMapAssumption
<1>2. /\ orgblks = n /\ blks = n /\ disk = [b \in 0..n-1 |-> TarBlock]
      /\ head = [m \in Managers |-> TARBLK_NONE] /\ used = [m \in Managers |-> {}]
      /\ calls = [m \in Managers |-> 0]
  BY <1>1 DEF SpaceInit
<1>3. [b \in DOMAIN disk |-> Abstract(disk[b])] = [b \in 0..n-1 |-> BP!TarBlock]
  <2>1. Abstract(TarBlock) = BP!TarBlock
    BY DEF Abstract, TarBlock, BP!TarBlock
  <2> QED
    BY <1>2, <2>1
<1>4. BP!ClientInit
  <2>1. BP!SpaceInit(n)
    BY <1>2, <1>3 DEF BP!SpaceInit, BP!TARBLK_NONE, TARBLK_NONE
  <2> QED
    BY <1>1, <2>1 DEF BP!ClientInit
<1>5. BP!IInv
  BY <1>4, BP!InitIInv, BulksAssumption, ExtentMapAssumption
<1>6. EmptyMap \in Objects /\ EmptyMap.di_directExtent = <<>> /\ EmptyMap.di_nExtents = 0
  BY DEF EmptyMap, Objects
<1>7. /\ core = [h \in Handles |-> EmptyMap] /\ ins = NoFrame /\ inodeNum = 0
      /\ mapped = [h \in Handles |-> <<>>]
  OBVIOUS
<1>8. TypeInv
  BY <1>1, <1>6, <1>7 DEF TypeInv
<1> DEFINE inds == [h \in Handles |-> <<>>]
<1>9. ChainInv(inds, {})
  <2>1. ASSUME NEW h \in Handles
        PROVE  /\ CoreOf(inds, h) /\ Len(inds[h]) = 0
    <3>1. Len(inds[h]) = 0 /\ Direct(h) = <<>> /\ core[h].di_nExtents = 0
      BY <1>6, <1>7 DEF Direct
    <3> QED
      BY <3>1, IndExtAssumption DEF CoreOf
  <2>2. used["iex"] = {}
    BY <1>2, IndExtAssumption
  <2> HIDE DEF inds
  <2>3. BlocksOf(inds) /\ NoneShared(inds)
    BY <2>1 DEF BlocksOf, NoneShared
  <2>4. inds \in [Handles -> Seq(Nat)]
    BY DEF inds
  <2> QED
    BY <1>7, <2>1, <2>2, <2>3, <2>4 DEF ChainInv
<1>10. ExtentInv(inds)
  <2> SUFFICES ASSUME NEW h \in Handles PROVE ExtentsOf(inds, h)
    BY DEF ExtentInv
  <2>1. Len(inds[h]) = 0 /\ Direct(h) = <<>> /\ mapped[h] = <<>>
    BY <1>6, <1>7 DEF Direct
  <2>2. AllRight(Exts(inds, h, 0), mapped[h])
    BY <2>1 DEF AllRight, Exts
  <2> HIDE DEF inds
  <2> QED
    BY <2>1, <2>2 DEF ExtentsOf
<1>11. GrownInv
  <2>1. \A h \in Handles : mapped[h] = <<>> /\ Len(mapped[h]) = 0
    BY <1>7
  <2> QED
    BY <1>7, <2>1 DEF GrownInv, Ascends, Below, Handles
<1>12. InodeInv
  <2>1. Dinodes = <<>>
    BY <1>7 DEF Dinodes, Handles
  <2>2. ~HasFree("dinode")
    BY <1>1, <1>2 DEF HasFree
  <2> QED
    BY <1>7, <2>1, <2>2 DEF InodeInv
<1>13. RunInv(inds, {})
  <2> HIDE DEF inds
  <2> QED
    BY <1>9, <1>10, <1>11, <1>12 DEF RunInv
<1> QED
  BY <1>4, <1>5, <1>8, <1>13

LEMMA InitIs ==
    ASSUME Init
    PROVE  BP!ClientInit /\ IInv
<1>1. 1 \in 1..MaxBlks /\ SpaceInit(1) /\ phase = "run" /\ ins = NoFrame /\ inodeNum = 0
  BY ExtentMapAssumption DEF Init
<1>2. core = [h \in Handles |-> EmptyMap] /\ mapped = [h \in Handles |-> <<>>]
  BY DEF Init
<1>3. BP!ClientInit /\ BP!IInv /\ TypeInv /\ RunInv([h \in Handles |-> <<>>], {})
  BY <1>1, <1>2, StartIs
<1>4. \E inds : RunInv(inds, {})
  BY <1>3
<1> QED
  BY <1>3, <1>4 DEF IInv

(* What FsMaker does besides: it writes blocks that are in no chain, ...     *)
LEMMA DataWritten ==
    ASSUME NEW inds, NEW lost, Alive(inds, lost), ins = NoFrame,
           UNCHANGED <<orgblks, head, used, calls, core, ins, inodeNum, mapped, phase>>,
           NEW m \in Managers, NEW b \in used[m], b \notin used["iex"],
           NEW c, c.kind \notin {"tar", "free", "super"}, writeIex(c, b)
    PROVE  /\ b \in BP!AllUsed /\ BP!WriteUsed(b)
           /\ blks' = blks /\ b \in 0..blks-1 /\ disk' = [disk EXCEPT ![b] = c]
           /\ TypeInv' /\ RunInv(inds, lost)'
<1>1. /\ b \in BP!AllUsed /\ BP!WriteUsed(b) /\ blks' = blks /\ b \in 0..blks-1
      /\ disk' = [disk EXCEPT ![b] = c]
  BY UsedSeen DEF Alive
<1>2. \A d \in 0..blks-1 : d # b => disk'[d] = disk[d]
  BY <1>1, AliveIs
<1>3. \A d \in used["iex"] : disk'[d] = disk[d]
  <2>1. used["iex"] \subseteq orgblks..blks-1 /\ orgblks \in Nat /\ blks \in Nat
    BY AliveIs
  <2> SUFFICES ASSUME NEW d \in used["iex"] PROVE disk'[d] = disk[d]
    OBVIOUS
  <2>2. d \in 0..blks-1 /\ d # b
    BY <2>1
  <2> QED
    BY <1>2, <2>2
<1>4. ins.at = "none"
  BY DEF NoFrame
<1>5. ChainInv(inds, lost)'
  <2>1. BlocksOf(inds)'
    BY <1>3, <1>4, BlocksKept
  <2> QED
    BY <2>1 DEF Alive, RunInv, ChainInv, CoreOf, Direct, NoneShared, Chained, Taken
<1>6. ASSUME NEW h \in Handles PROVE ExtentsOf(inds, h)'
  <2>1. \A k \in 1..Len(inds[h]) : Dext(inds[h][k])' = Dext(inds[h][k])
    BY <1>3, ChainsAre DEF Dext
  <2> QED
    BY <2>1, ExtentsKept DEF Direct
<1>7. GrownInv'
  BY <1>1 DEF Alive, RunInv, GrownInv
<1>8. InodeInv'
  <2>1. Dinodes' = Dinodes
    BY DEF Dinodes
  <2>2. blks' \in Nat /\ blks <= blks'
    BY <1>1, AliveIs
  <2>3. \A d \in 0..blks-1 : (\E k \in Managers : d \in used[k]) \/ disk'[d] = disk[d]
    BY <1>2
  <2> QED
    BY <2>1, <2>2, <2>3, InodesKept
<1> QED
  BY <1>1, <1>5, <1>6, <1>7, <1>8 DEF Alive, TypeInv, RunInv, ExtentInv

(* ... and empties a map when a directory becomes something else: setFile   *)
(* forgets its indirect blocks.                                             *)
LEMMA Reset ==
    ASSUME NEW inds, NEW lost, Alive(inds, lost), ins = NoFrame, NEW h \in Dirs,
           UNCHANGED <<orgblks, blks, disk, head, used, calls, ins, inodeNum, phase>>,
           core' = [core EXCEPT ![h].di_nExtents = 0, ![h].di_directExtent = <<>>],
           mapped' = [mapped EXCEPT ![h] = <<>>]
    PROVE  TypeInv' /\ \E new, gone : RunInv(new, gone)'
<1> DEFINE new == [inds EXCEPT ![h] = <<>>]
<1>1. /\ h \in Handles /\ h # TARFS_FREE_INO /\ inds \in [Handles -> Seq(Nat)]
      /\ core \in [Handles -> Objects] /\ mapped \in [Handles -> Seq(Nat)]
      /\ ins.at = "none" /\ ins # NoFrame <=> FALSE
  BY AliveIs DEF Handles, NoFrame
<1>2. /\ new \in [Handles -> Seq(Nat)] /\ new[h] = <<>> /\ Len(new[h]) = 0
      /\ \A g \in Handles : g # h => new[g] = inds[g]
  BY <1>1
<1>3. /\ core'[h].di_nExtents = 0 /\ core'[h].di_directExtent = <<>>
      /\ core' \in [Handles -> Objects]
      /\ \A g \in Handles : g # h => core'[g] = core[g]
  <2>1. PICK o \in Objects : o = core[h]
    BY <1>1
  <2>2. PICK p : p = [o EXCEPT !.di_nExtents = 0, !.di_directExtent = <<>>]
    OBVIOUS
  <2>3. core' = [core EXCEPT ![h] = p]
    BY <1>1, <2>1, <2>2
  <2>4. p \in Objects /\ p.di_nExtents = 0 /\ p.di_directExtent = <<>>
    <3>1. <<>> \in Seq(Extents)
      OBVIOUS
    <3> QED
      BY <2>2, <3>1 DEF Objects
  <2> QED
    BY <1>1, <2>3, <2>4
<1>4. /\ mapped'[h] = <<>> /\ mapped' \in [Handles -> Seq(Nat)]
      /\ \A g \in Handles : g # h => mapped'[g] = mapped[g]
  BY <1>1
<1> HIDE DEF new
<1>5. ASSUME NEW g \in Handles PROVE CoreOf(new, g)'
  <2>1. CASE g = h
    BY <1>2, <1>3, <2>1, IndExtAssumption DEF CoreOf, Direct
  <2>2. CASE g # h
    <3>1. CoreOf(inds, g)
      BY ChainsAre
    <3> QED
      BY <1>2, <1>3, <2>2, <3>1 DEF CoreOf, Direct
  <2> QED
    BY <2>1, <2>2
<1>6. ASSUME NEW g \in Handles, NEW k \in 1..Len(new[g])
      PROVE  g # h /\ new[g] = inds[g] /\ k \in 1..Len(inds[g])
  BY <1>2
<1>7. BlocksOf(new)'
  <2> SUFFICES ASSUME NEW g \in Handles, NEW k \in 1..Len(new[g]) PROVE BlockOf(new, g, k)'
    BY DEF BlocksOf
  <2>1. g # h /\ new[g] = inds[g] /\ k \in 1..Len(inds[g])
    BY <1>6
  <2>2. BlockOf(inds, g, k)
    BY <2>1, ChainsAre
  <2>3. LinkOf(new, g, k)' = LinkOf(inds, g, k)
    BY <2>1 DEF LinkOf
  <2> QED
    BY <2>1, <2>2, <2>3 DEF BlockOf, Dext
<1>8. NoneShared(new)'
  <2> SUFFICES ASSUME NEW f \in Handles, NEW g \in Handles,
                      NEW j \in 1..Len(new[f]), NEW k \in 1..Len(new[g]), new[f][j] = new[g][k]
               PROVE  f = g /\ j = k
    BY DEF NoneShared
  <2>1. NoneShared(inds)
    BY DEF Alive, RunInv, ChainInv
  <2> QED
    BY <1>6, <2>1 DEF NoneShared
<1>9. PICK gone : gone = used["iex"]
  OBVIOUS
<1>10. ChainInv(new, gone)'
  <2>1. \A b \in used'["iex"] : b \in gone
    BY <1>9
  <2> QED
    BY <1>1, <1>2, <1>5, <1>7, <1>8, <2>1 DEF ChainInv
<1>11. ASSUME NEW g \in Handles PROVE ExtentsOf(new, g)'
  <2>1. CASE g # h
    <3>1. Direct(g)' = Direct(g)
      BY <1>3, <2>1 DEF Direct
    <3>2. \A k \in 1..Len(inds[g]) : Dext(inds[g][k])' = Dext(inds[g][k])
      BY DEF Dext
    <3> QED
      BY <1>2, <1>4, <2>1, <3>1, <3>2, ExtentsKept
  <2>2. CASE g = h
    <3>1. AllRight(Exts(new, h, 0), mapped[h])'
      BY <1>3 DEF AllRight, Exts, Direct
    <3> QED
      BY <1>2, <1>4, <2>2, <3>1 DEF ExtentsOf
  <2> QED
    BY <2>1, <2>2
<1>12. GrownInv'
  <2>1. GrownInv
    BY DEF Alive, RunInv
  <2>2. ASSUME NEW g \in Handles PROVE Ascends(mapped'[g]) /\ Below(mapped'[g], blks')
    <3>1. CASE g = h
      BY <1>4, <3>1 DEF Ascends, Below
    <3>2. CASE g # h
      BY <1>4, <2>1, <3>2 DEF GrownInv
    <3> QED
      BY <3>1, <3>2
  <2>3. ASSUME NEW g \in Dirs, NEW i \in 1..Len(mapped'[g]) PROVE mapped'[g][i] \in used'["dir"]
    <3>1. g \in Handles /\ g # h
      BY <1>4 DEF Handles
    <3> QED
      BY <1>4, <2>1, <2>3, <3>1 DEF GrownInv
  <2> QED
    BY <1>1, <2>2, <2>3 DEF GrownInv
<1>13. InodeInv'
  <2>1. Dinodes' = Dinodes
    BY <1>1, <1>4 DEF Dinodes, Handles
  <2> QED
    BY <2>1 DEF Alive, RunInv, InodeInv, HasFree, Chain
<1>14. RunInv(new, gone)'
  BY <1>10, <1>11, <1>12, <1>13 DEF RunInv, ExtentInv
<1> QED
  BY <1>3, <1>4, <1>14 DEF Alive, TypeInv

(* A step of insBlock.                                                      *)
LEMMA InsIs ==
    ASSUME NEW inds, NEW lost, Alive(inds, lost), phase' = phase, InsStep,
           mapped' = IF ins # NoFrame /\ ins' = NoFrame
                     THEN [mapped EXCEPT ![ins.obj] = @ \o Grown(ins.de)] ELSE mapped
    PROVE  /\ \/ \E m \in Managers : BP!Alloc(m)
              \/ \E b \in BP!AllUsed : BP!WriteUsed(b)
              \/ UNCHANGED BP!vars
           /\ TypeInv'
           /\ \E new : RunInv(new, lost)'
<1>18. /\ phase = "run" /\ {"dir", "iex", "dinode"} \subseteq Managers
       /\ ins \in Frames <=> ins # NoFrame
  BY AliveIs
<1>1. inodeNum' = inodeNum
  BY DEF InsStep
<1>2. ins # NoFrame
  BY DEF InsStep, InsOther, InsAlloc, InsDirectMerge, InsDirectAppend, InsDescend,
     InsWalkMerge, InsWalkNext, InsWalkAppend, InsLink, InsFill, InsFirstIndirect, InsWalkFull,
     NeedsFirst, NeedsNext, Running, NoFrame
<1>3. ASSUME UNCHANGED spaceVars PROVE UNCHANGED BP!vars
  BY <1>18, <1>3 DEF spaceVars, BP!vars
<1>4. ASSUME ins' = NoFrame PROVE Returned
  BY <1>18, <1>2, <1>4 DEF Returned
<1>5. ASSUME ins' # NoFrame PROVE mapped' = mapped
  BY <1>18, <1>5
<1>6. ASSUME ins'.at # "none" PROVE ins' # NoFrame
  BY <1>6 DEF NoFrame
<1>7. CASE InsDirectMerge
  BY <1>18, <1>1, <1>3, <1>4, <1>7, DirectMerge DEF InsDirectMerge, Return
<1>8. CASE InsDirectAppend
  BY <1>18, <1>1, <1>3, <1>4, <1>8, DirectAppend DEF InsDirectAppend, Return
<1>10. CASE InsDescend
  <2>1. mapped' = mapped /\ UNCHANGED spaceVars
    BY <1>18, <1>2, <1>5, <1>6, <1>10 DEF InsDescend, Frames
  <2> QED
    BY <1>18, <1>1, <1>3, <1>10, <2>1, Descend
<1>11. CASE InsWalkMerge
  BY <1>18, <1>1, <1>4, <1>11, WalkMerge DEF InsWalkMerge, Return
<1>12. CASE InsWalkNext
  <2>1. mapped' = mapped /\ UNCHANGED spaceVars
    BY <1>18, <1>2, <1>5, <1>6, <1>12 DEF InsWalkNext, Frames, Running
  <2> QED
    BY <1>18, <1>1, <1>3, <1>12, <2>1, WalkNext
<1>13. CASE InsWalkAppend
  BY <1>18, <1>1, <1>4, <1>13, WalkAppend DEF InsWalkAppend, Return
<1>14. CASE InsLink
  <2>1. mapped' = mapped
    BY <1>18, <1>2, <1>5, <1>6, <1>14 DEF InsLink, Frames
  <2> QED
    BY <1>18, <1>1, <1>14, <2>1, Link
<1>15. CASE InsFill
  BY <1>18, <1>1, <1>4, <1>15, Fill DEF InsFill, Return
<1>16. CASE InsFirstIndirect /\ Fits("iex")
  <2>1. mapped' = mapped
    BY <1>18, <1>2, <1>5, <1>6, <1>16 DEF InsFirstIndirect, Frames
  <2> QED
    BY <1>18, <1>1, <1>16, <2>1, FirstIndirect
<1>17. CASE InsWalkFull /\ Fits("iex")
  <2>1. mapped' = mapped
    BY <1>18, <1>2, <1>5, <1>6, <1>17 DEF InsWalkFull, Frames
  <2> QED
    BY <1>18, <1>1, <1>17, <2>1, WalkFull
<1> QED
  BY <1>7, <1>8, <1>10, <1>11, <1>12, <1>13, <1>14, <1>15, <1>16, <1>17
     DEF InsStep, InsOther, InsAlloc

LEMMA WorkIs ==
    ASSUME NEW inds, NEW lost, Alive(inds, lost), Work
    PROVE  /\ \/ \E m \in Managers : BP!Alloc(m)
              \/ \E b \in BP!AllUsed : BP!WriteUsed(b)
              \/ UNCHANGED BP!vars
           /\ TypeInv'
           /\ \E new : RunInv(new, lost)'
<1>1. /\ phase = "run" /\ phase' = phase
      /\ mapped' = IF ins # NoFrame /\ ins' = NoFrame
                   THEN [mapped EXCEPT ![ins.obj] = @ \o Grown(ins.de)] ELSE mapped
      /\ {"dir", "iex", "dinode"} \subseteq Managers
      /\ ins \in Frames <=> ins # NoFrame
  BY AliveIs DEF Work
<1>2. ASSUME NEW h \in Dirs, GrowDir(h)
      PROVE  /\ BP!Alloc("dir") /\ TypeInv' /\ RunInv(inds, lost)'
  <2>1. mapped' = mapped
    BY <1>1, <1>2 DEF GrowDir
  <2> QED
    BY <1>1, <1>2, <2>1, DirGrows
<1>3. ASSUME GrowFree
      PROVE  /\ BP!Alloc("dinode") /\ TypeInv' /\ RunInv(inds, lost)'
  <2>1. mapped' = mapped
    BY <1>1, <1>3 DEF GrowFree
  <2> QED
    BY <1>1, <1>3, <2>1, FreePops, FreeRefills
<1>4. ASSUME InsStep
      PROVE  /\ \/ \E m \in Managers : BP!Alloc(m)
                \/ \E b \in BP!AllUsed : BP!WriteUsed(b)
                \/ UNCHANGED BP!vars
             /\ TypeInv'
             /\ \E new : RunInv(new, lost)'
  BY <1>1, <1>4, InsIs
<1> QED
  BY <1>1, <1>2, <1>3, <1>4 DEF Work

LEMMA NextIs ==
    ASSUME IInv, [Next]_vars
    PROVE  [BP!ClientNext]_BP!vars /\ IInv'
<1>1. BP!IInv /\ TypeInv
  BY DEF IInv
<1>2. ASSUME [BP!ClientNext]_BP!vars PROVE BP!IInv'
  BY <1>1, <1>2, BP!NextIInv, BulksAssumption, ExtentMapAssumption
<1>3. CASE Work
  <2>1. phase = "run"
    BY <1>3 DEF Work
  <2>2. PICK inds : RunInv(inds, {})
    BY <2>1 DEF IInv
  <2>3. Alive(inds, {})
    BY <1>1, <2>1, <2>2 DEF Alive
  <2>4. /\ \/ \E m \in Managers : BP!Alloc(m)
           \/ \E b \in BP!AllUsed : BP!WriteUsed(b)
           \/ UNCHANGED BP!vars
        /\ TypeInv' /\ \E new : RunInv(new, {})'
    BY <1>3, <2>3, WorkIs
  <2>5. [BP!ClientNext]_BP!vars
    BY <2>4 DEF BP!ClientNext
  <2> QED
    BY <1>2, <2>4, <2>5 DEF IInv
<1>4. CASE Fail
  <2>1. [BP!ClientNext]_BP!vars
    BY <1>1, <1>4, FailSeen DEF Fail, BP!ClientNext
  <2>2. TypeInv' /\ phase' = "failed"
    BY <1>1, <1>4 DEF Fail, TypeInv, inodeVars
  <2> QED
    BY <1>2, <2>1, <2>2 DEF IInv
<1>5. CASE UNCHANGED vars
  <2>1. [BP!ClientNext]_BP!vars
    BY <1>5 DEF vars, BP!vars, spaceVars
  <2>2. TypeInv'
    BY <1>1, <1>5 DEF vars, inodeVars, TypeInv
  <2>3. ASSUME NEW inds, RunInv(inds, {}) PROVE RunInv(inds, {})'
    <3>1. UNCHANGED <<orgblks, blks, disk, head, used, calls, core, ins, inodeNum, mapped, phase>>
      BY <1>5 DEF vars, inodeVars, spaceVars
    <3>2. ChainInv(inds, {})'
      BY <2>3, <3>1 DEF RunInv, ChainInv, CoreOf, BlocksOf, BlockOf, LinkOf, NoneShared, Chained,
         Taken, FrameOf, Direct, Dext
    <3>3. ExtentInv(inds)'
      BY <2>3, <3>1 DEF RunInv, ExtentInv, ExtentsOf, Exts, Direct, Dext
    <3>4. GrownInv'
      BY <2>3, <3>1 DEF RunInv, GrownInv
    <3>5. InodeInv'
      BY <2>3, <3>1 DEF RunInv, InodeInv, Dinodes, Chain, HasFree
    <3> QED
      BY <3>2, <3>3, <3>4, <3>5 DEF RunInv
  <2>4. phase' = "run" => \E inds : RunInv(inds, {})'
    BY <1>5, <2>3 DEF IInv, vars
  <2> QED
    BY <1>2, <2>1, <2>2, <2>4 DEF IInv
<1> QED
  BY <1>3, <1>4, <1>5 DEF Next

LEMMA Inductive == Spec => []IInv
<1>1. Init => IInv
  BY InitIs
<1>2. IInv /\ [Next]_vars => IInv'
  BY NextIs
<1> QED
  BY <1>1, <1>2, PTL DEF Spec

(* insBlock and its callers, interleaved in any way, overwrite no block but *)
(* one that allocBlock has handed out: they implement the client of the     *)
(* block layer, so that all that is proved of it holds here.                *)
THEOREM Obeys == Spec => ObeysBlockLayer
<1>1. Init => Blocks!ClientInit
  <2>1. BP!ClientInit => Blocks!ClientInit
    BY DEF BP!ClientInit, Blocks!ClientInit, BP!SpaceInit, Blocks!SpaceInit,
       BP!TarBlock, Blocks!TarBlock, BP!TARBLK_NONE, Blocks!TARBLK_NONE
  <2> QED
    BY <2>1, InitIs
<1>2. [BP!ClientNext]_BP!vars => [Blocks!ClientNext]_Blocks!vars
  BY DEF BP!ClientNext, Blocks!ClientNext, BP!vars, Blocks!vars, BP!Alloc, Blocks!Alloc,
     BP!allocBlock, Blocks!allocBlock, BP!HasFree, Blocks!HasFree, BP!Fits, Blocks!Fits,
     BP!TARBLK_NONE, Blocks!TARBLK_NONE, BP!Refill, Blocks!Refill, BP!PopFree, Blocks!PopFree,
     BP!HandOut, Blocks!HandOut, BP!NextBlock, Blocks!NextBlock, BP!writeBlock, Blocks!writeBlock,
     BP!FreeChunk, Blocks!FreeChunk, BP!Free, Blocks!Free, BP!WriteUsed, Blocks!WriteUsed,
     BP!AllUsed, Blocks!AllUsed, BP!DataBlock, Blocks!DataBlock, BP!Complete, Blocks!Complete,
     BP!SuperBlock, Blocks!SuperBlock, BP!Fail, Blocks!Fail, BP!rollback, Blocks!rollback,
     BP!Kill, Blocks!Kill, BP!spaceVars, Blocks!spaceVars, BP!KillInRefill, Blocks!KillInRefill
<1>3. IInv /\ [Next]_vars => [BP!ClientNext]_BP!vars
  BY NextIs
<1> QED
  BY <1>1, <1>2, <1>3, Inductive, PTL DEF Spec, ObeysBlockLayer, Blocks!ClientSpec
-----------------------------------------------------------------------------
(* The readers: an array of true extents translates right, ...              *)
LEMMA TranslateIs ==
    ASSUME NEW exts \in Seq(Extents), NEW s \in Seq(Nat), AllRight(exts, s),
           NEW off \in Nat, Finds(exts, off)
    PROVE  off < Len(s) /\ Translate(exts, off) = s[off + 1]
<1> DEFINE T == {i \in 1..Len(exts) : Covers(exts[i], off)}
           First(i) == /\ i \in DOMAIN exts /\ Covers(exts[i], off)
                       /\ \A j \in 1..i-1 : ~Covers(exts[j], off)
<1>1. DOMAIN exts = 1..Len(exts) /\ Len(exts) \in Nat
  OBVIOUS
<1>2. PICK x \in T : \A y \in T : x <= y
  <2>1. T \in SUBSET Nat /\ T # {}
    BY <1>1 DEF Finds
  <2> QED
    BY <2>1, Least
<1>3. First(x)
  BY <1>1, <1>2
<1>4. PICK i : First(i) /\ i = CHOOSE j \in DOMAIN exts :
                                  Covers(exts[j], off) /\ \A k \in 1..j-1 : ~Covers(exts[k], off)
  BY <1>3
<1>5. exts[i] \in Extents /\ Right(s, exts[i]) /\ Covers(exts[i], off)
  BY <1>1, <1>4 DEF AllRight
<1>6. PICK o \in Nat, b \in Nat, n \in Nat, z \in Nat :
        /\ exts[i].de_off = o /\ exts[i].de_blkno = b /\ exts[i].de_nblks = n /\ z = Len(s)
  <2>1. PICK e \in Extents : e = exts[i]
    BY <1>5
  <2>2. e.de_off \in Nat /\ e.de_blkno \in Nat /\ e.de_nblks \in Nat
    BY DEF Extents
  <2>3. Len(s) \in Nat
    OBVIOUS
  <2> QED
    BY <2>1, <2>2, <2>3
<1>7. /\ o <= off /\ off < o + n /\ o + n <= z
      /\ \A j \in 1..n : s[o + j] = b + j - 1
  BY <1>5, <1>6 DEF Right, Covers
<1>8. off - o + 1 \in 1..n /\ o + (off - o + 1) = off + 1
  BY <1>7
<1>9. s[off + 1] = b + (off - o)
  <2>1. s[o + (off - o + 1)] = b + (off - o + 1) - 1
    BY <1>7, <1>8
  <2>2. b + (off - o + 1) - 1 = b + (off - o)
    BY <1>6
  <2> QED
    BY <1>8, <2>1, <2>2, Zenon
<1>10. Translate(exts, off) = b + (off - o)
  <2>1. Translate(exts, off) = exts[i].de_blkno + (off - exts[i].de_off)
    BY <1>4 DEF Translate
  <2> QED
    BY <1>6, <2>1
<1> QED
  BY <1>6, <1>7, <1>9, <1>10

(* ... and following the links finds the chain, of a map that insBlock is   *)
(* not at work on.                                                          *)
Whole(inds, h) ==
    /\ inds[h] \in Seq(Nat) /\ core[h] \in Objects /\ CoreOf(inds, h)
    /\ \A k \in 1..Len(inds[h]) :
          /\ disk[inds[h][k]] \in IndExts
          /\ disk[inds[h][k]].ie_next = IF k < Len(inds[h]) THEN inds[h][k + 1] ELSE TARBLK_NONE
    /\ mapped[h] \in Seq(Nat) /\ ExtentsOf(inds, h)

LEMMA WholeIs ==
    ASSUME NEW inds, NEW lost, Alive(inds, lost), NEW h \in Handles, Settled(h)
    PROVE  Whole(inds, h)
<1>1. ASSUME NEW k \in 1..Len(inds[h])
      PROVE  /\ disk[inds[h][k]] \in IndExts
             /\ disk[inds[h][k]].ie_next = IF k < Len(inds[h]) THEN inds[h][k + 1] ELSE TARBLK_NONE
  <2>1. BlockOf(inds, h, k)
    BY ChainsAre
  <2>2. LinkOf(inds, h, k) = IF k < Len(inds[h]) THEN inds[h][k + 1] ELSE TARBLK_NONE
    BY DEF LinkOf, Settled, NoFrame
  <2> QED
    BY <2>1, <2>2 DEF BlockOf
<1>2. ExtentsOf(inds, h)
  BY DEF Alive, RunInv, ExtentInv
<1>3. inds[h] \in Seq(Nat) /\ core[h] \in Objects /\ CoreOf(inds, h)
  BY ChainsAre
<1>4. mapped[h] \in Seq(Nat)
  BY AliveIs
<1> QED
  BY <1>1, <1>2, <1>3, <1>4 DEF Whole

LEMMA IndBlocksFound ==
    ASSUME NEW inds, NEW h, Whole(inds, h)
    PROVE  IndBlocks(core[h]) = inds[h]
<1> DEFINE d == core[h]
           m == d.di_nExtents
           After(b) == IF b = TARBLK_NONE THEN b ELSE disk[b].ie_next
           Walks(f) == f = [n \in 1..m |-> IF n = 1 THEN d.di_rootIndExt
                                          ELSE LET b == f[n-1]
                                               IN  IF b = TARBLK_NONE THEN b ELSE disk[b].ie_next]
           ind_off == CHOOSE f : Walks(f)
<1>1. PICK l \in Nat : l = Len(inds[h])
  BY DEF Whole
<1>2. inds[h] \in Seq(Nat) /\ Direct(h) = d.di_directExtent /\ Len(Direct(h)) \in Nat
  BY DEF Direct, Whole, Objects
<1>3. /\ Len(Direct(h)) <= MAX_DINODE_DIRECT /\ m = Len(Direct(h)) + l
      /\ l > 0 => Len(Direct(h)) = MAX_DINODE_DIRECT /\ d.di_rootIndExt = inds[h][1]
  BY <1>1 DEF CoreOf, Whole
<1>4. IndBlocks(d) = IF m > MAX_DINODE_DIRECT
                     THEN [n \in {i \in 1..m : ind_off[i] # TARBLK_NONE} |-> ind_off[n]]
                     ELSE <<>>
  BY DEF IndBlocks
<1>5. CASE l = 0
  <2>1. ~(m > MAX_DINODE_DIRECT)
    BY <1>2, <1>3, <1>5, IndExtAssumption
  <2>2. inds[h] = <<>>
    BY <1>1, <1>2, <1>5, EmptySeq
  <2> QED
    BY <1>4, <2>1, <2>2
<1>6. CASE l > 0
  <2> DEFINE w == [n \in 1..m |-> IF n <= l THEN inds[h][n] ELSE TARBLK_NONE]
  <2>1. m \in Nat /\ l < m
    BY <1>2, <1>3, <1>6, IndExtAssumption
  <2>2. ASSUME NEW n \in 1..l
        PROVE  /\ n \in 1..m /\ inds[h][n] # TARBLK_NONE
               /\ disk[inds[h][n]].ie_next = IF n < l THEN inds[h][n + 1] ELSE TARBLK_NONE
    <3>1. inds[h][n] \in Nat
      BY <1>1, <1>2
    <3>2. disk[inds[h][n]].ie_next = IF n < l THEN inds[h][n + 1] ELSE TARBLK_NONE
      BY <1>1 DEF Whole
    <3> QED
      BY <2>1, <3>1, <3>2 DEF TARBLK_NONE
  <2>3. ASSUME NEW n \in 1..m
        PROVE  w[n] = IF n = 1 THEN d.di_rootIndExt ELSE After(w[n-1])
    <3>1. CASE n = 1
      BY <1>3, <1>6, <3>1
    <3>2. CASE n # 1 /\ n - 1 <= l
      <4>1. n - 1 \in 1..l /\ n - 1 \in 1..m /\ n - 1 + 1 = n
        BY <2>1, <3>2
      <4>2. w[n-1] = inds[h][n-1] /\ w[n] = IF n - 1 < l THEN inds[h][n] ELSE TARBLK_NONE
        BY <3>2, <4>1
      <4> HIDE DEF w
      <4> QED
        BY <2>2, <3>2, <4>1, <4>2
    <3>3. CASE n # 1 /\ ~(n - 1 <= l)
      <4>1. n - 1 \in 1..m /\ ~(n <= l)
        BY <1>1, <2>1, <3>3
      <4> QED
        BY <3>3, <4>1
    <3> QED
      BY <3>1, <3>2, <3>3
  <2>4. Walks(w)
    <3>1. [n \in 1..m |-> IF n = 1 THEN d.di_rootIndExt ELSE After(w[n-1])] = [n \in 1..m |-> w[n]]
      <4> HIDE DEF w, After
      <4> QED
        BY <2>3
    <3>2. [n \in 1..m |-> w[n]] = w
      OBVIOUS
    <3> HIDE DEF w
    <3> QED
      BY <3>1, <3>2
  <2>5. Walks(ind_off)
    <3> HIDE DEF w, Walks
    <3> QED
      BY <2>4
  <2> HIDE DEF ind_off, w
  <2>6. ASSUME NEW n \in 1..m
        PROVE  ind_off[n] = IF n = 1 THEN d.di_rootIndExt ELSE After(ind_off[n-1])
    BY <2>5
  <2> HIDE DEF After
  <2>7. \A n \in 1..m : ind_off[n] = w[n]
    <3> DEFINE T == {0} \union {i \in 1..m : ind_off[i] = w[i]}
    <3>1. ASSUME NEW i \in 1..m, i - 1 \in T PROVE i \in T
      <4>1. CASE i = 1
        BY <2>3, <2>6, <4>1
      <4>2. CASE i # 1
        <5>1. i - 1 \in 1..m /\ ind_off[i-1] = w[i-1]
          BY <3>1, <4>2
        <5> QED
          BY <2>3, <2>6, <4>2, <5>1
      <4> QED
        BY <4>1, <4>2
    <3>2. 0 \in T
      OBVIOUS
    <3> HIDE DEF T
    <3>3. 0..m \subseteq T
      BY <2>1, <3>1, <3>2, UpTo
    <3> QED
      BY <2>1, <3>3 DEF T
  <2>8. ASSUME NEW n \in 1..m
        PROVE  (ind_off[n] # TARBLK_NONE <=> n <= l) /\ (n <= l => ind_off[n] = inds[h][n])
    <3>1. w[n] = IF n <= l THEN inds[h][n] ELSE TARBLK_NONE
      BY DEF w
    <3>2. n <= l => n \in 1..l
      OBVIOUS
    <3> QED
      BY <2>2, <2>7, <3>1, <3>2
  <2>9. {i \in 1..m : ind_off[i] # TARBLK_NONE} = 1..l
    BY <2>1, <2>8
  <2>10. [n \in 1..l |-> ind_off[n]] = [n \in 1..l |-> inds[h][n]]
    BY <2>2, <2>8
  <2>11. inds[h] = [n \in 1..l |-> inds[h][n]]
    BY <1>1, <1>2
  <2>12. m > MAX_DINODE_DIRECT
    BY <1>3, <1>6, IndExtAssumption
  <2> QED
    BY <1>4, <2>9, <2>10, <2>11, <2>12
<1> QED
  BY <1>5, <1>6

LEMMA IndBlocksAre ==
    ASSUME NEW inds, NEW lost, Alive(inds, lost), NEW h \in Handles, Settled(h)
    PROVE  IndBlocks(core[h]) = inds[h]
BY WholeIs, IndBlocksFound

(* What getBlock answers then.                                              *)
LEMMA GetBlockFound ==
    ASSUME NEW inds, NEW h, Whole(inds, h), NEW off \in Nat
    PROVE  GetBlock(core[h], off) = IF off < Len(mapped[h]) THEN mapped[h][off + 1]
                                    ELSE TARBLK_NONE
<1> DEFINE s == mapped[h]
           hits == {k \in 1..Len(inds[h]) : Finds(Dext(inds[h][k]), off)}
           first == CHOOSE k \in hits : \A j \in hits : k <= j
<1>1. /\ s \in Seq(Nat) /\ Len(s) \in Nat /\ Direct(h) \in Seq(Extents) /\ Len(inds[h]) \in Nat
      /\ inds[h] \in Seq(Nat) /\ ExtentsOf(inds, h)
      /\ \A k \in 1..Len(inds[h]) : Dext(inds[h][k]) \in Seq(Extents)
  BY DEF Whole, Objects, Direct, Dext, IndExts
<1>2. ASSUME NEW exts \in Seq(Extents)
      PROVE  Finds(exts, off) <=> Somewhere(exts, off)
  <2>1. DOMAIN exts = 1..Len(exts)
    OBVIOUS
  <2> QED
    BY <2>1 DEF Finds, Somewhere
<1>3. /\ AllRight(Direct(h), s)
      /\ \A k \in 1..Len(inds[h]) : AllRight(Dext(inds[h][k]), s)
  <2>1. AllRight(Direct(h), s)
    <3>1. 0 \in 0..Len(inds[h]) /\ Exts(inds, h, 0) = Direct(h)
      BY <1>1 DEF Exts
    <3> QED
      BY <1>1, <3>1 DEF ExtentsOf
  <2>2. ASSUME NEW k \in 1..Len(inds[h]) PROVE AllRight(Dext(inds[h][k]), s)
    <3>1. k \in 0..Len(inds[h]) /\ Exts(inds, h, k) = Dext(inds[h][k])
      BY <1>1 DEF Exts
    <3> QED
      BY <1>1, <3>1 DEF ExtentsOf
  <2> QED
    BY <2>1, <2>2
<1>4. ASSUME off < Len(s)
      PROVE  Finds(Direct(h), off) \/ hits # {}
  <2>1. off \in 0..Len(s)-1
    BY <1>1, <1>4
  <2>2. PICK k \in 0..Len(inds[h]) : Somewhere(Exts(inds, h, k), off)
    BY <1>1, <2>1 DEF ExtentsOf
  <2>3. CASE k = 0
    BY <1>1, <1>2, <2>2, <2>3 DEF Exts
  <2>4. CASE k # 0
    <3>1. k \in 1..Len(inds[h]) /\ Somewhere(Dext(inds[h][k]), off)
      BY <1>1, <2>2, <2>4 DEF Exts
    <3>2. Finds(Dext(inds[h][k]), off)
      BY <1>1, <1>2, <3>1
    <3> QED
      BY <3>1, <3>2
  <2> QED
    BY <2>3, <2>4
<1>5. GetBlock(core[h], off) =
        CASE Finds(Direct(h), off) -> Translate(Direct(h), off)
          [] ~Finds(Direct(h), off) /\ hits # {} -> Translate(Dext(inds[h][first]), off)
          [] OTHER -> TARBLK_NONE
  <2>1. IndBlocks(core[h]) = inds[h] /\ DOMAIN inds[h] = 1..Len(inds[h])
    BY <1>1, IndBlocksFound
  <2> QED
    BY <2>1 DEF GetBlock, SearchIndirect, Direct, Dext
<1>6. CASE Finds(Direct(h), off)
  <2>1. off < Len(s) /\ Translate(Direct(h), off) = s[off + 1]
    BY <1>1, <1>3, <1>6, TranslateIs
  <2> HIDE DEF hits, first
  <2> QED
    BY <1>5, <1>6, <2>1
<1>7. CASE ~Finds(Direct(h), off) /\ hits # {}
  <2>1. \E k \in hits : \A j \in hits : k <= j
    <3>1. hits \in SUBSET Nat
      BY <1>1
    <3> HIDE DEF hits
    <3> QED
      BY <1>7, <3>1, Least
  <2>2. first \in hits
    <3> HIDE DEF hits
    <3> QED
      BY <2>1
  <2> HIDE DEF first
  <2>3. first \in 1..Len(inds[h]) /\ Finds(Dext(inds[h][first]), off)
    BY <2>2
  <2>4. off < Len(s) /\ Translate(Dext(inds[h][first]), off) = s[off + 1]
    BY <1>1, <1>3, <2>3, TranslateIs
  <2> HIDE DEF hits
  <2> QED
    BY <1>5, <1>7, <2>4
<1>8. CASE ~Finds(Direct(h), off) /\ hits = {}
  <2> HIDE DEF hits, first
  <2> QED
    BY <1>4, <1>5, <1>8
<1> HIDE DEF hits, first
<1> QED
  BY <1>6, <1>7, <1>8
LEMMA GetBlockIs ==
    ASSUME NEW inds, NEW lost, Alive(inds, lost), NEW h \in Handles, Settled(h), NEW off \in Nat
    PROVE  GetBlock(core[h], off) = IF off < Len(mapped[h]) THEN mapped[h][off + 1]
                                    ELSE TARBLK_NONE
BY WholeIs, GetBlockFound
-----------------------------------------------------------------------------
(* Whatever insBlock and its callers did to a map and to others in between, *)
(* getBlock answers the k-th block offset with the k-th block that was      *)
(* inserted, and finds nothing past the last.                               *)
THEOREM Mapped == Spec => []MapCorrect
<1>1. IInv => MapCorrect
  <2> SUFFICES ASSUME IInv, NEW h \in Handles, Settled(h), NEW off \in 0..Len(mapped[h])
               PROVE  GetBlock(core[h], off) = IF off < Len(mapped[h]) THEN mapped[h][off + 1]
                                               ELSE TARBLK_NONE
    BY DEF MapCorrect
  <2>1. PICK inds : Alive(inds, {})
    BY DEF IInv, Alive, Settled
  <2>2. off \in Nat
    OBVIOUS
  <2> QED
    BY <2>1, <2>2, GetBlockIs
<1> QED
  BY <1>1, Inductive, PTL

(* The map of the free inode finds a dinode that was handed out for every   *)
(* inode number given so far, which InodeFactory::getInode takes for        *)
(* granted.                                                                 *)
THEOREM Reached == Spec => []InodesMapped
<1>1. IInv => InodesMapped
  <2> SUFFICES ASSUME IInv, Settled(TARFS_FREE_INO), NEW ino \in 0..inodeNum-1
               PROVE  GetBlock(core[TARFS_FREE_INO], ino) \in used["dinode"]
    BY DEF InodesMapped
  <2>1. PICK inds : Alive(inds, {})
    BY DEF IInv, Alive, Settled
  <2>2. /\ inodeNum \in Nat /\ TARFS_FREE_INO \in Handles /\ mapped[TARFS_FREE_INO] \in Seq(Nat)
        /\ Len(mapped[TARFS_FREE_INO]) \in Nat
    BY <2>1, AliveIs DEF Handles
  <2>3. Dinodes = mapped[TARFS_FREE_INO]
    BY DEF Dinodes, Settled
  <2>4. /\ inodeNum <= Len(mapped[TARFS_FREE_INO])
        /\ \A i \in 1..inodeNum : mapped[TARFS_FREE_INO][i] \in used["dinode"]
    BY <2>1, <2>3 DEF Alive, RunInv, InodeInv
  <2>5. ino \in Nat /\ ino < Len(mapped[TARFS_FREE_INO]) /\ ino + 1 \in 1..inodeNum
    BY <2>2, <2>4
  <2>6. GetBlock(core[TARFS_FREE_INO], ino) = mapped[TARFS_FREE_INO][ino + 1]
    BY <2>1, <2>2, <2>5, GetBlockIs
  <2> QED
    BY <2>4, <2>5, <2>6
<1> QED
  BY <1>1, Inductive, PTL

(* Between two calls of insBlock every indirect block that was allocated is *)
(* in one place of one map, only the last of a map has room, and            *)
(* di_nExtents counts them.                                                 *)
THEOREM Owned == Spec => []IndirectsOwned
<1>1. ASSUME IInv, phase = "run", ins = NoFrame, NEW inds, Alive(inds, {})
      PROVE  /\ \A h \in Handles :
                  /\ IndBlocks(core[h]) = inds[h]
                  /\ DOMAIN inds[h] = 1..Len(inds[h]) /\ Len(inds[h]) \in Nat
                  /\ Len(inds[h]) = IF core[h].di_nExtents > MAX_DINODE_DIRECT
                                    THEN core[h].di_nExtents - MAX_DINODE_DIRECT ELSE 0
                  /\ \A i, j \in DOMAIN inds[h] : i # j => inds[h][i] # inds[h][j]
                  /\ \A i \in 1..Len(inds[h])-1 : Len(disk[inds[h][i]].ie_dext) = MAX_INDEXT
             /\ \A g, h \in Handles : \A i \in DOMAIN inds[g], j \in DOMAIN inds[h] :
                  g # h => inds[g][i] # inds[h][j]
             /\ \A h \in Handles : \A i \in DOMAIN inds[h] : inds[h][i] \in used["iex"]
             /\ \A b \in used["iex"] : \E h \in Handles : \E i \in DOMAIN inds[h] : b = inds[h][i]
  <2>1. ASSUME NEW h \in Handles
        PROVE  /\ IndBlocks(core[h]) = inds[h] /\ inds[h] \in Seq(Nat)
               /\ DOMAIN inds[h] = 1..Len(inds[h]) /\ Len(inds[h]) \in Nat
    BY <1>1, IndBlocksAre, ChainsAre DEF Settled
  <2>2. ASSUME NEW h \in Handles
        PROVE  Len(inds[h]) = IF core[h].di_nExtents > MAX_DINODE_DIRECT
                              THEN core[h].di_nExtents - MAX_DINODE_DIRECT ELSE 0
    <3>1. CoreOf(inds, h) /\ Len(Direct(h)) \in Nat /\ Len(inds[h]) \in Nat
      BY <1>1, ChainsAre
    <3>2. MAX_DINODE_DIRECT \in Nat
      BY IndExtAssumption
    <3> QED
      BY <3>1, <3>2 DEF CoreOf
  <2>3. NoneShared(inds)
    BY <1>1 DEF Alive, RunInv, ChainInv
  <2>4. ASSUME NEW h \in Handles, NEW i \in 1..Len(inds[h])-1
        PROVE  Len(disk[inds[h][i]].ie_dext) = MAX_INDEXT
    <3>1. i \in 1..Len(inds[h]) /\ i < Len(inds[h])
      BY <2>1
    <3> QED
      BY <1>1, <3>1, ChainsAre DEF BlockOf, Dext
  <2>5. \A h \in Handles : \A i \in DOMAIN inds[h] : inds[h][i] \in used["iex"]
    BY <1>1, <2>1, ChainsAre
  <2>6. \A b \in used["iex"] : Chained(inds, b)
    BY <1>1 DEF Alive, RunInv, ChainInv, Taken, NoFrame
  <2> QED
    <3>1. \A h \in Handles : \A i, j \in DOMAIN inds[h] : i # j => inds[h][i] # inds[h][j]
      BY <2>1, <2>3 DEF NoneShared
    <3>2. \A g, h \in Handles : \A i \in DOMAIN inds[g], j \in DOMAIN inds[h] :
             g # h => inds[g][i] # inds[h][j]
      <4> SUFFICES ASSUME NEW g \in Handles, NEW h \in Handles,
                          NEW i \in DOMAIN inds[g], NEW j \in DOMAIN inds[h], g # h
                   PROVE  inds[g][i] # inds[h][j]
        OBVIOUS
      <4>1. i \in 1..Len(inds[g]) /\ j \in 1..Len(inds[h])
        BY <2>1
      <4> QED
        BY <2>3, <4>1 DEF NoneShared
    <3>3. \A b \in used["iex"] : \E h \in Handles : \E i \in DOMAIN inds[h] : b = inds[h][i]
      BY <2>1, <2>6 DEF Chained
    <3> QED
      BY <2>1, <2>2, <2>4, <2>5, <3>1, <3>2, <3>3
<1>2. IInv => IndirectsOwned
  <2> SUFFICES ASSUME IInv, phase = "run", ins = NoFrame PROVE IndirectsOwned
    BY DEF IndirectsOwned
  <2>1. PICK inds : Alive(inds, {})
    BY DEF IInv, Alive
  <2>2. \A h \in Handles : IndBlocks(core[h]) = inds[h] /\ Inds(h) = {inds[h][i] : i \in DOMAIN inds[h]}
    BY <1>1, <2>1 DEF Inds, Image
  <2>3. used["iex"] = UNION {Inds(h) : h \in Handles}
    BY <1>1, <2>1, <2>2
  <2>4. \A g, h \in Handles : g # h => Inds(g) \intersect Inds(h) = {}
    BY <1>1, <2>1, <2>2
  <2> QED
    BY <1>1, <2>1, <2>2, <2>3, <2>4 DEF IndirectsOwned
<1> QED
  BY <1>2, Inductive, PTL
=============================================================================
