--------------------------- MODULE MountCycleProofs ---------------------------
(***************************************************************************)
(* Proofs about MountCycle for every set of archives, devices and commands, *)
(* every number of members, runs and faults and every size of the medium.  *)
(*                                                                         *)
(* The properties of MountCycle speak of files; what keeps them is what    *)
(* each command knows of its file: where mkfs began and how far it is,     *)
(* where detachtarfs will cut, which device the script attached.           *)
(***************************************************************************)
EXTENDS MountCycle, TLAPS

(* What the variables hold.  A process is idle, or has all the fields.      *)
PCs == {"checkFile", "gunzip", "mkfs", "init", "get", "syncFree", "super",
        "losetup", "tarfsmount", "mount", "mtab", "detach", "truncate"}
Busy == [pc : PCs, script : {"mount.tarfs", "mkfs.tarfs", "detachtarfs"},
         arch : Archives, dev : Devices \union {0}, org : Int, blks : Int, cur : Int]
Attached == [arch : Archives, size : Nat, mounted : BOOLEAN, mtab : BOOLEAN, cut : BOOLEAN]

DevType == dev \in [DOMAIN dev -> Attached]

(* A superblock, wherever it is in a file, tells where it is and a          *)
(* beginning that is past the first least blocks.                           *)
Formed(f, least) ==
    /\ f = [size |-> f.size, blk |-> f.blk]
    /\ f.size \in Nat
    /\ f.blk = [i \in 0..f.size-1 |-> f.blk[i]]
    /\ \A i \in 0..f.size-1 : f.blk[i].kind = "super" =>
          /\ f.blk[i].tarfs_free \in Int
          /\ f.blk[i].tarfs_free >= least
          /\ f.blk[i].tarfs_size = i + 1 - f.blk[i].tarfs_free

(* The file of an archive that is not compressed never gets shorter than it. *)
Least(a) == IF a \in Gzipped THEN 1 ELSE TarBlks
Kept(a, f) == Formed(f, Least(a)) /\ (a \notin Gzipped => TarBlks <= f.size)
FileType ==
    /\ file = [a \in Archives |-> file[a]]
    /\ \A a \in Archives : Kept(a, file[a])

(* mkfs and detachtarfs will not touch what is before the end they read.    *)
KeepsOrg(r) ==
    /\ r.pc \in MkfsSteps => Least(r.arch) <= r.org /\ r.org <= r.blks
    /\ r.pc = "truncate" => Least(r.arch) <= r.org
    /\ r.pc \in {"checkFile", "gunzip"} => r.arch \in Gzipped
ProcType == proc \in [Procs -> {Idle} \union {r \in Busy : KeepsOrg(r)}]

TypeInv == ProcType /\ DevType /\ FileType

(* The blocks of the archive are first in its file; gunzip writes at the    *)
(* beginning of a file, and no other command does that is alone with it.    *)
Prefixed(f) == TarBlks <= f.size /\ \A i \in 0..TarBlks-1 : f.blk[i] = TarBlock(i)
PrefixInv == \A a \in Archives \ (Gzipped \union met) : Prefixed(file[a])

(* A script between losetup and its end has its device to itself, and no    *)
(* line in mtab lets umount take it away.                                   *)
Holds(p) == proc[p].pc \in {"tarfsmount", "mount", "mtab"}
HolderInv ==
    \A p \in Procs : Holds(p) =>
        /\ proc[p].dev \in DOMAIN dev
        /\ dev[proc[p].dev].arch = proc[p].arch
        /\ ~dev[proc[p].dev].mtab
        /\ \A q \in Procs \ {p} : Holds(q) => proc[q].dev # proc[p].dev

(* Of a file that was never changed by two at once or read in part: the one *)
(* that is changing it knows how far it is ...                              *)
Sound(a) == a \notin met \union short
Begun(f, o, k, inodes) ==
    /\ f.size = o + 1 + k
    /\ f.blk[o] = Dinodes(o, inodes)
    /\ \A i \in 1..k : f.blk[o + i] = Node(o, i)
Progress(p) ==
    LET f == File(p)
        o == proc[p].org
        k == proc[p].cur
    IN  /\ proc[p].pc \in MkfsSteps =>
              proc[p].blks = f.size /\ TarBlks <= o /\ (proc[p].arch \in left \/ o = TarBlks)
        /\ proc[p].pc = "init" => o = f.size /\ k = 0
        /\ proc[p].pc = "get" => k \in 0..Members /\ Begun(f, o, k, 0)
        /\ proc[p].pc = "syncFree" => Begun(f, o, Members, 0)
        /\ proc[p].pc = "super" => Begun(f, o, Members, Members + 2)
        /\ proc[p].pc = "truncate" => Completed(f) /\ o = OrgBlk(f)
        /\ proc[p].pc = "gunzip" => f.size = 0

(* ... every file system in it is whole ...                                 *)
Whole(f) ==
    /\ f.size > 0 => Prefixed(f)
    /\ \A i \in 0..f.size-1 : f.blk[i].kind = "super" =>
          /\ TarBlks <= f.blk[i].tarfs_free
          /\ WholeFs(f, i + 1, f.blk[i].tarfs_free)

(* ... and while nothing is half done, there is one file system at most.    *)
Still(a) == a \notin left /\ \A p \in Writers(a) : proc[p].pc = "truncate"
Settled(f) == f.size \in {0, TarBlks} \/ WholeFs(f, f.size, TarBlks)

SoundAt(a) ==
    /\ Whole(file[a])
    /\ \A p, q \in Writers(a) : p = q
    /\ \A p \in Writers(a) : Progress(p)
    /\ Still(a) => Settled(file[a])
SoundInv == \A a \in Archives : Sound(a) => SoundAt(a)

(* A device that is mounted, or about to be, ends with a superblock.        *)
Shown(d) == dev[d].mounted \/ \E p \in Procs : At(p, "mount") /\ proc[p].dev = d
MountedInv ==
    \A d \in DOMAIN dev :
        (Sound(dev[d].arch) /\ ~dev[d].cut /\ Shown(d)) =>
            SuperAt(file[dev[d].arch], dev[d].size)
-----------------------------------------------------------------------------
(* The file operations, by size and block by block.                         *)
THEOREM ResizedIs ==
    ASSUME NEW f, NEW least \in Int, Formed(f, least), NEW n \in Nat
    PROVE  /\ Formed(Resized(f, n), least)
           /\ Resized(f, n).size = n
           /\ \A i \in 0..n-1 : Resized(f, n).blk[i] = IF i < f.size THEN f.blk[i] ELSE Hole
  BY DEF Formed, Resized, Hole

THEOREM WrittenIs ==
    ASSUME NEW f, NEW least \in Int, Formed(f, least), NEW i \in Nat, NEW b,
           b.kind = "super" => /\ b.tarfs_free \in Int /\ b.tarfs_free >= least
                               /\ b.tarfs_size = i + 1 - b.tarfs_free
    PROVE  /\ Formed(Written(f, b, i), least)
           /\ Written(f, b, i).size = IF i < f.size THEN f.size ELSE i + 1
           /\ Written(f, b, i).blk[i] = b
           /\ \A j \in 0..Written(f, b, i).size-1 :
                 j # i => Written(f, b, i).blk[j] = IF j < f.size THEN f.blk[j] ELSE Hole
<1> DEFINE n == IF i < f.size THEN f.size ELSE i + 1
           g == Resized(f, n)
<1>1. n \in Nat /\ i \in 0..n-1
  BY DEF Formed
<1>2. Formed(g, least) /\ g.size = n /\ \A j \in 0..n-1 : g.blk[j] = IF j < f.size THEN f.blk[j] ELSE Hole
  BY <1>1, ResizedIs
<1>3. Written(f, b, i) = [g EXCEPT !.blk[i] = b]
  BY DEF Written
<1> HIDE DEF n, g
<1>4. Written(f, b, i) = [size |-> n, blk |-> [g.blk EXCEPT ![i] = b]]
  <2>1. g = [size |-> n, blk |-> g.blk]
    BY <1>2 DEF Formed
  <2>2. [g EXCEPT !.blk[i] = b] = [g EXCEPT !.blk = [g.blk EXCEPT ![i] = b]]
    BY <2>1
  <2> QED
    BY <1>3, <2>1, <2>2
<1>5. /\ Written(f, b, i).size = n
      /\ Written(f, b, i).blk = [j \in 0..n-1 |-> IF j = i THEN b ELSE g.blk[j]]
  <2>1. g.blk = [j \in 0..n-1 |-> g.blk[j]]
    BY <1>2 DEF Formed
  <2>2. [g.blk EXCEPT ![i] = b] = [j \in 0..n-1 |-> IF j = i THEN b ELSE g.blk[j]]
    BY <1>1, <2>1
  <2> QED
    BY <1>4, <2>2
<1>6. Formed(Written(f, b, i), least)
  BY <1>1, <1>2, <1>4, <1>5 DEF Formed
<1> QED
  BY <1>1, <1>2, <1>5, <1>6 DEF n

THEOREM UnpackedIs ==
    ASSUME NEW f, NEW least \in Int, Formed(f, least), NEW n \in 0..TarBlks
    PROVE  /\ Formed(Unpacked(f, n), least)
           /\ Unpacked(f, n).size = IF n < f.size THEN f.size ELSE n
           /\ \A i \in 0..n-1 : Unpacked(f, n).blk[i] = TarBlock(i)
           /\ \A i \in n..f.size-1 : Unpacked(f, n).blk[i] = f.blk[i]
<1> DEFINE m == IF n < f.size THEN f.size ELSE n
           g == Resized(f, m)
<1>1. n \in Nat /\ m \in Nat
  BY CycleAssumption DEF Formed, TarBlks
<1>2. Formed(g, least) /\ g.size = m /\ \A j \in 0..m-1 : g.blk[j] = IF j < f.size THEN f.blk[j] ELSE Hole
  BY <1>1, ResizedIs
<1>3. m >= n /\ m >= f.size
  BY <1>1 DEF Formed
<1> HIDE DEF g
<1>4. Unpacked(f, n) = [size |-> m, blk |-> [i \in 0..m-1 |-> IF i < n THEN TarBlock(i) ELSE g.blk[i]]]
  <2>1. g = [size |-> m, blk |-> g.blk] /\ DOMAIN g.blk = 0..m-1
    BY <1>2 DEF Formed
  <2>2. Unpacked(f, n) = [g EXCEPT !.blk = [i \in DOMAIN g.blk |-> IF i < n THEN TarBlock(i) ELSE g.blk[i]]]
    BY DEF Unpacked, g
  <2> DEFINE h == [i \in 0..m-1 |-> IF i < n THEN TarBlock(i) ELSE g.blk[i]]
  <2>3. Unpacked(f, n) = [g EXCEPT !.blk = h]
    BY <2>1, <2>2
  <2> HIDE DEF h
  <2>4. [g EXCEPT !.blk = h] = [size |-> m, blk |-> h]
    BY <2>1
  <2> QED
    BY <2>3, <2>4 DEF h
<1>5. \A i \in 0..n-1 : TarBlock(i).kind # "super"
  BY DEF TarBlock, Member, End
<1> HIDE DEF m
<1>6. /\ Unpacked(f, n).size = m
      /\ DOMAIN Unpacked(f, n).blk = 0..m-1
      /\ \A i \in 0..m-1 : Unpacked(f, n).blk[i] = IF i < n THEN TarBlock(i) ELSE g.blk[i]
  BY <1>1, <1>4
<1>7. Formed(Unpacked(f, n), least)
  BY <1>1, <1>2, <1>3, <1>4, <1>5, <1>6 DEF Formed, Hole
<1>8. \A i \in n..f.size-1 : i \in 0..m-1 /\ ~(i < n) /\ i < f.size
  BY <1>1, <1>3 DEF Formed
<1>9. \A i \in 0..n-1 : i \in 0..m-1 /\ i < n
  BY <1>1, <1>3
<1> QED
  BY <1>2, <1>6, <1>7, <1>8, <1>9 DEF m
-----------------------------------------------------------------------------
LEMMA LeastIs ==
    /\ TarBlks \in Nat \ {0}
    /\ \A a \in Archives : Least(a) \in 1..TarBlks
  BY CycleAssumption DEF TarBlks, Least

(* What keeps a file so: cuts that leave the archive, and every write.      *)
LEMMA ResizedKept ==
    ASSUME NEW a \in Archives, NEW f, Kept(a, f), NEW n \in Int, Least(a) <= n
    PROVE  Kept(a, Resized(f, n))
<1>1. Least(a) \in Nat /\ n \in Nat /\ TarBlks \in Nat /\ Formed(f, Least(a))
  BY LeastIs DEF Kept
<1>2. Formed(Resized(f, n), Least(a)) /\ Resized(f, n).size = n
  BY <1>1, ResizedIs
<1> QED
  BY <1>2 DEF Kept, Least

LEMMA WrittenKept ==
    ASSUME NEW a \in Archives, NEW f, Kept(a, f), NEW i \in Nat, NEW b,
           b.kind = "super" => /\ b.tarfs_free \in Int /\ b.tarfs_free >= Least(a)
                               /\ b.tarfs_size = i + 1 - b.tarfs_free
    PROVE  Kept(a, Written(f, b, i))
<1>1. Least(a) \in Int /\ TarBlks \in Nat /\ Formed(f, Least(a)) /\ f.size \in Nat
  BY LeastIs DEF Kept, Formed
<1>2. /\ Formed(Written(f, b, i), Least(a))
      /\ Written(f, b, i).size = IF i < f.size THEN f.size ELSE i + 1
  BY <1>1, WrittenIs
<1>3. f.size <= Written(f, b, i).size /\ Written(f, b, i).size \in Nat
  BY <1>1, <1>2
<1> QED
  BY <1>1, <1>2, <1>3 DEF Kept

LEMMA UnpackedKept ==
    ASSUME NEW a \in Gzipped, NEW f, Kept(a, f), NEW n \in 0..TarBlks
    PROVE  Kept(a, Unpacked(f, n))
  BY LeastIs, UnpackedIs, CycleAssumption DEF Kept

(* A step of p leaves the other processes and the other files alone.        *)
LEMMA BusyMoved ==
    ASSUME NEW r \in Busy, NEW pc \in PCs, NEW blks \in Int, NEW cur \in Int
    PROVE  [r EXCEPT !.pc = pc, !.cur = cur, !.blks = blks] \in Busy
  BY DEF Busy

LEMMA BusyBegun ==
    ASSUME NEW r \in Busy, NEW pc \in PCs, NEW org \in Int, NEW blks \in Int, NEW cur \in Int
    PROVE  [r EXCEPT !.pc = pc, !.cur = cur, !.org = org, !.blks = blks] \in Busy
  BY DEF Busy

LEMMA GotoType ==
    ASSUME ProcType, NEW p \in Procs, NEW r, r = Idle \/ (r \in Busy /\ KeepsOrg(r)),
           proc' = [proc EXCEPT ![p] = r]
    PROVE  ProcType' /\ proc'[p] = r /\ \A q \in Procs \ {p} : proc'[q] = proc[q]
  BY DEF ProcType

(* The process goes on with what it knows of the file, or does not need it. *)
LEMMA MoveType ==
    ASSUME ProcType, NEW p \in Procs, NEW r, r \in Busy, KeepsOrg(r), NEW pc \in PCs,
           pc \in MkfsSteps => Least(r.arch) <= r.org /\ r.org <= r.blks,
           pc = "gunzip" => r.arch \in Gzipped,
           pc \notin {"truncate", "checkFile"}, proc' = [proc EXCEPT ![p] = [r EXCEPT !.pc = pc]]
    PROVE  ProcType' /\ proc'[p] = [r EXCEPT !.pc = pc] /\ \A q \in Procs \ {p} : proc'[q] = proc[q]
<1>1. [r EXCEPT !.pc = pc] \in Busy /\ KeepsOrg([r EXCEPT !.pc = pc])
  BY DEF Busy, KeepsOrg
<1> QED
  BY <1>1, GotoType

LEMMA SetFileType ==
    ASSUME FileType, NEW p \in Procs, proc[p].arch \in Archives,
           NEW f, Kept(proc[p].arch, f), SetFile(p, f)
    PROVE  /\ FileType'
           /\ file'[proc[p].arch] = f
           /\ \A a \in Archives \ {proc[p].arch} : file'[a] = file[a]
  BY DEF FileType, SetFile

LEMMA CutType ==
    ASSUME DevType, NEW a \in Archives, Cut(a)
    PROVE  DevType'
  BY DEF DevType, Cut, Attached

LEMMA MkfsEndsType ==
    ASSUME ProcType, NEW p \in Procs, proc[p] # Idle, MkfsEnds(p)
    PROVE  /\ ProcType'
           /\ \A q \in Procs \ {p} : proc'[q] = proc[q]
           /\ proc'[p].pc \in {"idle", "losetup"}
  BY GotoType DEF MkfsEnds, Exit, Command, ProcType, Busy, PCs, Idle, KeepsOrg, MkfsSteps

LEMMA TypeStep == TypeInv /\ [Next]_vars => TypeInv'
<1> SUFFICES ASSUME TypeInv, [Next]_vars PROVE TypeInv'
  OBVIOUS
<1> USE DEF TypeInv
<1>u. CASE UNCHANGED vars
  BY <1>u DEF vars, hist, ProcType, DevType, FileType
<1>d. ASSUME NEW d \in Devices, Umount(d) PROVE TypeInv'
  BY <1>d DEF Umount, ProcType, DevType, FileType, Attached
<1>s. ASSUME NEW p \in Procs, NEW a \in Archives,
             MountTarfs(p, a) \/ MkfsTarfs(p, a) \/ DetachTarfs(p, a)
      PROVE  TypeInv'
  <2>1. PICK pc \in {"checkFile", "mkfs", "detach"}, script \in {"mount.tarfs", "mkfs.tarfs", "detachtarfs"},
             d \in Devices \union {0} : /\ Start(p, Command(pc, script, a, d))
                                        /\ pc = "checkFile" => a \in Gzipped
    BY <1>s DEF MountTarfs, MkfsTarfs, DetachTarfs
  <2>2. Command(pc, script, a, d) \in Busy /\ KeepsOrg(Command(pc, script, a, d))
    BY <2>1 DEF Command, Busy, PCs, KeepsOrg, MkfsSteps
  <2> QED
    BY <2>1, <2>2, GotoType DEF Start, DevType, FileType
<1>p. ASSUME NEW p \in Procs, Step(p) \/ Fault(p) PROVE TypeInv'
  <2> DEFINE r == proc[p]
             f == File(p)
  <2>b. r # Idle => /\ r \in Busy /\ r.arch \in Archives /\ KeepsOrg(r)
                    /\ Kept(r.arch, f) /\ Least(r.arch) \in Nat \ {0}
    BY LeastIs DEF ProcType, FileType, Busy, File
  <2>m. ASSUME r # Idle, NEW pc \in PCs, Goto(p, pc),
               pc \in MkfsSteps => Least(r.arch) <= r.org /\ r.org <= r.blks,
               pc = "gunzip" => r.arch \in Gzipped, pc \notin {"truncate", "checkFile"}
        PROVE  ProcType'
    <3>1. proc' = [proc EXCEPT ![p] = [r EXCEPT !.pc = pc]]
      BY <2>m DEF Goto, ProcType
    <3> QED
      BY <2>b, <2>m, <3>1, MoveType
  <2>x. Exit(p) => ProcType'
    BY GotoType DEF Exit
  <2>e. UNCHANGED dev => DevType'
    BY DEF DevType
  <2>f. UNCHANGED file => FileType'
    BY DEF FileType
  <2>a. ASSUME r # Idle, r.pc \in MkfsSteps, NEW b, b.kind # "super", NEW pc \in MkfsSteps, NEW cur \in Int,
               NEW i \in Links(p), Put(p, b, i, pc, cur)
        PROVE  TypeInv'
    <3> DEFINE blks == IF i < r.blks THEN r.blks ELSE i + 1
               s == [r EXCEPT !.pc = pc, !.cur = cur, !.blks = blks]
    <3>1. /\ r \in Busy /\ r.org \in Int /\ r.blks \in Int /\ Least(r.arch) \in Nat
          /\ Least(r.arch) <= r.org /\ r.org <= r.blks
      BY <2>a, <2>b DEF Busy, KeepsOrg
    <3>2. i \in Nat
      <4>1. r.org \in Nat /\ r.blks \in Nat
        BY <3>1
      <4> QED
        BY <2>a, <4>1, CycleAssumption DEF Links, Place
    <3>3. blks \in Int /\ r.org <= blks
      BY <3>1, <3>2
    <3>4. proc' = [proc EXCEPT ![p] = s]
      BY <2>a, <3>1 DEF Put, ProcType
    <3> HIDE DEF blks
    <3>5. s \in Busy /\ KeepsOrg(s)
      <4>1. s \in Busy
        <5>1. pc \in PCs
          BY <2>a DEF PCs, MkfsSteps
        <5> QED
          BY <2>a, <3>1, <3>3, <5>1, BusyMoved, Zenon
      <4>2. s.pc = pc /\ s.org = r.org /\ s.blks = blks /\ s.arch = r.arch
        BY <3>1 DEF Busy
      <4> QED
        BY <2>a, <3>1, <3>3, <4>1, <4>2 DEF KeepsOrg, MkfsSteps
    <3>6. Kept(r.arch, Written(f, b, i))
      BY <2>a, <2>b, <3>2, WrittenKept
    <3>7. ProcType'
      BY <3>4, <3>5, GotoType
    <3>8. FileType' /\ UNCHANGED dev
      BY <2>a, <2>b, <3>6, SetFileType DEF Put
    <3> QED
      BY <2>e, <3>7, <3>8
  <2>r. ASSUME r.pc \in MkfsSteps, Rollback(p) PROVE TypeInv'
    <3>1. r # Idle /\ ProcType'
      BY <2>r, MkfsEndsType DEF Rollback, MkfsSteps, Idle
    <3>2. r.org \in Int /\ Least(r.arch) <= r.org
      BY <2>r, <2>b, <3>1 DEF KeepsOrg, Busy
    <3>3. Kept(r.arch, Resized(f, r.org))
      BY <2>b, <3>1, <3>2, ResizedKept
    <3> QED
      BY <2>r, <2>b, <2>e, <3>1, <3>3, SetFileType DEF Rollback
  <2>1. CASE CheckFile(p)
    <3>1. ProcType'
      BY <2>1, <2>b, <2>m DEF CheckFile, KeepsOrg, Goto, At, Idle, PCs, MkfsSteps
    <3>2. r # Idle /\ r.arch \in Gzipped
      BY <2>1, <2>b DEF CheckFile, At, Idle, KeepsOrg
    <3>3. Kept(r.arch, NoFile)
      BY <2>b, <3>2 DEF Kept, Formed, NoFile
    <3>4. FileType'
      BY <2>1, <2>b, <3>2, <3>3, SetFileType DEF CheckFile
    <3> QED
      BY <2>1, <2>b, <3>1, <3>2, <3>4, CutType DEF CheckFile
  <2>2. CASE Gunzip(p)
    <3>1. ProcType'
      BY <2>2, <2>b, <2>m DEF Gunzip, Goto, At, Idle, PCs, MkfsSteps
    <3>2. r # Idle /\ r.arch \in Gzipped
      BY <2>2, <2>b DEF Gunzip, At, Idle, KeepsOrg
    <3>3. Kept(r.arch, Unpacked(f, TarBlks))
      BY <2>b, <3>2, LeastIs, UnpackedKept
    <3> QED
      BY <2>2, <2>b, <2>e, <3>1, <3>2, <3>3, SetFileType DEF Gunzip
  <2>3. CASE GunzipFails(p)
    <3>1. ProcType'
      BY <2>3, <2>b, <2>m DEF GunzipFails, Goto, At, Idle, PCs, MkfsSteps
    <3>2. r # Idle /\ r.arch \in Gzipped
      BY <2>3, <2>b DEF GunzipFails, At, Idle, KeepsOrg
    <3>3. \A n \in 0..TarBlks-1 : Kept(r.arch, Unpacked(f, n))
      BY <2>b, <3>2, LeastIs, UnpackedKept
    <3> QED
      BY <2>3, <2>b, <2>e, <3>1, <3>2, <3>3, SetFileType DEF GunzipFails
  <2>4. CASE MkfsCreate(p)
    <3> DEFINE s == [r EXCEPT !.pc = "init", !.cur = 0, !.org = f.size, !.blks = f.size]
    <3>1. r # Idle /\ proc' = [proc EXCEPT ![p] = s]
      BY <2>4 DEF MkfsCreate, At, Idle
    <3>2. f.size \in Nat /\ Least(r.arch) <= f.size
      BY <2>4, <2>b, <3>1 DEF MkfsCreate, Kept, Formed, Least, Prefixed
    <3>3. s \in Busy /\ KeepsOrg(s)
      <4>1. s \in Busy
        <5>1. r \in Busy /\ "init" \in PCs /\ f.size \in Int /\ 0 \in Int
          BY <2>b, <3>1, <3>2 DEF PCs
        <5> QED
          BY <5>1, BusyBegun, Zenon
      <4>2. s.pc = "init" /\ s.org = f.size /\ s.blks = f.size /\ s.arch = r.arch
        BY <2>b, <3>1 DEF Busy
      <4> QED
        BY <3>2, <4>1, <4>2 DEF KeepsOrg
    <3>4. ProcType'
      BY <3>1, <3>3, GotoType
    <3> QED
      BY <2>4, <2>e, <2>f, <3>4 DEF MkfsCreate
  <2>5. CASE MkfsNotCreated(p)
    BY <2>5, <2>e, <2>f, MkfsEndsType DEF MkfsNotCreated, At, Idle
  <2>6. CASE MkfsInit(p)
    <3>1. r # Idle /\ r.pc \in MkfsSteps
      BY <2>6 DEF MkfsInit, At, Idle, MkfsSteps
    <3>2. Dinodes(r.org, 0).kind # "super"
      BY DEF Dinodes
    <3> QED
      BY <2>6, <2>a, <3>1, <3>2 DEF MkfsInit, MkfsSteps
  <2>7. CASE MkfsAdd(p)
    <3>1. r # Idle /\ r.pc \in MkfsSteps
      BY <2>7 DEF MkfsAdd, At, Idle, MkfsSteps
    <3>2. r.cur + 1 \in Int
      BY <2>b, <3>1 DEF Busy
    <3>3. Node(r.org, Read(p).n).kind # "super"
      BY DEF Node
    <3> QED
      BY <2>7, <2>a, <3>1, <3>2, <3>3 DEF MkfsAdd, MkfsSteps
  <2>8. CASE MkfsEof(p)
    BY <2>8, <2>b, <2>e, <2>f, <2>m DEF MkfsEof, hist, KeepsOrg, Goto, At, Idle, PCs, MkfsSteps
  <2>9. CASE MkfsReadFails(p)
    BY <2>9, <2>b, <2>e, <2>f, <2>m DEF MkfsReadFails, KeepsOrg, Goto, At, Idle, PCs, MkfsSteps
  <2>10. CASE MkfsSync(p)
    <3>1. r # Idle /\ r.pc \in MkfsSteps
      BY <2>10 DEF MkfsSync, At, Idle, MkfsSteps
    <3>2. r.cur \in Int
      BY <2>b, <3>1 DEF Busy
    <3>3. Dinodes(r.org, r.blks - r.org + 1).kind # "super"
      BY DEF Dinodes
    <3> QED
      BY <2>10, <2>a, <3>1, <3>2, <3>3 DEF MkfsSync, MkfsSteps
  <2>11. CASE MkfsSuper(p)
    <3>1. r # Idle /\ ProcType'
      BY <2>11, MkfsEndsType DEF MkfsSuper, At, Idle
    <3>2. r.org \in Int /\ r.blks \in Int /\ Least(r.arch) <= r.org /\ r.org <= r.blks
      BY <2>11, <2>b, <3>1 DEF MkfsSuper, At, MkfsSteps, KeepsOrg, Busy
    <3>3. Kept(r.arch, Written(f, Super(r.org, r.blks), r.blks))
      BY <2>b, <3>1, <3>2, WrittenKept DEF Super
    <3> QED
      BY <2>11, <2>b, <2>e, <3>1, <3>3, SetFileType DEF MkfsSuper
  <2>12. CASE MkfsFails(p)
    BY <2>12, <2>r DEF MkfsFails
  <2>13. CASE MkfsFull(p)
    BY <2>13, <2>r DEF MkfsFull
  <2>14. CASE Losetup(p)
    <3>1. r # Idle /\ ProcType'
      BY <2>14, <2>b, <2>m DEF Losetup, KeepsOrg, Goto, At, Idle, PCs, MkfsSteps
    <3> DEFINE att == [arch |-> r.arch, size |-> f.size, mounted |-> FALSE, mtab |-> FALSE, cut |-> FALSE]
    <3>2. att \in Attached
      BY <2>b, <3>1 DEF Attached, Kept, Formed
    <3> HIDE DEF att
    <3>3. dev' = [d \in DOMAIN dev \union {r.dev} |-> IF d = r.dev THEN att ELSE dev[d]]
      BY <2>14 DEF Losetup, att
    <3>4. DevType'
      BY <3>2, <3>3 DEF DevType
    <3> QED
      BY <2>14, <2>f, <3>1, <3>4 DEF Losetup
  <2>15. CASE LosetupFails(p)
    BY <2>15, <2>e, <2>f, <2>x DEF LosetupFails, hist
  <2>16. CASE TarfsmountRead(p)
    BY <2>16, <2>b, <2>e, <2>f, <2>m DEF TarfsmountRead, KeepsOrg, Goto, At, Idle, PCs, MkfsSteps
  <2>17. CASE TarfsmountFails(p)
    BY <2>17, <2>e, <2>f, <2>x DEF TarfsmountFails
  <2>18. CASE Mount(p)
    <3>1. ProcType'
      BY <2>18, <2>b, <2>m DEF Mount, KeepsOrg, Goto, At, Idle, PCs, MkfsSteps
    <3>2. DevType'
      BY <2>18 DEF Mount, DevType, Attached
    <3> QED
      BY <2>18, <2>f, <3>1, <3>2 DEF Mount
  <2>19. CASE Addmntent(p)
    <3>2. DevType'
      BY <2>19 DEF Addmntent, DevType, Attached
    <3> QED
      BY <2>19, <2>f, <2>x, <3>2 DEF Addmntent
  <2>20. CASE DetachRead(p)
    <3> DEFINE s == [r EXCEPT !.pc = "truncate", !.org = OrgBlk(f)]
    <3>1. r # Idle /\ proc' = [proc EXCEPT ![p] = s]
      BY <2>20 DEF DetachRead, At, Idle
    <3>2. /\ f.size \in Nat /\ f.size-1 \in 0..f.size-1
          /\ f.blk[f.size-1].kind = "super"
      BY <2>20, <2>b, <3>1 DEF DetachRead, Kept, Formed, Completed
    <3>3. OrgBlk(f) \in Int /\ Least(r.arch) <= OrgBlk(f)
      BY <2>b, <3>1, <3>2 DEF Kept, Formed, OrgBlk
    <3>4. s \in Busy /\ KeepsOrg(s)
      BY <2>b, <3>1, <3>3 DEF Busy, PCs, KeepsOrg, MkfsSteps
    <3>5. ProcType'
      BY <3>1, <3>4, GotoType
    <3> QED
      BY <2>20, <2>e, <2>f, <3>5 DEF DetachRead
  <2>21. CASE DetachFails(p)
    BY <2>21, <2>e, <2>f, <2>x DEF DetachFails
  <2>22. CASE DetachTruncate(p)
    <3>1. r # Idle /\ r.org \in Int /\ Least(r.arch) <= r.org
      BY <2>22, <2>b DEF DetachTruncate, At, Idle, KeepsOrg, Busy
    <3>2. Kept(r.arch, Resized(f, r.org))
      BY <2>b, <3>1, ResizedKept
    <3>3. FileType'
      BY <2>22, <2>b, <3>1, <3>2, SetFileType DEF DetachTruncate
    <3> QED
      BY <2>22, <2>b, <2>x, <3>1, <3>3, CutType DEF DetachTruncate
  <2>23. CASE Kill(p)
    <3>1. ProcType'
      BY <2>23, <2>x, MkfsEndsType DEF Kill, Idle
    <3> QED
      BY <2>23, <2>e, <2>f, <3>1 DEF Kill
  <2> QED
    BY <1>p, <2>1, <2>2, <2>3, <2>4, <2>5, <2>6, <2>7, <2>8, <2>9, <2>10, <2>11, <2>12, <2>13, <2>14, <2>15, <2>16, <2>17, <2>18, <2>19, <2>20, <2>21, <2>22, <2>23 DEF Step, Fault
<1> QED
  BY <1>u, <1>d, <1>s, <1>p DEF Next

LEMMA TypeInit == Init => TypeInv
<1> SUFFICES ASSUME Init PROVE TypeInv
  OBVIOUS
<1>1. ProcType /\ DevType
  BY DEF Init, ProcType, DevType
<1>2. ASSUME NEW a \in Archives PROVE Kept(a, file[a])
  <2>1. CASE a \in Gzipped
    BY <2>1 DEF Init, Kept, Formed, NoFile
  <2>2. CASE a \notin Gzipped
    <3>1. file[a] = Archive /\ TarBlks \in Nat
      BY <2>2, LeastIs DEF Init
    <3>2. \A i \in 0..TarBlks-1 : Archive.blk[i] = TarBlock(i) /\ TarBlock(i).kind # "super"
      BY DEF Archive, TarBlock, Member, End
    <3>3. Formed(Archive, Least(a))
      BY <3>1, <3>2 DEF Formed, Archive
    <3> QED
      BY <3>1, <3>3 DEF Kept, Archive
  <2> QED
    BY <2>1, <2>2
<1> QED
  BY <1>1, <1>2 DEF Init, TypeInv, FileType

(* Whatever has run on a file in whatever order, a superblock in it names a *)
(* beginning behind the archive, and so does every command at work.         *)
THEOREM Typed == Spec => []TypeInv
<1> QED
  BY TypeInit, TypeStep, PTL DEF Spec

-----------------------------------------------------------------------------
(* What a step of p leaves as it is.                                        *)
LEMMA StepOfOne ==
    ASSUME TypeInv, NEW p \in Procs, Step(p) \/ Fault(p)
    PROVE  /\ proc[p] \in Busy /\ KeepsOrg(proc[p])
           /\ p \in DOMAIN proc /\ DOMAIN proc = Procs
           /\ \A q \in Procs \ {p} : proc'[q] = proc[q]
           /\ \A a \in Archives \ {proc[p].arch} : file'[a] = file[a]
<1>1. proc[p] \in {Idle} \union {r \in Busy : KeepsOrg(r)} /\ DOMAIN proc = Procs
  BY DEF TypeInv, ProcType
<1>2. proc[p] # Idle
  BY DEF Step, Fault, CheckFile, Gunzip, GunzipFails, MkfsCreate, MkfsNotCreated, MkfsInit, MkfsAdd, MkfsEof, MkfsReadFails, MkfsSync, MkfsSuper, MkfsFails, MkfsFull, Losetup, LosetupFails, TarfsmountRead, TarfsmountFails, Mount, Addmntent, DetachRead, DetachFails, DetachTruncate, Kill, At, Idle, MkfsSteps
<1>3. \E r : proc' = [proc EXCEPT ![p] = r]
  BY ZenonT(30) DEF Step, Fault, CheckFile, Gunzip, GunzipFails, MkfsCreate, MkfsNotCreated, MkfsInit, MkfsAdd, MkfsEof, MkfsReadFails, MkfsSync, MkfsSuper, MkfsFails, MkfsFull, Losetup, LosetupFails, TarfsmountRead, TarfsmountFails, Mount, Addmntent, DetachRead, DetachFails, DetachTruncate, Kill, MkfsEnds, Exit, Goto, Put, Rollback
<1>4. UNCHANGED file \/ \E f : file' = [file EXCEPT ![proc[p].arch] = f]
  BY DEF Step, Fault, CheckFile, Gunzip, GunzipFails, MkfsCreate, MkfsNotCreated, MkfsInit, MkfsAdd, MkfsEof, MkfsReadFails, MkfsSync, MkfsSuper, MkfsFails, MkfsFull, Losetup, LosetupFails, TarfsmountRead, TarfsmountFails, Mount, Addmntent, DetachRead, DetachFails, DetachTruncate, Kill, SetFile, Put, Rollback
<1> QED
  BY <1>1, <1>2, <1>3, <1>4 DEF TypeInv, FileType

(* Most steps leave the devices alone and lead to no step that uses one.    *)
Quiet(p) ==
    \/ Gunzip(p) \/ GunzipFails(p)
    \/ MkfsCreate(p) \/ MkfsNotCreated(p) \/ MkfsInit(p) \/ MkfsAdd(p) \/ MkfsEof(p)
    \/ MkfsReadFails(p) \/ MkfsSync(p) \/ MkfsSuper(p) \/ MkfsFails(p) \/ MkfsFull(p)
    \/ LosetupFails(p) \/ TarfsmountFails(p) \/ DetachRead(p) \/ DetachFails(p) \/ Kill(p)

LEMMA QuietIs ==
    ASSUME TypeInv, NEW p \in Procs, Quiet(p)
    PROVE  UNCHANGED dev /\ ~Holds(p)'
<1>1. p \in DOMAIN proc /\ proc[p] \in Busy
  BY StepOfOne DEF Step, Fault, Quiet
<1>2. UNCHANGED dev
  BY DEF Quiet, Gunzip, GunzipFails, MkfsCreate, MkfsNotCreated, MkfsInit, MkfsAdd, MkfsEof, MkfsReadFails, MkfsSync, MkfsSuper, MkfsFails, MkfsFull, LosetupFails, TarfsmountFails, DetachRead, DetachFails, Kill, Rollback, Put
<1> DEFINE away == PCs \ {"tarfsmount", "mount", "mtab"}
<1>3. \A pc \in away : Goto(p, pc) => ~Holds(p)'
  BY <1>1 DEF Goto, Holds, Busy
<1>4. Exit(p) \/ MkfsEnds(p) => ~Holds(p)'
  BY <1>1 DEF Exit, MkfsEnds, Holds, Command, Idle
<1>5. \A b, i, cur : \A pc \in {"get", "super"} : Put(p, b, i, pc, cur) => ~Holds(p)'
  BY <1>1 DEF Put, Holds, Busy
<1>6. MkfsCreate(p) \/ DetachRead(p) => ~Holds(p)'
  BY <1>1 DEF MkfsCreate, DetachRead, Holds, Busy
<1> QED
  BY <1>2, <1>3, <1>4, <1>5, <1>6 DEF Quiet, Gunzip, GunzipFails, MkfsCreate, MkfsNotCreated, MkfsInit, MkfsAdd, MkfsEof, MkfsReadFails, MkfsSync, MkfsSuper, MkfsFails, MkfsFull, LosetupFails, TarfsmountFails, DetachRead, DetachFails, Kill, Rollback, PCs

LEMMA HolderStep == TypeInv /\ HolderInv /\ [Next]_vars => HolderInv'
<1> SUFFICES ASSUME TypeInv, HolderInv, [Next]_vars PROVE HolderInv'
  OBVIOUS
<1>u. CASE UNCHANGED vars
  BY <1>u DEF vars, hist, HolderInv, Holds
<1>d. ASSUME NEW d \in Devices, Umount(d) PROVE HolderInv'
  <2>1. proc' = proc
    BY <1>d DEF Umount
  <2>2. \A e \in DOMAIN dev :
           \/ e = d /\ dev[d].mtab
           \/ /\ e \in DOMAIN dev' /\ dev'[e].arch = dev[e].arch
              /\ dev'[e].mtab = dev[e].mtab
    <3>1. CASE dev[d].mtab
      <4>1. dev' = [e \in DOMAIN dev \ {d} |-> dev[e]]
        BY <1>d, <3>1 DEF Umount
      <4> QED
        BY <3>1, <4>1
    <3>2. CASE ~dev[d].mtab
      <4>1. dev' = [dev EXCEPT ![d].mounted = FALSE] /\ d \in DOMAIN dev /\ dev[d] \in Attached
        BY <1>d, <3>2 DEF Umount, TypeInv, DevType
      <4> QED
        BY <4>1 DEF Attached
    <3> QED
      BY <3>1, <3>2
  <2> QED
    BY <2>1, <2>2 DEF HolderInv, Holds
<1>s. ASSUME NEW p \in Procs, NEW a \in Archives,
             MountTarfs(p, a) \/ MkfsTarfs(p, a) \/ DetachTarfs(p, a)
      PROVE  HolderInv'
  <2>1. PICK c : Start(p, c) /\ ~(c.pc \in {"tarfsmount", "mount", "mtab"})
    <3>1. \A pc, script, d : Command(pc, script, a, d).pc = pc
      BY DEF Command
    <3>2. \E pc \in {"checkFile", "mkfs", "detach"} : \E script, d : Start(p, Command(pc, script, a, d))
      BY <1>s DEF MountTarfs, MkfsTarfs, DetachTarfs
    <3> QED
      BY <3>1, <3>2
  <2>2. p \in DOMAIN proc
    BY DEF TypeInv, ProcType
  <2>3. proc'[p] = c /\ UNCHANGED dev /\ \A q \in Procs \ {p} : proc'[q] = proc[q]
    BY <2>1, <2>2 DEF Start
  <2>4. ~Holds(p)'
    BY <2>1, <2>3 DEF Holds
  <2> QED
    BY <2>3, <2>4 DEF HolderInv, Holds
<1>p. ASSUME NEW p \in Procs, Step(p) \/ Fault(p) PROVE HolderInv'
  <2>b. /\ proc[p] \in Busy /\ p \in DOMAIN proc
        /\ \A q \in Procs \ {p} : proc'[q] = proc[q]
    BY <1>p, StepOfOne
  <2>m. ASSUME NEW pc, Goto(p, pc)
        PROVE  proc'[p].pc = pc /\ proc'[p].dev = proc[p].dev /\ proc'[p].arch = proc[p].arch
    BY <2>b, <2>m DEF Goto, Busy
  <2>k. ASSUME ~Holds(p)',
               \A d \in DOMAIN dev : /\ d \in DOMAIN dev' /\ dev'[d].arch = dev[d].arch
                                     /\ dev'[d].mtab = dev[d].mtab
        PROVE  HolderInv'
    BY <2>k, <2>b DEF HolderInv, Holds
  <2>h. ASSUME Holds(p), Goto(p, "mount") \/ Goto(p, "mtab"),
               \A d \in DOMAIN dev : /\ d \in DOMAIN dev' /\ dev'[d].arch = dev[d].arch
                                     /\ dev'[d].mtab = dev[d].mtab
        PROVE  HolderInv'
    BY <2>h, <2>b, <2>m DEF HolderInv, Holds
  <2>c. ASSUME Cut(proc[p].arch)
        PROVE  \A d \in DOMAIN dev : /\ d \in DOMAIN dev' /\ dev'[d].arch = dev[d].arch
                                    /\ dev'[d].mtab = dev[d].mtab
    BY <2>c DEF Cut, TypeInv, DevType, Attached
  <2>1. CASE Quiet(p)
    BY <2>1, <2>k, QuietIs
  <2>2. CASE CheckFile(p)
    <3>1. ~Holds(p)'
      BY <2>2, <2>m DEF CheckFile, Holds
    <3> QED
      BY <2>2, <2>k, <2>c, <3>1 DEF CheckFile
  <2>3. CASE Losetup(p)
    <3>1. proc[p].dev \notin DOMAIN dev /\ proc'[p].dev = proc[p].dev /\ proc'[p].arch = proc[p].arch
      BY <2>3, <2>m DEF Losetup
    <3>2. /\ proc[p].dev \in DOMAIN dev' /\ dev'[proc[p].dev].arch = proc[p].arch /\ ~dev'[proc[p].dev].mtab
          /\ \A d \in DOMAIN dev : d \in DOMAIN dev' /\ dev'[d] = dev[d]
      BY <2>3, <3>1 DEF Losetup
    <3> QED
      BY <2>b, <3>1, <3>2 DEF HolderInv, Holds
  <2>4. CASE TarfsmountRead(p)
    BY <2>4, <2>h DEF TarfsmountRead, Holds, At
  <2>5. CASE Mount(p)
    <3>1. \A d \in DOMAIN dev : /\ d \in DOMAIN dev' /\ dev'[d].arch = dev[d].arch
                                /\ dev'[d].mtab = dev[d].mtab
      BY <2>5 DEF Mount, TypeInv, DevType, Attached
    <3> QED
      BY <2>5, <2>h, <3>1 DEF Mount, Holds, At
  <2>6. CASE Addmntent(p)
    <3>1. \A d \in DOMAIN dev : /\ d \in DOMAIN dev' /\ dev'[d].arch = dev[d].arch
                                /\ d # proc[p].dev => dev'[d].mtab = dev[d].mtab
      BY <2>6 DEF Addmntent, TypeInv, DevType, Attached
    <3>2. ~Holds(p)'
      BY <2>6, <2>b DEF Addmntent, Exit, Idle, Holds
    <3> QED
      BY <2>6, <2>b, <3>1, <3>2 DEF Addmntent, Holds, At, HolderInv
  <2>7. CASE DetachTruncate(p)
    <3>1. ~Holds(p)'
      BY <2>7, <2>b DEF DetachTruncate, Exit, Idle, Holds
    <3> QED
      BY <2>7, <2>k, <2>c, <3>1 DEF DetachTruncate
  <2> QED
    BY <1>p, <2>1, <2>2, <2>3, <2>4, <2>5, <2>6, <2>7 DEF Step, Fault, Quiet
<1> QED
  BY <1>u, <1>d, <1>s, <1>p DEF Next

THEOREM Held == Spec => []HolderInv
<1>1. Init => HolderInv
  BY DEF Init, HolderInv, Holds, Idle
<1> QED
  BY <1>1, Typed, HolderStep, PTL DEF Spec

(* tarfsmount is never run on a device of another script or another archive, *)
(* although losetup -f names a device without taking it: losetup itself     *)
(* fails on one that is taken, and umount takes away only what is in mtab.  *)
THEOREM DeviceOwned == Spec => []OwnDevice
<1>1. HolderInv => OwnDevice
  BY DEF HolderInv, OwnDevice, Holds
<1> QED
  BY <1>1, Held, PTL
-----------------------------------------------------------------------------
(* What a write or a cut past the first m blocks does to the file systems   *)
(* that end before them: nothing.                                           *)
LEMMA WholeFsKept ==
    ASSUME NEW f, NEW g, NEW m \in Nat, NEW n \in 1..m, NEW o \in Nat, WholeFs(f, n, o),
           \A i \in 0..m-1 : g.blk[i] = f.blk[i]
    PROVE  WholeFs(g, n, o)
<1>1. Members \in Nat /\ n = o + Members + 2
  BY CycleAssumption DEF WholeFs
<1>2. o \in 0..m-1 /\ n - 1 \in 0..m-1 /\ \A k \in 1..Members : o + k \in 0..m-1
  BY <1>1
<1> QED
  BY <1>1, <1>2 DEF WholeFs

LEMMA WholeKept ==
    ASSUME NEW f, NEW l \in Nat, Formed(f, l), Whole(f), NEW g, g.size \in Nat,
           NEW m \in Nat, TarBlks <= m, m <= f.size, m <= g.size,
           \A i \in 0..m-1 : g.blk[i] = f.blk[i],
           \A i \in m..g.size-1 : g.blk[i].kind = "super" =>
               TarBlks <= g.blk[i].tarfs_free /\ WholeFs(g, i + 1, g.blk[i].tarfs_free)
    PROVE  Whole(g)
<1>1. TarBlks \in Nat \ {0} /\ f.size \in Nat
  BY LeastIs DEF Formed
<1>2. Prefixed(g)
  <2>1. Prefixed(f)
    BY <1>1 DEF Whole
  <2>2. \A i \in 0..TarBlks-1 : i \in 0..m-1
    BY <1>1
  <2> QED
    BY <1>1, <2>1, <2>2 DEF Prefixed
<1>3. ASSUME NEW i \in 0..g.size-1, g.blk[i].kind = "super"
      PROVE  TarBlks <= g.blk[i].tarfs_free /\ WholeFs(g, i + 1, g.blk[i].tarfs_free)
  <2>1. CASE i \in m..g.size-1
    BY <1>3, <2>1
  <2>2. CASE i \in 0..m-1
    <3> DEFINE o == f.blk[i].tarfs_free
    <3>1. i \in 0..f.size-1 /\ g.blk[i] = f.blk[i]
      BY <1>1, <2>2
    <3>2. TarBlks <= o /\ WholeFs(f, i + 1, o) /\ o \in Int
      BY <1>3, <3>1 DEF Whole, Formed
    <3>3. o \in Nat /\ i + 1 \in 1..m
      BY <1>1, <2>2, <3>2
    <3> HIDE DEF o
    <3>4. WholeFs(g, i + 1, o)
      BY <3>2, <3>3, WholeFsKept
    <3> QED
      BY <3>1, <3>2, <3>4 DEF o
  <2> QED
    BY <1>3, <2>1, <2>2
<1> QED
  BY <1>2, <1>3 DEF Whole

LEMMA WrittenKeeps ==
    ASSUME NEW f, NEW l \in Int, Formed(f, l), NEW i \in Nat, NEW b,
           b.kind = "super" => /\ b.tarfs_free \in Int /\ b.tarfs_free >= l
                               /\ b.tarfs_size = i + 1 - b.tarfs_free
    PROVE  \A j \in 0..f.size-1 : j # i => Written(f, b, i).blk[j] = f.blk[j]
<1>1. f.size \in Nat
  BY DEF Formed
<1>2. \A j \in 0..f.size-1 : j \in 0..Written(f, b, i).size-1 /\ j < f.size
  <2>1. Written(f, b, i).size = IF i < f.size THEN f.size ELSE i + 1
    BY WrittenIs
  <2> QED
    BY <1>1, <2>1
<1> QED
  BY <1>2, WrittenIs

(* The block a running mkfs appends.                                        *)
LEMMA Appended ==
    ASSUME NEW f, NEW l \in Nat, Formed(f, l), Whole(f), f.size > 0, NEW b, b.kind # "super"
    PROVE  LET g == Written(f, b, f.size) IN
           /\ Whole(g)
           /\ g.size = f.size + 1
           /\ g.blk[f.size] = b
           /\ \A i \in 0..f.size-1 : g.blk[i] = f.blk[i]
<1> DEFINE g == Written(f, b, f.size)
<1>1. f.size \in Nat /\ TarBlks <= f.size
  BY DEF Formed, Whole, Prefixed
<1>2. g.size = f.size + 1 /\ g.blk[f.size] = b
  <2>1. g.size = IF f.size < f.size THEN f.size ELSE f.size + 1
    BY <1>1, WrittenIs
  <2>2. g.blk[f.size] = b
    BY <1>1, WrittenIs
  <2> QED
    BY <1>1, <2>1, <2>2
<1>3. \A i \in 0..f.size-1 : g.blk[i] = f.blk[i]
  <2>1. \A i \in 0..f.size-1 : i # f.size
    BY <1>1
  <2> QED
    BY <1>1, <2>1, WrittenKeeps
<1> HIDE DEF g
<1>4. \A i \in f.size..g.size-1 : g.blk[i].kind # "super"
  BY <1>1, <1>2
<1>5. Whole(g)
  BY <1>1, <1>2, <1>3, <1>4, WholeKept
<1> QED
  BY <1>2, <1>3, <1>5 DEF g

(* A completed file: the file system at its end, and its first block.       *)
LEMMA CompletedIs ==
    ASSUME NEW f, NEW l \in Nat, Formed(f, l), Whole(f), Completed(f)
    PROVE  LET o == f.blk[f.size-1].tarfs_free IN
           /\ o \in Nat /\ TarBlks <= o /\ o < f.size
           /\ OrgBlk(f) = o
           /\ WholeFs(f, f.size, o)
           /\ Settled(f) => o = TarBlks
<1> DEFINE o == f.blk[f.size-1].tarfs_free
<1>1. f.size \in Nat /\ f.size - 1 \in 0..f.size-1 /\ f.blk[f.size-1].kind = "super"
  BY DEF Formed, Completed
<1>2. TarBlks <= o /\ WholeFs(f, (f.size - 1) + 1, o) /\ o \in Int
      /\ f.blk[f.size-1].tarfs_size = (f.size - 1) + 1 - o
  BY <1>1 DEF Whole, Formed
<1>3. TarBlks \in Nat /\ Members \in Nat /\ TarBlks = Members + 1
  BY LeastIs, CycleAssumption DEF TarBlks
<1>4. WholeFs(f, f.size, o) /\ o \in Nat /\ f.size = o + Members + 2
  BY <1>1, <1>2, <1>3 DEF WholeFs
<1>5. OrgBlk(f) = o
  BY <1>1, <1>2, <1>4 DEF OrgBlk
<1>6. ASSUME Settled(f) PROVE o = TarBlks
  BY <1>3, <1>4, <1>6 DEF Settled, WholeFs
<1> QED
  BY <1>2, <1>3, <1>4, <1>5, <1>6
-----------------------------------------------------------------------------
WriterPCs == MkfsSteps \union {"gunzip", "truncate"}

(* Files never come to be sound again, nor cleared of what was left.        *)
LEMMA HistGrows == [Next]_vars => met \subseteq met' /\ left \subseteq left' /\ short \subseteq short'
<1> SUFFICES ASSUME [Next]_vars PROVE met \subseteq met' /\ left \subseteq left' /\ short \subseteq short'
  OBVIOUS
<1>1. ASSUME UNCHANGED vars PROVE met \subseteq met' /\ left \subseteq left' /\ short \subseteq short'
  BY <1>1 DEF vars, hist
<1>2. ASSUME NEW p \in Procs, NEW c, Start(p, c)
      PROVE  met \subseteq met' /\ left \subseteq left' /\ short \subseteq short'
  BY <1>2 DEF Start
<1>3. ASSUME NEW p \in Procs, Step(p) \/ Fault(p)
      PROVE  met \subseteq met' /\ left \subseteq left' /\ short \subseteq short'
  BY <1>3 DEF Step, Fault, CheckFile, Gunzip, GunzipFails, MkfsCreate, MkfsNotCreated, MkfsInit, MkfsAdd, MkfsEof, MkfsReadFails, MkfsSync, MkfsSuper, MkfsFails,
     MkfsFull, Losetup, LosetupFails, TarfsmountRead, TarfsmountFails, Mount, Addmntent, DetachRead, DetachFails, DetachTruncate, Kill, Enter, Faulty, Put, hist
<1>4. ASSUME NEW d \in Devices, Umount(d)
      PROVE  met \subseteq met' /\ left \subseteq left' /\ short \subseteq short'
  BY <1>4 DEF Umount, hist
<1> QED
  BY <1>1, <1>2, <1>3, <1>4 DEF Next, MountTarfs, MkfsTarfs, DetachTarfs

(* Alone with its file mkfs puts a block where it means to.                 *)
LEMMA PutAlone ==
    ASSUME NEW p \in Procs, NEW b, NEW pc, NEW cur, proc[p].arch \notin met,
           \E i \in Links(p) : Put(p, b, i, pc, cur)
    PROVE  Put(p, b, Place(p), pc, cur)
  BY DEF Links

LEMMA PrefixStep == TypeInv /\ PrefixInv /\ [Next]_vars => PrefixInv'
<1> SUFFICES ASSUME TypeInv, PrefixInv, [Next]_vars, NEW a \in Archives, a \notin Gzipped, a \notin met'
             PROVE  Prefixed(file'[a])
  BY DEF PrefixInv, Prefixed
<1> DEFINE f == file[a]
           g == file'[a]
<1>1. /\ a \notin met /\ Prefixed(f) /\ Formed(f, Least(a)) /\ Least(a) = TarBlks
      /\ TarBlks \in Nat \ {0} /\ f.size \in Nat
  BY HistGrows, LeastIs DEF PrefixInv, TypeInv, FileType, Kept, Formed, Least
\* cutting and writing past the archive
<1>2. ASSUME NEW n \in Int, TarBlks <= n, g = Resized(f, n) PROVE Prefixed(g)
  <2>0. n \in Nat /\ TarBlks \in Int /\ Formed(f, TarBlks)
    BY <1>1, <1>2
  <2>1. n \in Nat /\ g.size = n /\ \A i \in 0..n-1 : g.blk[i] = IF i < f.size THEN f.blk[i] ELSE Hole
    <3>1. Resized(f, n).size = n /\ \A i \in 0..n-1 : Resized(f, n).blk[i] = IF i < f.size THEN f.blk[i] ELSE Hole
      BY <2>0, ResizedIs
    <3> QED
      BY <1>2, <2>0, <3>1
  <2>2. \A i \in 0..TarBlks-1 : i \in 0..n-1 /\ i < f.size
    BY <1>1, <1>2 DEF Prefixed
  <2> QED
    BY <1>1, <1>2, <2>1, <2>2 DEF Prefixed
<1>3. ASSUME NEW i \in Int, TarBlks <= i, NEW b, g = Written(f, b, i),
             b.kind = "super" => /\ b.tarfs_free \in Int /\ b.tarfs_free >= TarBlks
                                 /\ b.tarfs_size = i + 1 - b.tarfs_free
      PROVE  Prefixed(g)
  <2>1. i \in Nat
    BY <1>1, <1>3
  <2>2. g.size = IF i < f.size THEN f.size ELSE i + 1
    <3>1. TarBlks \in Int /\ Formed(f, TarBlks)
      BY <1>1
    <3>2. Written(f, b, i).size = IF i < f.size THEN f.size ELSE i + 1
      BY <1>3, <2>1, <3>1, WrittenIs
    <3> QED
      BY <1>3, <3>2, Zenon
  <2>3. \A j \in 0..f.size-1 : j # i => g.blk[j] = f.blk[j]
    BY <1>1, <1>3, <2>1, WrittenKeeps
  <2>4. TarBlks <= g.size
    BY <1>1, <2>1, <2>2 DEF Prefixed
  <2>5. \A j \in 0..TarBlks-1 : j \in 0..f.size-1 /\ j # i
    BY <1>1, <1>3 DEF Prefixed
  <2> QED
    BY <1>1, <2>3, <2>4, <2>5 DEF Prefixed
<1>4. CASE g = f
  BY <1>1, <1>4
<1>5. ASSUME NEW p \in Procs, Step(p) \/ Fault(p), g # f PROVE Prefixed(g)
  <2> DEFINE r == proc[p]
  <2>1. /\ r.arch = a /\ r \in Busy /\ KeepsOrg(r) /\ r.org \in Int /\ r.blks \in Int
        /\ a \in DOMAIN file /\ File(p) = f
    BY <1>5, StepOfOne DEF Busy, File, TypeInv, FileType
  <2>f. ASSUME NEW h, SetFile(p, h) PROVE g = h
    BY <2>f, <2>1 DEF SetFile
  <2>k. ASSUME r.pc \in MkfsSteps PROVE TarBlks <= r.org /\ TarBlks <= r.blks /\ TarBlks <= Place(p) /\ Place(p) \in Int
    <3>1. TarBlks <= r.org /\ r.org <= r.blks
      BY <1>1, <2>1, <2>k DEF KeepsOrg
    <3> QED
      BY <1>1, <2>1, <3>1 DEF Place
  <2>p. ASSUME r.pc \in MkfsSteps, NEW b, b.kind # "super", NEW pc, NEW cur,
               \E i \in Links(p) : Put(p, b, i, pc, cur)
        PROVE  Prefixed(g)
    <3>1. Put(p, b, Place(p), pc, cur)
      BY <1>1, <2>1, <2>p, PutAlone
    <3>2. g = Written(f, b, Place(p))
      BY <2>1, <2>f, <3>1 DEF Put
    <3> QED
      BY <1>3, <2>p, <2>k, <3>2
  <2>2. CASE CheckFile(p) \/ Gunzip(p) \/ GunzipFails(p)
    BY <2>1, <2>2 DEF CheckFile, Gunzip, GunzipFails, At, KeepsOrg
  <2>3. CASE MkfsInit(p)
    BY <2>3, <2>p DEF MkfsInit, At, MkfsSteps, Dinodes
  <2>4. CASE MkfsAdd(p)
    BY <2>4, <2>p DEF MkfsAdd, At, MkfsSteps, Node
  <2>5. CASE MkfsSync(p)
    BY <2>5, <2>p DEF MkfsSync, At, MkfsSteps, Dinodes
  <2>6. CASE MkfsSuper(p)
    <3>1. r.pc \in MkfsSteps /\ g = Written(f, Super(r.org, r.blks), r.blks)
      BY <2>6, <2>f, <2>1 DEF MkfsSuper, At, MkfsSteps
    <3>2. Super(r.org, r.blks).tarfs_free = r.org /\ Super(r.org, r.blks).tarfs_size = r.blks + 1 - r.org
      BY DEF Super
    <3>3. TarBlks <= r.org /\ TarBlks <= r.blks
      BY <2>k, <3>1
    <3> HIDE DEF r
    <3> QED
      BY <1>1, <1>3, <2>1, <3>1, <3>2, <3>3
  <2>7. CASE MkfsFails(p) \/ MkfsFull(p)
    <3>1. r.pc \in MkfsSteps /\ g = Resized(f, r.org)
      BY <2>7, <2>f, <2>1 DEF MkfsFails, MkfsFull, Rollback
    <3> QED
      BY <1>2, <2>1, <2>k, <3>1
  <2>8. CASE DetachTruncate(p)
    <3>1. r.pc = "truncate" /\ g = Resized(f, r.org)
      BY <2>8, <2>f, <2>1 DEF DetachTruncate, At
    <3> QED
      BY <1>1, <1>2, <2>1, <3>1 DEF KeepsOrg
  <2>9. CASE file' = file
    BY <1>5, <2>9
  <2> QED
    BY <1>5, <2>2, <2>3, <2>4, <2>5, <2>6, <2>7, <2>8, <2>9 DEF Step, Fault, MkfsCreate, MkfsNotCreated,
       MkfsEof, MkfsReadFails, Losetup, LosetupFails, TarfsmountRead, TarfsmountFails, Mount, Addmntent,
       DetachRead, DetachFails, Kill
<1> QED
  BY <1>4, <1>5 DEF Next, vars, MountTarfs, MkfsTarfs, DetachTarfs, Start, Umount

(* No sequence of commands, finished, failed or killed anywhere, changes or *)
(* cuts the blocks of a plain archive, unless two of them change the file   *)
(* at the same time: then one follows links the other has written over.     *)
THEOREM ArchiveSurvives == Spec => []ArchiveKept
<1>1. Init => PrefixInv
  <2> SUFFICES ASSUME Init, NEW a \in Archives, a \notin Gzipped PROVE Prefixed(file[a])
    BY DEF PrefixInv
  <2>1. file[a] = Archive /\ TarBlks \in Nat
    BY LeastIs DEF Init
  <2> QED
    BY <2>1 DEF Prefixed, Archive
<1>2. PrefixInv => ArchiveKept
  BY DEF PrefixInv, Prefixed, ArchiveKept
<1> QED
  BY <1>1, <1>2, Typed, PrefixStep, PTL DEF Spec

(* A file nobody touches, and whose writers, if there is one, do not move.  *)
LEMMA Untouched ==
    ASSUME NEW a \in Archives, SoundAt(a), file'[a] = file[a], left \subseteq left',
           Writers(a)' = Writers(a), \A q \in Writers(a) : proc'[q] = proc[q]
    PROVE  SoundAt(a)'
<1>1. \A q \in Writers(a) : proc[q].arch = a
  BY DEF Writers
<1>2. \A q \in Writers(a) : Progress(q)'
  <2> SUFFICES ASSUME NEW q \in Writers(a) PROVE Progress(q)'
    OBVIOUS
  <2>1. proc'[q] = proc[q] /\ File(q)' = File(q) /\ Progress(q)
    BY <1>1 DEF SoundAt, File
  <2> QED
    BY <2>1 DEF Progress, Begun, Completed, OrgBlk
<1>3. Still(a)' => Still(a)
  BY DEF Still
<1> QED
  BY <1>2, <1>3 DEF SoundAt

(* A step of the one that is changing a file, or begins or ends to.         *)
LEMMA Solo ==
    ASSUME NEW a \in Archives, NEW p \in Procs, Writers(a) \subseteq {p}, Whole(file'[a]),
           \A q \in Procs \ {p} : proc'[q] = proc[q],
           p \in Writers(a)' => Progress(p)',
           a \notin left' /\ (p \in Writers(a)' => proc'[p].pc = "truncate") => Settled(file'[a])
    PROVE  SoundAt(a)'
<1>1. Writers(a)' \subseteq {p}
  BY DEF Writers
<1>2. Still(a)' => Settled(file[a])'
  BY <1>1 DEF Still, Settled, WholeFs
<1>3. Whole(file[a])'
  BY DEF Whole, WholeFs, Prefixed
<1> QED
  BY <1>1, <1>2, <1>3 DEF SoundAt

(* Files that p does not work on.                                           *)
LEMMA Elsewhere ==
    ASSUME TypeInv, NEW p \in Procs, Step(p) \/ Fault(p), NEW a \in Archives, proc[p].arch # a, SoundAt(a)
    PROVE  SoundAt(a)'
<1>1. /\ proc[p] \in Busy /\ p \in DOMAIN proc
      /\ \A q \in Procs \ {p} : proc'[q] = proc[q]
      /\ file'[a] = file[a]
  BY StepOfOne
<1>2. proc'[p].pc \in WriterPCs => proc'[p].arch = proc[p].arch
  <2>1. \A pc : Goto(p, pc) => proc'[p].arch = proc[p].arch
    BY <1>1 DEF Goto, Busy
  <2>2. Exit(p) \/ MkfsEnds(p) => proc'[p].arch = proc[p].arch \/ proc'[p] = Idle
    BY <1>1 DEF Exit, MkfsEnds, Command
  <2>3. \A b, i, pc, cur : Put(p, b, i, pc, cur) => proc'[p].arch = proc[p].arch
    BY <1>1 DEF Put, Busy
  <2>4. MkfsCreate(p) \/ DetachRead(p) => proc'[p].arch = proc[p].arch
    BY <1>1 DEF MkfsCreate, DetachRead, Busy
  <2> QED
    BY <2>1, <2>2, <2>3, <2>4 DEF Step, Fault, CheckFile, Gunzip, GunzipFails, MkfsCreate, MkfsNotCreated, MkfsInit, MkfsAdd, MkfsEof, MkfsReadFails, MkfsSync, MkfsSuper, MkfsFails,
     MkfsFull, Losetup, LosetupFails, TarfsmountRead, TarfsmountFails, Mount, Addmntent, DetachRead, DetachFails, DetachTruncate, Kill, Rollback,
       Idle, WriterPCs, MkfsSteps
<1>3. Writers(a)' = Writers(a) /\ p \notin Writers(a)
  BY <1>1, <1>2 DEF Writers, WriterPCs
<1> QED
  <2>1. left \subseteq left'
    BY HistGrows DEF Next
  <2>2. \A q \in Writers(a) : proc'[q] = proc[q]
    BY <1>1, <1>3 DEF Writers
  <2> QED
    BY <1>1, <1>3, <2>1, <2>2, Untouched

(* A step of a command that is not changing the file, nor about to.         *)
Outside(p) ==
    \/ MkfsNotCreated(p) \/ Losetup(p) \/ LosetupFails(p)
    \/ TarfsmountRead(p) \/ TarfsmountFails(p) \/ Mount(p) \/ Addmntent(p)
    \/ DetachFails(p) \/ (Kill(p) /\ proc[p].pc \notin WriterPCs)

LEMMA OutsideIs ==
    ASSUME TypeInv, NEW p \in Procs, Outside(p), NEW a \in Archives, SoundAt(a)
    PROVE  SoundAt(a)'
<1>1. /\ proc[p] \in Busy /\ p \in DOMAIN proc
      /\ \A q \in Procs \ {p} : proc'[q] = proc[q]
  BY StepOfOne DEF Step, Fault, Outside
<1>2. proc[p].pc \notin WriterPCs
  BY DEF Outside, MkfsNotCreated, Losetup, LosetupFails, TarfsmountRead, TarfsmountFails,
     Mount, Addmntent, DetachFails, At, WriterPCs, MkfsSteps
<1>3. proc'[p].pc \notin WriterPCs
  <2>1. \A pc \in {"tarfsmount", "mount", "mtab"} : Goto(p, pc) => proc'[p].pc \notin WriterPCs
    BY <1>1 DEF Goto, Busy, WriterPCs, MkfsSteps
  <2>2. Exit(p) \/ MkfsEnds(p) => proc'[p].pc \notin WriterPCs
    BY <1>1 DEF Exit, MkfsEnds, Command, Idle, WriterPCs, MkfsSteps
  <2> QED
    BY <2>1, <2>2 DEF Outside, MkfsNotCreated, Losetup, LosetupFails, TarfsmountRead, TarfsmountFails,
     Mount, Addmntent, DetachFails, Kill
<1>4. UNCHANGED file
  BY DEF Outside, MkfsNotCreated, Losetup, LosetupFails, TarfsmountRead, TarfsmountFails,
     Mount, Addmntent, DetachFails, Kill
<1>5. Writers(a)' = Writers(a) /\ \A q \in Writers(a) : proc'[q] = proc[q]
  BY <1>1, <1>2, <1>3 DEF Writers, WriterPCs
<1>6. left \subseteq left'
  BY HistGrows DEF Next, Step, Fault, Outside
<1> QED
  BY <1>4, <1>5, <1>6, Untouched

LEMMA StartIs ==
    ASSUME TypeInv, NEW p \in Procs, NEW b \in Archives,
           MountTarfs(p, b) \/ MkfsTarfs(p, b) \/ DetachTarfs(p, b),
           NEW a \in Archives, SoundAt(a)
    PROVE  SoundAt(a)'
<1>1. PICK c : Start(p, c) /\ c.pc \notin WriterPCs
  <2>1. \A pc, script, d : Command(pc, script, b, d).pc = pc
    BY DEF Command
  <2>2. \E pc \in {"checkFile", "mkfs", "detach"} : \E script, d : Start(p, Command(pc, script, b, d))
    BY DEF MountTarfs, MkfsTarfs, DetachTarfs
  <2> QED
    BY <2>1, <2>2 DEF WriterPCs, MkfsSteps
<1>2. p \in DOMAIN proc
  BY DEF TypeInv, ProcType
<1>3. /\ proc'[p] = c /\ \A q \in Procs \ {p} : proc'[q] = proc[q]
      /\ proc[p].pc \notin WriterPCs /\ UNCHANGED <<file, left>>
  BY <1>1, <1>2 DEF Start, At, WriterPCs, MkfsSteps
<1>4. Writers(a)' = Writers(a) /\ \A q \in Writers(a) : proc'[q] = proc[q]
  BY <1>1, <1>3 DEF Writers, WriterPCs
<1> QED
  BY <1>3, <1>4, Untouched

LEMMA SoundStep == TypeInv /\ SoundInv /\ [Next]_vars => SoundInv'
<1> SUFFICES ASSUME TypeInv, SoundInv, [Next]_vars, NEW a \in Archives, Sound(a)'
             PROVE  SoundAt(a)'
  BY DEF SoundInv
<1>a. Sound(a) /\ SoundAt(a) /\ left \subseteq left'
  BY HistGrows DEF Sound, SoundInv
<1>u. CASE UNCHANGED vars
  BY <1>u, <1>a, Untouched DEF vars, hist, Writers
<1>d. ASSUME NEW d \in Devices, Umount(d) PROVE SoundAt(a)'
  BY <1>d, <1>a, Untouched DEF Umount, hist, Writers
<1>s. ASSUME NEW p \in Procs, NEW b \in Archives,
             MountTarfs(p, b) \/ MkfsTarfs(p, b) \/ DetachTarfs(p, b)
      PROVE  SoundAt(a)'
  BY <1>s, <1>a, StartIs
<1>p. ASSUME NEW p \in Procs, Step(p) \/ Fault(p), proc[p].arch = a PROVE SoundAt(a)'
  <2> DEFINE r == proc[p]
             f == file[a]
             g == file'[a]
             r1 == proc'[p]
  <2>t. /\ r \in Busy /\ KeepsOrg(r) /\ p \in DOMAIN proc /\ r.arch = a /\ File(p) = f
        /\ \A q \in Procs \ {p} : proc'[q] = proc[q]
        /\ Formed(f, Least(a)) /\ Formed(g, Least(a)) /\ Least(a) \in Nat
        /\ f.size \in Nat /\ g.size \in Nat
        /\ a \in DOMAIN file
        /\ TarBlks \in Nat \ {0} /\ Members \in Nat /\ TarBlks = Members + 1
    BY <1>p, StepOfOne, TypeStep, LeastIs, CycleAssumption DEF TypeInv, FileType, Kept, Formed, File, TarBlks
  <2>o. Whole(f) /\ (Still(a) => Settled(f))
    BY <1>a DEF SoundAt
  \* the one that is changing the file
  <2>w. ASSUME r.pc \in WriterPCs PROVE Writers(a) = {p} /\ Progress(p)
    BY <1>a, <2>w, <2>t DEF SoundAt, Writers, WriterPCs
  \* p begins to change the file, and no other does
  <2>e. ASSUME Enter(p) PROVE Writers(a) \subseteq {p}
    BY <2>e, <2>t DEF Enter, Sound
  \* nobody else has been in the file
  <2>l. r.arch \notin met
    BY <1>a, <2>t DEF Sound
  <2>n. ~(r.blks < r.blks)
    BY <2>t DEF Busy
  <2>g. ASSUME NEW pc, Goto(p, pc) PROVE r1 = [r EXCEPT !.pc = pc]
    BY <2>g, <2>t DEF Goto
  <2>f. ASSUME NEW h, SetFile(p, h) PROVE g = h
    BY <2>f, <2>t DEF SetFile
  <2>x. ASSUME Exit(p) \/ MkfsEnds(p) PROVE p \notin Writers(a)'
    <3>1. r1.pc \in {"idle", "losetup"}
      BY <2>x, <2>t DEF Exit, MkfsEnds, Command, Idle
    <3> QED
      BY <3>1 DEF Writers, MkfsSteps
  <2>1. CASE Outside(p)
    BY <1>a, <2>1, OutsideIs
  \* rollback and detachtarfs cut the file where something began
  <2>c. ASSUME r.org \in Nat, TarBlks <= r.org, r.org <= f.size, g = Resized(f, r.org)
        PROVE  Whole(g) /\ g.size = r.org
    <3>1. g.size = r.org
      <4>1. Least(a) \in Int /\ Formed(f, Least(a)) /\ r.org \in Nat
        BY <2>c, <2>t
      <4>2. Resized(f, r.org).size = r.org
        BY <4>1, ResizedIs
      <4> QED
        BY <2>c, <4>2
    <3>2. \A i \in 0..r.org-1 : g.blk[i] = f.blk[i]
      <4>1. \A i \in 0..r.org-1 : i < f.size
        BY <2>c, <2>t
      <4> QED
        <5>1. Least(a) \in Int /\ Formed(f, Least(a)) /\ r.org \in Nat
          BY <2>c, <2>t
        <5>2. \A i \in 0..r.org-1 : Resized(f, r.org).blk[i] = IF i < f.size THEN f.blk[i] ELSE Hole
          BY <5>1, ResizedIs
        <5> QED
          BY <2>c, <4>1, <5>2
    <3>3. \A i \in r.org..g.size-1 : FALSE
      BY <2>c, <3>1
    <3> QED
      BY <2>c, <2>t, <2>o, <3>1, <3>2, <3>3, WholeKept
  <2>r. ASSUME r.pc \in MkfsSteps, Rollback(p), left' = left PROVE SoundAt(a)'
    <3>1. g = Resized(f, r.org) /\ p \notin Writers(a)'
      BY <2>r, <2>f, <2>t, <2>x DEF Rollback
    <3>2. Writers(a) = {p} /\ Progress(p)
      BY <2>w, <2>r DEF WriterPCs
    <3>3. TarBlks <= r.org /\ (a \in left \/ r.org = TarBlks) /\ r.org \in Nat /\ r.org <= f.size
      BY <2>r, <3>2, <2>t DEF Progress, KeepsOrg, Busy
    <3>4. Whole(g) /\ g.size = r.org
      BY <2>c, <3>1, <3>3
    <3>5. a \notin left' => Settled(g)
      BY <2>r, <3>3, <3>4 DEF Settled
    <3> QED
      BY <2>t, <3>1, <3>2, <3>4, <3>5, Solo
  <2>2. CASE CheckFile(p)
    <3>1. g = NoFile /\ Writers(a) \subseteq {p} /\ r1 = [r EXCEPT !.pc = "gunzip"]
      BY <2>2, <2>e, <2>g, <2>f DEF CheckFile
    <3>2. Whole(g) /\ Settled(g) /\ g.size = 0
      BY <3>1 DEF Whole, Settled, NoFile
    <3>3. Progress(p)'
      <4>1. r1.pc = "gunzip" /\ File(p)' = g
        BY <2>t, <3>1 DEF File, Busy
      <4> QED
        BY <3>2, <4>1 DEF Progress, MkfsSteps
    <3> QED
      BY <2>t, <3>1, <3>2, <3>3, Solo
  <2>3. CASE Gunzip(p)
    <3>1. g = Unpacked(f, TarBlks) /\ r1 = [r EXCEPT !.pc = "mkfs"] /\ r.pc = "gunzip"
      BY <2>3, <2>g, <2>f, <2>t DEF Gunzip, At
    <3>2. Writers(a) = {p} /\ f.size = 0
      BY <2>w, <3>1, <2>t DEF WriterPCs, Progress
    <3>3. g.size = TarBlks /\ \A i \in 0..TarBlks-1 : g.blk[i] = TarBlock(i)
      <4>1. TarBlks \in 0..TarBlks
        BY <2>t
      <4>2. g.size = IF TarBlks < f.size THEN f.size ELSE TarBlks
        BY <2>t, <3>1, <4>1, UnpackedIs
      <4>3. \A i \in 0..TarBlks-1 : g.blk[i] = TarBlock(i)
        BY <2>t, <3>1, <4>1, UnpackedIs
      <4> QED
        BY <2>t, <3>2, <4>2, <4>3
    <3>4. Whole(g) /\ Settled(g)
      <4>1. \A i \in 0..g.size-1 : g.blk[i].kind # "super"
        <5>1. \A i : TarBlock(i).kind # "super"
          BY DEF TarBlock, Member, End
        <5> QED
          BY <2>t, <3>3, <5>1
      <4> QED
        BY <2>t, <3>3, <4>1 DEF Whole, Settled, Prefixed
    <3>5. p \notin Writers(a)'
      BY <2>t, <3>1 DEF Writers, Busy, MkfsSteps
    <3> QED
      BY <2>t, <3>2, <3>4, <3>5, Solo
  <2>4. CASE GunzipFails(p)
    BY <2>4, <2>t DEF GunzipFails, Faulty, Sound
  <2>5. CASE MkfsReadFails(p)
    BY <2>5, <2>t DEF MkfsReadFails, Faulty, Sound
  <2>6. CASE MkfsCreate(p)
    <3>1. /\ r.pc = "mkfs" /\ f.size > 0 /\ ~Completed(f) /\ g = f /\ Writers(a) \subseteq {p}
          /\ left' = left
      BY <2>6, <2>e, <2>t DEF MkfsCreate, At, Enter
    <3>2. r1 = [r EXCEPT !.pc = "init", !.cur = 0, !.org = f.size, !.blks = f.size]
      BY <2>6, <2>t DEF MkfsCreate
    <3>3. /\ r1.pc = "init" /\ r1.cur = 0 /\ r1.org = f.size /\ r1.blks = f.size /\ r1.arch = a
          /\ File(p)' = f
      BY <2>t, <3>1, <3>2 DEF Busy, File
    <3>4. TarBlks <= f.size
      BY <2>o, <3>1, <2>t DEF Whole, Prefixed
    <3>5. a \in left \/ f.size = TarBlks
      <4>1. p \notin Writers(a)
        BY <3>1 DEF Writers, MkfsSteps
      <4>2. a \notin left => Settled(f)
        BY <3>1, <4>1, <2>o DEF Still
      <4>3. ~WholeFs(f, f.size, TarBlks)
        BY <3>1, <2>t DEF WholeFs, Completed, Super
      <4> QED
        BY <3>1, <4>2, <4>3, <2>t DEF Settled
    <3>6. Progress(p)'
      BY <3>1, <3>3, <3>4, <3>5 DEF Progress, MkfsSteps
    <3>7. p \in Writers(a)' /\ r1.pc # "truncate"
      BY <3>3 DEF Writers, MkfsSteps
    <3> QED
      BY <2>t, <2>o, <3>1, <3>6, <3>7, Solo
  <2>7. CASE MkfsInit(p)
    <3> DEFINE b == Dinodes(r.org, 0)
    <3>0. r.pc = "init" /\ Put(p, b, r.blks, "get", 0)
      BY <2>7, <2>l, PutAlone DEF MkfsInit, At, Place
    <3>1. r.pc = "init" /\ g = Written(f, b, r.blks) /\ left' = left
      BY <2>f, <2>t, <3>0 DEF Put
    <3>2. /\ r1.pc = "get" /\ r1.cur = 0 /\ r1.org = r.org /\ r1.blks = r.blks + 1 /\ r1.arch = a
          /\ File(p)' = g
      BY <2>t, <2>n, <3>0 DEF Put, Busy, File
    <3>3. Writers(a) = {p} /\ Progress(p)
      BY <2>w, <3>1 DEF WriterPCs, MkfsSteps
    <3>4. /\ r.blks = f.size /\ TarBlks <= r.org /\ (a \in left \/ r.org = TarBlks)
          /\ r.org \in Int /\ r.cur \in Int /\ r.org <= f.size
      BY <3>1, <3>3, <2>t DEF Progress, MkfsSteps, KeepsOrg, Busy
    <3>5. r.org = f.size
      BY <3>1, <3>3, <2>t DEF Progress
    <3>6. /\ Whole(g) /\ g.size = f.size + 1 /\ g.blk[f.size] = b
          /\ \A i \in 0..f.size-1 : g.blk[i] = f.blk[i]
      <4>1. b.kind # "super" /\ f.size > 0
        BY <2>t, <3>4, <3>5 DEF Dinodes
      <4> QED
        BY <2>t, <2>o, <3>1, <3>4, <4>1, Appended
    <3>7. Begun(g, r.org, 0, 0)
      BY <2>t, <3>5, <3>6 DEF Begun
    <3>8. Progress(p)'
      BY <2>t, <3>1, <3>2, <3>4, <3>6, <3>7 DEF Progress, MkfsSteps
    <3>9. p \in Writers(a)' /\ r1.pc # "truncate"
      BY <3>2 DEF Writers, MkfsSteps
    <3> QED
      BY <2>t, <3>3, <3>6, <3>8, <3>9, Solo
  <2>8. CASE MkfsAdd(p)
    <3> DEFINE b == Node(r.org, Read(p).n)
    <3>0. r.pc = "get" /\ Read(p).kind = "member" /\ Put(p, b, r.blks, "get", r.cur + 1)
      BY <2>8, <2>l, PutAlone DEF MkfsAdd, At, Place
    <3>1. r.pc = "get" /\ g = Written(f, b, r.blks) /\ left' = left /\ Read(p).kind = "member"
      BY <2>f, <2>t, <3>0 DEF Put
    <3>2. /\ r1.pc = "get" /\ r1.cur = r.cur + 1 /\ r1.org = r.org /\ r1.blks = r.blks + 1 /\ r1.arch = a
          /\ File(p)' = g
      BY <2>t, <2>n, <3>0 DEF Put, Busy, File
    <3>3. Writers(a) = {p} /\ Progress(p)
      BY <2>w, <3>1 DEF WriterPCs, MkfsSteps
    <3>4. /\ r.blks = f.size /\ TarBlks <= r.org /\ (a \in left \/ r.org = TarBlks)
          /\ r.org \in Int /\ r.cur \in Int /\ r.org <= f.size
      BY <3>1, <3>3, <2>t DEF Progress, MkfsSteps, KeepsOrg, Busy
    <3>5. r.cur \in 0..Members /\ Begun(f, r.org, r.cur, 0)
      BY <3>1, <3>3, <2>t DEF Progress
    <3>6. r.cur + 1 \in 0..Members /\ Read(p).n = r.cur + 1
      <4>1. f.size > 0 /\ r.cur < f.size /\ r.cur \in 0..TarBlks-1
        BY <2>t, <3>4, <3>5 DEF Begun
      <4>2. Read(p) = TarBlock(r.cur)
        BY <2>t, <2>o, <4>1 DEF Read, Whole, Prefixed
      <4> QED
        BY <2>t, <3>1, <3>5, <4>2 DEF TarBlock, Member, End
    <3>7. /\ Whole(g) /\ g.size = f.size + 1 /\ g.blk[f.size] = b
          /\ \A i \in 0..f.size-1 : g.blk[i] = f.blk[i]
      <4>1. b.kind # "super" /\ f.size > 0
        BY <2>t, <3>4 DEF Node
      <4> QED
        BY <2>t, <2>o, <3>1, <3>4, <4>1, Appended
    <3>8. Begun(g, r.org, r.cur + 1, 0)
      <4>1. f.size = r.org + 1 + r.cur
        BY <3>5 DEF Begun
      <4>2. g.size = r.org + 1 + (r.cur + 1) /\ f.size = r.org + (r.cur + 1)
        BY <4>1, <3>4, <3>7
      <4>3. g.blk[r.org] = Dinodes(r.org, 0)
        BY <4>1, <2>t, <3>4, <3>5, <3>7 DEF Begun
      <4>4. ASSUME NEW i \in 1..r.cur+1 PROVE g.blk[r.org + i] = Node(r.org, i)
        <5>1. CASE i = r.cur + 1
          BY <4>2, <5>1, <3>6, <3>7
        <5>2. CASE i # r.cur + 1
          <6>1. i \in 1..r.cur /\ r.org + i \in 0..f.size-1
            BY <4>1, <5>2, <2>t, <3>4, <3>5
          <6> QED
            BY <6>1, <3>5, <3>7 DEF Begun
        <5> QED
          BY <5>1, <5>2
      <4> QED
        BY <4>2, <4>3, <4>4 DEF Begun
    <3>9. Progress(p)'
      BY <2>t, <3>1, <3>2, <3>4, <3>6, <3>7, <3>8 DEF Progress, MkfsSteps
    <3>10. p \in Writers(a)' /\ r1.pc # "truncate"
      BY <3>2 DEF Writers, MkfsSteps
    <3> QED
      BY <2>t, <3>3, <3>7, <3>9, <3>10, Solo
  <2>9. CASE MkfsEof(p)
    <3>1. r.pc = "get" /\ g = f /\ left' = left /\ Read(p).kind # "member"
      BY <2>9, <2>t DEF MkfsEof, At, hist
    <3>2. /\ r1.pc = "syncFree" /\ r1.cur = r.cur /\ r1.org = r.org /\ r1.blks = r.blks /\ r1.arch = a
          /\ File(p)' = f
      BY <2>9, <2>t, <3>1 DEF MkfsEof, Goto, Busy, File
    <3>3. Writers(a) = {p} /\ Progress(p)
      BY <2>w, <3>1 DEF WriterPCs, MkfsSteps
    <3>4. /\ r.blks = f.size /\ TarBlks <= r.org /\ (a \in left \/ r.org = TarBlks)
          /\ r.org \in Int /\ r.cur \in Int /\ r.org <= f.size
      BY <3>1, <3>3, <2>t DEF Progress, MkfsSteps, KeepsOrg, Busy
    <3>5. r.cur \in 0..Members /\ Begun(f, r.org, r.cur, 0)
      BY <3>1, <3>3, <2>t DEF Progress
    <3>6. r.cur = Members
      <4>1. f.size > 0 /\ r.cur < f.size /\ r.cur \in 0..TarBlks-1
        BY <2>t, <3>4, <3>5 DEF Begun
      <4>2. Read(p) = TarBlock(r.cur)
        BY <2>t, <2>o, <4>1 DEF Read, Whole, Prefixed
      <4> QED
        BY <2>t, <3>1, <3>5, <4>2 DEF TarBlock, Member, End
    <3>7. Progress(p)'
      BY <3>1, <3>2, <3>4, <3>5, <3>6 DEF Progress, MkfsSteps
    <3>8. p \in Writers(a)' /\ r1.pc # "truncate"
      BY <3>2 DEF Writers, MkfsSteps
    <3> QED
      BY <2>t, <2>o, <3>1, <3>3, <3>7, <3>8, Solo
  <2>10. CASE MkfsSync(p)
    <3> DEFINE b == Dinodes(r.org, r.blks - r.org + 1)
    <3>0. r.pc = "syncFree" /\ Put(p, b, r.org, "super", r.cur)
      BY <2>10, <2>l, PutAlone DEF MkfsSync, At, Place
    <3>1. r.pc = "syncFree" /\ g = Written(f, b, r.org) /\ left' = left
      BY <2>f, <2>t, <3>0 DEF Put
    <3>3. Writers(a) = {p} /\ Progress(p)
      BY <2>w, <3>1 DEF WriterPCs, MkfsSteps
    <3>4. /\ r.blks = f.size /\ TarBlks <= r.org /\ (a \in left \/ r.org = TarBlks)
          /\ r.org \in Int /\ r.cur \in Int /\ r.org <= f.size
      BY <3>1, <3>3, <2>t DEF Progress, MkfsSteps, KeepsOrg, Busy
    <3>5. Begun(f, r.org, Members, 0)
      BY <3>1, <3>3, <2>t DEF Progress
    <3>6. f.size = r.org + 1 + Members /\ r.org \in Nat /\ r.org < f.size /\ b = Dinodes(r.org, Members + 2)
      BY <2>t, <3>4, <3>5 DEF Begun
    <3>2. /\ r1.pc = "super" /\ r1.cur = r.cur /\ r1.org = r.org /\ r1.blks = r.blks /\ r1.arch = a
          /\ File(p)' = g
      <4>1. r.org < r.blks
        BY <3>4, <3>6
      <4> QED
        BY <2>t, <3>0, <4>1 DEF Put, Busy, File
    <3>7. g.size = f.size /\ g.blk[r.org] = b /\ \A i \in 0..f.size-1 : i # r.org => g.blk[i] = f.blk[i]
      <4>1. b.kind # "super" /\ Least(a) \in Int
        BY <2>t DEF Dinodes
      <4>2. Formed(f, Least(a)) /\ r.org \in Nat /\ g = Written(f, b, r.org)
        BY <2>t, <3>1, <3>6
      <4> HIDE DEF b
      <4>3. g.size = IF r.org < f.size THEN f.size ELSE r.org + 1
        <5>1. f.size \in Nat /\ r.org < f.size
          BY <2>t, <3>6
        <5>2. Written(f, b, r.org).size = f.size
          BY <4>1, <4>2, <5>1, WrittenIs
        <5> QED
          BY <4>2, <5>1, <5>2
      <4>5. g.blk[r.org] = b
        <5>1. Written(f, b, r.org).blk[r.org] = b
          BY <4>1, <4>2, WrittenIs
        <5> QED
          BY <4>2, <5>1
      <4>4. \A i \in 0..f.size-1 : i # r.org => g.blk[i] = f.blk[i]
        BY <2>t, <3>1, <3>6, <4>1, WrittenKeeps
      <4> QED
        BY <3>6, <4>3, <4>4, <4>5
    <3>8. Begun(g, r.org, Members, Members + 2)
      <4>1. \A i \in 1..Members : r.org + i \in 0..f.size-1 /\ r.org + i # r.org
        BY <2>t, <3>6
      <4> QED
        BY <3>5, <3>6, <3>7, <4>1 DEF Begun
    <3>9. Whole(g)
      <4>1. \A i \in r.org..g.size-1 : g.blk[i].kind # "super"
        <5> SUFFICES ASSUME NEW i \in r.org..g.size-1 PROVE g.blk[i].kind # "super"
          OBVIOUS
        <5>1. i = r.org \/ (i - r.org \in 1..Members /\ r.org + (i - r.org) = i)
          BY <2>t, <3>6, <3>7
        <5> QED
          <6>1. g.blk[r.org].kind # "super"
            BY <3>8 DEF Begun, Dinodes
          <6>2. \A k \in 1..Members : g.blk[r.org + k].kind # "super"
            <7>1. \A k : Node(r.org, k).kind # "super"
              BY DEF Node
            <7> QED
              BY <3>8, <7>1 DEF Begun
          <6> QED
            BY <5>1, <6>1, <6>2
      <4>2. \A i \in 0..r.org-1 : g.blk[i] = f.blk[i]
        BY <2>t, <3>6, <3>7
      <4> QED
        BY <2>t, <2>o, <3>4, <3>6, <3>7, <4>1, <4>2, WholeKept
    <3>10. Progress(p)'
      BY <3>1, <3>2, <3>4, <3>7, <3>8 DEF Progress, MkfsSteps
    <3>11. p \in Writers(a)' /\ r1.pc # "truncate"
      BY <3>2 DEF Writers, MkfsSteps
    <3> QED
      BY <2>t, <3>3, <3>9, <3>10, <3>11, Solo
  <2>11. CASE MkfsSuper(p)
    <3> DEFINE b == Super(r.org, r.blks)
    <3>1. r.pc = "super" /\ g = Written(f, b, r.blks) /\ left' = left /\ p \notin Writers(a)'
      BY <2>11, <2>f, <2>t, <2>x DEF MkfsSuper, At, hist
    <3>3. Writers(a) = {p} /\ Progress(p)
      BY <2>w, <3>1 DEF WriterPCs, MkfsSteps
    <3>4. /\ r.blks = f.size /\ TarBlks <= r.org /\ (a \in left \/ r.org = TarBlks)
          /\ r.org \in Int /\ r.cur \in Int /\ r.org <= f.size
      BY <3>1, <3>3, <2>t DEF Progress, MkfsSteps, KeepsOrg, Busy
    <3>5. Begun(f, r.org, Members, Members + 2)
      BY <3>1, <3>3, <2>t DEF Progress
    <3>6. f.size = r.org + 1 + Members /\ r.org \in Nat /\ r.org < f.size
      BY <2>t, <3>4, <3>5 DEF Begun
    <3>7. g.size = f.size + 1 /\ g.blk[f.size] = b /\ \A i \in 0..f.size-1 : g.blk[i] = f.blk[i]
      <4>0. /\ b.tarfs_free \in Int /\ b.tarfs_free >= Least(a)
            /\ b.tarfs_size = f.size + 1 - b.tarfs_free
        BY <2>t, <3>1, <3>4 DEF Super, KeepsOrg, MkfsSteps
      <4>1. Least(a) \in Int /\ f.size \in Nat /\ g = Written(f, b, f.size)
        BY <2>t, <3>1, <3>4
      <4> HIDE DEF b
      <4>2. g.size = IF f.size < f.size THEN f.size ELSE f.size + 1
        BY <2>t, <4>0, <4>1, WrittenIs
      <4>3. g.blk[f.size] = b
        BY <2>t, <4>0, <4>1, WrittenIs
      <4>4. \A i \in 0..f.size-1 : i # f.size => g.blk[i] = f.blk[i]
        BY <2>t, <4>0, <4>1, WrittenKeeps
      <4> QED
        BY <2>t, <4>2, <4>3, <4>4
    <3>8. WholeFs(g, f.size + 1, r.org)
      <4>1. r.org \in 0..f.size-1 /\ \A k \in 1..Members : r.org + k \in 0..f.size-1
        BY <2>t, <3>6
      <4> QED
        BY <2>t, <3>4, <3>5, <3>6, <3>7, <4>1 DEF WholeFs, Begun
    <3>9. Whole(g)
      <4>1. \A i \in f.size..g.size-1 : i = f.size
        BY <2>t, <3>7
      <4>2. b.tarfs_free = r.org
        BY DEF Super
      <4>3. \A i \in f.size..g.size-1 : TarBlks <= g.blk[i].tarfs_free /\ WholeFs(g, i + 1, g.blk[i].tarfs_free)
        BY <3>4, <3>7, <3>8, <4>1, <4>2
      <4>4. TarBlks <= f.size /\ f.size <= g.size
        BY <2>t, <3>4, <3>6, <3>7
      <4> QED
        BY <2>t, <2>o, <3>7, <4>3, <4>4, WholeKept
    <3>10. a \notin left' => Settled(g)
      BY <2>t, <3>1, <3>4, <3>7, <3>8 DEF Settled
    <3> QED
      BY <2>t, <3>1, <3>3, <3>9, <3>10, Solo
  <2>12. CASE MkfsFails(p)
    <3>1. r.pc \in MkfsSteps /\ Rollback(p) /\ left' = left
      BY <2>12 DEF MkfsFails, Faulty
    <3> QED
      BY <3>1, <2>r
  <2>13. CASE MkfsFull(p)
    <3>1. r.pc \in MkfsSteps /\ Rollback(p) /\ left' = left
      BY <2>13 DEF MkfsFull, hist
    <3> QED
      BY <3>1, <2>r
  <2>14. CASE DetachRead(p)
    <3>1. r.pc = "detach" /\ Completed(f) /\ g = f /\ Writers(a) \subseteq {p} /\ left' = left
      BY <2>14, <2>e, <2>t DEF DetachRead, At, Enter
    <3>2. r1.pc = "truncate" /\ r1.org = OrgBlk(f) /\ r1.arch = a /\ File(p)' = f
      BY <2>14, <2>t, <3>1 DEF DetachRead, Busy, File
    <3>3. Progress(p)'
      BY <3>1, <3>2 DEF Progress, MkfsSteps
    <3>4. p \notin Writers(a)
      BY <3>1 DEF Writers, MkfsSteps
    <3>5. a \notin left' => Settled(g)
      BY <2>o, <3>1, <3>4 DEF Still
    <3> QED
      BY <2>t, <2>o, <3>1, <3>3, <3>5, Solo
  <2>15. CASE DetachTruncate(p)
    <3>1. r.pc = "truncate" /\ g = Resized(f, r.org) /\ left' = left /\ p \notin Writers(a)'
      BY <2>15, <2>f, <2>t, <2>x DEF DetachTruncate, At, hist
    <3>2. Writers(a) = {p} /\ Completed(f) /\ r.org = OrgBlk(f)
      BY <2>w, <3>1, <2>t DEF WriterPCs, Progress
    <3>3. r.org \in Nat /\ TarBlks <= r.org /\ r.org < f.size /\ (Settled(f) => r.org = TarBlks)
      BY <2>t, <2>o, <3>2, CompletedIs
    <3>4. Whole(g) /\ g.size = r.org
      <4>1. r.org <= f.size
        BY <2>t, <3>3
      <4> QED
        BY <2>c, <3>1, <3>3, <4>1
    <3>5. a \notin left' => Settled(g)
      BY <2>o, <2>t, <3>1, <3>2, <3>3, <3>4 DEF Still, Settled
    <3> QED
      BY <2>t, <3>1, <3>2, <3>4, <3>5, Solo
  <2>16. CASE Kill(p)
    <3>1. CASE r.pc \notin WriterPCs
      BY <2>16, <3>1, <2>1 DEF Outside
    <3>2. CASE r.pc \in WriterPCs
      <4>1. Writers(a) = {p} /\ g = f /\ p \notin Writers(a)'
        BY <2>16, <3>2, <2>w, <2>x DEF Kill
      <4>2. r.pc \in MkfsSteps => a \in left'
        BY <2>16, <2>t DEF Kill, Faulty
      <4>3. r.pc # "gunzip"
        BY <2>16, <2>t DEF Kill, Faulty, Sound
      <4>4. r.pc = "truncate" /\ a \notin left' => Settled(g)
        BY <1>a, <2>o, <4>1 DEF Still
      <4>5. a \notin left' => Settled(g)
        BY <3>2, <4>2, <4>3, <4>4 DEF WriterPCs
      <4> QED
        BY <2>t, <2>o, <4>1, <4>5, Solo
    <3> QED
      BY <3>1, <3>2
  <2> QED
    BY <1>p, <2>1, <2>2, <2>3, <2>4, <2>5, <2>6, <2>7, <2>8, <2>9, <2>10, <2>11, <2>12, <2>13, <2>14, <2>15, <2>16 DEF Step, Fault, Outside
<1> QED
  BY <1>u, <1>d, <1>s, <1>p, <1>a, Elsewhere DEF Next

THEOREM Sounded == Spec => []SoundInv
<1>1. Init => SoundInv
  <2> SUFFICES ASSUME Init, NEW a \in Archives PROVE SoundAt(a)
    BY DEF SoundInv
  <2>1. Writers(a) = {}
    BY DEF Init, Writers, Idle, MkfsSteps
  <2>2. file[a].size \in {0, TarBlks} /\ (file[a].size > 0 => Prefixed(file[a]))
    BY TypeInit, LeastIs DEF Init, NoFile, Archive, Prefixed
  <2>3. \A i \in 0..file[a].size-1 : file[a].blk[i].kind # "super"
    <3>1. \A i : TarBlock(i).kind # "super"
      BY DEF TarBlock, Member, End
    <3> QED
      BY <2>2, <3>1, LeastIs DEF Prefixed
  <2> QED
    BY <2>1, <2>2, <2>3 DEF SoundAt, Whole, Settled
<1> QED
  BY <1>1, Typed, SoundStep, PTL DEF Spec

(* A file that ends with a superblock holds the whole file system, wherever *)
(* commands have failed or were killed before, if no two were at it at once *)
(* and the archive could be read.                                           *)
THEOREM CompletedSound == Spec => []CompletedIsWhole
<1>1. TypeInv /\ SoundInv => CompletedIsWhole
  <2> SUFFICES ASSUME TypeInv, SoundInv, NEW a \in Archives, Sound(a), SuperAt(file[a], file[a].size)
               PROVE  WholeFs(file[a], file[a].size, file[a].blk[file[a].size - 1].tarfs_free)
    BY DEF CompletedIsWhole, Sound
  <2>1. /\ file[a].size \in Nat /\ file[a].size - 1 \in 0..file[a].size-1
        /\ (file[a].size - 1) + 1 = file[a].size
    BY DEF TypeInv, FileType, Kept, Formed, SuperAt
  <2> QED
    BY <2>1 DEF SoundInv, SoundAt, Whole, SuperAt
<1> QED
  BY <1>1, Typed, Sounded, PTL

(* Failures undo themselves, a second mkfs adds nothing, detach takes off   *)
(* all that mkfs put there: at rest there is the archive, and one file      *)
(* system behind it at most.                                                *)
THEOREM Rested == Spec => []AtRest
<1>1. TypeInv /\ SoundInv => AtRest
  <2> SUFFICES ASSUME TypeInv, SoundInv, NEW a \in Archives, Sound(a), a \notin left,
                      Writers(a) = {}, file[a].size > 0
               PROVE  file[a] = Archive \/ WholeFs(file[a], file[a].size, TarBlks)
    BY DEF AtRest, Sound
  <2>1. Settled(file[a]) /\ Prefixed(file[a]) /\ Formed(file[a], Least(a))
    BY DEF TypeInv, FileType, Kept, SoundInv, SoundAt, Still, Whole
  <2>2. ASSUME file[a].size = TarBlks PROVE file[a] = Archive
    <3>1. file[a].blk = [i \in 0..TarBlks-1 |-> TarBlock(i)]
      BY <2>1, <2>2 DEF Formed, Prefixed
    <3> QED
      BY <2>1, <2>2, <3>1 DEF Formed, Archive
  <2>3. file[a].size # 0
    BY <2>1 DEF Formed
  <2> QED
    BY <2>1, <2>2, <2>3 DEF Settled
<1> QED
  BY <1>1, Typed, Sounded, PTL
-----------------------------------------------------------------------------
(* All that mkfs has written so far is not a superblock.                    *)
LEMMA NoneYet ==
    ASSUME NEW p, proc[p].pc \in MkfsSteps, Progress(p), proc[p].org \in Int, File(p).size \in Nat
    PROVE  \A i \in proc[p].org..File(p).size-1 : File(p).blk[i].kind # "super"
<1> DEFINE f == File(p)
           o == proc[p].org
<1>1. CASE proc[p].pc = "init"
  BY <1>1 DEF Progress
<1>2. CASE proc[p].pc # "init"
  <2>1. PICK k \in Nat : \E n : Begun(f, o, k, n)
    BY <1>2, CycleAssumption DEF Progress, MkfsSteps
  <2>2. PICK n : Begun(f, o, k, n)
    BY <2>1
  <2> SUFFICES ASSUME NEW i \in o..f.size-1 PROVE f.blk[i].kind # "super"
    OBVIOUS
  <2>3. i = o \/ (i - o \in 1..k /\ o + (i - o) = i)
    BY <2>2 DEF Begun
  <2>4. f.blk[o].kind # "super"
    BY <2>2 DEF Begun, Dinodes
  <2>5. \A j \in 1..k : f.blk[o + j].kind # "super"
    <3>1. \A j : Node(o, j).kind # "super"
      BY DEF Node
    <3> QED
      BY <2>2, <3>1 DEF Begun
  <2> QED
    BY <2>3, <2>4, <2>5
<1> QED
  BY <1>1, <1>2

(* A superblock stays where it is through every step that does not cut the  *)
(* devices on the file.                                                     *)
LEMMA SuperKept ==
    ASSUME TypeInv, SoundInv, NEW p \in Procs, Quiet(p), NEW a \in Archives, Sound(a)',
           NEW n, SuperAt(file[a], n)
    PROVE  SuperAt(file'[a], n)
<1> DEFINE r == proc[p]
           f == file[a]
           g == file'[a]
<1>a. Sound(a) /\ SoundAt(a) /\ (Step(p) \/ Fault(p))
  BY HistGrows DEF Sound, SoundInv, Next, Step, Fault, Quiet
<1>1. CASE r.arch # a
  BY <1>1, <1>a, StepOfOne
<1>2. CASE file' = file
  BY <1>2
<1>3. ASSUME r.arch = a, file' # file PROVE SuperAt(g, n)
  <2>t. /\ r \in Busy /\ KeepsOrg(r) /\ p \in DOMAIN proc /\ File(p) = f /\ a \in DOMAIN file
        /\ Formed(f, Least(a)) /\ Least(a) \in Nat /\ Least(a) \in Int /\ f.size \in Nat
        /\ n \in 1..f.size /\ n - 1 \in 0..f.size-1 /\ f.blk[n-1].kind = "super"
    BY <1>3, <1>a, StepOfOne, LeastIs DEF TypeInv, FileType, Kept, Formed, File, SuperAt
  <2>w. r.pc \in WriterPCs => Writers(a) = {p} /\ Progress(p)
    BY <1>3, <1>a, <2>t DEF SoundAt, Writers, WriterPCs
  <2>f. ASSUME NEW h, SetFile(p, h) PROVE g = h
    BY <1>3, <2>f, <2>t DEF SetFile
  <2>l. r.arch \notin met
    BY <1>3, <1>a DEF Sound
  \* the blocks that are not cut off or written over
  <2>k. ASSUME r.pc \in MkfsSteps
        PROVE  /\ Progress(p) /\ r.blks = f.size /\ r.org \in Nat /\ r.org <= f.size
               /\ n - 1 < r.org
    <3>1. /\ Progress(p) /\ r.blks = f.size /\ r.org \in Int /\ r.org <= f.size /\ TarBlks <= r.org
      BY <1>3, <2>k, <2>w, <2>t DEF Progress, KeepsOrg, Busy, WriterPCs
    <3>2. r.org \in Nat
      BY <3>1, LeastIs
    <3>3. n - 1 \notin r.org..f.size-1
      BY <2>k, <2>t, <3>1, NoneYet
    <3> QED
      BY <2>t, <3>1, <3>2, <3>3
  <2>a. ASSUME NEW b, NEW i \in {r.org, f.size}, r.pc \in MkfsSteps, g = Written(f, b, i),
               b.kind = "super" => /\ b.tarfs_free \in Int /\ b.tarfs_free >= Least(a)
                                   /\ b.tarfs_size = i + 1 - b.tarfs_free
        PROVE  SuperAt(g, n)
    <3>1. i \in Nat /\ n - 1 # i
      BY <2>a, <2>k, <2>t
    <3>2. Written(f, b, i).blk[n-1] = f.blk[n-1]
      BY <2>a, <2>t, <3>1, WrittenKeeps
    <3>3. Written(f, b, i).size = IF i < f.size THEN f.size ELSE i + 1
      BY <2>a, <2>t, <3>1, WrittenIs
    <3>4. n \in 1..g.size
      BY <2>a, <2>t, <3>1, <3>3
    <3> QED
      BY <2>a, <2>t, <3>2, <3>4 DEF SuperAt
  <2>r. ASSUME r.pc \in MkfsSteps, Rollback(p) PROVE SuperAt(g, n)
    <3>1. g = Resized(f, r.org)
      BY <2>r, <2>f, <2>t DEF Rollback
    <3>2. r.org \in Nat /\ n - 1 \in 0..r.org-1 /\ n \in 1..r.org
      BY <2>r, <2>k, <2>t
    <3>3. Resized(f, r.org).size = r.org
      BY <2>t, <3>2, ResizedIs
    <3>4. Resized(f, r.org).blk[n-1] = IF n - 1 < f.size THEN f.blk[n-1] ELSE Hole
      BY <2>t, <3>2, ResizedIs
    <3> QED
      BY <2>t, <3>1, <3>2, <3>3, <3>4 DEF SuperAt
  <2>1. CASE Gunzip(p)
    BY <2>1, <2>w, <2>t DEF Gunzip, At, WriterPCs, Progress
  <2>2. CASE GunzipFails(p) \/ MkfsReadFails(p)
    BY <1>3, <2>2 DEF GunzipFails, MkfsReadFails, Faulty, Sound
  <2>3. CASE MkfsInit(p)
    <3>0. Put(p, Dinodes(r.org, 0), r.blks, "get", 0)
      BY <2>3, <2>l, PutAlone DEF MkfsInit, At, Place
    <3>1. r.pc \in MkfsSteps /\ g = Written(f, Dinodes(r.org, 0), r.blks)
      BY <2>3, <2>f, <2>t, <3>0 DEF MkfsInit, At, Put, MkfsSteps
    <3>2. r.blks = f.size
      BY <3>1, <2>k
    <3>3. Dinodes(r.org, 0).kind # "super"
      BY DEF Dinodes
    <3> QED
      BY <2>a, <3>1, <3>2, <3>3
  <2>4. CASE MkfsAdd(p)
    <3>0. Put(p, Node(r.org, Read(p).n), r.blks, "get", r.cur + 1)
      BY <2>4, <2>l, PutAlone DEF MkfsAdd, At, Place
    <3>1. r.pc \in MkfsSteps /\ g = Written(f, Node(r.org, Read(p).n), r.blks)
      BY <2>4, <2>f, <2>t, <3>0 DEF MkfsAdd, At, Put, MkfsSteps
    <3>2. r.blks = f.size
      BY <3>1, <2>k
    <3>3. Node(r.org, Read(p).n).kind # "super"
      BY DEF Node
    <3> QED
      BY <2>a, <3>1, <3>2, <3>3
  <2>5. CASE MkfsSync(p)
    <3>0. Put(p, Dinodes(r.org, r.blks - r.org + 1), r.org, "super", r.cur)
      BY <2>5, <2>l, PutAlone DEF MkfsSync, At, Place
    <3>1. r.pc \in MkfsSteps /\ g = Written(f, Dinodes(r.org, r.blks - r.org + 1), r.org)
      BY <2>5, <2>f, <2>t, <3>0 DEF MkfsSync, At, Put, MkfsSteps
    <3>2. Dinodes(r.org, r.blks - r.org + 1).kind # "super"
      BY DEF Dinodes
    <3> QED
      BY <2>a, <3>1, <3>2
  <2>6. CASE MkfsSuper(p)
    <3>1. r.pc \in MkfsSteps /\ g = Written(f, Super(r.org, r.blks), r.blks)
      BY <2>6, <2>f, <2>t DEF MkfsSuper, At, MkfsSteps
    <3>2. r.blks = f.size
      BY <3>1, <2>k
    <3>3. /\ Super(r.org, r.blks).tarfs_free = r.org
          /\ Super(r.org, r.blks).tarfs_size = r.blks + 1 - r.org
      BY DEF Super
    <3>4. r.org \in Int /\ r.org >= Least(a)
      BY <1>3, <2>t, <3>1 DEF KeepsOrg, Busy
    <3> HIDE DEF r
    <3> QED
      BY <2>a, <3>1, <3>2, <3>3, <3>4
  <2>7. CASE MkfsFails(p) \/ MkfsFull(p)
    BY <2>7, <2>r DEF MkfsFails, MkfsFull
  <2> QED
    BY <1>3, <2>1, <2>2, <2>3, <2>4, <2>5, <2>6, <2>7 DEF Quiet, MkfsCreate, MkfsNotCreated,
       MkfsEof, LosetupFails, TarfsmountFails, DetachRead, DetachFails, Kill
<1> QED
  BY <1>1, <1>2, <1>3

LEMMA MountedStep == TypeInv /\ HolderInv /\ SoundInv /\ MountedInv /\ [Next]_vars => MountedInv'
<1> SUFFICES ASSUME TypeInv, HolderInv, SoundInv, MountedInv, [Next]_vars,
                    NEW d \in DOMAIN dev', NEW a, a = dev'[d].arch, NEW n, n = dev'[d].size,
                    Sound(a)', ~dev'[d].cut, Shown(d)'
             PROVE  SuperAt(file'[a], n)
  BY DEF MountedInv, Sound, SuperAt
\* a device that was there and shown before
<1>b. ASSUME d \in DOMAIN dev, dev[d].arch = a, dev[d].size = n, dev'[d].cut = dev[d].cut,
             Shown(d)' => Shown(d)
      PROVE  a \in Archives /\ SuperAt(file[a], n)
  <2>1. a \in Archives
    BY <1>b DEF TypeInv, DevType, Attached
  <2>2. Sound(a)
    BY HistGrows DEF Sound
  <2> QED
    BY <1>b, <2>1, <2>2 DEF MountedInv
<1>u. CASE UNCHANGED vars
  BY <1>u, <1>b DEF vars, hist, Shown, At
<1>d. ASSUME NEW e \in Devices, Umount(e) PROVE SuperAt(file'[a], n)
  <2>1. /\ d \in DOMAIN dev /\ dev[d].arch = a /\ dev[d].size = n /\ dev'[d].cut = dev[d].cut
        /\ dev'[d].mounted => dev[d].mounted
    <3>1. CASE dev[e].mtab
      BY <1>d, <3>1 DEF Umount
    <3>2. CASE ~dev[e].mtab
      <4>1. dev' = [dev EXCEPT ![e].mounted = FALSE] /\ e \in DOMAIN dev /\ dev[e] \in Attached
        BY <1>d, <3>2 DEF Umount, TypeInv, DevType
      <4> QED
        BY <4>1 DEF Attached
    <3> QED
      BY <3>1, <3>2
  <2>2. UNCHANGED <<file, proc>>
    BY <1>d DEF Umount
  <2> QED
    BY <1>b, <2>1, <2>2 DEF Shown, At
<1>s. ASSUME NEW p \in Procs, NEW b \in Archives,
             MountTarfs(p, b) \/ MkfsTarfs(p, b) \/ DetachTarfs(p, b)
      PROVE  SuperAt(file'[a], n)
  <2>1. PICK c : Start(p, c) /\ c.pc # "mount"
    <3>1. \A pc, script, e : Command(pc, script, b, e).pc = pc
      BY DEF Command
    <3>2. \E pc \in {"checkFile", "mkfs", "detach"} : \E script, e : Start(p, Command(pc, script, b, e))
      BY <1>s DEF MountTarfs, MkfsTarfs, DetachTarfs
    <3> QED
      BY <3>1, <3>2
  <2>2. p \in DOMAIN proc
    BY DEF TypeInv, ProcType
  <2>3. /\ proc'[p].pc # "mount" /\ \A q \in Procs \ {p} : proc'[q] = proc[q]
        /\ UNCHANGED <<file, dev>>
    BY <2>1, <2>2 DEF Start
  <2> QED
    BY <1>b, <2>3 DEF Shown, At
<1>p. ASSUME NEW p \in Procs, Step(p) \/ Fault(p) PROVE SuperAt(file'[a], n)
  <2>t. /\ proc[p] \in Busy /\ p \in DOMAIN proc
        /\ \A q \in Procs \ {p} : proc'[q] = proc[q]
        /\ \A e \in Archives \ {proc[p].arch} : file'[e] = file[e]
    BY <1>p, StepOfOne
  <2>m. ASSUME NEW pc, Goto(p, pc) PROVE proc'[p].pc = pc /\ proc'[p].dev = proc[p].dev
    BY <2>m, <2>t DEF Goto, Busy
  <2>1. CASE Quiet(p)
    <3>1. UNCHANGED dev /\ ~At(p, "mount")'
      BY <2>1, QuietIs DEF Holds, At
    <3>2. Shown(d)' => Shown(d)
      BY <2>t, <3>1 DEF Shown, At
    <3> QED
      BY <1>b, <2>1, <3>1, <3>2, SuperKept
  <2>2. CASE CheckFile(p) \/ DetachTruncate(p)
    <3>1. d \in DOMAIN dev /\ a # proc[p].arch /\ dev'[d] = dev[d]
      <4>1. Cut(proc[p].arch)
        BY <2>2 DEF CheckFile, DetachTruncate
      <4> QED
        BY <4>1 DEF Cut, TypeInv, DevType, Attached
    <3>2. proc'[p].pc # "mount"
      BY <2>2, <2>m, <2>t DEF CheckFile, DetachTruncate, Exit, Idle
    <3> QED
      BY <1>b, <2>t, <3>1, <3>2 DEF Shown, At
  <2>3. CASE Losetup(p)
    <3>1. /\ proc[p].dev \notin DOMAIN dev /\ proc'[p].pc = "tarfsmount" /\ UNCHANGED file
          /\ ~dev'[proc[p].dev].mounted
          /\ d # proc[p].dev => d \in DOMAIN dev /\ dev'[d] = dev[d]
      BY <2>3, <2>m DEF Losetup
    <3>2. d # proc[p].dev
      <4>1. PICK q \in Procs : dev'[d].mounted \/ (proc'[q].pc = "mount" /\ proc'[q].dev = d)
        BY DEF Shown, At
      <4> QED
        BY <2>t, <3>1, <4>1 DEF HolderInv, Holds
    <3> QED
      BY <1>b, <2>t, <3>1, <3>2 DEF Shown, At
  <2>4. CASE TarfsmountRead(p)
    <3>1. /\ proc[p].pc = "tarfsmount" /\ SuperAt(file[dev[proc[p].dev].arch], dev[proc[p].dev].size)
          /\ UNCHANGED <<file, dev>>
      BY <2>4 DEF TarfsmountRead, At
    <3>2. CASE d = proc[p].dev
      BY <3>1, <3>2
    <3>3. CASE d # proc[p].dev
      BY <1>b, <2>4, <2>t, <2>m, <3>1, <3>3 DEF TarfsmountRead, Shown, At
    <3> QED
      BY <3>2, <3>3
  <2>5. CASE Mount(p)
    <3>1. proc[p].pc = "mount" /\ proc'[p].pc = "mtab" /\ UNCHANGED file
      BY <2>5, <2>m DEF Mount, At
    <3>2. /\ d \in DOMAIN dev /\ dev[d].arch = a /\ dev[d].size = n /\ dev'[d].cut = dev[d].cut
          /\ d # proc[p].dev => dev'[d] = dev[d]
      BY <2>5 DEF Mount, TypeInv, DevType, Attached
    <3> QED
      BY <1>b, <2>t, <3>1, <3>2 DEF Shown, At
  <2>6. CASE Addmntent(p)
    <3>1. proc'[p].pc # "mount" /\ UNCHANGED file
      BY <2>6, <2>t DEF Addmntent, Exit, Idle
    <3>2. /\ d \in DOMAIN dev /\ dev[d].arch = a /\ dev[d].size = n /\ dev'[d].cut = dev[d].cut
          /\ dev'[d].mounted = dev[d].mounted
      BY <2>6 DEF Addmntent, TypeInv, DevType, Attached
    <3> QED
      BY <1>b, <2>t, <3>1, <3>2 DEF Shown, At
  <2> QED
    BY <1>p, <2>1, <2>2, <2>3, <2>4, <2>5, <2>6 DEF Step, Fault, Quiet
<1> QED
  BY <1>u, <1>d, <1>s, <1>p DEF Next

(* What a mounted device shows stays whole while other commands run on its  *)
(* file, until one cuts it.                                                 *)
THEOREM MountedSound == Spec => []MountedStaysWhole
<1>1. Init => MountedInv
  BY DEF Init, MountedInv
<1>2. TypeInv /\ SoundInv /\ MountedInv => MountedStaysWhole
  <2> SUFFICES ASSUME TypeInv, SoundInv, MountedInv, NEW d \in DOMAIN dev,
                      dev[d].mounted, ~dev[d].cut, Sound(dev[d].arch)
               PROVE  LET f == file[dev[d].arch] IN
                      /\ SuperAt(f, dev[d].size)
                      /\ WholeFs(f, dev[d].size, f.blk[dev[d].size - 1].tarfs_free)
    BY DEF MountedStaysWhole, Sound
  <2> DEFINE f == file[dev[d].arch]
             n == dev[d].size
  <2>1. SuperAt(f, n) /\ dev[d].arch \in Archives
    BY DEF MountedInv, Shown, TypeInv, DevType, Attached
  <2>2. n - 1 \in 0..f.size-1 /\ (n - 1) + 1 = n /\ f.blk[n - 1].kind = "super"
    <3>1. f.size \in Nat
      BY <2>1 DEF TypeInv, FileType, Kept, Formed
    <3> QED
      BY <2>1, <3>1 DEF SuperAt
  <2> QED
    BY <2>1, <2>2 DEF SoundInv, SoundAt, Whole
<1> QED
  BY <1>1, <1>2, Typed, Held, Sounded, MountedStep, PTL DEF Spec
=============================================================================
