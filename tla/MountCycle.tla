----------------------------- MODULE MountCycle -----------------------------
(***************************************************************************)
(* The life of an archive outside the kernel: mount.tarfs (gunzip,         *)
(* mkfs.tarfs, losetup, tarfsmount), mkfs.tarfs by itself, umount and      *)
(* detachtarfs, several of them at once on the same archives, each failing *)
(* or killed between any two steps.  Nothing locks the file: what mkfs has *)
(* fetched with fstat and what detachtarfs has read of the superblock may  *)
(* be out of date when it is used.                                         *)
(*                                                                         *)
(* A file is its blocks.  The archive has one block for each member and    *)
(* one of zeros; mkfs adds one block for the free and the root dinode, one *)
(* for each member it is given and the superblock.  What mkfs writes       *)
(* inside these (FsMaker) and what the kernel makes of them (TarfsMount)   *)
(* are other modules' subject.                                             *)
(***************************************************************************)
EXTENDS Integers, FiniteSets

CONSTANTS
    Archives,   \* the archives of the users
    Gzipped,    \* those that are compressed: mount.tarfs works on FILE.dummy
    Members,    \* members in each of them
    Devices,    \* loop devices, by their numbers
    Procs,      \* commands at work at the same time
    Strays,     \* blocks a free list names once another command has been in it
    MaxBlks,    \* what the medium holds of one file
    MaxRuns,    \* bound: commands run in all
    MaxFaults   \* bound: failed calls, processes killed, links astray, in all

ASSUME CycleAssumption ==
    /\ Gzipped \subseteq Archives
    /\ Devices \subseteq Nat \ {0} /\ Strays \subseteq Nat
    /\ Members \in Nat /\ MaxBlks \in Nat /\ MaxRuns \in Nat /\ MaxFaults \in Nat

VARIABLES
    file,       \* [size, blk] of the archive, of FILE.dummy if it is compressed
    dev,        \* the attached devices: file, size at losetup, mounted, in mtab
    proc,       \* what each process runs, and where it stands
    runs,       \* commands run so far
    faults,     \* faults so far
    met,        \* history: files two processes were changing at once
    left,       \* history: files a killed mkfs has left blocks behind
    short       \* history: files with a part of the archive, or mkfs'd from it

hist == <<runs, faults, met, left, short>>
vars == <<file, dev, proc, hist>>
-----------------------------------------------------------------------------
Member(n) == [kind |-> "member", n |-> n]
End == [kind |-> "end"]
Hole == [kind |-> "hole"]
Dinodes(org, inodes) == [kind |-> "dinodes", org |-> org, inodes |-> inodes]
Node(org, n) == [kind |-> "node", org |-> org, n |-> n]
Super(org, blks) == [kind |-> "super", tarfs_free |-> org,
                     tarfs_size |-> blks + 1 - org, tarfs_inodes |-> blks - org + 1]

TarBlks == Members + 1
TarBlock(i) == IF i < Members THEN Member(i + 1) ELSE End
NoFile == [size |-> 0, blk |-> [i \in {} |-> Hole]]
Archive == [size |-> TarBlks, blk |-> [i \in 0..TarBlks-1 |-> TarBlock(i)]]

(* pwrite of one block, past the end of the file too; ftruncate.            *)
Resized(f, n) ==
    [size |-> n, blk |-> [i \in 0..n-1 |-> IF i < f.size THEN f.blk[i] ELSE Hole]]
Written(f, b, i) ==
    LET g == Resized(f, IF i < f.size THEN f.size ELSE i + 1)
    IN  [g EXCEPT !.blk[i] = b]

Idle == [pc |-> "idle"]
At(p, pc) == proc[p].pc = pc
File(p) == file[proc[p].arch]
Goto(p, pc) == proc' = [proc EXCEPT ![p].pc = pc]
Exit(p) == proc' = [proc EXCEPT ![p] = Idle]
SetFile(p, f) == file' = [file EXCEPT ![proc[p].arch] = f]

Init ==
    /\ file = [a \in Archives |-> IF a \in Gzipped THEN NoFile ELSE Archive]
    /\ dev = [d \in {} |-> Idle]
    /\ proc = [p \in Procs |-> Idle]
    /\ runs = 0 /\ faults = 0 /\ met = {} /\ left = {} /\ short = {}
-----------------------------------------------------------------------------
(* mount.tarfs: losetup -f names the first free device without taking it, or *)
(* the script ends.  mkfs.tarfs and detachtarfs are also run by themselves.     *)
Command(pc, script, a, d) ==
    [pc |-> pc, script |-> script, arch |-> a, dev |-> d, org |-> 0, blks |-> 0, cur |-> 0]
Start(p, c) ==
    /\ At(p, "idle") /\ runs < MaxRuns
    /\ proc' = [proc EXCEPT ![p] = c]
    /\ runs' = runs + 1
    /\ UNCHANGED <<file, dev, faults, met, left, short>>

MountTarfs(p, a) ==
    \E d \in Devices \ DOMAIN dev :
        /\ \A e \in Devices \ DOMAIN dev : d <= e
        /\ Start(p, Command(IF a \in Gzipped THEN "checkFile" ELSE "mkfs", "mount.tarfs", a, d))

MkfsTarfs(p, a) == a \notin Gzipped /\ Start(p, Command("mkfs", "mkfs.tarfs", a, 0))

DetachTarfs(p, a) == a \notin Gzipped /\ Start(p, Command("detach", "detachtarfs", a, 0))

(* The processes that are changing a file, or are about to by what they     *)
(* know of it; p becomes one of them, maybe not the only one.               *)
MkfsSteps == {"init", "get", "syncFree", "super"}
Writers(a) == {p \in Procs : /\ proc[p].pc \in MkfsSteps \union {"gunzip", "truncate"}
                             /\ proc[p].arch = a}
Enter(p) ==
    /\ met' = IF Writers(proc[p].arch) \subseteq {p} THEN met ELSE met \union {proc[p].arch}
    /\ UNCHANGED <<runs, faults, left, short>>

(* A fault: one of a bounded number; what it leaves.                         *)
Faulty(leaves, cuts) ==
    /\ faults < MaxFaults /\ faults' = faults + 1
    /\ left' = left \union leaves
    /\ short' = short \union cuts
    /\ UNCHANGED <<runs, met>>

(* checkFile: for a compressed archive the shell empties FILE.dummy, be it   *)
(* attached or not, and gunzip fills it; how gunzip ends is not looked at.  *)
Cut(a) == dev' = [d \in DOMAIN dev |->
                    IF dev[d].arch = a THEN [dev[d] EXCEPT !.cut = TRUE] ELSE dev[d]]

CheckFile(p) ==
    /\ At(p, "checkFile")
    /\ SetFile(p, NoFile)
    /\ Cut(proc[p].arch)
    /\ Goto(p, "gunzip")
    /\ Enter(p)

Unpacked(f, n) == [Resized(f, IF n < f.size THEN f.size ELSE n)
                     EXCEPT !.blk = [i \in DOMAIN @ |-> IF i < n THEN TarBlock(i) ELSE @[i]]]

Gunzip(p) ==
    /\ At(p, "gunzip")
    /\ SetFile(p, Unpacked(File(p), TarBlks))
    /\ Goto(p, "mkfs")
    /\ UNCHANGED <<dev, hist>>

GunzipFails(p) ==
    /\ At(p, "gunzip")
    /\ \E n \in 0..TarBlks-1 : SetFile(p, Unpacked(File(p), n))
    /\ Goto(p, "mkfs")
    /\ Faulty({}, {proc[p].arch})
    /\ UNCHANGED dev
-----------------------------------------------------------------------------
(* mkfs.tarfs.  mount.tarfs goes on with losetup however it ends.            *)
MkfsEnds(p) ==
    IF proc[p].script = "mount.tarfs"
    THEN proc' = [proc EXCEPT ![p] = Command("losetup", @.script, @.arch, @.dev)]
    ELSE Exit(p)
Fits(f) == f.size <= MaxBlks

(* A file whose last block is a superblock is left alone.                   *)
Completed(f) == f.size > 0 /\ f.blk[f.size - 1].kind = "super"

MkfsCreate_Again(p) ==
    /\ At(p, "mkfs") /\ File(p).size > 0
    /\ proc' = [proc EXCEPT ![p] = [@ EXCEPT !.pc = "init", !.cur = 0, !.org = File(p).size,
                                             !.blks = File(p).size]]
    /\ Enter(p)
    /\ UNCHANGED <<file, dev>>

MkfsCreate(p) ==
    /\ At(p, "mkfs") /\ File(p).size > 0 /\ ~Completed(File(p))
    /\ proc' = [proc EXCEPT ![p] = [@ EXCEPT !.pc = "init", !.cur = 0, !.org = File(p).size,
                                             !.blks = File(p).size]]
    /\ Enter(p)
    /\ UNCHANGED <<file, dev>>

(* That, or an empty file, where pread gets nothing.                         *)
MkfsNotCreated(p) ==
    /\ At(p, "mkfs") /\ (File(p).size = 0 \/ Completed(File(p)))
    /\ MkfsEnds(p)
    /\ UNCHANGED <<file, dev, hist>>

(* Where mkfs puts a block of metadata: at the end it knows of, the dinodes  *)
(* of complete in their place and the superblock at the end.  But the free   *)
(* lists are links in the file, which allocBlock takes as it finds them and  *)
(* without a look at f_magic: once another command has changed the file at   *)
(* the same time one may name any block, of the archive too or past the end. *)
Place(p) == IF At(p, "syncFree") THEN proc[p].org ELSE proc[p].blks
Links(p) ==
    {Place(p)} \union
    {i \in Strays : proc[p].arch \in met /\ faults < MaxFaults /\ ~At(p, "super")}

(* allocBlock and writeBlock, which keeps count of the end.                 *)
Put(p, b, i, pc, cur) ==
    LET f == Written(File(p), b, i) IN
    /\ Fits(f)
    /\ SetFile(p, f)
    /\ proc' = [proc EXCEPT ![p].pc = pc, ![p].cur = cur, ![p].blks = IF i < @ THEN @ ELSE i + 1]
    /\ faults' = IF i = Place(p) THEN faults ELSE faults + 1
    /\ UNCHANGED <<dev, runs, met, left, short>>

(* InodeFactory::init and the root: chunks of blocks not yet filled in.     *)
MkfsInit(p) ==
    /\ At(p, "init")
    /\ \E i \in Links(p) : Put(p, Dinodes(proc[p].org, 0), i, "get", 0)

(* get and add: one block of metadata for a member.                         *)
Read(p) == IF proc[p].cur < File(p).size THEN File(p).blk[proc[p].cur] ELSE End

MkfsAdd(p) ==
    /\ At(p, "get") /\ Read(p).kind = "member"
    /\ \E i \in Links(p) : Put(p, Node(proc[p].org, Read(p).n), i, "get", proc[p].cur + 1)

MkfsEof_NoSync(p) ==
    /\ At(p, "get") /\ Read(p).kind # "member"
    /\ Goto(p, "super")
    /\ UNCHANGED <<file, dev, hist>>

(* The blocks of zeros end the archive.  Without them get goes on in what    *)
(* mkfs has appended: the magic number that begins a block makes a name,    *)
(* the zeros further on a type it takes; but the names are few, and for one *)
(* that is there add writes nothing new, up to the end of the file.         *)
MkfsEof(p) ==
    /\ At(p, "get") /\ Read(p).kind # "member"
    /\ Goto(p, "syncFree")
    /\ UNCHANGED <<file, dev, hist>>

(* A failed read is the end of the archive as well.                         *)
MkfsReadFails(p) ==
    /\ At(p, "get") /\ Read(p).kind = "member"
    /\ Goto(p, "syncFree")
    /\ Faulty({}, {proc[p].arch})
    /\ UNCHANGED <<file, dev>>

(* complete: the dinodes of the root and of inode 0 in place, then the      *)
(* superblock at the end.                                                   *)
MkfsSync(p) ==
    /\ At(p, "syncFree")
    /\ LET b == Dinodes(proc[p].org, proc[p].blks - proc[p].org + 1)
       IN  \E i \in Links(p) : Put(p, b, i, "super", proc[p].cur)

MkfsSuper(p) ==
    /\ At(p, "super")
    /\ LET f == Written(File(p), Super(proc[p].org, proc[p].blks), proc[p].blks) IN
       Fits(f) /\ SetFile(p, f)
    /\ MkfsEnds(p)
    /\ UNCHANGED <<dev, hist>>

(* rollback, at any write or read; ftruncate makes a shorter file longer.   *)
Rollback(p) ==
    /\ SetFile(p, Resized(File(p), proc[p].org))
    /\ MkfsEnds(p)
    /\ UNCHANGED dev

MkfsFails(p) ==
    /\ proc[p].pc \in MkfsSteps
    /\ Rollback(p)
    /\ Faulty({}, {})

(* The write that finds the medium full, or allocBlock's read past the end.  *)
MkfsFull(p) ==
    /\ proc[p].pc \in MkfsSteps
    /\ At(p, "get") => Read(p).kind = "member"
    /\ \E i \in Links(p) : ~Fits(Written(File(p), Hole, i))
    /\ Rollback(p)
    /\ UNCHANGED hist
-----------------------------------------------------------------------------
(* losetup: the device has the size the file has now.                       *)
Losetup(p) ==
    /\ At(p, "losetup") /\ proc[p].dev \notin DOMAIN dev
    /\ dev' = [d \in DOMAIN dev \union {proc[p].dev} |->
                IF d = proc[p].dev
                THEN [arch |-> proc[p].arch, size |-> File(p).size,
                      mounted |-> FALSE, mtab |-> FALSE, cut |-> FALSE]
                ELSE dev[d]]
    /\ Goto(p, "tarfsmount")
    /\ UNCHANGED <<file, hist>>

LosetupFails_Ignored(p) ==
    /\ At(p, "losetup")
    /\ IF proc[p].dev \in DOMAIN dev THEN Goto(p, "tarfsmount") ELSE Exit(p)
    /\ UNCHANGED <<file, dev, hist>>

LosetupFails(p) ==
    /\ At(p, "losetup") /\ proc[p].dev \in DOMAIN dev
    /\ Exit(p)
    /\ UNCHANGED <<file, dev, hist>>

(* FsReader::create on n blocks of f: a superblock in the last one; where    *)
(* the free and the root dinode should be there may be anything.            *)
SuperAt(f, n) == n \in 1..f.size /\ f.blk[n - 1].kind = "super"
RootAt(f, n) == f.blk[f.blk[n - 1].tarfs_free].kind = "dinodes"

(* tarfsmount: FsReader::create(DEVFILE) ...                                *)
TarfsmountRead_AnyBlock(p) ==
    /\ At(p, "tarfsmount")
    /\ dev[proc[p].dev].size \in 1..File(p).size
    /\ Goto(p, "mount")
    /\ UNCHANGED <<file, dev, hist>>

TarfsmountRead(p) ==
    /\ At(p, "tarfsmount")
    /\ LET d == dev[proc[p].dev] IN SuperAt(file[d.arch], d.size)
    /\ Goto(p, "mount")
    /\ UNCHANGED <<file, dev, hist>>

(* ... or it fails, and the device stays attached.                          *)
TarfsmountFails(p) ==
    /\ At(p, "tarfsmount")
    /\ LET d == dev[proc[p].dev]
       IN  SuperAt(file[d.arch], d.size) => ~RootAt(file[d.arch], d.size)
    /\ Exit(p)
    /\ UNCHANGED <<file, dev, hist>>

Mount(p) ==
    /\ At(p, "mount")
    /\ dev' = [dev EXCEPT ![proc[p].dev].mounted = TRUE]
    /\ Goto(p, "mtab")
    /\ UNCHANGED <<file, hist>>

(* The line in mtab has loop=: umount(8) detaches the device it names.      *)
Addmntent(p) ==
    /\ At(p, "mtab")
    /\ dev' = [dev EXCEPT ![proc[p].dev].mtab = TRUE]
    /\ Exit(p)
    /\ UNCHANGED <<file, hist>>

Umount(d) ==
    /\ d \in DOMAIN dev /\ dev[d].mounted
    /\ dev' = IF dev[d].mtab THEN [e \in DOMAIN dev \ {d} |-> dev[e]]
              ELSE [dev EXCEPT ![d].mounted = FALSE]
    /\ UNCHANGED <<file, proc, hist>>
-----------------------------------------------------------------------------
(* detachtarfs: FsReader::create(TARFILE), the length without the file      *)
(* system, and later the truncation to it.                                  *)
OrgBlk_NotItself(f) == f.size - f.blk[f.size - 1].tarfs_size - 1
OrgBlk(f) == f.size - f.blk[f.size - 1].tarfs_size

DetachRead(p) ==
    /\ At(p, "detach") /\ Completed(File(p))
    /\ proc' = [proc EXCEPT ![p] = [@ EXCEPT !.pc = "truncate", !.org = OrgBlk(File(p))]]
    /\ Enter(p)
    /\ UNCHANGED <<file, dev>>

DetachFails(p) ==
    /\ At(p, "detach")
    /\ Completed(File(p)) => ~RootAt(File(p), File(p).size)
    /\ Exit(p)
    /\ UNCHANGED <<file, dev, hist>>

DetachTruncate(p) ==
    /\ At(p, "truncate")
    /\ SetFile(p, Resized(File(p), proc[p].org))
    /\ Cut(proc[p].arch)
    /\ Exit(p)
    /\ UNCHANGED hist
-----------------------------------------------------------------------------
(* A signal kills mkfs.tarfs alone, or all that the process is running.  To  *)
(* a command that has changed nothing yet a call that fails does the same:  *)
(* mkfs's open, losetup, tarfsmount's reads and mount(2), the line in mtab, *)
(* truncate.                                                                *)
Kill(p) ==
    /\ proc[p].pc # "idle"
    /\ \/ Exit(p)
       \/ proc[p].pc \in MkfsSteps \union {"mkfs"} /\ MkfsEnds(p)
    /\ Faulty({proc[p].arch : x \in {proc[p].pc} \intersect MkfsSteps},
              {proc[p].arch : x \in {proc[p].pc} \intersect {"gunzip"}})
    /\ UNCHANGED <<file, dev>>

Step(p) ==
    \/ CheckFile(p) \/ Gunzip(p)
    \/ MkfsCreate(p) \/ MkfsNotCreated(p) \/ MkfsInit(p) \/ MkfsAdd(p) \/ MkfsEof(p)
    \/ MkfsSync(p) \/ MkfsSuper(p) \/ MkfsFull(p)
    \/ Losetup(p) \/ LosetupFails(p)
    \/ TarfsmountRead(p) \/ TarfsmountFails(p) \/ Mount(p) \/ Addmntent(p)
    \/ DetachRead(p) \/ DetachFails(p) \/ DetachTruncate(p)

Fault(p) ==
    GunzipFails(p) \/ MkfsReadFails(p) \/ MkfsFails(p) \/ Kill(p)

Next ==
    \/ \E p \in Procs, a \in Archives :
          MountTarfs(p, a) \/ MkfsTarfs(p, a) \/ DetachTarfs(p, a)
    \/ \E p \in Procs : Step(p) \/ Fault(p)
    \/ \E d \in Devices : Umount(d)

Spec == Init /\ [][Next]_vars
-----------------------------------------------------------------------------
(* n blocks of f are the archive's file system, begun at block o.           *)
WholeFs(f, n, o) ==
    /\ n = o + Members + 2
    /\ f.blk[o] = Dinodes(o, Members + 2)
    /\ \A k \in 1..Members : f.blk[o + k] = Node(o, k)
    /\ f.blk[n - 1] = Super(o, n - 1)

(* Whatever commands run on a plain archive one after the other, by one     *)
(* user or another, and wherever they fail or are killed, a run over what    *)
(* a killed one left behind included: the archive's own blocks stay, and the *)
(* file is never cut into them.                                             *)
ArchiveKept ==
    \A a \in Archives \ (Gzipped \union met) :
        /\ file[a].size >= TarBlks
        /\ \A i \in 0..TarBlks-1 : file[a].blk[i] = TarBlock(i)

(* A file that passes for completed holds the whole file system, after any  *)
(* sequence of failures, kills and runs repeated over what they left, as    *)
(* long as no two commands changed it at the same time and the archive      *)
(* could be read.                                                           *)
CompletedIsWhole ==
    \A a \in Archives \ (met \union short) :
        SuperAt(file[a], file[a].size) =>
            WholeFs(file[a], file[a].size, file[a].blk[file[a].size - 1].tarfs_free)

(* A mounted device goes on to show a whole file system, whatever else is   *)
(* run on the archive except what cuts the file.                            *)
MountedStaysWhole ==
    \A d \in DOMAIN dev :
        (dev[d].mounted /\ ~dev[d].cut /\ dev[d].arch \notin met \union short) =>
            LET f == file[dev[d].arch] IN
            /\ SuperAt(f, dev[d].size)
            /\ WholeFs(f, dev[d].size, f.blk[dev[d].size - 1].tarfs_free)

(* At rest a file is the archive as it was, or the archive and one file     *)
(* system: failures undo themselves, a second mkfs adds nothing and detach  *)
(* takes off all that mkfs put there.                                       *)
AtRest ==
    \A a \in Archives \ (met \union left \union short) :
        (Writers(a) = {} /\ file[a].size > 0) =>
            \/ file[a] = Archive
            \/ WholeFs(file[a], file[a].size, TarBlks)

(* tarfsmount is run on the device this script attached, and to this        *)
(* archive, although losetup -f may have named it to others too.            *)
OwnDevice ==
    \A p \in Procs : proc[p].pc \in {"tarfsmount", "mount", "mtab"} =>
        /\ proc[p].dev \in DOMAIN dev
        /\ dev[proc[p].dev].arch = proc[p].arch
        /\ \A q \in Procs \ {p} : proc[q].pc \in {"tarfsmount", "mount", "mtab"} =>
              proc[q].dev # proc[p].dev
=============================================================================
