------------------------------ MODULE TarfsMount ------------------------------
(***************************************************************************)
(* mkfs.tarfs to its end, tarfsmount, and the kernel module on the result: *)
(* what the kernel answers is the tree of the archive.  How the kernel      *)
(* reads a directory that holds data (HoldsData) is not modelled.          *)
(***************************************************************************)
EXTENDS FsTree, TarfsKernel

mountVars == <<vars, kernelVars>>

(* tarfsmount: FsReader::create and mount(2).                               *)
Mount(p) == Mountable /\ tarfs_fill_super(p, Dinode(DiskFree).di)

MountInit == Init /\ KernelInit

MountNext ==
    \/ Work /\ UNCHANGED kernelVars
    \/ /\ phase = "done"
       /\ \/ \E p \in Procs : Mount(p) \/ CallStarts(p) \/ CallStep(p) \/ CallFails(p)
          \/ VFS
       /\ UNCHANGED vars

MountSpec == MountInit /\ [][MountNext]_mountVars

(* A process in the kernel keeps running and the device answers.            *)
FairMount == MountSpec /\ \A p \in Procs :
                WF_mountVars(phase = "done" /\ CallStep(p) /\ UNCHANGED vars)
-----------------------------------------------------------------------------
Key(i) == CHOOSE k \in DOMAIN dcache : dcache[k] = i
PathOf(i) ==
    LET path[j \in DentryInodes \union {TARFS_ROOT_INO}] ==
            IF j = TARFS_ROOT_INO THEN <<>> ELSE Append(path[Key(j)[1]], Key(j)[2])
    IN  path[i]
All == Len(files)
IsDinodeOf(di, p) ==
    /\ p \in Paths(All) \union {<<>>}
    /\ di.di_mode = IF p = <<>> THEN "dir" ELSE RefType(All, p)
    /\ di.di_mode # "dir" => SameFile(di, All, p)

(* Type invariant.                                                          *)
KernelTypeOK ==
    /\ mnt \in {"no", "mounting", "yes", "oops"}
    /\ \A i \in DOMAIN icache : icache[i].new \in BOOLEAN /\ DinodeFields \subseteq DOMAIN icache[i].di
    /\ DentryInodes \union leaked \subseteq DOMAIN icache
    /\ \A p \in Procs : call[p].op \in {"idle", "mount", "lookup", "iterate", "read", "link"}
    /\ slab \in Nat /\ nbh \in Nat /\ errs \in 0..MaxErrs

(* Names lead to what the archive has under them, through any sequence of   *)
(* lookups, evictions and failed reads; the one exception is an inode whose *)
(* own reading failed, which stays in the cache without a dinode.           *)
DentriesRight ==
    /\ \A k \in DOMAIN dcache : k[1] < dcache[k]
    /\ \A k \in DOMAIN dcache :
          LET i == dcache[k]
              p == Append(PathOf(k[1]), k[2])
          IN  IF i \in leaked THEN Mode(i) = "none" /\ p \in Paths(All)
              ELSE IsDinodeOf(icache[i].di, p)
    /\ \A j, k \in DOMAIN dcache : j # k => dcache[j] # dcache[k]

(* Results of calls: a name that is not found is not in the archive, a file *)
(* offset is translated to the archive's own block, a link is read from its *)
(* header, and an error is one of the device or of memory.                  *)
AnswersRight ==
    \A p \in Procs : call[p].at = "ret" =>
        LET c == call[p]
            j == Described(All, PathOf(c.dir))
        IN  \/ c.res \in {EIO, ENOMEM} /\ errs > 0
            \/ c.op = "mount" /\ c.res = TARFS_ROOT_INO
            \/ c.op = "lookup" /\ c.res = ENOENT
                 /\ Append(PathOf(c.dir), c.name) \notin Paths(All)
            \/ c.op = "lookup" /\ c.res >= 0 /\ dcache[<<c.dir, c.name>>] = c.res
            \/ c.op = "iterate" /\ c.res = 0
            \/ c.op = "read" /\ c.res = HeaderBlk(files, j) + 1 + c.moff
            \/ c.op = "link" /\ c.res = HeaderBlk(files, j)

(* readdir, resumed after full buffers and errors, gives each name once,    *)
(* and all of them when the position is at the end.                         *)
ListedOnce ==
    \A f \in OpenFiles : file[f].dir # 0 =>
        LET got == file[f].got
            names == {Last(q) : q \in Kids(All, PathOf(file[f].dir))} \union {".", ".."}
        IN  /\ Image(got) \subseteq names
            /\ Cardinality(Image(got)) = Len(got)
            /\ file[f].pos = icache[file[f].dir].di.di_size => Image(got) = names

(* A buffer is held as long as a call needs it: none is lost on any path    *)
(* through the loops and their error exits, and none released twice.        *)
BuffersBalanced == nbh = Cardinality({p \in Procs : call[p].bh # <<>>})

(* Every dinode in memory is the i_private of an inode in the cache, or     *)
(* about to be, but for those failed reads have left behind; after umount   *)
(* only those are left.                                                     *)
SlabAccounted ==
    slab = lost + Cardinality({i \in DOMAIN icache : icache[i].new \/ icache[i].private})

(* The module brings the kernel down only after a failure, or for a file    *)
(* system whose free inode has more than one indirect block, and a dinode   *)
(* is left behind only by a failed read, one by each.                       *)
OopsExplained ==
    /\ mnt = "oops" => errs > 0 \/ ~CopyFits(Dinode(DiskFree).di)
    /\ lost <= errs

(* Every call returns: walks and loops end, and no inode stays locked for   *)
(* a lookup to wait on.                                                     *)
CallsReturn == \A p \in Procs : call[p] # Idle ~> (call[p] = Idle \/ mnt = "oops")
=============================================================================
