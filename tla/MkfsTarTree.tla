----------------------------- MODULE MkfsTarTree -----------------------------
(***************************************************************************)
(* What the legacy mkfs.tarfs builds.  The tree is computed from the        *)
(* archive's paths alone; the file system is read from the file, from the   *)
(* free inode's block on, at every moment between two members and at the    *)
(* end.                                                                     *)
(***************************************************************************)
EXTENDS MkfsTar

(* Where a sequence of names leads: "." stays, ".." goes up.                *)
Norm(names) ==
    FoldLeft(LAMBDA p, n : CASE n = "." -> p
                             [] n = ".." -> IF p = <<>> THEN p ELSE Front(p)
                             [] OTHER -> Append(p, n),
             <<>>, names)

NamesOf == [k \in DOMAIN members |-> AllFnames(members[k].path)]
Visited(names) == [n \in DOMAIN names |-> Norm(SubSeq(names, 1, n))]

(* The tree after k members.  The first visit to a path makes it: a file of *)
(* the member's type if that visit ends there, a directory on the way.      *)
Visits(k) ==
    UNION {LET ps == Visited(NamesOf[j]) IN {<<j, n, ps[n]>> : n \in DOMAIN ps} : j \in 1..k}
Paths(k) == {v[3] : v \in Visits(k)} \ {<<>>}
FirstVisit(k, p) ==
    LET vs == {v \in Visits(k) : v[3] = p}
    IN  CHOOSE v \in vs : \A w \in vs : v[1] < w[1] \/ (v[1] = w[1] /\ v[2] <= w[2])
Maker(k, p) ==
    LET v == FirstVisit(k, p)
    IN  IF v[2] = Len(NamesOf[v[1]]) THEN members[v[1]] ELSE NULL
Type(k, p) == IF p = <<>> THEN "dir" ELSE getFtype(Maker(k, p).flag)
Kids(k, p) == {q \in Paths(k) : Front(q) = p}

(* The file system.                                                         *)
FreeInode == mp.disk[mp.m_orgsize].di
Absent == [i_ino |-> -1, di |-> Cleared("none")]
InodeAt(ino) ==
    LET b == getDataBlock(mp, FreeInode, ino)
    IN  IF b = TARBLK_NONE THEN Absent ELSE [i_ino |-> ino, di |-> mp.disk[b].di]
Lookup(o, name) ==
    LET es == DirEnts(mp, o.di)
    IN  InodeAt(es[SelectInSeq(es, LAMBDA e : e.d_name = name)].d_ino)
Entered(o, name) == o.di.di_mode = "dir" /\ Find(mp, o.di, name) # 0
Resolve(p) ==
    LET step(o, name) == IF Entered(o, name) THEN Lookup(o, name) ELSE Absent
    IN  FoldLeft(step, InodeAt(TARFS_ROOT_INO), p)

SameFile(o, k, p) ==
    LET f == Maker(k, p)
        h == HeaderBlk(FirstVisit(k, p)[1])
    IN  /\ o.di.di_nlink = 1
        /\ f.flag \in {"REG", "SYM"} => o.di.di_size = f.size
        /\ \A off \in 0..datasz(f)-1 : getDataBlock(mp, o.di, off) = h + 1 + off
        /\ getDataBlock(mp, o.di, datasz(f)) = TARBLK_NONE

SameDir(o, k, p) ==
    LET es == DirEnts(mp, o.di)
        names == {es[i].d_name : i \in DOMAIN es}
    IN  /\ names = {Last(q) : q \in Kids(k, p)} \union {".", ".."}
        /\ Len(es) = Cardinality(names)
        /\ Lookup(o, ".") = o
        /\ Lookup(o, "..") = Resolve(IF p = <<>> THEN p ELSE Front(p))
        /\ \A q \in Kids(k, p) :
              es[Find(mp, o.di, Last(q))].d_ftype = Type(k, q)
        /\ o.di.di_nlink = 2 + Cardinality({q \in Kids(k, p) : Type(k, q) = "dir"})

IsTree(k) ==
    \A p \in Paths(k) \union {<<>>} :
        LET o == Resolve(p)
        IN  /\ o.di.di_mode = Type(k, p)
            /\ IF Type(k, p) = "dir" THEN SameDir(o, k, p) ELSE SameFile(o, k, p)

(* One member reached into the root by its dots, another by its own name.   *)
EnteredTwice(k) ==
    /\ \E j \in 1..k : LET ps == Visited(NamesOf[j])
                       IN  \E n \in 1..Len(ps)-1 : ps[n] = <<>>
    /\ \E j \in 1..k : NamesOf[j][1] \notin {".", ".."}

Between == at \in {"parse", "super", "done"}
-----------------------------------------------------------------------------
(* After each member the file system is the tree of the archive so far,     *)
(* with link counts, the first of several members of a path describing it:  *)
(* the copies of dinodes that mkFilePath walks with were all current.  Only *)
(* the root in memory may not be, once the root was entered both as itself  *)
(* and through "." or "..".                                                 *)
LegacyTree == Between /\ ~EnteredTwice(cur) => IsTree(cur)

FreeList(list) ==
    LET chain[b \in DOMAIN mp.disk] ==
            {b} \union (IF mp.disk[b].f_nextblkno = TARBLK_NONE THEN {}
                        ELSE chain[mp.disk[b].f_nextblkno])
    IN  IF mp.flist[list] = TARBLK_NONE THEN {} ELSE chain[mp.flist[list]]

(* Every block behind the archive is on one free list or has one owner: a   *)
(* number in the free inode's map, or a directory's or a map's list of      *)
(* blocks.                                                                  *)
BlocksAccounted ==
    Between /\ ~EnteredTwice(cur) =>
        LET inos == 0..mp.maxino-1
            dirs == {i \in inos : InodeAt(i).di.di_mode = "dir"}
            blocks(i) == ToSet(DirBlks(mp, InodeAt(i).di))
            maps(i) == ToSet(IndBlocks(mp, InodeAt(i).di))
            owned == [i \in inos |-> {getDataBlock(mp, FreeInode, i)} \union maps(i)
                                     \union (IF i \in dirs THEN blocks(i) ELSE {})]
            parts == {owned[i] : i \in inos} \union {FreeList(l) : l \in Lists}
            super == IF HasSuper(mp) THEN {mp.m_size - 1} ELSE {}
        IN  /\ UNION parts \union super = mp.m_orgsize..mp.m_size-1
            /\ \A i, j \in inos : i # j => owned[i] \intersect owned[j] = {}
            /\ \A i \in inos, l \in Lists : owned[i] \intersect FreeList(l) = {}
            /\ \A l, n \in Lists : l # n => FreeList(l) \intersect FreeList(n) = {}

Sb == mp.disk[mp.m_size - 1]

(* Where there is a superblock a run of mkfs came to the end of the archive, *)
(* or to a member it does not support or may have failed to read, and the   *)
(* blocks before it are those of that run: a run stopped before has left    *)
(* the archive, or what a kill leaves, or, if it was not able to read the   *)
(* last block, the file system of the run before.                           *)
WholeUnlessStopped ==
    /\ at = "done" =>
          /\ HasSuper(mp) /\ Sb.tarfs_free = mp.m_orgsize
          /\ cur < Len(members) =>
                members[cur + 1].long \/ members[cur + 1].flag \notin Posix
    /\ HasSuper(mp) =>
          /\ at = "done" \/ (at = "failed" /\ unread)
          /\ Sb.tarfs_free + Sb.tarfs_size = mp.m_size - 1
          /\ \A b \in {Sb.tarfs_free, Sb.tarfs_root} : b < mp.m_size - 1 /\ mp.disk[b].kind = "dinode"
=============================================================================
