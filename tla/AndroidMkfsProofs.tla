-------------------------- MODULE AndroidMkfsProofs --------------------------
(***************************************************************************)
(* Proofs about AndroidMkfs for archives, chunks and media of every size.   *)
(***************************************************************************)
EXTENDS AndroidMkfs, TLAPS

Reading == {"get", "header", "realHeader", "named"}
Building == {"add", "syncRoot", "syncFree", "super"} \union Reading
Labels == {"create", "init", "rollback", "failed", "killed", "end"} \union Building

TypeInv ==
    /\ orgblks \in Nat /\ size \in Nat /\ blks \in Nat /\ room \in Nat
    /\ good \subseteq Int /\ super \in Int /\ cur \in Int
    /\ pc \in Labels /\ errno \in {0, EIO, ENOMEM}
    /\ failed \in BOOLEAN /\ refused \in BOOLEAN /\ regained \in BOOLEAN

(* errno remembers the first call that failed, and from then on at most     *)
(* what happens to match the offset passes.                                 *)
ErrnoInv == errno = 0 <=> ~failed

(* Where things are in the file.                                            *)
PlaceInv ==
    /\ orgblks <= size /\ size <= blks /\ size <= room
    /\ pc = "create" => cur = 0
    /\ pc \in Building => orgblks + 2 <= blks
    /\ pc \in Building \union {"init"} => orgblks >= 1 /\ cur \in 0..orgblks-1

(* Until a call fails all is in place, or a write was cut short by the end  *)
(* of the medium and nothing can be appended before it has room again.      *)
MediumInv ==
    pc # "failed" /\ ~failed =>
        \/ regained
        \/ good = orgblks..blks-1 /\ size = blks
        \/ room < blks /\ blks - 1 \notin good

(* Past the root dinode no call has failed: the offset of its write is not  *)
(* the number of blocks written, so it would not have passed.               *)
SuperInv ==
    /\ pc \in {"syncFree", "super"} => ~failed
    /\ pc \in {"syncRoot", "syncFree", "super"} /\ ~failed => cur = orgblks - 1 \/ refused
    /\ super # -1 => /\ pc = "end" /\ size = super + 1
                     /\ ~failed /\ (cur = orgblks - 1 \/ refused)
                     /\ regained \/ good = orgblks..size-1

IInv == TypeInv /\ ErrnoInv /\ PlaceInv /\ MediumInv /\ SuperInv
-----------------------------------------------------------------------------
(* The errno a transfer leaves, and when it passes.                         *)
LEMMA TarfsIo ==
    ASSUME TypeInv, ErrnoInv, NEW off \in Int, NEW count \in Int, Called(count)
    PROVE  /\ errno' \in {0, EIO, ENOMEM} /\ failed' \in BOOLEAN
           /\ errno' = 0 <=> ~failed'
           /\ failed => failed'
           /\ TARFS_IO(off, count) # 0 => failed'
           /\ ~failed' => count # -1 /\ TARFS_IO(off, count) = 0
           /\ TARFS_IO(off, count) = 0 /\ failed' => failed /\ count = off /\ count # -1
<1>1. errno \in {0, EIO, ENOMEM} /\ failed \in BOOLEAN /\ (errno = 0 <=> ~failed)
  BY DEF TypeInv, ErrnoInv
<1>2. /\ failed' = (failed \/ count = -1)
      /\ errno' = IF count = -1 THEN EIO ELSE errno
  BY DEF Called
<1>3. failed' \in BOOLEAN /\ (failed' <=> failed \/ count = -1)
  BY <1>1, <1>2
<1>4. CASE count = -1
  BY <1>1, <1>2, <1>3, <1>4 DEF TARFS_IO, EIO, ENOMEM
<1>5. CASE count # -1
  BY <1>1, <1>2, <1>3, <1>5 DEF TARFS_IO, EIO, ENOMEM
<1> QED
  BY <1>4, <1>5

LEMMA ReadsWritesInt ==
    ASSUME TypeInv, NEW off \in Int, NEW n \in Nat \ {0}
    PROVE  /\ Reads(off, n) \subseteq Int /\ Writes(off, n) \subseteq Int
           /\ \A count \in Writes(off, n) :
                 count # -1 => off + count <= room /\ count \in 1..n /\ (count = n \/ off + count = room)
  BY DEF TypeInv, Reads, Writes

(* One write: at the end of the file or over blocks that are there, or      *)
(* anywhere once a write has been cut short.                                *)
LEMMA WriteKeeps ==
    ASSUME IInv, pc # "failed", NEW off \in Nat, NEW n \in Nat \ {0},
           off = blks \/ off + n <= blks \/ size < blks \/ regained,
           NEW label \in Labels, writeBlock(off, n, label)
    PROVE  /\ size' \in Nat /\ blks' \in Nat /\ good' \subseteq Int
           /\ orgblks <= size' /\ size' <= blks' /\ size' <= room /\ blks' >= blks /\ blks' >= off + n
           /\ errno' \in {0, EIO, ENOMEM} /\ failed' \in BOOLEAN
           /\ errno' = 0 <=> ~failed'
           /\ pc' \in {label, "rollback"} /\ (pc' = "rollback" => failed' \/ label = "rollback")
           /\ failed => failed'
           /\ failed' /\ pc' = label => (failed /\ off \in 1..n) \/ label = "rollback"
           /\ ~failed' => \/ regained
                          \/ good' = orgblks..blks'-1 /\ size' = blks'
                          \/ room < blks' /\ blks' - 1 \notin good'
<1>t. /\ orgblks \in Nat /\ size \in Nat /\ blks \in Nat /\ room \in Nat /\ good \subseteq Int
      /\ orgblks <= size /\ size <= blks /\ size <= room /\ off \in Nat
  BY DEF IInv, TypeInv, PlaceInv
<1>1. PICK count \in Writes(off, n) :
        /\ Called(count)
        /\ blks' = IF off + n > blks THEN off + n ELSE blks
        /\ size' = IF count > 0 /\ off + count > size THEN off + count ELSE size
        /\ good' = ((good \ (off..off+n-1)) \union (off..off+count-1)) \ (0..orgblks-1)
        /\ pc' = IF TARFS_IO(off, count) = 0 THEN label ELSE "rollback"
  BY DEF writeBlock, Goto
<1>2. /\ count \in Int /\ (count = -1 \/ (count \in 1..n /\ off + count <= room))
      /\ count = -1 \/ count = n \/ off + count = room
  BY <1>t, <1>1, ReadsWritesInt DEF IInv
<1>3. /\ errno' \in {0, EIO, ENOMEM} /\ failed' \in BOOLEAN /\ (errno' = 0 <=> ~failed')
      /\ failed => failed'
      /\ TARFS_IO(off, count) # 0 => failed'
      /\ ~failed' => count # -1 /\ TARFS_IO(off, count) = 0
      /\ TARFS_IO(off, count) = 0 /\ failed' => failed /\ count = off /\ count # -1
  BY <1>t, <1>1, <1>2, TarfsIo DEF IInv
<1>4. size' \in Nat /\ blks' \in Nat /\ good' \subseteq Int
  BY <1>t, <1>1, <1>2
<1>5. orgblks <= size' /\ size' <= blks' /\ size' <= room /\ blks' >= blks /\ blks' >= off + n
  BY <1>t, <1>1, <1>2
<1>6. /\ pc' \in {label, "rollback"} /\ (pc' = "rollback" => failed' \/ label = "rollback")
      /\ failed' /\ pc' = label => (failed /\ off \in 1..n) \/ label = "rollback"
  <2>1. CASE TARFS_IO(off, count) = 0
    <3>1. pc' = label
      BY <1>1, <2>1
    <3>2. failed' => failed /\ off \in 1..n
      BY <1>t, <1>2, <1>3, <2>1
    <3> QED
      BY <3>1, <3>2
  <2>2. CASE TARFS_IO(off, count) # 0
    BY <1>1, <1>3, <2>2
  <2> QED
    BY <2>1, <2>2
<1>7. ASSUME ~failed', ~regained
      PROVE  \/ good' = orgblks..blks'-1 /\ size' = blks'
             \/ room < blks' /\ blks' - 1 \notin good'
  <2>1. ~failed /\ count # -1 /\ ((good = orgblks..blks-1 /\ size = blks) \/ (room < blks /\ blks - 1 \notin good))
    BY <1>3, <1>7 DEF IInv, MediumInv
  <2>2. CASE good = orgblks..blks-1 /\ size = blks
    <3>1. CASE count = n
      <4>1. off + n <= blks \/ off = blks
        BY <1>t, <1>7, <2>2
      <4>2. CASE off + n <= blks
        <5>1. blks' = blks /\ size' = size
          BY <1>t, <1>1, <2>2, <3>1, <4>2
        <5>2. off..off+n-1 \subseteq 0..blks-1
          BY <1>t, <4>2
        <5>3. good' = ((good \ (off..off+n-1)) \union (off..off+n-1)) \ (0..orgblks-1)
          BY <1>1, <3>1
        <5>4. good' = orgblks..blks-1
          <6>1. good' = (good \union (off..off+n-1)) \ (0..orgblks-1)
            BY <5>3
          <6>2. (orgblks..blks-1) \ (0..orgblks-1) = orgblks..blks-1
            BY <1>t
          <6>3. (off..off+n-1) \ (0..orgblks-1) \subseteq orgblks..blks-1
            BY <1>t, <4>2
          <6> QED
            BY <2>2, <6>1, <6>2, <6>3
        <5> QED
          BY <2>2, <5>1, <5>4
      <4>3. CASE off = blks
        BY <1>t, <1>1, <2>2, <3>1, <4>3
      <4> QED
        BY <4>1, <4>2, <4>3
    <3>2. CASE count # n
      BY <1>t, <1>1, <1>2, <2>1, <2>2, <3>2
    <3> QED
      BY <3>1, <3>2
  <2>3. CASE room < blks /\ blks - 1 \notin good
    BY <1>t, <1>1, <1>2, <2>1, <2>3
  <2> QED
    BY <2>1, <2>2, <2>3
<1> QED
  BY <1>3, <1>4, <1>5, <1>6, <1>7

(* A step of Parser::get: to the next read, to add, or to the end.           *)
GetsOn ==
    /\ pc \in Reading /\ pc' \in Reading \union {"add", "syncRoot"}
    /\ UNCHANGED <<size, good, super, orgblks, blks, room, regained>>
    /\ errno' \in {0, EIO, ENOMEM} /\ failed' \in BOOLEAN /\ refused' \in BOOLEAN
    /\ errno' = 0 <=> ~failed'
    /\ failed => failed'
    /\ cur' \in 0..orgblks-1
    /\ pc' = "syncRoot" /\ ~failed' => cur' = orgblks - 1 \/ refused'

LEMMA GetOn == ASSUME IInv, GetsOn PROVE IInv'
<1> USE DEF GetsOn
<1>1. /\ pc \in Building /\ pc' \in Building /\ pc' \in Labels
      /\ pc' \notin {"syncFree", "super", "create", "init", "end"} /\ pc \notin {"end", "failed"}
  BY DEF Building, Labels, Reading
<1>2. /\ orgblks \in Nat /\ size \in Nat /\ blks \in Nat /\ room \in Nat /\ good \subseteq Int
      /\ super = -1 /\ regained \in BOOLEAN /\ cur' \in Int
  BY <1>1 DEF IInv, TypeInv, SuperInv
<1>3. TypeInv'
  BY <1>1, <1>2 DEF TypeInv
<1>4. PlaceInv'
  <2>1. /\ orgblks <= size /\ size <= blks /\ size <= room /\ orgblks + 2 <= blks /\ orgblks >= 1
    BY <1>1 DEF IInv, PlaceInv
  <2> QED
    BY <1>1, <2>1 DEF PlaceInv
<1>5. MediumInv'
  BY <1>1 DEF IInv, MediumInv
<1>6. ErrnoInv' /\ SuperInv'
  BY <1>1, <1>2 DEF ErrnoInv, SuperInv
<1> QED
  BY <1>3, <1>4, <1>5, <1>6 DEF IInv

LEMMA Step == IInv /\ [Next]_vars => IInv'
<1> SUFFICES ASSUME IInv, [Next]_vars PROVE IInv'
  OBVIOUS
<1>t. /\ orgblks \in Nat /\ size \in Nat /\ blks \in Nat /\ room \in Nat /\ good \subseteq Int
      /\ super \in Int /\ cur \in Int /\ pc \in Labels /\ errno \in {0, EIO, ENOMEM}
      /\ failed \in BOOLEAN /\ refused \in BOOLEAN /\ regained \in BOOLEAN /\ (errno = 0 <=> ~failed)
      /\ orgblks <= size /\ size <= blks /\ size <= room
      /\ (pc # "end" => super = -1)
  BY DEF IInv, TypeInv, ErrnoInv, PlaceInv, SuperInv
<1>u. CASE UNCHANGED vars
  BY <1>u DEF vars, fileVars, ioVars, IInv, TypeInv, ErrnoInv, PlaceInv, MediumInv, SuperInv
\* the steps that read
<1>1. CASE Create
  <2>1. PICK count \in Int : /\ Called(count)
                             /\ pc' = IF TARFS_IO(orgblks - 1, count) = 0 THEN "init" ELSE "end"
                             /\ orgblks = 0 => count = -1
    BY <1>1, <1>t, ReadsWritesInt DEF Create, Goto, IInv
  <2>2. /\ errno' \in {0, EIO, ENOMEM} /\ failed' \in BOOLEAN /\ (errno' = 0 <=> ~failed') /\ (failed => failed')
    BY <1>t, <2>1, TarfsIo DEF IInv
  <2>3. pc' \in {"init", "end"} /\ (pc' = "init" => orgblks >= 1)
    BY <1>t, <2>1 DEF TARFS_IO, EIO, ENOMEM
  <2>4. UNCHANGED <<size, good, super, orgblks, blks, cur, room, refused, regained>> /\ pc = "create"
    BY <1>1 DEF Create, At, fileVars
  <2>5. cur = 0 /\ super = -1
    BY <1>t, <2>4 DEF IInv, PlaceInv
  <2>6. TypeInv'
    BY <1>t, <2>2, <2>3, <2>4 DEF TypeInv, Labels
  <2>7. PlaceInv'
    BY <1>t, <2>3, <2>4, <2>5 DEF PlaceInv, Building, Reading
  <2>8. ErrnoInv' /\ SuperInv'
    BY <2>2, <2>3, <2>4, <2>5 DEF ErrnoInv, SuperInv
  <2>9. MediumInv'
    BY <2>2, <2>4 DEF IInv, MediumInv
  <2> QED
    BY <2>6, <2>7, <2>8, <2>9 DEF IInv
<1>2. CASE Get
  <2>1. PICK count \in Int :
          /\ Called(count) /\ cur' = cur
          /\ \/ TARFS_IO(cur, count) # 0 /\ pc' = "syncRoot"
             \/ cur = orgblks - 1 /\ pc' = "syncRoot"
             \/ pc' = "header"
    BY <1>2, <1>t, ReadsWritesInt DEF Get, Null, Goto, IInv
  <2>2. /\ errno' \in {0, EIO, ENOMEM} /\ failed' \in BOOLEAN /\ (errno' = 0 <=> ~failed') /\ (failed => failed')
        /\ ~failed' => TARFS_IO(cur, count) = 0
    BY <1>t, <2>1, TarfsIo DEF IInv
  <2>3. UNCHANGED <<size, good, super, orgblks, blks, room, refused, regained>> /\ pc = "get"
    BY <1>2 DEF Get, At, fileVars
  <2>4. cur' \in 0..orgblks-1
    BY <2>1, <2>3 DEF IInv, PlaceInv, Building, Reading
  <2>5. pc' \in {"header", "syncRoot"} /\ (pc' = "syncRoot" /\ ~failed' => cur' = orgblks - 1)
    BY <2>1, <2>2
  <2> QED
    BY <1>t, <2>2, <2>3, <2>4, <2>5, GetOn DEF GetsOn, Reading
<1>3. CASE LongName
  <2>1. PICK k \in 1..orgblks-3-cur, count \in Int :
          /\ Called(count)
          /\ IF TARFS_IO(cur + 1, count) = 0
             THEN cur' = cur + 1 + k /\ pc' = "realHeader"
             ELSE cur' = cur + 1 /\ pc' = "syncRoot"
    <3>1. ASSUME NEW k \in 1..orgblks-3-cur PROVE Reads(cur + 1, k) \subseteq Int
      BY <1>t, ReadsWritesInt DEF IInv
    <3> QED
      BY <1>3, <3>1 DEF LongName, Goto
  <2>2. /\ errno' \in {0, EIO, ENOMEM} /\ failed' \in BOOLEAN /\ (errno' = 0 <=> ~failed') /\ (failed => failed')
        /\ ~failed' => TARFS_IO(cur + 1, count) = 0
    BY <1>t, <2>1, TarfsIo DEF IInv
  <2>3. UNCHANGED <<size, good, super, orgblks, blks, room, refused, regained>> /\ pc = "header"
    BY <1>3 DEF LongName, At, fileVars
  <2>4. cur \in 0..orgblks-1
    BY <2>3 DEF IInv, PlaceInv, Building, Reading
  <2>5. cur' \in 0..orgblks-1
    BY <1>t, <2>1, <2>4
  <2>6. pc' \in {"realHeader", "syncRoot"} /\ (pc' = "syncRoot" => failed')
    BY <2>1, <2>2
  <2> QED
    BY <1>t, <2>2, <2>3, <2>5, <2>6, GetOn DEF GetsOn, Reading
<1>12. CASE RealHeader
  <2>1. PICK count \in Int :
          /\ Called(count) /\ cur' = cur
          /\ pc' = IF TARFS_IO(cur, count) = 0 THEN "named" ELSE "syncRoot"
    BY <1>12, <1>t, ReadsWritesInt DEF RealHeader, Goto, IInv
  <2>2. /\ errno' \in {0, EIO, ENOMEM} /\ failed' \in BOOLEAN /\ (errno' = 0 <=> ~failed') /\ (failed => failed')
        /\ ~failed' => TARFS_IO(cur, count) = 0
    BY <1>t, <2>1, TarfsIo DEF IInv
  <2>3. UNCHANGED <<size, good, super, orgblks, blks, room, refused, regained>> /\ pc = "realHeader"
    BY <1>12 DEF RealHeader, At, fileVars
  <2>4. cur' \in 0..orgblks-1
    BY <2>1, <2>3 DEF IInv, PlaceInv, Building, Reading
  <2>5. pc' \in {"named", "syncRoot"} /\ (pc' = "syncRoot" => failed')
    BY <2>1, <2>2
  <2> QED
    BY <1>t, <2>2, <2>3, <2>4, <2>5, GetOn DEF GetsOn, Reading
<1>13. CASE Header \/ Named
  <2>1. UNCHANGED <<size, good, super, orgblks, blks, room, regained>> /\ pc \in Reading /\ Member
    BY <1>13 DEF Header, Named, At, fileVars, Reading
  <2>2. cur \in 0..orgblks-1
    BY <2>1 DEF IInv, PlaceInv, Building, Reading
  <2>3. CASE cur' \in cur+1..orgblks-1 /\ pc' = "add" /\ UNCHANGED <<errno, failed, refused>>
    <3>1. cur' \in 0..orgblks-1
      BY <1>t, <2>2, <2>3
    <3> QED
      BY <1>t, <2>1, <2>3, <3>1, GetOn DEF GetsOn
  <2>4. CASE refused' = TRUE /\ pc' = "syncRoot" /\ cur' = cur /\ UNCHANGED <<errno, failed>>
    <3>1. refused' \in BOOLEAN
      BY <2>4
    <3> QED
      BY <1>t, <2>1, <2>2, <2>4, <3>1, GetOn DEF GetsOn
  <2>5. CASE refused' = TRUE /\ pc' = "syncRoot" /\ cur' = cur /\ errno' = ENOMEM /\ failed' = TRUE
    <3>1. refused' \in BOOLEAN /\ failed' \in BOOLEAN /\ (errno' = 0 <=> ~failed')
      BY <2>5 DEF ENOMEM
    <3> QED
      BY <1>t, <2>1, <2>2, <2>5, <3>1, GetOn DEF GetsOn
  <2> QED
    BY <2>1, <2>3, <2>4, <2>5 DEF Member, Null, Goto, Uncalled, NoMemory, ioVars
<1>14. CASE Read
  <2>1. PICK b \in 0..MaxBlks : readBlock(b, 1, "add")
    BY <1>14 DEF Read
  <2>2. b \in Int
    OBVIOUS
  <2>3. PICK count \in Int :
          /\ Called(count)
          /\ pc' = IF TARFS_IO(b, count) = 0 THEN "add" ELSE "rollback"
    BY <1>t, <2>1, <2>2, ReadsWritesInt DEF readBlock, Goto, IInv
  <2>4. /\ errno' \in {0, EIO, ENOMEM} /\ failed' \in BOOLEAN /\ (errno' = 0 <=> ~failed') /\ (failed => failed')
    BY <1>t, <2>2, <2>3, TarfsIo DEF IInv
  <2>5. UNCHANGED <<size, good, super, orgblks, blks, cur, room, refused, regained>> /\ pc = "add"
    BY <1>14, <2>1 DEF Read, readBlock, At, fileVars
  <2>6. pc' \in {"add", "rollback"}
    BY <2>3
  <2> QED
    BY <1>t, <2>4, <2>5, <2>6 DEF IInv, TypeInv, ErrnoInv, PlaceInv, MediumInv, SuperInv, Labels, Building, Reading
<1>15. CASE GiveUp
  <2>1. /\ UNCHANGED <<size, good, super, orgblks, blks, cur, room, refused, regained>>
        /\ pc # "end" /\ pc # "failed" /\ pc' = "rollback"
        /\ UNCHANGED <<errno, failed>> \/ (errno' = ENOMEM /\ failed' = TRUE)
    BY <1>15 DEF GiveUp, At, Goto, NoMemory, Uncalled, ioVars, fileVars
  <2>2. errno' \in {0, EIO, ENOMEM} /\ failed' \in BOOLEAN /\ (errno' = 0 <=> ~failed') /\ (failed => failed')
    <3>1. CASE UNCHANGED <<errno, failed>>
      BY <1>t, <3>1
    <3>2. CASE errno' = ENOMEM /\ failed' = TRUE
      BY <3>2 DEF ENOMEM
    <3> QED
      BY <2>1, <3>1, <3>2
  <2> QED
    BY <1>t, <2>1, <2>2 DEF IInv, TypeInv, ErrnoInv, PlaceInv, MediumInv, SuperInv, Labels, Building, Reading
\* the steps that write
<1>4. CASE AppendChunk
  <2>1. PICK n \in Bulks : pc # "failed" /\ writeBlock(blks, n, "add")
    BY <1>4 DEF AppendChunk, At
  <2>2. n \in Nat /\ n >= 2 /\ "add" \in Labels
    BY AndroidAssumption DEF Labels, Building, Reading
  <2>3. /\ pc' \in {"add", "rollback"} /\ blks' >= blks + n
        /\ size' \in Nat /\ blks' \in Nat /\ good' \subseteq Int
        /\ orgblks <= size' /\ size' <= blks' /\ size' <= room /\ blks' >= blks
        /\ errno' \in {0, EIO, ENOMEM} /\ failed' \in BOOLEAN
        /\ (errno' = 0 <=> ~failed') /\ (failed => failed')
        /\ (pc' = "rollback" => failed')
        /\ ~failed' => \/ regained
                       \/ good' = orgblks..blks'-1 /\ size' = blks'
                       \/ room < blks' /\ blks' - 1 \notin good'
    BY <1>t, <2>1, <2>2, WriteKeeps
  <2>4. UNCHANGED <<super, orgblks, cur, room, refused, regained>> /\ pc \in {"init", "add"}
    BY <1>4, <2>1 DEF AppendChunk, writeBlock, At
  <2>5. orgblks + 2 <= blks' /\ orgblks >= 1 /\ cur \in 0..orgblks-1
    BY <1>t, <2>2, <2>3, <2>4 DEF IInv, PlaceInv, Building, Reading
  <2> QED
    BY <1>t, <2>3, <2>4, <2>5 DEF IInv, TypeInv, ErrnoInv, PlaceInv, MediumInv, SuperInv, Labels, Building, Reading
<1>5. CASE Write
  <2>1. pc = "add" /\ super' = super /\ \E b \in 0..MaxBlks-1 :
          (b < blks \/ size < blks \/ regained) /\ writeBlock(b, 1, "add")
    BY <1>5 DEF Write, At
  <2>2. orgblks >= 1 /\ cur \in 0..orgblks-1 /\ orgblks + 2 <= blks
    BY <1>t, <2>1 DEF IInv, PlaceInv, Building, Reading
  <2>9. PICK b \in Nat : (b < blks \/ size < blks \/ regained) /\ writeBlock(b, 1, "add")
    BY <2>1
  <2>3. /\ pc' \in {"add", "rollback"}
        /\ size' \in Nat /\ blks' \in Nat /\ good' \subseteq Int
        /\ orgblks <= size' /\ size' <= blks' /\ size' <= room /\ blks' >= blks
        /\ errno' \in {0, EIO, ENOMEM} /\ failed' \in BOOLEAN
        /\ (errno' = 0 <=> ~failed') /\ (failed => failed')
        /\ (pc' = "rollback" => failed')
        /\ ~failed' => \/ regained
                       \/ good' = orgblks..blks'-1 /\ size' = blks'
                       \/ room < blks' /\ blks' - 1 \notin good'
    <3>1. "add" \in Labels /\ (b = blks \/ b + 1 <= blks \/ size < blks \/ regained)
      BY <1>t, <2>9 DEF Labels, Building, Reading
    <3> QED
      BY <1>t, <2>1, <2>9, <3>1, WriteKeeps
  <2>4. UNCHANGED <<super, orgblks, cur, room, refused, regained>>
    BY <2>1, <2>9 DEF writeBlock
  <2>5. super = -1
    BY <1>t, <2>1
  <2>6. TypeInv'
    BY <1>t, <2>3, <2>4 DEF TypeInv, Labels, Building, Reading
  <2>7. PlaceInv'
    <3>1. pc' # "create" /\ orgblks' + 2 <= blks'
      BY <1>t, <2>2, <2>3, <2>4
    <3>2. orgblks' <= size' /\ size' <= blks' /\ size' <= room'
      BY <2>3, <2>4
    <3>3. orgblks' >= 1 /\ cur' \in 0..orgblks'-1
      BY <2>2, <2>4
    <3> QED
      BY <3>1, <3>2, <3>3 DEF PlaceInv
  <2>8. ErrnoInv' /\ SuperInv'
    BY <2>3, <2>4, <2>5 DEF ErrnoInv, SuperInv
  <2>10. MediumInv'
    BY <2>3, <2>4 DEF MediumInv
  <2> QED
    BY <2>6, <2>7, <2>8, <2>10 DEF IInv
<1>6. CASE SyncRoot
  <2>1. pc = "syncRoot" /\ writeBlock(orgblks + 1, 1, "syncFree")
    BY <1>6 DEF SyncRoot, At
  <2>2. /\ orgblks >= 1 /\ cur \in 0..orgblks-1 /\ orgblks + 2 <= blks
        /\ orgblks + 1 \in orgblks..blks-1
    BY <1>t, <2>1 DEF IInv, PlaceInv, Building, Reading
  <2>3. /\ pc' \in {"syncFree", "rollback"} /\ (failed' /\ pc' = "syncFree" => orgblks + 1 = 1)
        /\ size' \in Nat /\ blks' \in Nat /\ good' \subseteq Int
        /\ orgblks <= size' /\ size' <= blks' /\ size' <= room /\ blks' >= blks
        /\ errno' \in {0, EIO, ENOMEM} /\ failed' \in BOOLEAN
        /\ (errno' = 0 <=> ~failed') /\ (failed => failed')
        /\ (pc' = "rollback" => failed')
        /\ ~failed' => \/ regained
                       \/ good' = orgblks..blks'-1 /\ size' = blks'
                       \/ room < blks' /\ blks' - 1 \notin good'
    <3>1. "syncFree" \in Labels /\ orgblks + 1 \in orgblks..blks /\ orgblks + 1 + 1 <= blks
      BY <1>t, <2>2 DEF Labels, Building, Reading
    <3> QED
      BY <1>t, <2>1, <3>1, WriteKeeps
  <2>4. UNCHANGED <<super, orgblks, cur, room, refused, regained>>
    BY <1>6, <2>1 DEF SyncRoot, writeBlock
  <2>5. (pc' = "syncFree" => ~failed') /\ (~failed' => cur = orgblks - 1 \/ refused)
    BY <1>t, <2>1, <2>2, <2>3 DEF IInv, SuperInv
  <2> QED
    BY <1>t, <2>1, <2>2, <2>3, <2>4, <2>5 DEF IInv, TypeInv, ErrnoInv, PlaceInv, MediumInv, SuperInv, Labels, Building, Reading
<1>7. CASE SyncFree
  <2>1. pc = "syncFree" /\ writeBlock(orgblks, 1, "super")
    BY <1>7 DEF SyncFree, At
  <2>2. /\ orgblks >= 1 /\ cur \in 0..orgblks-1 /\ orgblks + 2 <= blks
        /\ orgblks \in orgblks..blks-1
    BY <1>t, <2>1 DEF IInv, PlaceInv, Building, Reading
  <2>3. /\ pc' \in {"super", "rollback"} /\ (failed' /\ pc' = "super" => failed)
        /\ size' \in Nat /\ blks' \in Nat /\ good' \subseteq Int
        /\ orgblks <= size' /\ size' <= blks' /\ size' <= room /\ blks' >= blks
        /\ errno' \in {0, EIO, ENOMEM} /\ failed' \in BOOLEAN
        /\ (errno' = 0 <=> ~failed') /\ (failed => failed')
        /\ (pc' = "rollback" => failed')
        /\ ~failed' => \/ regained
                       \/ good' = orgblks..blks'-1 /\ size' = blks'
                       \/ room < blks' /\ blks' - 1 \notin good'
    <3>1. "super" \in Labels /\ orgblks \in orgblks..blks /\ orgblks + 1 <= blks
      BY <1>t, <2>2 DEF Labels, Building, Reading
    <3> QED
      BY <1>t, <2>1, <3>1, WriteKeeps
  <2>4. UNCHANGED <<super, orgblks, cur, room, refused, regained>>
    BY <1>7, <2>1 DEF SyncFree, writeBlock
  <2>5. (pc' = "super" => ~failed') /\ (~failed' => cur = orgblks - 1 \/ refused)
    <3>1. ~failed /\ (cur = orgblks - 1 \/ refused)
      BY <2>1 DEF IInv, SuperInv
    <3> QED
      BY <2>3, <3>1
  <2> QED
    BY <1>t, <2>1, <2>2, <2>3, <2>4, <2>5 DEF IInv, TypeInv, ErrnoInv, PlaceInv, MediumInv, SuperInv, Labels, Building, Reading
<1>8. CASE Super
  <2>1. pc = "super" /\ writeBlock(blks, 1, "end") /\ super' = IF blks \in good' THEN blks ELSE super
    BY <1>8 DEF Super, At
  <2>2. /\ orgblks >= 1 /\ cur \in 0..orgblks-1 /\ orgblks + 2 <= blks /\ super = -1
        /\ ~failed /\ (cur = orgblks - 1 \/ refused)
    BY <1>t, <2>1 DEF IInv, PlaceInv, Building, Reading, SuperInv
  <2>3. /\ pc' \in {"end", "rollback"} /\ blks' >= blks + 1
        /\ size' \in Nat /\ blks' \in Nat /\ good' \subseteq Int
        /\ orgblks <= size' /\ size' <= blks' /\ size' <= room /\ blks' >= blks
        /\ errno' \in {0, EIO, ENOMEM} /\ failed' \in BOOLEAN
        /\ (errno' = 0 <=> ~failed') /\ (failed => failed')
        /\ (pc' = "rollback" => failed')
        /\ ~failed' => \/ regained
                       \/ good' = orgblks..blks'-1 /\ size' = blks'
                       \/ room < blks' /\ blks' - 1 \notin good'
    <3>1. "end" \in Labels /\ blks \in orgblks..blks
      BY <1>t DEF Labels
    <3> QED
      BY <1>t, <2>1, <3>1, WriteKeeps
  <2>4. UNCHANGED <<orgblks, cur, room, refused, regained>>
    BY <1>8, <2>1 DEF Super, writeBlock
  \* the superblock is there when the write went through
  <2>5. blks' = blks + 1 /\ (blks \in good' => size' = blks + 1 /\ ~failed' /\ pc' = "end")
    <3>1. PICK count \in Writes(blks, 1) :
            /\ Called(count)
            /\ blks' = IF blks + 1 > blks THEN blks + 1 ELSE blks
            /\ size' = IF count > 0 /\ blks + count > size THEN blks + count ELSE size
            /\ good' = ((good \ (blks..blks+1-1)) \union (blks..blks+count-1)) \ (0..orgblks-1)
            /\ pc' = IF TARFS_IO(blks, count) = 0 THEN "end" ELSE "rollback"
      BY <2>1 DEF writeBlock, Goto
    <3>2. count \in Int /\ (count = -1 \/ count = 1)
      BY <1>t, <3>1, ReadsWritesInt DEF IInv
    <3>3. blks \in good' => count = 1
      BY <1>t, <3>1, <3>2
    <3>4. count = 1 => size' = blks + 1
      BY <1>t, <3>1
    <3>5. count = 1 => errno = 0 /\ failed' = FALSE /\ TARFS_IO(blks, count) = 0
      BY <1>t, <2>2, <3>1 DEF Called, TARFS_IO
    <3> QED
      BY <1>t, <3>1, <3>3, <3>4, <3>5
  <2>6. super' # -1 => super' = blks /\ blks \in good'
    BY <2>1, <2>2
  <2>7. super' \in Int
    BY <1>t, <2>1
  <2>8. super' # -1 => /\ pc' = "end" /\ size' = super' + 1 /\ ~failed'
                       /\ regained \/ good' = orgblks..size'-1
    <3> SUFFICES ASSUME super' # -1
                 PROVE  /\ pc' = "end" /\ size' = super' + 1 /\ ~failed'
                        /\ regained \/ good' = orgblks..size'-1
      OBVIOUS
    <3>1. pc' = "end" /\ size' = blks + 1 /\ ~failed' /\ super' = blks /\ blks \in good' /\ blks' = blks + 1
      BY <2>5, <2>6
    <3> QED
      BY <1>t, <2>3, <3>1
  <2> QED
    BY <1>t, <2>2, <2>3, <2>4, <2>7, <2>8 DEF IInv, TypeInv, ErrnoInv, PlaceInv, MediumInv, SuperInv, Labels, Building, Reading
\* the others
<1>9. CASE Added \/ Kill
  <2>1. UNCHANGED <<size, good, super, orgblks, blks, cur, room, errno, failed, refused, regained>>
    BY <1>9 DEF Added, Kill, fileVars, ioVars
  <2>2. pc # "end" /\ pc # "failed" /\ ((pc = "add" /\ pc' = "get") \/ pc' = "killed")
    BY <1>9 DEF Added, Kill, At, Goto, Running
  <2>3. super = -1 /\ pc' \in Labels
    BY <1>t, <2>2 DEF Labels, Building, Reading
  <2>4. TypeInv'
    BY <1>t, <2>1, <2>3 DEF TypeInv
  <2>5. PlaceInv'
    BY <1>t, <2>1, <2>2 DEF IInv, PlaceInv, Building, Reading
  <2>6. ErrnoInv' /\ SuperInv'
    BY <1>t, <2>1, <2>2, <2>3 DEF ErrnoInv, SuperInv
  <2>7. MediumInv'
    BY <2>1, <2>2 DEF IInv, MediumInv
  <2> QED
    BY <2>4, <2>5, <2>6, <2>7 DEF IInv
<1>10. CASE Rollback
  <2>1. /\ \/ size' = orgblks /\ good' = {} /\ super' = -1
           \/ UNCHANGED <<size, good, super>>
        /\ UNCHANGED <<orgblks, blks, cur, room, errno, failed, refused, regained>>
        /\ pc = "rollback" /\ pc' = "failed"
    BY <1>10 DEF Rollback, At, Goto, ioVars
  <2>2. super' = -1 /\ size' \in Nat /\ good' \subseteq Int /\ orgblks <= size' /\ size' <= blks /\ size' <= room
    <3>1. super = -1
      BY <1>t, <2>1
    <3>2. CASE size' = orgblks /\ good' = {} /\ super' = -1
      BY <1>t, <3>2
    <3>3. CASE UNCHANGED <<size, good, super>>
      BY <1>t, <3>1, <3>3
    <3> QED
      BY <2>1, <3>2, <3>3
  <2> QED
    BY <1>t, <2>1, <2>2 DEF IInv, TypeInv, ErrnoInv, PlaceInv, MediumInv, SuperInv, Labels, Building, Reading
<1>11. CASE Others
  <2>1. /\ pc # "end" /\ pc # "failed" /\ room' \in size..MaxBlks
        /\ regained' = (regained \/ (good # orgblks..blks-1 /\ room' > room))
        /\ UNCHANGED <<size, good, super, orgblks, blks, cur, pc, errno, failed, refused>>
    BY <1>11 DEF Others, Running, fileVars, ioVars
  <2>2. room' \in Nat /\ size <= room' /\ regained' \in BOOLEAN /\ (regained => regained')
    BY <1>t, <2>1, AndroidAssumption
  <2>3. MediumInv'
    <3> SUFFICES ASSUME ~failed, ~regained'
                 PROVE  \/ good = orgblks..blks-1 /\ size = blks
                        \/ room' < blks /\ blks - 1 \notin good
      BY <2>1 DEF MediumInv
    <3>1. ~(good # orgblks..blks-1 /\ room' > room) /\ ~regained
      BY <2>1
    <3>2. CASE good = orgblks..blks-1 /\ size = blks
      BY <3>2
    <3>3. CASE room < blks /\ blks - 1 \notin good
      <4>1. blks - 1 \in orgblks..blks-1
        BY <1>t, <3>3
      <4>2. good # orgblks..blks-1
        BY <3>3, <4>1
      <4> QED
        BY <1>t, <2>2, <3>1, <3>3, <4>2
    <3> QED
      BY <2>1, <3>1, <3>2, <3>3 DEF IInv, MediumInv
  <2> QED
    BY <1>t, <2>1, <2>2, <2>3 DEF IInv, TypeInv, ErrnoInv, PlaceInv, SuperInv
<1> QED
  BY <1>u, <1>1, <1>2, <1>3, <1>4, <1>5, <1>6, <1>7, <1>8, <1>9, <1>10, <1>11, <1>12,
     <1>13, <1>14, <1>15 DEF Next

THEOREM Invariant == Spec => []IInv
<1>1. Init => IInv
  <2> SUFFICES ASSUME Init PROVE IInv
    OBVIOUS
  <2>1. orgblks \in Nat /\ size = orgblks /\ blks = orgblks /\ room \in Nat /\ orgblks <= room
    BY AndroidAssumption DEF Init
  <2>2. /\ good = {} /\ super = -1 /\ cur = 0 /\ pc = "create"
        /\ errno = 0 /\ failed = FALSE /\ refused = FALSE /\ regained = FALSE
    BY DEF Init
  <2>3. TypeInv
    <3>1. failed \in BOOLEAN /\ refused \in BOOLEAN /\ regained \in BOOLEAN
      BY <2>2
    <3>2. errno \in {0, EIO, ENOMEM} /\ super \in Int /\ cur \in Int /\ pc \in Labels /\ good \subseteq Int
      BY <2>2 DEF Labels
    <3> QED
      BY <2>1, <3>1, <3>2 DEF TypeInv
  <2>4. ErrnoInv /\ SuperInv
    BY <2>2 DEF ErrnoInv, SuperInv
  <2>5. PlaceInv
    BY <2>1, <2>2 DEF PlaceInv, Building, Reading
  <2>6. good = orgblks..blks-1 /\ size = blks
    BY <2>1, <2>2
  <2>7. MediumInv
    BY <2>6 DEF MediumInv
  <2> QED
    BY <2>3, <2>4, <2>5, <2>7 DEF IInv
<1> QED
  BY <1>1, Step, PTL DEF Spec

(* A superblock at the end says that no call failed, that the archive was   *)
(* read to its end or to a member get does not take, and that all metadata  *)
(* is there if the medium did not shrink and grow meanwhile.                *)
THEOREM Completed == Spec => []CompletedIsWhole
<1>1. IInv => CompletedIsWhole
  BY DEF IInv, SuperInv, CompletedIsWhole
<1> QED
  BY <1>1, Invariant, PTL
=============================================================================
