------------------------- MODULE BlockClientsProofs -------------------------
(***************************************************************************)
(* Proofs about BlockClients for every set of managers, every chunk size   *)
(* of at least two and every size of archive and medium.                   *)
(*                                                                         *)
(* Neither TypeOK nor ChainsIntact is inductive alone: popping a block     *)
(* keeps the head a block number only because the chain is well formed.    *)
(***************************************************************************)
EXTENDS BlockClients, TLAPS

IInv == TypeOK /\ ChainsIntact

(* The link of a free block determines it.                                  *)
LEMMA FreeInjective == \A x, y : Free(x) = Free(y) => x = y
<1> SUFFICES ASSUME NEW x, NEW y, Free(x) = Free(y) PROVE x = y
  OBVIOUS
<1>1. Free(x).f_nextblkno = x /\ Free(y).f_nextblkno = y
  BY DEF Free
<1> QED BY <1>1

LEMMA FreeInContents ==
    \A n \in Nat \union {TARBLK_NONE} : Free(n) \in Contents
BY DEF Free, Contents

(* A manager's free list has one end.                                       *)
LEMMA ChainUnique ==
    ASSUME NEW m \in Managers, NEW e \in Int, NEW f \in Int,
           head[m] \in Nat, Chain(m, e), Chain(m, f)
    PROVE  e = f
<1>1. ASSUME NEW c \in Int, NEW d \in Int, Chain(m, c), Chain(m, d), c < d
      PROVE  FALSE
  <2>1. c \in head[m]..c /\ c \in head[m]..d
    BY <1>1 DEF Chain
  <2>2. disk[c] = Free(TARBLK_NONE) /\ disk[c] = Free(c + 1)
    BY <1>1, <2>1 DEF Chain
  <2>3. c + 1 = TARBLK_NONE
    BY <2>2, FreeInjective
  <2> QED BY <1>1, <2>3 DEF Chain, TARBLK_NONE
<1> QED BY <1>1

(* A write past the end appends, and leaves what was there.                 *)
LEMMA AppendStep ==
    ASSUME TypeOK, NEW bufp, NEW n \in Nat, n > 0, writeBlock(bufp, blks, n)
    PROVE  /\ blks' = blks + n
           /\ DOMAIN disk' = 0..(blks + n - 1)
           /\ \A b \in 0..blks-1 : disk'[b] = disk[b]
           /\ \A b \in blks..(blks + n - 1) : disk'[b] = bufp[b - blks]
<1>1. blks' = blks + n
  BY DEF writeBlock, TypeOK
<1>2. disk' = [b \in 0..blks'-1 |-> IF b \in blks..blks+n-1
                                    THEN bufp[b - blks] ELSE disk[b]]
  BY DEF writeBlock
<1> QED BY <1>1, <1>2 DEF TypeOK

(* What a refill appends is a chain from its second block to its last.      *)
LEMMA RefillChain ==
    ASSUME TypeOK, NEW m \in Managers, Refill(m)
    PROVE  /\ blks' = blks + Bulks[m]
           /\ DOMAIN disk' = 0..(blks + Bulks[m] - 1)
           /\ \A b \in 0..blks-1 : disk'[b] = disk[b]
           /\ \A b \in blks..(blks + Bulks[m] - 1) :
                 disk'[b] = Free(IF b = blks + Bulks[m] - 1
                                 THEN TARBLK_NONE ELSE b + 1)
<1>1. Bulks[m] \in Nat /\ Bulks[m] >= 2 /\ blks \in Nat
  BY BulksAssumption DEF TypeOK
<1>2. writeBlock(FreeChunk(blks, Bulks[m]), blks, Bulks[m])
  BY DEF Refill
<1>3. /\ blks' = blks + Bulks[m]
      /\ DOMAIN disk' = 0..(blks + Bulks[m] - 1)
      /\ \A b \in 0..blks-1 : disk'[b] = disk[b]
      /\ \A b \in blks..(blks + Bulks[m] - 1) :
            disk'[b] = FreeChunk(blks, Bulks[m])[b - blks]
  BY <1>1, <1>2, AppendStep
<1>4. ASSUME NEW b \in blks..(blks + Bulks[m] - 1)
      PROVE  FreeChunk(blks, Bulks[m])[b - blks]
                = Free(IF b = blks + Bulks[m] - 1 THEN TARBLK_NONE ELSE b + 1)
  <2>1. b - blks \in 0..Bulks[m]-1
    BY <1>1
  <2>2. blks + (b - blks) + 1 = b + 1
    BY <1>1
  <2>3. (b - blks = Bulks[m] - 1) <=> (b = blks + Bulks[m] - 1)
    BY <1>1
  <2> QED BY <2>1, <2>2, <2>3 DEF FreeChunk
<1> QED BY <1>3, <1>4

(* A chain that is not touched by a step stays a chain, and keeps its end.  *)
LEMMA ChainKept ==
    ASSUME TypeOK, NEW k \in Managers, HasFree(k), head'[k] = head[k],
           blks' \in Nat, blks <= blks',
           NEW f \in 0..blks-1, Chain(k, f),
           \A b \in head[k]..f : disk'[b] = disk[b]
    PROVE  /\ Chain(k, f)'
           /\ \A e \in 0..blks'-1 : Chain(k, e)' => e = f
<1>1. head[k] \in Nat
  BY DEF TypeOK, HasFree
<1>0. blks \in Nat /\ f < blks'
  BY DEF TypeOK
<1>2. Chain(k, f)'
  BY <1>0 DEF Chain
<1>3. ASSUME NEW e \in 0..blks'-1, Chain(k, e)'
      PROVE  e = f
  <2>1. CASE e < f
    <3>1. e \in head[k]..f
      BY <1>1, <1>3, <2>1 DEF Chain
    <3>2. disk'[e] = Free(e + 1)
      BY <2>1, <3>1 DEF Chain
    <3>3. disk'[e] = Free(TARBLK_NONE)
      BY <1>1, <1>3, <3>1 DEF Chain
    <3>4. e + 1 = TARBLK_NONE
      BY <3>2, <3>3, FreeInjective
    <3> QED BY <3>4 DEF TARBLK_NONE
  <2>2. CASE f < e
    <3>1. f \in head[k]..f /\ f \in head'[k]..e
      BY <1>1, <2>2 DEF Chain
    <3>2. disk'[f] = Free(f + 1)
      BY <1>3, <2>2, <3>1 DEF Chain
    <3>3. disk'[f] = Free(TARBLK_NONE)
      BY <1>2, <3>1 DEF Chain
    <3>4. f + 1 = TARBLK_NONE
      BY <3>2, <3>3, FreeInjective
    <3> QED BY <3>4 DEF TARBLK_NONE
  <2> QED BY <1>0, <1>3, <2>1, <2>2
<1> QED BY <1>2, <1>3

(* Allocation from an empty manager: a new chunk at the end of the file.    *)
LEMMA RefillStep ==
    ASSUME IInv, phase = "run", phase' = phase, orgblks' = orgblks,
           NEW m \in Managers, Fits(Bulks[m]), Refill(m), HandOut(m)
    PROVE  IInv'
<1>1. Bulks[m] \in Nat /\ Bulks[m] >= 2
  BY BulksAssumption
<1>0. PICK last \in Int : last = blks + Bulks[m] - 1
  BY <1>1 DEF IInv, TypeOK
<1>2. /\ blks' = blks + Bulks[m]
      /\ DOMAIN disk' = 0..last
      /\ \A b \in 0..blks-1 : disk'[b] = disk[b]
      /\ \A b \in blks..last :
            disk'[b] = Free(IF b = last THEN TARBLK_NONE ELSE b + 1)
  BY <1>0, RefillChain DEF IInv
<1>3. head' = [head EXCEPT ![m] = blks + 1]
  BY DEF Refill
<1>4. used' = [used EXCEPT ![m] = @ \union {blks}]
  BY DEF HandOut, NextBlock, Refill
<1>5. TypeOK
  BY DEF IInv
<1>6. TypeOK'
  <2>1. disk' \in [0..blks'-1 -> Contents]
    <3>1. \A b \in 0..last : disk'[b] \in Contents
      <4>1. ASSUME NEW b \in 0..blks-1 PROVE disk'[b] \in Contents
        BY <1>2, <1>5 DEF TypeOK
      <4>2. ASSUME NEW b \in blks..last PROVE disk'[b] \in Contents
        <5>1. (IF b = last THEN TARBLK_NONE ELSE b + 1) \in Nat \union {TARBLK_NONE}
          BY <1>0, <1>5 DEF TypeOK
        <5> QED BY <1>2, <5>1, FreeInContents
      <4> QED BY <4>1, <4>2, <1>5 DEF TypeOK
    <3>2. disk' = [b \in 0..blks'-1 |-> disk'[b]]
      BY <1>1, <1>2, <1>5 DEF TypeOK, Refill, writeBlock
    <3> QED BY <1>0, <1>1, <1>2, <1>5, <3>1, <3>2 DEF TypeOK
  <2>2. blks' \in Nat /\ orgblks' <= blks' /\ blks' <= MaxBlks
    BY <1>1, <1>2, <1>5 DEF TypeOK, Fits
  <2>3. head' \in [Managers -> Nat \union {TARBLK_NONE}]
    BY <1>3, <1>5 DEF TypeOK
  <2>4. used' \in [Managers -> SUBSET (orgblks'..blks'-1)]
    <3>1. orgblks..blks-1 \subseteq orgblks'..blks'-1 /\ blks \in orgblks'..blks'-1
      BY <1>1, <1>2, <1>5 DEF TypeOK
    <3>2. used \in [Managers -> SUBSET (orgblks..blks-1)]
      BY <1>5 DEF TypeOK
    <3> QED BY <1>4, <3>1, <3>2
  <2>5. used' \in [Managers -> SUBSET (orgblks'..MaxBlks-1)]
    BY <2>2, <2>4, <1>5, MediumAssumption DEF TypeOK
  <2>6. calls' \in [Managers -> Nat]
    BY <1>5 DEF TypeOK, HandOut
  <2> QED BY <1>5, <2>1, <2>2, <2>3, <2>4, <2>5, <2>6 DEF TypeOK
<1>7. ChainsEnd /\ ChainsFresh /\ ChainsDisjoint
  BY DEF IInv, ChainsIntact
\* the other managers' chains are where they were
<1>8. ASSUME NEW k \in Managers, k # m, HasFree(k)'
      PROVE  \E f \in 0..blks-1 :
                /\ HasFree(k) /\ Chain(k, f) /\ Chain(k, f)'
                /\ \A e \in 0..blks'-1 : Chain(k, e)' => e = f
  <2>1. HasFree(k) /\ head'[k] = head[k]
    BY <1>3, <1>5, <1>8 DEF HasFree, TypeOK
  <2>2. PICK f \in 0..blks-1 : Chain(k, f)
    BY <1>7, <2>1 DEF ChainsEnd
  <2>3. \A b \in head[k]..f : disk'[b] = disk[b]
    BY <1>2, <1>5, <2>1, <2>2 DEF TypeOK, HasFree
  <2>4. blks' \in Nat /\ blks <= blks'
    BY <1>1, <1>2, <1>5 DEF TypeOK
  <2>5. Chain(k, f)' /\ \A e \in 0..blks'-1 : Chain(k, e)' => e = f
    BY <1>5, <2>1, <2>2, <2>3, <2>4, ChainKept
  <2> QED BY <2>1, <2>2, <2>5
\* the new chain is what follows the block handed out
<1>9. head'[m] = blks + 1
  BY <1>3, <1>5 DEF TypeOK
<1>10. Chain(m, last)' /\ last \in 0..blks'-1
  <2>1. blks \in Nat
    BY <1>5 DEF TypeOK
  <2>2. last \in 0..blks'-1 /\ last < blks' /\ blks + 1 <= last
    BY <1>0, <1>1, <1>2, <2>1
  <2>3. \A b \in head'[m]..last : b \in blks..last
    BY <1>9, <2>1
  <2> QED BY <1>2, <1>9, <2>2, <2>3 DEF Chain
<1>11. ChainsEnd'
  <2> SUFFICES ASSUME NEW k \in Managers, HasFree(k)'
               PROVE  \E e \in 0..blks'-1 : Chain(k, e)'
    BY DEF ChainsEnd
  <2>1. CASE k = m
    BY <1>10, <2>1
  <2>2. CASE k # m
    BY <1>1, <1>2, <1>5, <1>8, <2>2 DEF TypeOK
  <2> QED BY <2>1, <2>2
<1>12. ChainsFresh'
  <2> SUFFICES ASSUME NEW k \in Managers, HasFree(k)', NEW e \in 0..blks'-1,
                      Chain(k, e)', NEW b \in head'[k]..e
               PROVE  /\ b >= orgblks
                      /\ \A j \in Managers : b \notin used'[j]
                      /\ \A c \in used'[k] : c < b
    BY DEF ChainsFresh
  <2>1. CASE k = m
    <3>1. b > blks /\ b >= orgblks /\ blks \in Nat /\ b \in Int
      BY <1>5, <1>9, <2>1 DEF TypeOK
    <3>2. \A j \in Managers : used[j] \subseteq orgblks..blks-1
      BY <1>5 DEF TypeOK
    <3>3. \A j \in Managers : used'[j] \subseteq used[j] \union {blks}
      BY <1>4, <1>5 DEF TypeOK
    <3>4. \A c \in (orgblks..blks-1) \union {blks} : c < b
      BY <3>1
    <3>5. \A j \in Managers : \A c \in used'[j] : c < b
      BY <3>2, <3>3, <3>4
    <3>6. ~(b < b)
      BY <3>1
    <3> QED BY <3>1, <3>5, <3>6
  <2>2. CASE k # m
    <3>1. PICK f \in 0..blks-1 : HasFree(k) /\ Chain(k, f) /\ e = f
      BY <1>8, <2>2
    <3>2. b \in head[k]..f /\ b < blks
      BY <1>3, <1>5, <2>2, <3>1 DEF TypeOK, HasFree
    <3>3. /\ b >= orgblks
          /\ \A j \in Managers : b \notin used[j]
          /\ \A c \in used[k] : c < b
      BY <1>7, <3>1, <3>2 DEF ChainsFresh
    <3>4. \A j \in Managers : used'[j] \subseteq used[j] \union {blks}
      BY <1>4, <1>5 DEF TypeOK
    <3>5. used'[k] = used[k]
      BY <1>4, <1>5, <2>2 DEF TypeOK
    <3>6. b # blks
      BY <1>5, <3>2 DEF TypeOK
    <3> QED BY <3>3, <3>4, <3>5, <3>6
  <2> QED BY <2>1, <2>2
<1>13. ChainsDisjoint'
  <2> SUFFICES ASSUME NEW j \in Managers, NEW k \in Managers, j # k,
                      HasFree(j)', HasFree(k)',
                      NEW e \in 0..blks'-1, NEW f \in 0..blks'-1,
                      Chain(j, e)', Chain(k, f)'
               PROVE  e < head'[k] \/ f < head'[j]
    BY DEF ChainsDisjoint
  <2>1. CASE j = m
    <3>1. f < blks
      BY <1>8, <1>5, <2>1 DEF TypeOK
    <3> QED BY <1>5, <1>9, <2>1, <3>1 DEF TypeOK
  <2>2. CASE k = m
    <3>1. e < blks
      BY <1>8, <1>5, <2>2 DEF TypeOK
    <3> QED BY <1>5, <1>9, <2>2, <3>1 DEF TypeOK
  <2>3. CASE j # m /\ k # m
    <3>1. /\ HasFree(j) /\ Chain(j, e) /\ e \in 0..blks-1
          /\ HasFree(k) /\ Chain(k, f) /\ f \in 0..blks-1
      BY <1>8, <2>3
    <3>2. head'[j] = head[j] /\ head'[k] = head[k]
      BY <1>3, <1>5, <2>3 DEF TypeOK
    <3> QED BY <1>7, <3>1, <3>2 DEF ChainsDisjoint
  <2> QED BY <2>1, <2>2, <2>3
<1> QED BY <1>6, <1>11, <1>12, <1>13 DEF IInv, ChainsIntact

(* Allocation from a non-empty free list: its head.                         *)
LEMMA PopStep ==
    ASSUME IInv, phase = "run", phase' = phase, orgblks' = orgblks,
           NEW m \in Managers, PopFree(m), HandOut(m)
    PROVE  IInv'
<1>1. TypeOK /\ ChainsEnd /\ ChainsFresh /\ ChainsDisjoint
  BY DEF IInv, ChainsIntact
<1>2. HasFree(m) /\ blks' = blks /\ disk' = disk
  BY DEF PopFree, HasFree
<1>3. PICK e \in 0..blks-1 : Chain(m, e)
  BY <1>1, <1>2 DEF ChainsEnd
<1>4. PICK h \in Nat : h = head[m]
  BY <1>1, <1>2 DEF TypeOK, HasFree
<1>5. h \in h..e /\ e \in 0..blks-1 /\ h <= e
  BY <1>1, <1>3, <1>4 DEF Chain, TypeOK
<1>6. disk[h] = Free(IF h = e THEN TARBLK_NONE ELSE h + 1)
  BY <1>3, <1>4, <1>5 DEF Chain
<1>7. disk[h].f_nextblkno = IF h = e THEN TARBLK_NONE ELSE h + 1
  BY <1>6 DEF Free
<1>8. head' = [head EXCEPT ![m] = IF h = e THEN TARBLK_NONE ELSE h + 1]
  BY <1>4, <1>7 DEF PopFree
<1>9. used' = [used EXCEPT ![m] = @ \union {h}]
  BY <1>2, <1>4 DEF HandOut, NextBlock, HasFree
<1>10. h >= orgblks /\ (\A k \in Managers : h \notin used[k])
  BY <1>1, <1>2, <1>3, <1>4, <1>5 DEF ChainsFresh
<1>11. TypeOK'
  <2>1. head' \in [Managers -> Nat \union {TARBLK_NONE}]
    BY <1>1, <1>8 DEF TypeOK
  <2>2. used' \in [Managers -> SUBSET (orgblks..blks-1)]
    BY <1>1, <1>5, <1>9, <1>10 DEF TypeOK
  <2>3. used' \in [Managers -> SUBSET (orgblks..MaxBlks-1)]
    BY <1>1, <2>2, MediumAssumption DEF TypeOK
  <2>4. calls' \in [Managers -> Nat]
    BY <1>1 DEF TypeOK, HandOut
  <2> QED BY <1>1, <1>2, <2>1, <2>2, <2>3, <2>4 DEF TypeOK
\* every chain after the step is one before it, the popped one less its head
<1>12. ASSUME NEW k \in Managers, HasFree(k)', NEW f \in 0..blks-1, Chain(k, f)'
       PROVE  HasFree(k) /\ Chain(k, f) /\ (k = m => f = e /\ head'[k] = h + 1)
                         /\ (k # m => head'[k] = head[k])
  <2>1. CASE k # m
    BY <1>1, <1>2, <1>8, <1>12, <2>1 DEF TypeOK, HasFree, Chain
  <2>2. CASE k = m
    <3>1. h # e /\ head'[m] = h + 1
      BY <1>1, <1>8, <1>12, <2>2 DEF TypeOK, HasFree
    <3>2. /\ h + 1 <= f
          /\ \A b \in h+1..f : disk[b] = Free(IF b = f THEN TARBLK_NONE ELSE b + 1)
      BY <1>2, <1>12, <2>2, <3>1 DEF Chain
    <3>3. \A b \in h..f : disk[b] = Free(IF b = f THEN TARBLK_NONE ELSE b + 1)
      BY <1>4, <1>6, <3>1, <3>2
    <3>4. Chain(m, f)
      BY <1>1, <1>4, <3>2, <3>3 DEF Chain, TypeOK
    <3>5. f = e
      BY <1>3, <1>4, <3>4, ChainUnique
    <3> QED BY <1>2, <2>2, <3>1, <3>4, <3>5
  <2> QED BY <2>1, <2>2
<1>13. ChainsEnd'
  <2> SUFFICES ASSUME NEW k \in Managers, HasFree(k)'
               PROVE  \E f \in 0..blks'-1 : Chain(k, f)'
    BY DEF ChainsEnd
  <2>1. CASE k = m
    <3>1. h # e /\ head'[m] = h + 1
      BY <1>1, <1>8, <2>1 DEF TypeOK, HasFree
    <3>2. Chain(m, e)'
      BY <1>1, <1>2, <1>3, <1>4, <1>5, <3>1 DEF Chain, TypeOK
    <3> QED BY <1>2, <2>1, <3>2
  <2>2. CASE k # m
    <3>1. HasFree(k) /\ head'[k] = head[k]
      BY <1>1, <1>8, <2>2 DEF TypeOK, HasFree
    <3>2. PICK f \in 0..blks-1 : Chain(k, f)
      BY <1>1, <3>1 DEF ChainsEnd
    <3>3. Chain(k, f)'
      BY <1>2, <3>1, <3>2 DEF Chain
    <3> QED BY <1>2, <3>3
  <2> QED BY <2>1, <2>2
<1>14. ChainsFresh'
  <2> SUFFICES ASSUME NEW k \in Managers, HasFree(k)', NEW f \in 0..blks-1,
                      Chain(k, f)', NEW b \in head'[k]..f
               PROVE  /\ b >= orgblks
                      /\ \A j \in Managers : b \notin used'[j]
                      /\ \A c \in used'[k] : c < b
    BY <1>2 DEF ChainsFresh
  <2>1. HasFree(k) /\ Chain(k, f) /\ head[k] \in Nat /\ b \in head[k]..f
    BY <1>1, <1>4, <1>12 DEF TypeOK, HasFree
  <2>2. /\ b >= orgblks
        /\ \A j \in Managers : b \notin used[j]
        /\ \A c \in used[k] : c < b
    BY <1>1, <2>1 DEF ChainsFresh
  <2>3. b # h /\ (k = m => h < b)
    <3>1. CASE k = m
      BY <1>4, <1>12, <3>1
    <3>2. CASE k # m
      BY <1>1, <1>2, <1>3, <1>4, <1>5, <2>1, <3>2 DEF ChainsDisjoint
    <3> QED BY <3>1, <3>2
  <2>4. \A j \in Managers : used'[j] \subseteq used[j] \union {h}
    BY <1>1, <1>9 DEF TypeOK
  <2>5. k # m => used'[k] = used[k]
    BY <1>1, <1>9 DEF TypeOK
  <2> QED BY <2>2, <2>3, <2>4, <2>5
<1>15. ChainsDisjoint'
  <2> SUFFICES ASSUME NEW j \in Managers, NEW k \in Managers, j # k,
                      HasFree(j)', HasFree(k)',
                      NEW c \in 0..blks-1, NEW f \in 0..blks-1,
                      Chain(j, c)', Chain(k, f)'
               PROVE  c < head'[k] \/ f < head'[j]
    BY <1>2 DEF ChainsDisjoint
  <2>1. HasFree(j) /\ Chain(j, c) /\ HasFree(k) /\ Chain(k, f)
    BY <1>12
  <2>2. c < head[k] \/ f < head[j]
    BY <1>1, <2>1 DEF ChainsDisjoint
  <2>3. head[j] \in Nat /\ head[k] \in Nat
    BY <1>1, <2>1 DEF TypeOK, HasFree
  <2>4. head'[j] \in {head[j], head[j] + 1} /\ head'[k] \in {head[k], head[k] + 1}
    BY <1>4, <1>12
  <2> QED BY <2>2, <2>3, <2>4
<1> QED BY <1>11, <1>13, <1>14, <1>15 DEF IInv, ChainsIntact

(* A write to a block that was handed out disturbs no free list.            *)
LEMMA WriteStep ==
    ASSUME IInv, NEW b \in AllUsed, WriteUsed(b)
    PROVE  IInv'
<1>1. TypeOK /\ ChainsEnd /\ ChainsFresh /\ ChainsDisjoint /\ phase = "run"
  BY DEF IInv, ChainsIntact, WriteUsed
<1>2. PICK o \in Managers : b \in used[o]
  BY DEF AllUsed
<1>3. b \in orgblks..blks-1
  BY <1>1, <1>2 DEF TypeOK
<1>4. blks' = blks
  BY <1>1, <1>3 DEF WriteUsed, writeBlock, TypeOK
<1>5. disk' = [c \in 0..blks-1 |-> IF c \in b..b+1-1
                                    THEN [i \in 0..0 |-> DataBlock][c - b] ELSE disk[c]]
  BY <1>4 DEF WriteUsed, writeBlock
<1>6. disk' = [c \in 0..blks-1 |-> IF c = b THEN DataBlock ELSE disk[c]]
  BY <1>1, <1>3, <1>5 DEF TypeOK
<1>7. TypeOK'
  BY <1>1, <1>4, <1>6 DEF TypeOK, Contents, WriteUsed
\* a chain before is one after, and is the only one of its manager
<1>8. ASSUME NEW k \in Managers, HasFree(k)
      PROVE  \E f \in 0..blks-1 :
                /\ Chain(k, f) /\ Chain(k, f)'
                /\ \A e \in 0..blks'-1 : Chain(k, e)' => e = f
  <2>1. PICK f \in 0..blks-1 : Chain(k, f)
    BY <1>1, <1>8 DEF ChainsEnd
  <2>2. \A c \in head[k]..f : c # b
    BY <1>1, <1>2, <1>8, <2>1 DEF ChainsFresh
  <2>3. \A c \in head[k]..f : disk'[c] = disk[c]
    BY <1>1, <1>6, <1>8, <2>1, <2>2 DEF TypeOK, HasFree
  <2>4. head'[k] = head[k] /\ blks' \in Nat /\ blks <= blks'
    BY <1>1, <1>4 DEF TypeOK, WriteUsed
  <2> QED BY <1>1, <1>8, <2>1, <2>3, <2>4, ChainKept
<1>9. head' = head /\ used' = used /\ orgblks' = orgblks
  BY DEF WriteUsed
<1>10. \A k \in Managers : HasFree(k)' = HasFree(k)
  BY <1>9 DEF HasFree
<1>11. ChainsEnd'
  BY <1>4, <1>8, <1>10 DEF ChainsEnd
<1>12. ChainsFresh'
  BY <1>1, <1>4, <1>8, <1>9, <1>10 DEF ChainsFresh
<1>13. ChainsDisjoint'
  BY <1>1, <1>4, <1>8, <1>9, <1>10 DEF ChainsDisjoint
<1> QED BY <1>7, <1>11, <1>12, <1>13 DEF IInv, ChainsIntact

(* The steps after which mkfs no longer runs keep the types.                *)
LEMMA CompleteStep == ASSUME IInv, Complete PROVE IInv'
<1>1. TypeOK /\ writeBlock([i \in 0..0 |-> SuperBlock], blks, 1)
  BY DEF IInv, Complete
<1>2. blks' = blks + 1
  BY <1>1, AppendStep
<1>3. disk' = [b \in 0..blks'-1 |-> IF b \in blks..blks+1-1
                                    THEN [i \in 0..0 |-> SuperBlock][b - blks] ELSE disk[b]]
  BY <1>1 DEF writeBlock
<1>4. disk' = [b \in 0..blks'-1 |-> IF b = blks THEN SuperBlock ELSE disk[b]]
  BY <1>1, <1>2, <1>3 DEF TypeOK
<1>5. disk' \in [0..blks'-1 -> Contents]
  BY <1>1, <1>2, <1>4 DEF TypeOK, Contents
<1>6. TypeOK'
  BY <1>1, <1>2, <1>5 DEF TypeOK, Complete, Fits
<1> QED BY <1>6 DEF IInv, ChainsIntact, Complete

LEMMA FailStep == ASSUME IInv, Fail PROVE IInv'
<1>1. disk' \in [0..blks'-1 -> Contents]
  BY DEF IInv, TypeOK, Fail, rollback
<1>2. blks' \in Nat /\ blks' = orgblks /\ orgblks' = orgblks /\ orgblks <= blks
  BY DEF IInv, TypeOK, Fail, rollback
<1>3. blks' <= MaxBlks
  BY <1>2, MediumAssumption DEF IInv, TypeOK
<1>4. TypeOK'
  BY <1>1, <1>2, <1>3 DEF IInv, TypeOK, Fail, rollback
<1> QED BY <1>4 DEF IInv, ChainsIntact, Fail

LEMMA KillInRefillStep ==
    ASSUME IInv, NEW m \in Managers, NEW k \in 1..Bulks[m]-1, KillInRefill(m, k)
    PROVE  IInv'
<1>1. TypeOK /\ Bulks[m] \in Nat /\ k \in Nat /\ k > 0
  BY BulksAssumption DEF IInv
<1>2. /\ blks' = blks + k
      /\ \A b \in 0..blks-1 : disk'[b] = disk[b]
      /\ \A b \in blks..(blks + k - 1) : disk'[b] = FreeChunk(blks, Bulks[m])[b - blks]
  BY <1>1, AppendStep DEF KillInRefill
<1>3. ASSUME NEW b \in 0..blks'-1 PROVE disk'[b] \in Contents
  <2>1. CASE b < blks
    BY <1>1, <1>2, <2>1 DEF TypeOK
  <2>2. CASE b >= blks
    <3> DEFINE i == b - blks
               n == IF i = Bulks[m] - 1 THEN TARBLK_NONE ELSE blks + i + 1
    <3>1. b - blks \in 0..Bulks[m]-1 /\ b \in blks..(blks + k - 1)
      BY <1>1, <1>2, <2>2 DEF TypeOK
    <3>2. disk'[b] = Free(n)
      BY <1>2, <3>1 DEF FreeChunk
    <3>3. n \in Nat \union {TARBLK_NONE}
      BY <1>1, <3>1 DEF TypeOK
    <3> QED BY <3>2, <3>3, FreeInContents
  <2> QED BY <1>1, <1>2, <2>1, <2>2 DEF TypeOK
<1>4. disk' \in [0..blks'-1 -> Contents]
  BY <1>3 DEF KillInRefill, writeBlock
<1>5. TypeOK'
  BY <1>1, <1>2, <1>4 DEF TypeOK, KillInRefill, Fits
<1> QED BY <1>5 DEF IInv, ChainsIntact, KillInRefill

LEMMA AllocStep == ASSUME IInv, NEW m \in Managers, Alloc(m) PROVE IInv'
<1>1. phase = "run" /\ phase' = phase /\ orgblks' = orgblks /\ HandOut(m)
  BY DEF Alloc, allocBlock
<1>2. CASE Refill(m)
  <2>1. Fits(Bulks[m])
    BY <1>2 DEF Alloc, Refill, HasFree
  <2> QED BY <1>1, <1>2, <2>1, RefillStep
<1>3. CASE PopFree(m)
  BY <1>1, <1>3, PopStep
<1> QED BY <1>2, <1>3 DEF Alloc, allocBlock
-----------------------------------------------------------------------------
LEMMA InitIInv == ClientInit => IInv
<1> SUFFICES ASSUME ClientInit PROVE IInv
  OBVIOUS
<1>1. PICK n \in 1..MaxBlks : SpaceInit(n)
  BY DEF ClientInit
<1>2. TypeOK
  BY <1>1, MediumAssumption DEF ClientInit, SpaceInit, TypeOK, Contents
<1>3. \A m \in Managers : ~HasFree(m)
  BY <1>1 DEF SpaceInit, HasFree
<1> QED BY <1>2, <1>3 DEF IInv, ChainsIntact, ChainsEnd, ChainsFresh, ChainsDisjoint

LEMMA NextIInv == IInv /\ [ClientNext]_vars => IInv'
<1> SUFFICES ASSUME IInv, [ClientNext]_vars PROVE IInv'
  OBVIOUS
<1>1. ASSUME NEW m \in Managers, Alloc(m) PROVE IInv'
  BY <1>1, AllocStep
<1>2. ASSUME NEW b \in AllUsed, WriteUsed(b) PROVE IInv'
  BY <1>2, WriteStep
<1>3. CASE Complete
  BY <1>3, CompleteStep
<1>4. CASE Fail
  BY <1>4, FailStep
<1>5. CASE Kill
  BY <1>5 DEF IInv, TypeOK, ChainsIntact, Kill, spaceVars
<1>6. ASSUME NEW m \in Managers, NEW k \in 1..Bulks[m]-1, KillInRefill(m, k)
      PROVE  IInv'
  BY <1>6, KillInRefillStep
<1>7. CASE UNCHANGED vars
  BY <1>7 DEF IInv, TypeOK, ChainsIntact, ChainsEnd, ChainsFresh, ChainsDisjoint,
              HasFree, Chain, Fits, vars
<1> QED BY <1>1, <1>2, <1>3, <1>4, <1>5, <1>6, <1>7 DEF ClientNext

LEMMA Inductive == ClientSpec => []IInv
BY InitIInv, NextIInv, PTL DEF ClientSpec

(* The type invariant of the block layer.                                   *)
THEOREM TypeCorrect == ClientSpec => []TypeOK
<1>1. IInv => TypeOK
  BY DEF IInv
<1> QED BY <1>1, Inductive, PTL

(* The free lists in the file stay well formed, disjoint and unused while   *)
(* mkfs runs, whatever the chunk sizes and the order of refills.            *)
THEOREM ChainsCorrect == ClientSpec => []ChainsIntact
<1>1. IInv => ChainsIntact
  BY DEF IInv
<1> QED BY <1>1, Inductive, PTL
-----------------------------------------------------------------------------
(* What an allocation returns, and what it leaves alone.                    *)
LEMMA AllocFresh ==
    ASSUME IInv, NEW m \in Managers, Alloc(m)
    PROVE  /\ NextBlock(m) \in orgblks..blks'-1
           /\ \A k \in Managers : NextBlock(m) \notin used[k]
           /\ \A c \in used[m] : c < NextBlock(m)
           /\ HandOut(m)
           /\ blks <= blks'
           /\ \A b \in 0..blks-1 : b \in DOMAIN disk' /\ disk'[b] = disk[b]
<1>1. TypeOK /\ ChainsEnd /\ ChainsFresh
  BY DEF IInv, ChainsIntact, Alloc
<1>2. HandOut(m)
  BY DEF Alloc, allocBlock
<1>3. CASE Refill(m)
  <2>1. NextBlock(m) = blks
    BY <1>3 DEF NextBlock, Refill
  <2>2. Bulks[m] \in Nat /\ Bulks[m] >= 2
    BY BulksAssumption
  <2>3. /\ blks' = blks + Bulks[m]
        /\ DOMAIN disk' = 0..(blks + Bulks[m] - 1)
        /\ \A b \in 0..blks-1 : disk'[b] = disk[b]
    BY <1>1, <1>3, RefillChain
  <2>4. used \in [Managers -> SUBSET (orgblks..blks-1)]
    BY <1>1 DEF Alloc, TypeOK
  <2> QED BY <1>1, <1>2, <2>1, <2>2, <2>3, <2>4 DEF TypeOK
<1>4. CASE PopFree(m)
  <2>1. HasFree(m) /\ NextBlock(m) = head[m] /\ blks' = blks /\ disk' = disk
    BY <1>4 DEF PopFree, HasFree, NextBlock
  <2>2. PICK e \in 0..blks-1 : Chain(m, e)
    BY <1>1, <2>1 DEF ChainsEnd
  <2>3. head[m] \in Nat /\ head[m] \in head[m]..e /\ head[m] < blks
    BY <1>1, <2>1, <2>2 DEF TypeOK, HasFree, Chain
  <2>4. /\ head[m] >= orgblks
        /\ \A k \in Managers : head[m] \notin used[k]
        /\ \A c \in used[m] : c < head[m]
    BY <1>1, <2>1, <2>2, <2>3 DEF ChainsFresh
  <2> QED BY <1>1, <1>2, <2>1, <2>3, <2>4 DEF TypeOK
<1> QED BY <1>3, <1>4 DEF Alloc, allocBlock

(* Only an allocation hands out blocks.                                     *)
LEMMA OnlyAllocGives ==
    ASSUME [ClientNext]_vars
    PROVE  (\E m \in Managers : Alloc(m)) \/ UNCHANGED <<orgblks, used, calls>>
BY DEF ClientNext, WriteUsed, Complete, Fail, rollback, Kill, KillInRefill,
       spaceVars, vars

(* allocBlock returns a block of the file, past the archive, that was never *)
(* handed out before, by this manager or by another.                        *)
THEOREM FreshBlocks == ClientSpec => FreshBlock
<1> DEFINE Fresh ==
            \A m \in Managers : Alloc(m) =>
                NextBlock(m) \in orgblks..blks'-1 /\ NextBlock(m) \notin AllUsed
<1>1. ASSUME IInv, NEW m \in Managers, Alloc(m)
      PROVE  NextBlock(m) \in orgblks..blks'-1 /\ NextBlock(m) \notin AllUsed
  BY <1>1, AllocFresh DEF AllUsed
<1>2. IInv /\ [ClientNext]_vars => [Fresh]_vars
  BY <1>1
<1> QED BY <1>2, Inductive, PTL DEF ClientSpec, FreshBlock

(* No step changes a block of the archive or cuts the file below it.        *)
LEMMA ArchiveKept ==
    ASSUME IInv, [ClientNext]_vars
    PROVE  /\ orgblks' = orgblks
           /\ \A b \in 0..orgblks-1 : b \in DOMAIN disk' /\ disk'[b] = disk[b]
<1>1. TypeOK
  BY DEF IInv
<1>2. 0..orgblks-1 \subseteq 0..blks-1
  BY <1>1 DEF TypeOK
<1>3. ASSUME NEW m \in Managers, Alloc(m)
      PROVE  /\ orgblks' = orgblks
             /\ \A b \in 0..orgblks-1 : b \in DOMAIN disk' /\ disk'[b] = disk[b]
  BY <1>2, <1>3, AllocFresh DEF Alloc, allocBlock
<1>4. ASSUME NEW b \in AllUsed, WriteUsed(b)
      PROVE  /\ orgblks' = orgblks
             /\ \A c \in 0..orgblks-1 : c \in DOMAIN disk' /\ disk'[c] = disk[c]
  <2>1. b >= orgblks /\ b \in Nat /\ b < blks
    BY <1>1, <1>4 DEF WriteUsed, AllUsed, TypeOK
  <2>2. \A c \in 0..orgblks-1 : c \notin b..b+1-1
    BY <1>1, <2>1 DEF TypeOK
  <2>3. blks' = blks
    BY <1>1, <1>4, <2>1 DEF WriteUsed, writeBlock, TypeOK
  <2> QED BY <1>2, <1>4, <2>2, <2>3 DEF WriteUsed, writeBlock
<1>5. CASE Complete
  <2>1. /\ DOMAIN disk' = 0..(blks + 1 - 1)
        /\ \A b \in 0..blks-1 : disk'[b] = disk[b]
    BY <1>1, <1>5, AppendStep DEF Complete
  <2> QED BY <1>1, <1>2, <1>5, <2>1 DEF Complete, TypeOK
<1>6. CASE Fail
  BY <1>6 DEF Fail, rollback
<1>7. CASE Kill
  BY <1>1, <1>2, <1>7 DEF Kill, spaceVars, TypeOK
<1>8. ASSUME NEW m \in Managers, NEW k \in 1..Bulks[m]-1, KillInRefill(m, k)
      PROVE  /\ orgblks' = orgblks
             /\ \A b \in 0..orgblks-1 : b \in DOMAIN disk' /\ disk'[b] = disk[b]
  <2>1. k \in Nat /\ k > 0
    BY BulksAssumption
  <2>2. /\ DOMAIN disk' = 0..(blks + k - 1)
        /\ \A b \in 0..blks-1 : disk'[b] = disk[b]
    BY <1>1, <1>8, <2>1, AppendStep DEF KillInRefill
  <2> QED BY <1>1, <1>2, <1>8, <2>1, <2>2 DEF KillInRefill, TypeOK
<1>9. CASE UNCHANGED vars
  BY <1>1, <1>2, <1>9 DEF vars, TypeOK
<1> QED BY <1>3, <1>4, <1>5, <1>6, <1>7, <1>8, <1>9 DEF ClientNext

(* mkfs never alters the archive it describes, completed, failed or killed. *)
THEOREM ArchiveUntouched == ClientSpec => TarUntouched
<1> DEFINE Kept == /\ orgblks' = orgblks
                   /\ \A b \in 0..orgblks-1 : b \in DOMAIN disk' /\ disk'[b] = disk[b]
<1>1. IInv /\ [ClientNext]_vars => [Kept]_vars
  BY ArchiveKept
<1> QED BY <1>1, Inductive, PTL DEF ClientSpec, TarUntouched

(* The chunked allocator implements the pool of fresh blocks.               *)
THEOREM PoolRefinement == ClientSpec => ImplementsPool
<1>1. ClientInit => Pool!PoolInit
  BY DEF ClientInit, SpaceInit, Pool!PoolInit
<1>2. IInv /\ [ClientNext]_vars => [Pool!PoolNext]_<<orgblks, used, calls>>
  <2>1. SUFFICES ASSUME IInv, [ClientNext]_vars
               PROVE  [Pool!PoolNext]_<<orgblks, used, calls>>
    OBVIOUS
  <2>3. CASE UNCHANGED <<orgblks, used, calls>>
    BY <2>3
  <2>2. ASSUME NEW m \in Managers, Alloc(m) PROVE Pool!PoolNext
    <3>0. NextBlock(m) >= orgblks /\ orgblks' = orgblks
      BY <2>1, <2>2, AllocFresh DEF Alloc, allocBlock, IInv, TypeOK
    <3>1. Pool!Give(m, NextBlock(m))
      BY <2>1, <2>2, <3>0, AllocFresh DEF Pool!Give, HandOut
    <3>2. IInv'
      BY <2>1, <2>2, AllocStep
    <3>3. NextBlock(m) \in 0..MaxBlks
      <4>1. NextBlock(m) \in orgblks..blks'-1
        BY <2>1, <2>2, AllocFresh
      <4>2. orgblks \in Nat /\ blks' \in Nat /\ blks' <= MaxBlks
        BY <2>1, <3>2 DEF IInv, TypeOK
      <4> QED BY <4>1, <4>2, MediumAssumption
    <3> QED BY <3>1, <3>3 DEF Pool!PoolNext
  <2> QED BY <2>1, <2>2, <2>3, OnlyAllocGives
<1> QED BY <1>1, <1>2, Inductive, PTL DEF ClientSpec, ImplementsPool, Pool!PoolSpec
=============================================================================
