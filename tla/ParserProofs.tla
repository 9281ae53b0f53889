----------------------------- MODULE ParserProofs -----------------------------
(***************************************************************************)
(* Proofs about Parser for every archive: where tar(1) puts each member's  *)
(* blocks, and that get moves from one member's header to the next.        *)
(***************************************************************************)
EXTENDS Parser, FiniteSets, FiniteSetTheorems, SequenceTheorems, TLAPS
-----------------------------------------------------------------------------
(* Numbers: a set of them has a least one.                                  *)
LEMMA Least ==
    ASSUME NEW T \in SUBSET Nat, T # {}
    PROVE  \E x \in T : \A y \in T : x <= y
<1> DEFINE F == {0..n : n \in T}
<1>1. F \subseteq FiniteSubsetsOf(Nat) /\ F # {}
  <2>1. ASSUME NEW n \in T PROVE 0..n \in FiniteSubsetsOf(Nat)
    <3>1. n \in Int /\ 0 \in Int /\ 0..n \subseteq Nat
      OBVIOUS
    <3>2. IsFiniteSet(0..n)
      BY <3>1, FS_Interval
    <3> QED
      BY <3>1, <3>2 DEF FiniteSubsetsOf
  <2> QED
    BY <2>1
<1>2. IsWellFoundedOn(StrictSubsetOrdering(Nat), FiniteSubsetsOf(Nat))
  BY FS_StrictSubsetOrderingWellFounded
<1>3. PICK I \in F : \A J \in F : ~(<<J, I>> \in StrictSubsetOrdering(Nat))
  <2> HIDE DEF F
  <2> QED
    BY <1>1, <1>2, WFMin
<1>4. PICK x \in T : I = 0..x
  OBVIOUS
<1>5. ASSUME NEW y \in T, y < x PROVE FALSE
  <2>1. 0..y \in F /\ 0..y \subseteq Nat /\ I \subseteq Nat
    BY <1>4
  <2>2. 0..y \subseteq I /\ 0..y # I
    BY <1>4, <1>5
  <2>3. <<0..y, I>> \in StrictSubsetOrdering(Nat)
    BY <2>1, <2>2 DEF StrictSubsetOrdering
  <2> QED
    BY <1>3, <2>1, <2>3
<1> QED
  BY <1>5

(* So what holds of 0, and of a number when it does of the one below, holds *)
(* of all up to n: such a set of them has no first exception.               *)
LEMMA UpTo ==
    ASSUME NEW n \in Nat, NEW T, 0 \in T,
           \A i \in 1..n : i - 1 \in T => i \in T
    PROVE  0..n \subseteq T
<1>1. SUFFICES ASSUME (0..n) \ T # {} PROVE FALSE
  OBVIOUS
<1>2. PICK x \in (0..n) \ T : \A y \in (0..n) \ T : x <= y
  <2>1. (0..n) \ T \in SUBSET Nat
    OBVIOUS
  <2> QED
    BY <1>1, <2>1, Least
<1>3. x # 0 /\ x \in 1..n /\ x - 1 \in 0..n
  BY <1>2
<1>4. x - 1 \in T
  BY <1>2, <1>3
<1> QED
  BY <1>2, <1>3, <1>4
-----------------------------------------------------------------------------

MemberRecords == [path : Seq(STRING) \ {<<>>}, flag : Supported \union Unsupported,
                  size : Nat, long : BOOLEAN]
BlockRecords == [flag : Supported \union Unsupported \union {LONGNAME, "?"},
                 path : Seq(STRING) \union {<<"t">>, <<"@">>}, size : Nat]

(* The blocks of the first k members of ms.                                 *)
WrittenTo(ms, k) == WrittenAll(SubSeq(ms, 1, k))
-----------------------------------------------------------------------------
(* FlattenSeq puts one sequence after the other.                            *)
Flat(f, s, n, S) ==
    /\ f \in [0..n -> Seq(S)] /\ f[0] = <<>>
    /\ \A k \in 1..n : f[k] = f[k-1] \o s[k]
    /\ \A k \in 0..n : FlattenSeq([i \in 1..k |-> s[i]]) = f[k]

LEMMA FlattenIs ==
    ASSUME NEW S, NEW n \in Nat, NEW s \in [1..n -> Seq(S)]
    PROVE  \E f : Flat(f, s, n, S)
<1> DEFINE Sums(f, k) == /\ f \in [0..k -> Seq(S)] /\ f[0] = <<>>
                         /\ \A i \in 1..k : f[i] = f[i-1] \o s[i]
           T == {k \in 0..n : \E f : Sums(f, k)}
<1>1. 0 \in T
  <2> DEFINE f == [i \in 0..0 |-> <<>>]
  <2>1. Sums(f, 0)
    BY EmptySeq
  <2> HIDE DEF f, Sums
  <2> QED
    BY <2>1
<1>2. ASSUME NEW k \in 1..n, k - 1 \in T PROVE k \in T
  <2>1. PICK f : Sums(f, k - 1)
    BY <1>2
  <2> DEFINE g == [i \in 0..k |-> IF i < k THEN f[i] ELSE f[k-1] \o s[k]]
  <2>2. \A i \in 0..k-1 : i \in 0..k /\ g[i] = f[i] /\ f[i] \in Seq(S)
    BY <2>1
  <2>3. g[k] = f[k-1] \o s[k] /\ k - 1 \in 0..k-1
    OBVIOUS
  <2>4. g[k] \in Seq(S)
    <3>1. f[k-1] \in Seq(S) /\ s[k] \in Seq(S)
      BY <2>2, <2>3
    <3> QED
      BY <2>3, <3>1, ConcatProperties
  <2>5. g \in [0..k -> Seq(S)]
    BY <2>1, <2>4
  <2>6. ASSUME NEW i \in 1..k PROVE g[i] = g[i-1] \o s[i]
    <3>1. CASE i = k
      BY <2>2, <2>3, <3>1
    <3>2. CASE i # k
      <4>1. i \in 1..k-1 /\ i \in 0..k-1 /\ i - 1 \in 0..k-1
        BY <3>2
      <4>2. f[i] = f[i-1] \o s[i]
        BY <2>1, <4>1
      <4> HIDE DEF g
      <4> QED
        BY <2>2, <4>1, <4>2
    <3> QED
      BY <3>1, <3>2
  <2>7. g[0] = <<>>
    BY <2>1
  <2>8. Sums(g, k)
    <3> HIDE DEF g
    <3> QED
      BY <2>5, <2>6, <2>7
  <2>9. k \in 0..n
    OBVIOUS
  <2> HIDE DEF g, Sums
  <2> QED
    BY <2>8, <2>9
<1>3. n \in T
  <2> HIDE DEF T
  <2>1. 0..n \subseteq T
    BY <1>1, <1>2, UpTo
  <2> QED
    BY <2>1
<1>4. PICK f : Sums(f, n)
  BY <1>3
<1>5. ASSUME NEW k \in 0..n PROVE FlattenSeq([i \in 1..k |-> s[i]]) = f[k]
  <2> DEFINE sk == [i \in 1..k |-> s[i]]
             Walks(g) == g = [i \in 1..k |-> IF i = 1 THEN sk[i] ELSE g[i-1] \o sk[i]]
             flatten == CHOOSE g : Walks(g)
             w == [i \in 1..k |-> f[i]]
  <2>1. k \in Nat /\ sk \in Seq(Seq(S)) /\ Len(sk) = k
    OBVIOUS
  <2>2. CASE k = 0
    <3>1. sk = <<>>
      BY <2>1, <2>2, EmptySeq
    <3>2. FlattenSeq(sk) = sk
      BY <2>1, <2>2 DEF FlattenSeq
    <3> QED
      BY <1>4, <2>2, <3>1, <3>2
  <2>3. CASE k # 0
    <3>1. FlattenSeq(sk) = flatten[k]
      BY <2>1, <2>3 DEF FlattenSeq
    <3>2. ASSUME NEW i \in 1..k
          PROVE  w[i] = IF i = 1 THEN sk[i] ELSE w[i-1] \o sk[i]
      <4>1. i \in 1..n /\ w[i] = f[i] /\ sk[i] = s[i] /\ s[i] \in Seq(S)
        OBVIOUS
      <4>2. f[i] = f[i-1] \o s[i]
        BY <1>4, <4>1
      <4>3. CASE i = 1
        <5>1. f[i-1] = <<>>
          BY <1>4, <4>3
        <5> QED
          BY <4>1, <4>2, <4>3, <5>1, ConcatEmptySeq
      <4>4. CASE i # 1
        <5>1. i - 1 \in 1..k
          BY <4>4
        <5> QED
          BY <4>1, <4>2, <4>4, <5>1
      <4> QED
        BY <4>3, <4>4
    <3>3. Walks(w)
      <4>1. [i \in 1..k |-> IF i = 1 THEN sk[i] ELSE w[i-1] \o sk[i]] = [i \in 1..k |-> w[i]]
        <5> HIDE DEF w, sk
        <5> QED
          BY <3>2
      <4>2. w = [i \in 1..k |-> w[i]]
        OBVIOUS
      <4> HIDE DEF w, sk
      <4> QED
        BY <4>1, <4>2
    <3>4. Walks(flatten)
      <4> HIDE DEF w, Walks
      <4> QED
        BY <3>3
    <3> HIDE DEF flatten, sk, w
    <3>5. ASSUME NEW i \in 1..k
          PROVE  flatten[i] = IF i = 1 THEN sk[i] ELSE flatten[i-1] \o sk[i]
      BY <3>4
    <3> DEFINE U == {0} \union {i \in 1..k : flatten[i] = w[i]}
    <3>6. ASSUME NEW i \in 1..k, i - 1 \in U PROVE i \in U
      <4>1. CASE i = 1
        BY <3>2, <3>5, <4>1
      <4>2. CASE i # 1
        <5>1. i - 1 \in 1..k /\ flatten[i-1] = w[i-1]
          BY <3>6, <4>2
        <5> QED
          BY <3>2, <3>5, <4>2, <5>1
      <4> QED
        BY <4>1, <4>2
    <3>7. 0 \in U
      OBVIOUS
    <3> HIDE DEF U
    <3>8. 0..k \subseteq U
      BY <2>1, <3>6, <3>7, UpTo
    <3>9. k \in 1..k /\ k \in 0..k
      BY <2>1, <2>3
    <3>10. flatten[k] = w[k]
      BY <3>8, <3>9 DEF U
    <3>11. w[k] = f[k]
      BY <3>9 DEF w
    <3> QED
      BY <3>1, <3>10, <3>11 DEF sk
  <2> QED
    BY <2>2, <2>3
<1>6. Flat(f, s, n, S)
  <2> HIDE DEF T
  <2> QED
    BY <1>4, <1>5 DEF Flat
<1> QED
  BY <1>6
-----------------------------------------------------------------------------
(* The blocks of a member: its long name, its header, its data.             *)
NameBlks(m) == IF m.long THEN 2 ELSE 0
DataOf(m) == IF HasData(m) THEN m.size ELSE 0

LEMMA WrittenIs ==
    ASSUME NEW m \in MemberRecords
    PROVE  /\ NameBlks(m) \in Nat /\ DataOf(m) \in Nat
           /\ Written(m) \in Seq(BlockRecords)
           /\ Len(Written(m)) = NameBlks(m) + 1 + DataOf(m)
           /\ Written(m)[NameBlks(m) + 1] = Header(m)
           /\ m.long => Written(m)[1] = LongHeader /\ Written(m)[2].path = m.path
<1> DEFINE name == IF m.long THEN <<LongHeader, [Text EXCEPT !.path = m.path]>> ELSE <<>>
           data == [i \in 1..DataOf(m) |-> Text]
<1>1. /\ m.path \in Seq(STRING) /\ m.flag \in Supported \union Unsupported /\ m.size \in Nat
      /\ m.long \in BOOLEAN
  BY DEF MemberRecords
<1>2. NameBlks(m) \in Nat /\ DataOf(m) \in Nat
  BY <1>1 DEF NameBlks, DataOf
<1>3. Text \in BlockRecords /\ LongHeader \in BlockRecords /\ Header(m) \in BlockRecords
  BY <1>1 DEF Text, LongHeader, Header, BlockRecords
<1>4. /\ name \in Seq(BlockRecords) /\ Len(name) = NameBlks(m)
      /\ m.long => name[1] = LongHeader /\ name[2].path = m.path
  <2> DEFINE t == [Text EXCEPT !.path = m.path]
  <2>1. t \in BlockRecords /\ t.path = m.path
    BY <1>1, <1>3 DEF Text, BlockRecords
  <2> HIDE DEF t
  <2>2. CASE m.long
    <3>1. name = <<LongHeader, t>>
      BY <2>2 DEF t
    <3> HIDE DEF name
    <3> QED
      BY <1>3, <2>1, <2>2, <3>1 DEF NameBlks
  <2>3. CASE ~m.long
    BY <2>3, EmptySeq DEF NameBlks
  <2> QED
    BY <2>2, <2>3
<1>5. data \in Seq(BlockRecords) /\ Len(data) = DataOf(m)
  BY <1>2, <1>3
<1>6. Written(m) = (name \o <<Header(m)>>) \o data
  BY DEF Written, DataOf
<1>7. <<Header(m)>> \in Seq(BlockRecords) /\ Len(<<Header(m)>>) = 1 /\ <<Header(m)>>[1] = Header(m)
  BY <1>3
<1> HIDE DEF name, data
<1> DEFINE head == name \o <<Header(m)>>
<1>8. /\ head \in Seq(BlockRecords) /\ Len(head) = NameBlks(m) + 1
      /\ head[NameBlks(m) + 1] = Header(m)
      /\ \A i \in 1..NameBlks(m) : head[i] = name[i]
  <2>1. /\ head \in Seq(BlockRecords) /\ Len(head) = NameBlks(m) + 1
        /\ \A i \in 1..NameBlks(m) + 1 :
              head[i] = IF i <= NameBlks(m) THEN name[i] ELSE <<Header(m)>>[i - NameBlks(m)]
    BY <1>4, <1>7, ConcatProperties
  <2> HIDE DEF head
  <2>2. NameBlks(m) + 1 \in 1..NameBlks(m) + 1 /\ NameBlks(m) + 1 - NameBlks(m) = 1
    BY <1>2
  <2>3. head[NameBlks(m) + 1] = <<Header(m)>>[1]
    BY <1>2, <2>1, <2>2
  <2>4. \A i \in 1..NameBlks(m) : head[i] = name[i]
    BY <1>2, <2>1
  <2> QED
    BY <1>7, <2>1, <2>3, <2>4
<1> HIDE DEF head
<1>9. /\ head \o data \in Seq(BlockRecords) /\ Len(head \o data) = NameBlks(m) + 1 + DataOf(m)
      /\ \A i \in 1..NameBlks(m) + 1 : (head \o data)[i] = head[i]
  <2>1. /\ head \o data \in Seq(BlockRecords) /\ Len(head \o data) = Len(head) + Len(data)
        /\ \A i \in 1..Len(head) + Len(data) :
              (head \o data)[i] = IF i <= Len(head) THEN head[i] ELSE data[i - Len(head)]
    BY <1>5, <1>8, ConcatProperties
  <2> QED
    BY <1>2, <1>5, <1>8, <2>1
<1>10. Written(m) = head \o data
  BY <1>6 DEF head
<1>11. NameBlks(m) + 1 \in 1..NameBlks(m) + 1
  BY <1>2
<1>12. m.long => 1 \in 1..NameBlks(m) /\ 2 \in 1..NameBlks(m) /\ 1 \in 1..NameBlks(m)+1 /\ 2 \in 1..NameBlks(m)+1
  BY DEF NameBlks
<1> QED
  BY <1>2, <1>4, <1>8, <1>9, <1>10, <1>11, <1>12

(* A block of member k in the archive is where the blocks of those before   *)
(* it end.                                                                  *)
LEMMA Layout ==
    ASSUME NEW ms \in Seq(MemberRecords)
    PROVE  /\ WrittenAll(ms) \in Seq(BlockRecords) /\ WrittenTo(ms, Len(ms)) = WrittenAll(ms)
           /\ WrittenTo(ms, 0) = <<>>
           /\ \A k \in 0..Len(ms) : Len(WrittenTo(ms, k)) \in Nat
           /\ \A k \in 1..Len(ms) :
                 /\ Len(WrittenTo(ms, k)) = Len(WrittenTo(ms, k-1)) + Len(Written(ms[k]))
                 /\ Len(WrittenTo(ms, k)) <= Len(WrittenAll(ms))
                 /\ \A i \in 1..Len(Written(ms[k])) :
                       WrittenAll(ms)[Len(WrittenTo(ms, k-1)) + i] = Written(ms[k])[i]
<1>1. PICK n \in Nat : n = Len(ms) /\ ms \in [1..n -> MemberRecords]
  OBVIOUS
<1> DEFINE s == [i \in 1..n |-> Written(ms[i])]
<1>2. s \in [1..n -> Seq(BlockRecords)]
  BY <1>1, WrittenIs
<1>3. PICK f :
         /\ f \in [0..n -> Seq(BlockRecords)] /\ f[0] = <<>>
         /\ \A k \in 1..n : f[k] = f[k-1] \o s[k]
         /\ \A k \in 0..n : FlattenSeq([i \in 1..k |-> s[i]]) = f[k]
  <2> HIDE DEF s
  <2>1. PICK f : Flat(f, s, n, BlockRecords)
    BY <1>2, FlattenIs
  <2> QED
    BY <2>1 DEF Flat
<1>4. ASSUME NEW k \in 0..n PROVE WrittenTo(ms, k) = f[k]
  <2> DEFINE sub == SubSeq(ms, 1, k)
  <2>1. \A i \in 1..k : ms[i] \in MemberRecords
    BY <1>1
  <2>2. k \in Int /\ 1 \in Int
    OBVIOUS
  <2>3. /\ sub \in Seq(MemberRecords) /\ Len(sub) = IF 1 <= k THEN k - 1 + 1 ELSE 0
        /\ \A i \in 1..k-1+1 : sub[i] = ms[1 + i - 1]
    BY <2>1, <2>2, SubSeqProperties
  <2>4. Len(sub) = k /\ \A i \in 1..k : sub[i] = ms[i]
    BY <2>3
  <2>5. DOMAIN sub = 1..k
    BY <2>3, <2>4
  <2> HIDE DEF sub
  <2>6. [i \in DOMAIN sub |-> Written(sub[i])] = [i \in 1..k |-> s[i]]
    <3>1. ASSUME NEW i \in 1..k PROVE Written(sub[i]) = s[i]
      BY <2>4
    <3> HIDE DEF s
    <3> QED
      BY <2>5, <3>1
  <2> HIDE DEF s
  <2> QED
    BY <1>3, <2>6 DEF WrittenTo, WrittenAll, sub
<1>5. WrittenTo(ms, n) = WrittenAll(ms)
  BY <1>1, SubSeqFull DEF WrittenTo
<1>6. \A k \in 0..n : f[k] \in Seq(BlockRecords) /\ Len(f[k]) \in Nat
  BY <1>3
<1>7. ASSUME NEW k \in 1..n
      PROVE  /\ s[k] = Written(ms[k]) /\ Len(s[k]) \in Nat /\ k - 1 \in 0..n /\ k \in 0..n
             /\ Len(f[k]) = Len(f[k-1]) + Len(s[k])
             /\ \A i \in 1..Len(f[k-1]) : f[k][i] = f[k-1][i]
             /\ \A i \in 1..Len(s[k]) : f[k][Len(f[k-1]) + i] = s[k][i]
  <2>1. k - 1 \in 0..n /\ k \in 0..n /\ s[k] \in Seq(BlockRecords) /\ s[k] = Written(ms[k])
    BY <1>2
  <2> HIDE DEF s
  <2>2. PICK u \in Seq(BlockRecords), v \in Seq(BlockRecords) :
           u = f[k-1] /\ v = s[k] /\ f[k] = u \o v
    BY <1>3, <1>6, <2>1
  <2>3. PICK a \in Nat, b \in Nat : a = Len(u) /\ b = Len(v)
    BY LenProperties
  <2>4. /\ Len(u \o v) = a + b
        /\ \A i \in 1..a + b : (u \o v)[i] = IF i <= a THEN u[i] ELSE v[i - a]
    BY <2>3, ConcatProperties
  <2>5. \A i \in 1..a : (u \o v)[i] = u[i]
    BY <2>4
  <2>6. ASSUME NEW i \in 1..b PROVE (u \o v)[a + i] = v[i]
    <3>1. a + i \in 1..a + b /\ ~(a + i <= a) /\ a + i - a = i
      OBVIOUS
    <3> QED
      BY <2>4, <3>1
  <2>7. Len(f[k]) = Len(f[k-1]) + Len(s[k]) /\ Len(s[k]) \in Nat
    BY <2>2, <2>3, <2>4, Zenon
  <2>8. \A i \in 1..Len(f[k-1]) : f[k][i] = f[k-1][i]
    BY <2>2, <2>3, <2>5, Zenon
  <2>9. \A i \in 1..Len(s[k]) : f[k][Len(f[k-1]) + i] = s[k][i]
    BY <2>2, <2>3, <2>6, Zenon
  <2> QED
    BY <2>1, <2>7, <2>8, <2>9
<1> HIDE DEF s
<1>8. ASSUME NEW k \in 1..n
      PROVE  Len(f[k]) <= Len(f[n]) /\ \A i \in 1..Len(f[k]) : f[n][i] = f[k][i]
  <2> DEFINE T == {j \in 0..n : j < k \/ (Len(f[k]) <= Len(f[j]) /\ \A i \in 1..Len(f[k]) : f[j][i] = f[k][i])}
  <2>1. 0 \in T
    OBVIOUS
  <2>2. ASSUME NEW j \in 1..n, j - 1 \in T PROVE j \in T
    <3>1. CASE j < k
      BY <3>1
    <3>2. CASE j = k
      BY <1>6, <3>2
    <3>3. CASE j > k
      <4>1. Len(f[k]) <= Len(f[j-1]) /\ \A i \in 1..Len(f[k]) : f[j-1][i] = f[k][i]
        BY <2>2, <3>3
      <4>2. /\ Len(f[j]) = Len(f[j-1]) + Len(s[j]) /\ Len(s[j]) \in Nat /\ j - 1 \in 0..n /\ j \in 0..n
            /\ \A i \in 1..Len(f[j-1]) : f[j][i] = f[j-1][i]
        BY <1>7
      <4>3. PICK a \in Nat, b \in Nat, c \in Nat :
               a = Len(f[k]) /\ b = Len(f[j-1]) /\ c = Len(s[j])
        <5>1. k \in 0..n
          OBVIOUS
        <5> QED
          BY <1>6, <4>2, <5>1
      <4>4. a <= b /\ Len(f[j]) = b + c /\ a <= b + c
        <5>1. Len(f[k]) <= Len(f[j-1])
          BY <4>1
        <5>2. Len(f[j]) = Len(f[j-1]) + Len(s[j])
          BY <4>2
        <5>3. a <= b
          BY <5>1, <4>3, Zenon
        <5>4. Len(f[j]) = b + c
          BY <5>2, <4>3, Zenon
        <5> QED
          BY <5>3, <5>4
      <4>5. \A i \in 1..a : f[j][i] = f[k][i]
        <5>1. \A i \in 1..a : i \in 1..b
          BY <4>4
        <5> QED
          BY <4>1, <4>2, <4>3, <5>1
      <4>6. Len(f[k]) <= Len(f[j])
        <5>1. a <= b + c
          BY <4>4
        <5> QED
          BY <4>3, <4>4, <5>1, Zenon
      <4>7. \A i \in 1..Len(f[k]) : f[j][i] = f[k][i]
        BY <4>3, <4>5, Zenon
      <4> QED
        BY <4>6, <4>7
    <3> QED
      BY <3>1, <3>2, <3>3
  <2> HIDE DEF T
  <2>3. 0..n \subseteq T
    BY <2>1, <2>2, UpTo
  <2>4. n \in T
    BY <2>3
  <2> QED
    BY <2>4 DEF T
<1>9. ASSUME NEW k \in 1..n
      PROVE  /\ Len(WrittenTo(ms, k)) = Len(WrittenTo(ms, k-1)) + Len(Written(ms[k]))
             /\ Len(WrittenTo(ms, k)) <= Len(WrittenAll(ms))
             /\ \A i \in 1..Len(Written(ms[k])) :
                   WrittenAll(ms)[Len(WrittenTo(ms, k-1)) + i] = Written(ms[k])[i]
  <2>1. /\ WrittenTo(ms, k) = f[k] /\ WrittenTo(ms, k-1) = f[k-1] /\ WrittenAll(ms) = f[n]
        /\ Written(ms[k]) = s[k] /\ Len(f[k-1]) \in Nat /\ Len(s[k]) \in Nat
    <3>1. n \in 0..n /\ k \in 0..n /\ k - 1 \in 0..n
      OBVIOUS
    <3> QED
      BY <1>4, <1>5, <1>6, <1>7, <3>1
  <2>2. ASSUME NEW i \in 1..Len(s[k]) PROVE f[n][Len(f[k-1]) + i] = s[k][i]
    <3>1. Len(f[k-1]) + i \in 1..Len(f[k])
      <4>1. PICK a \in Nat, b \in Nat : a = Len(f[k-1]) /\ b = Len(s[k])
        BY <2>1
      <4>2. Len(f[k]) = a + b /\ i \in 1..b
        BY <1>7, <4>1, Zenon
      <4>3. a + i \in 1..a + b
        BY <4>2
      <4> QED
        BY <4>1, <4>2, <4>3, Zenon
    <3> QED
      BY <1>7, <1>8, <3>1
  <2> QED
    BY <1>7, <1>8, <2>1, <2>2
<1>10. /\ WrittenAll(ms) \in Seq(BlockRecords) /\ WrittenTo(ms, 0) = <<>>
       /\ \A k \in 0..n : Len(WrittenTo(ms, k)) \in Nat
  <2>1. n \in 0..n /\ 0 \in 0..n
    OBVIOUS
  <2>2. WrittenAll(ms) = f[n] /\ WrittenTo(ms, 0) = f[0]
    BY <1>4, <1>5, <2>1
  <2> QED
    BY <1>3, <1>4, <1>6, <2>1, <2>2
<1> QED
  BY <1>1, <1>5, <1>9, <1>10
-----------------------------------------------------------------------------
(* The archive on disk, which two blocks of zeros end.                      *)
Archived == members \in Tars /\ tar = WrittenAll(members) \o <<Zeros, Zeros>>

LEMMA ArchivedIs ==
    ASSUME Archived
    PROVE  /\ members \in Seq(MemberRecords) /\ Len(members) \in Nat
           /\ WrittenAll(members) \in Seq(BlockRecords) /\ Len(WrittenAll(members)) \in Nat
           /\ \A b \in 0..Len(WrittenAll(members))-1 : Blk(b) = WrittenAll(members)[b + 1]
           /\ Blk(Len(WrittenAll(members))) = Zeros
<1>1. members \in Seq(MemberRecords) /\ Len(members) \in Nat
  <2>1. members \in Seq(MemberRecords)
    BY TarsAssumption, Zenon DEF Archived, MemberRecords
  <2> QED
    BY <2>1, LenProperties
<1>2. WrittenAll(members) \in Seq(BlockRecords)
  BY <1>1, Layout
<1>3. <<Zeros, Zeros>> \in Seq(BlockRecords) /\ Len(<<Zeros, Zeros>>) = 2 /\ <<Zeros, Zeros>>[1] = Zeros
  BY EmptySeq DEF Zeros, BlockRecords, Unsupported
<1>4. PICK u \in Seq(BlockRecords), v \in Seq(BlockRecords) :
         u = WrittenAll(members) /\ v = <<Zeros, Zeros>> /\ tar = u \o v /\ Len(v) = 2 /\ v[1] = Zeros
  BY <1>2, <1>3 DEF Archived
<1>5. PICK n \in Nat : n = Len(u)
  BY LenProperties
<1>6. \A i \in 1..n + 2 : (u \o v)[i] = IF i <= n THEN u[i] ELSE v[i - n]
  BY <1>4, <1>5, ConcatProperties
<1>7. ASSUME NEW b \in 0..n-1 PROVE tar[b + 1] = u[b + 1]
  <2>1. b + 1 \in 1..n + 2 /\ b + 1 <= n
    BY <1>5
  <2> QED
    BY <1>4, <1>6, <2>1
<1>8. tar[n + 1] = Zeros
  <2>1. PICK i \in 1..n + 2 : i = n + 1 /\ ~(i <= n) /\ i - n = 1
    OBVIOUS
  <2>2. (u \o v)[i] = v[1]
    BY <1>6, <2>1
  <2> QED
    BY <1>4, <2>1, <2>2, Zenon
<1>9. Blk(n) = Zeros /\ \A b \in 0..n-1 : Blk(b) = u[b + 1]
  BY <1>7, <1>8 DEF Blk
<1> QED
  BY <1>1, <1>2, <1>4, <1>5, <1>9, Zenon

LEMMA AtMember ==
    ASSUME Archived, NEW k \in 1..Len(members), NEW m, m = members[k],
           NEW o, o = Len(WrittenTo(members, k - 1))
    PROVE  /\ m \in MemberRecords /\ o \in Nat /\ NameBlks(m) \in Nat /\ DataOf(m) \in Nat
           /\ HeaderOf(k) = o + NameBlks(m)
           /\ Blk(o + NameBlks(m)) = Header(m)
           /\ m.long => Blk(o) = LongHeader /\ Blk(o + 1).path = m.path
           /\ Len(WrittenTo(members, k)) = o + NameBlks(m) + 1 + DataOf(m)
<1>1. members \in Seq(MemberRecords) /\ m \in MemberRecords
  BY ArchivedIs
<1>2. PICK w : w = Written(m)
  OBVIOUS
<1>3. /\ NameBlks(m) \in Nat /\ DataOf(m) \in Nat
      /\ Len(w) = NameBlks(m) + 1 + DataOf(m)
      /\ w[NameBlks(m) + 1] = Header(m)
      /\ m.long => w[1] = LongHeader /\ w[2].path = m.path
  BY <1>1, <1>2, WrittenIs
<1>4. PICK a \in Nat, d \in Nat : a = NameBlks(m) /\ d = DataOf(m)
  BY <1>3
<1>5. o \in Nat
  <2>1. k - 1 \in 0..Len(members)
    BY ArchivedIs
  <2> QED
    BY <1>1, <2>1, Layout
<1>6. PICK all : all = WrittenAll(members)
  OBVIOUS
<1>7. /\ Len(WrittenTo(members, k)) = o + Len(w)
      /\ Len(WrittenTo(members, k)) <= Len(all)
      /\ \A i \in 1..Len(w) : all[o + i] = w[i]
  BY <1>1, <1>2, <1>6, Layout
<1>8. PICK n \in Nat : n = Len(all)
  BY <1>6, ArchivedIs
<1>9. o + a + 1 + d <= n /\ Len(WrittenTo(members, k)) = o + a + 1 + d
  <2>1. Len(w) = a + 1 + d
    BY <1>3, <1>4, Zenon
  <2>2. Len(WrittenTo(members, k)) = o + (a + 1 + d) /\ o + (a + 1 + d) <= n
    BY <1>7, <1>8, <2>1, Zenon
  <2> QED
    BY <1>5, <2>2
<1>10. ASSUME NEW i \in 0..a PROVE Blk(o + i) = w[i + 1]
  <2>1. Len(w) = a + 1 + d
    BY <1>3, <1>4, Zenon
  <2>2. i + 1 \in 1..a + 1 + d /\ o + i \in 0..n-1 /\ o + i + 1 = o + (i + 1)
    BY <1>5, <1>9
  <2>3. Blk(o + i) = all[o + i + 1]
    BY <1>6, <1>8, <2>2, ArchivedIs
  <2>4. all[o + (i + 1)] = w[i + 1]
    BY <1>7, <2>1, <2>2
  <2> QED
    BY <2>2, <2>3, <2>4
<1>11. HeaderOf(k) = o + a
  BY <1>4 DEF HeaderOf, WrittenTo, NameBlks
<1>12. Blk(o + a) = Header(m)
  BY <1>3, <1>4, <1>10
<1>13. m.long => Blk(o) = LongHeader /\ Blk(o + 1).path = m.path
  <2> SUFFICES ASSUME m.long PROVE Blk(o) = LongHeader /\ Blk(o + 1).path = m.path
    OBVIOUS
  <2>1. 0 \in 0..a /\ 1 \in 0..a /\ o + 0 = o /\ 0 + 1 = 1 /\ 1 + 1 = 2
    BY <1>4, <1>5 DEF NameBlks
  <2>2. Blk(o + 0) = w[0 + 1] /\ Blk(o + 1) = w[1 + 1]
    BY <1>10, <2>1
  <2> QED
    BY <1>3, <2>1, <2>2
<1> QED
  BY <1>1, <1>3, <1>4, <1>5, <1>9, <1>11, <1>12, <1>13
-----------------------------------------------------------------------------
(* get is at the blocks of the next member, if no data was taken for more   *)
(* than it is.                                                              *)
Reached ==
    DataSkipped => /\ Len(out) <= Len(members)
                   /\ curoff = Len(WrittenTo(members, Len(out)))

IInv == Archived /\ (\E S : out \in Seq(S)) /\ Reached /\ MembersInOrder /\ StopsRight

(* get returns the next member.                                             *)
LEMMA DeliverStep ==
    ASSUME IInv, DataSkipped, at = "open", NEW k \in 1..Len(members), k = Len(out) + 1,
           members[k].long \/ members[k].flag \in PosixOnly,
           Deliver(members[k].path, HeaderOf(k))
    PROVE  IInv'
<1> DEFINE m == members[k]
           b == HeaderOf(k)
           o == Len(WrittenTo(members, k - 1))
           names == parsePath(m.path)
<1>1. /\ m \in MemberRecords /\ o \in Nat /\ NameBlks(m) \in Nat /\ DataOf(m) \in Nat
      /\ b = o + NameBlks(m) /\ Blk(b) = Header(m)
      /\ Len(WrittenTo(members, k)) = o + NameBlks(m) + 1 + DataOf(m)
  <2>1. Archived
    BY DEF IInv
  <2> QED
    <3>1. PICK mm, oo : mm = m /\ oo = o
      OBVIOUS
    <3> HIDE DEF b
    <3>2. /\ mm \in MemberRecords /\ oo \in Nat /\ NameBlks(mm) \in Nat /\ DataOf(mm) \in Nat
          /\ HeaderOf(k) = oo + NameBlks(mm)
          /\ Blk(oo + NameBlks(mm)) = Header(mm)
          /\ Len(WrittenTo(members, k)) = oo + NameBlks(mm) + 1 + DataOf(mm)
      BY <2>1, <3>1, AtMember
    <3>3. b = oo + NameBlks(mm) /\ Blk(b) = Header(mm)
      BY <3>2, Zenon DEF b
    <3> QED
      BY <3>1, <3>2, <3>3, Zenon
<1>2. PICK S : out \in Seq(S)
  BY DEF IInv
<1>3. Len(out) \in Nat /\ Len(members) \in Nat /\ DOMAIN out = 1..Len(out) /\ Len(out) = k - 1
  BY <1>2, ArchivedIs DEF IInv
<1> HIDE DEF b, o
<1>4. CASE names = NULL
  <2>1. at' = "path" /\ UNCHANGED <<members, tar, curoff, out>>
    BY <1>4 DEF Deliver, Stop, b
  <2>2. ~Taken(members[Len(out) + 1]) /\ Len(out) < Len(members)
    BY <1>3, <1>4 DEF Taken
  <2>3. Archived' /\ (\E T : out' \in Seq(T)) /\ Reached' /\ MembersInOrder'
    <3>1. Archived'
      BY <2>1 DEF IInv, Archived
    <3>2. Reached'
      BY <2>1 DEF IInv, Reached, DataSkipped
    <3>3. MembersInOrder'
      BY <2>1 DEF IInv, MembersInOrder, DataSkipped, HeaderOf
    <3> QED
      BY <1>2, <2>1, <3>1, <3>2, <3>3
  <2>4. StopsRight'
    <3>1. \A j \in DOMAIN out : Taken(members[j])
      BY DEF IInv, StopsRight
    <3> QED
      BY <2>1, <2>2, <3>1 DEF StopsRight, DataSkipped
  <2> QED
    BY <2>3, <2>4 DEF IInv
<1>5. CASE names # NULL
  <2> DEFINE f == FileOf(Header(m), names, b)
  <2>1. /\ out' = Append(out, f) /\ curoff' = b + DataBlks(Header(m)) + 1
        /\ UNCHANGED <<members, tar, at>>
    BY <1>1, <1>5 DEF Deliver, b
  <2>2. /\ f.header = b /\ f.flag = m.flag /\ f.names = names
        /\ f.nblks = IF m.flag = "REG" THEN m.size ELSE 0
    BY DEF FileOf, DataBlks, Header
  <2> HIDE DEF f
  <2>3. /\ out' \in Seq(S \union {f}) /\ Len(out') = k /\ DOMAIN out' = 1..k /\ out'[k] = f
        /\ \A j \in 1..k-1 : out'[j] = out[j]
    <3>1. out \in Seq(S \union {f})
      BY <1>2
    <3> QED
      BY <1>3, <2>1, <3>1
  <2>4. DataBlks(Header(m)) = DataOf(m)
    <3>1. m.size \in Nat
      BY <1>1 DEF MemberRecords
    <3>2. k \in DOMAIN members
      BY <1>3, ArchivedIs DEF IInv
    <3>3. HasData(m) /\ m.size > 0 => m.flag = "REG"
      BY <3>2 DEF DataSkipped
    <3> QED
      BY <3>1, <3>3 DEF DataBlks, DataOf, Header, HasData
  <2>5. Archived' /\ DataSkipped'
    BY <2>1 DEF IInv, Archived, DataSkipped
  <2>6. Reached'
    <3>1. curoff' = o + NameBlks(m) + 1 + DataOf(m)
      BY <1>1, <2>1, <2>4
    <3>2. curoff' = Len(WrittenTo(members, k))
      BY <1>1, <3>1, Zenon
    <3>3. k <= Len(members)
      BY <1>3
    <3> QED
      BY <2>1, <2>3, <3>2, <3>3 DEF Reached
  <2>7. \A j \in 1..k : (j \in 1..k-1 /\ j \in DOMAIN out) \/ j = k
    BY <1>3
  <2>8. MembersInOrder'
    <3>1. \A j \in DOMAIN out :
              /\ out[j].header = HeaderOf(j)
              /\ out[j].flag = members[j].flag
              /\ out[j].names = parsePath(members[j].path)
              /\ out[j].nblks = IF members[j].flag = "REG" THEN members[j].size ELSE 0
      BY DEF IInv, MembersInOrder
    <3>2. \A j \in 1..k :
              /\ out'[j].header = HeaderOf(j)
              /\ out'[j].flag = members[j].flag
              /\ out'[j].names = parsePath(members[j].path)
              /\ out'[j].nblks = IF members[j].flag = "REG" THEN members[j].size ELSE 0
      <4> SUFFICES ASSUME NEW j \in 1..k
                   PROVE  /\ out'[j].header = HeaderOf(j)
                          /\ out'[j].flag = members[j].flag
                          /\ out'[j].names = parsePath(members[j].path)
                          /\ out'[j].nblks = IF members[j].flag = "REG" THEN members[j].size ELSE 0
        OBVIOUS
      <4>1. CASE j = k
        BY <2>2, <2>3, <4>1 DEF b
      <4>2. CASE j \in 1..k-1 /\ j \in DOMAIN out
        BY <2>3, <3>1, <4>2
      <4> QED
        BY <2>7, <4>1, <4>2
    <3>3. \A j \in 1..k : HeaderOf(j)' = HeaderOf(j)
      BY <2>1 DEF HeaderOf
    <3>4. k <= Len(members)
      BY <1>3
    <3> QED
      BY <2>1, <2>3, <3>2, <3>3, <3>4 DEF MembersInOrder
  <2>9. StopsRight'
    <3>1. \A j \in DOMAIN out : Taken(members[j])
      BY DEF IInv, StopsRight
    <3>2. Taken(members[k])
      BY <1>5 DEF Taken
    <3>3. \A j \in 1..k : Taken(members[j])
      BY <2>7, <3>1, <3>2
    <3>4. at' = "open"
      BY <2>1
    <3> QED
      BY <2>1, <2>3, <3>3, <3>4 DEF StopsRight
  <2> QED
    BY <2>3, <2>5, <2>6, <2>8, <2>9 DEF IInv
<1> QED
  BY <1>4, <1>5

(* get returns NULL for a reason.                                           *)
LEMMA StopStep ==
    ASSUME IInv, NEW why, Stop(why),
           DataSkipped =>
              /\ why = "eof" => Len(out) = Len(members)
              /\ why \in {"flag", "path"} =>
                    Len(out) < Len(members) /\ ~Taken(members[Len(out) + 1])
    PROVE  IInv'
<1>1. at' = why /\ UNCHANGED <<members, tar, curoff, out>>
  BY DEF Stop
<1>2. Archived' /\ (\E S : out' \in Seq(S)) /\ Reached'
  BY <1>1 DEF IInv, Archived, Reached, DataSkipped
<1>3. MembersInOrder'
  BY <1>1 DEF IInv, MembersInOrder, DataSkipped, HeaderOf
<1>4. StopsRight'
  <2>1. DataSkipped => \A j \in DOMAIN out : Taken(members[j])
    BY DEF IInv, StopsRight
  <2> QED
    BY <1>1, <2>1 DEF StopsRight, DataSkipped
<1> QED
  BY <1>2, <1>3, <1>4 DEF IInv

(* Data that was not skipped may be taken for anything.                     *)
LEMMA LooseStep ==
    ASSUME IInv, ~DataSkipped, NEW path, NEW b, Deliver(path, b)
    PROVE  IInv'
<1>1. UNCHANGED <<members, tar>> /\ (out' = out \/ \E f : out' = Append(out, f))
  BY DEF Deliver, Stop
<1>2. \E S : out' \in Seq(S)
  <2>1. PICK S : out \in Seq(S)
    BY DEF IInv
  <2>2. CASE out' = out
    BY <2>1, <2>2
  <2>3. CASE \E f : out' = Append(out, f)
    <3>1. PICK f : out' = Append(out, f)
      BY <2>3
    <3>2. out \in Seq(S \union {f})
      BY <2>1
    <3>3. out' \in Seq(S \union {f})
      BY <3>1, <3>2
    <3> QED
      BY <3>3
  <2> QED
    BY <1>1, <2>2, <2>3
<1>3. ~DataSkipped' /\ Archived'
  BY <1>1 DEF DataSkipped, IInv, Archived
<1> QED
  BY <1>2, <1>3 DEF IInv, Reached, MembersInOrder, StopsRight

(* What get finds at curoff.                                                *)
AtNext(k) ==
    LET m == members[k]
    IN  /\ k = Len(out) + 1 /\ m \in MemberRecords /\ curoff \in Nat
        /\ HeaderOf(k) = curoff + NameBlks(m) /\ Blk(HeaderOf(k)) = Header(m)
        /\ m.long => Blk(curoff) = LongHeader /\ Blk(curoff + 1).path = m.path

LEMMA Here ==
    ASSUME IInv, DataSkipped
    PROVE  \/ Len(out) = Len(members) /\ Blk(curoff) = Zeros
           \/ \E k \in 1..Len(members) : AtNext(k)
<1>1. PICK n \in Nat, l \in Nat : n = Len(members) /\ l = Len(out) /\ l <= n
  <2>1. Len(out) \in Nat
    BY LenProperties DEF IInv
  <2> QED
    BY <2>1, ArchivedIs DEF IInv, Reached
<1>2. curoff = Len(WrittenTo(members, l))
  BY <1>1 DEF IInv, Reached
<1>3. CASE l = n
  <2>1. WrittenTo(members, l) = WrittenAll(members)
    BY <1>1, <1>3, ArchivedIs, Layout DEF IInv
  <2> QED
    BY <1>1, <1>2, <1>3, <2>1, ArchivedIs DEF IInv
<1>4. CASE l < n
  <2>1. PICK k \in 1..n : k = l + 1 /\ k - 1 = l
    BY <1>4
  <2>2. PICK m : m = members[k]
    OBVIOUS
  <2>3. /\ m \in MemberRecords /\ curoff \in Nat
        /\ HeaderOf(k) = curoff + NameBlks(m)
        /\ Blk(curoff + NameBlks(m)) = Header(m)
        /\ m.long => Blk(curoff) = LongHeader /\ Blk(curoff + 1).path = m.path
    <3>1. k \in 1..Len(members) /\ Archived /\ curoff = Len(WrittenTo(members, k - 1))
      BY <1>1, <1>2, <2>1 DEF IInv
    <3> QED
      <4>1. PICK o : o = curoff
        OBVIOUS
      <4>2. /\ m \in MemberRecords /\ o \in Nat
            /\ HeaderOf(k) = o + NameBlks(m)
            /\ Blk(o + NameBlks(m)) = Header(m)
            /\ m.long => Blk(o) = LongHeader /\ Blk(o + 1).path = m.path
        BY <2>2, <3>1, <4>1, AtMember
      <4> QED
        BY <4>1, <4>2, Zenon
  <2>4. AtNext(k)
    <3>1. k = Len(out) + 1
      BY <1>1, <2>1
    <3> QED
      BY <2>2, <2>3, <3>1, Zenon DEF AtNext
  <2> QED
    BY <1>1, <2>4
<1> QED
  BY <1>1, <1>3, <1>4

LEMMA Step == IInv /\ [Next]_vars => IInv'
<1> SUFFICES ASSUME IInv, [Next]_vars PROVE IInv'
  OBVIOUS
<1>1. CASE UNCHANGED vars
  <2>1. UNCHANGED <<members, tar, curoff, out, at>>
    BY <1>1 DEF vars
  <2>2. Archived' /\ (\E S : out' \in Seq(S)) /\ Reached'
    BY <2>1 DEF IInv, Archived, Reached, DataSkipped
  <2>3. MembersInOrder'
    BY <2>1 DEF IInv, MembersInOrder, DataSkipped, HeaderOf
  <2>4. StopsRight'
    BY <2>1 DEF IInv, StopsRight, DataSkipped
  <2> QED
    BY <2>2, <2>3, <2>4 DEF IInv
<1>2. \A k : AtNext(k) => /\ members[k].path # <<>>
                         /\ members[k].flag \in Supported \union Unsupported
                         /\ members[k].long \in BOOLEAN
  BY DEF AtNext, MemberRecords
<1>3. /\ Zeros.path = <<>> /\ Zeros.flag # LONGNAME
      /\ LongHeader.path # <<>> /\ LongHeader.flag = LONGNAME /\ LongHeader.size = 1
  BY EmptySeq DEF Zeros, LongHeader, LONGNAME
<1>4. ASSUME NEW m PROVE Header(m).path = m.path /\ Header(m).flag = m.flag
  BY DEF Header
<1>5. ASSUME NEW k, AtNext(k), ~members[k].long
      PROVE  HeaderOf(k) = curoff /\ Blk(curoff) = Header(members[k])
  <2>1. HeaderOf(k) = curoff
    BY <1>5 DEF AtNext, NameBlks
  <2> QED
    BY <1>5, <2>1 DEF AtNext
<1>6. ASSUME NEW k, AtNext(k), members[k].long
      PROVE  /\ HeaderOf(k) = curoff + 2
             /\ Blk(curoff) = LongHeader /\ Blk(curoff + 1).path = members[k].path
  BY <1>6 DEF AtNext, NameBlks
<1>7. ASSUME NEW k \in 1..Len(members), AtNext(k)
      PROVE  Len(out) < Len(members) /\ k = Len(out) + 1
  <2>1. Len(out) \in Nat /\ Len(members) \in Nat
    BY LenProperties, ArchivedIs DEF IInv
  <2> QED
    BY <1>7, <2>1 DEF AtNext
<1>8. CASE GetEof
  <2>1. Stop("eof") /\ Blk(curoff).path = <<>>
    BY <1>8 DEF GetEof
  <2>2. ASSUME DataSkipped PROVE Len(out) = Len(members)
    <3>1. ASSUME NEW k \in 1..Len(members), AtNext(k) PROVE FALSE
      <4>1. CASE members[k].long
        BY <1>3, <1>6, <2>1, <3>1, <4>1
      <4>2. CASE ~members[k].long
        <5>1. Blk(curoff) = Header(members[k])
          BY <1>5, <3>1, <4>2
        <5>2. Blk(curoff).path = members[k].path
          BY <1>4, <5>1, Zenon
        <5> QED
          BY <1>2, <2>1, <3>1, <5>2, Zenon
      <4> QED
        BY <4>1, <4>2
    <3> QED
      BY <2>2, <3>1, Here
  <2> QED
    BY <2>1, <2>2, StopStep
<1>9. CASE GetPosix
  <2>1. /\ at = "open" /\ Blk(curoff).path # <<>> /\ Blk(curoff).flag \in PosixOnly
        /\ Deliver(Blk(curoff).path, curoff)
    BY <1>9 DEF GetPosix, Open
  <2>2. CASE ~DataSkipped
    BY <2>1, <2>2, LooseStep
  <2>3. CASE DataSkipped
    <3>1. PICK k \in 1..Len(members) : AtNext(k)
      BY <1>3, <2>1, <2>3, Here, Zenon
    <3>2. LONGNAME \notin PosixOnly
      BY DEF LONGNAME, PosixOnly, Supported, Unsupported
    <3>3. ~members[k].long
      BY <1>3, <1>6, <2>1, <3>1, <3>2, Zenon
    <3>4. HeaderOf(k) = curoff /\ Blk(curoff) = Header(members[k])
      BY <1>5, <3>1, <3>3
    <3>5. members[k].flag \in PosixOnly /\ Deliver(members[k].path, HeaderOf(k))
      BY <1>4, <2>1, <3>4, Zenon
    <3> QED
      BY <1>7, <2>1, <2>3, <3>1, <3>5, DeliverStep
  <2> QED
    BY <2>2, <2>3
<1>10. CASE GetLongname
  <2> DEFINE b == curoff + 1 + Blk(curoff).size
  <2>1. /\ at = "open" /\ Blk(curoff).flag = LONGNAME
        /\ Deliver(Blk(curoff + 1).path, b) \/ Stop("read")
    BY <1>10 DEF GetLongname, Open
  <2>2. CASE Stop("read")
    BY <2>2, StopStep
  <2>3. CASE Deliver(Blk(curoff + 1).path, b) /\ ~DataSkipped
    <3> HIDE DEF b
    <3> QED
      BY <2>3, LooseStep
  <2>4. CASE Deliver(Blk(curoff + 1).path, b) /\ DataSkipped
    <3>1. PICK k \in 1..Len(members) : AtNext(k)
      BY <1>3, <2>1, <2>4, Here, Zenon
    <3>2. LONGNAME \notin Supported \union Unsupported
      BY DEF LONGNAME, Supported, Unsupported
    <3>3. members[k].long
      <4>1. SUFFICES ASSUME ~members[k].long PROVE FALSE
        BY <1>2, <3>1
      <4>2. Blk(curoff) = Header(members[k])
        BY <1>5, <3>1, <4>1
      <4>3. LONGNAME = members[k].flag
        BY <1>4, <2>1, <4>2, Zenon
      <4> QED
        BY <1>2, <3>1, <3>2, <4>3, Zenon
    <3>4. b = curoff + 2
      <4>1. curoff \in Nat /\ Blk(curoff).size = 1
        BY <1>3, <1>6, <3>1, <3>3 DEF AtNext
      <4> QED
        BY <4>1
    <3>5. Deliver(members[k].path, HeaderOf(k))
      <4> HIDE DEF b
      <4> QED
        BY <1>6, <2>4, <3>1, <3>3, <3>4, Zenon
    <3> QED
      BY <1>7, <2>1, <2>4, <3>1, <3>3, <3>5, DeliverStep
  <2> QED
    BY <2>1, <2>2, <2>3, <2>4
<1>11. CASE GetUnsupported
  <2>1. /\ Blk(curoff).path # <<>> /\ Stop("flag")
        /\ Blk(curoff).flag \notin PosixOnly \union {LONGNAME}
    BY <1>11 DEF GetUnsupported
  <2>2. ASSUME DataSkipped
        PROVE  Len(out) < Len(members) /\ ~Taken(members[Len(out) + 1])
    <3>1. PICK k \in 1..Len(members) : AtNext(k)
      BY <1>3, <2>1, <2>2, Here, Zenon
    <3>2. ~members[k].long
      BY <1>3, <1>6, <2>1, <3>1
    <3>3. members[k].flag \notin PosixOnly
      BY <1>4, <1>5, <2>1, <3>1, <3>2
    <3> QED
      BY <1>7, <3>1, <3>2, <3>3 DEF Taken
  <2> QED
    BY <2>1, <2>2, StopStep
<1>12. CASE GetReadError
  <2>1. Stop("read")
    BY <1>12 DEF GetReadError
  <2> QED
    BY <2>1, StopStep
<1> QED
  BY <1>1, <1>8, <1>9, <1>10, <1>11, <1>12 DEF Next, get

LEMMA Start == Init => IInv
<1> SUFFICES ASSUME Init PROVE IInv
  OBVIOUS
<1>1. Archived /\ out = <<>> /\ curoff = 0 /\ at = "open"
  BY DEF Init, Archived
<1>2. out \in Seq({0}) /\ Len(out) = 0 /\ DOMAIN out = {}
  BY <1>1, EmptySeq
<1>3. Len(members) \in Nat /\ WrittenTo(members, 0) = <<>>
  BY <1>1, ArchivedIs, Layout
<1>4. Reached
  BY <1>1, <1>2, <1>3, EmptySeq DEF Reached
<1> QED
  BY <1>1, <1>2, <1>3, <1>4 DEF IInv, MembersInOrder, StopsRight

LEMMA Invariant == Spec => []IInv
<1> QED
  BY Start, Step, PTL DEF Spec

(* Whatever the archive, get returns its members one after the other, each  *)
(* with its own header and data: no data and no long name is taken for a    *)
(* header.                                                                  *)
THEOREM InOrder == Spec => []MembersInOrder
<1>1. IInv => MembersInOrder
  BY DEF IInv
<1> QED
  BY <1>1, Invariant, PTL

(* It ends after the last member, or before the first one whose type or     *)
(* path it refuses, or where the archive cannot be read.                    *)
THEOREM Stops == Spec => []StopsRight
<1>1. IInv => StopsRight
  BY DEF IInv
<1> QED
  BY <1>1, Invariant, PTL
=============================================================================
