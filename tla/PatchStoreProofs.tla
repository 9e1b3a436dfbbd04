-------------------------- MODULE PatchStoreProofs --------------------------
(***************************************************************************)
(* Proofs about the patch, for every size of the memories and every set of *)
(* arguments; first about its layout.  The inductive invariant looks at    *)
(* one word at a time: as many blocks match it as there are regions in     *)
(* which it has been laid out, and the first block has the offset of the   *)
(* first region.                                                           *)
(***************************************************************************)
EXTENDS PatchStore, FiniteSetTheorems, SequenceTheorems, WellFoundedInduction, TLAPS

Even(n) == n % 2 = 0
Elements(s) == {s[i] : i \in DOMAIN s}
IsSequence(s) == s \in Seq(Elements(s))
CamBlocks == [addr : Nat, mask : Nat, offset : Nat]
RegionOffset(r) == BlockOffset(r.content, r.base)

TypeOK ==
    /\ patch \in [blocks : Seq(CamBlocks), contentSize : Nat]
    /\ work \in [base : Nat, size : Nat, offset : Nat]
    /\ regions \in Seq([base : Nat, size : Nat, content : Nat])

\* The program headers still to be read are those of an argument.
Headers ==
    /\ IsSequence(headers)
    /\ \A i \in DOMAIN headers : Patchable(headers[i]) =>
         [base |-> headers[i].addr, size |-> headers[i].memsz] \in Regions

\* Whole words, inside the content memory; what is left of a region is its end.
Space ==
    /\ patch.contentSize <= PATCH_CONTENT_SIZE /\ Even(patch.contentSize)
    /\ \A i \in DOMAIN regions :
         /\ Even(regions[i].base) /\ Even(regions[i].size) /\ Even(regions[i].content)
         /\ regions[i].content + regions[i].size <= patch.contentSize
    /\ work.size > 0 =>
         /\ regions # <<>> /\ Even(work.size) /\ Even(work.base)
         /\ LET r == regions[Len(regions)] IN
              /\ r.base <= work.base /\ work.base + work.size = r.base + r.size
              /\ work.offset = RegionOffset(r)

\* The words of region i that have blocks.
Laid(i) == {w \in WordsOf(regions[i]) :
              (i = Len(regions) /\ work.size > 0) => w < work.base \div 2}
Cover(w) == {i \in DOMAIN regions : w \in Laid(i)}
Hits(w) == {i \in DOMAIN patch.blocks : EntryMatches(patch.blocks[i], w)}
Matching == \A w \in Nat :
    /\ Cardinality(Hits(w)) = Cardinality(Cover(w))
    /\ Cover(w) # {} => patch.blocks[Min(Hits(w))].offset
                          = RegionOffset(regions[Min(Cover(w))])

LayoutInv == TypeOK /\ Space /\ Matching
Inv == LayoutInv /\ Headers
-----------------------------------------------------------------------------
(* Numbers *)

LEMMA DivMod ==
    ASSUME NEW n \in Nat, n > 0, NEW x \in Int
    PROVE  /\ x \div n \in Int /\ x % n \in 0 .. n - 1
           /\ x = n * (x \div n) + (x % n)
<1>1. x \div n \in Int
  BY Z3
<1>2. x % n \in 0 .. n - 1
  BY Z3
<1>3. x = n * (x \div n) + (x % n)
  BY Z3
<1> QED BY <1>1, <1>2, <1>3

LEMMA Small ==
    ASSUME NEW n \in Nat, n > 0, NEW k \in Int, n * k < n, n * k > -n
    PROVE  k = 0
  BY Z3

LEMMA Unique ==
    ASSUME NEW n \in Nat, n > 0, NEW x \in Int, NEW q \in Int, NEW r \in 0 .. n - 1, x = n * q + r
    PROVE  x \div n = q /\ x % n = r
<1>1. /\ x \div n \in Int /\ x % n \in 0 .. n - 1 /\ x = n * (x \div n) + (x % n)
  BY DivMod
<1> DEFINE d == x \div n
           m == x % n
<1> HIDE DEF d, m
<1>2. n * (d - q) = n * d - n * q
  BY <1>1, Z3 DEF d
<1>3. n * d - n * q = r - m /\ m \in 0 .. n - 1 /\ d \in Int
  BY <1>1, Z3 DEF d, m
<1>4. n * (d - q) < n /\ n * (d - q) > -n /\ d - q \in Int
  BY <1>2, <1>3, Z3
<1>5. d - q = 0
  BY <1>4, Small
<1>6. d = q /\ n * d = n * q
  BY <1>3, <1>5
<1>7. m = r
  BY <1>3, <1>6, Z3
<1> QED BY <1>6, <1>7 DEF d, m

LEMMA Interval ==
    ASSUME NEW n \in Nat, n > 0, NEW a \in Nat, a % n = 0, NEW w \in Nat
    PROVE  w \div n = a \div n <=> w \in a .. a + n - 1
<1>1. /\ a \div n \in Int /\ a = n * (a \div n)
  BY DivMod
<1>2. /\ w \div n \in Int /\ w % n \in 0 .. n - 1 /\ w = n * (w \div n) + (w % n)
  BY DivMod
<1>3. ASSUME w \div n = a \div n PROVE w \in a .. a + n - 1
  <2>1. w = a + (w % n)
    BY <1>1, <1>2, <1>3
  <2> QED BY <1>2, <2>1
<1>4. ASSUME w \in a .. a + n - 1 PROVE w \div n = a \div n
  <2>1. w - a \in 0 .. n - 1 /\ w = n * (a \div n) + (w - a)
    BY <1>1, <1>4
  <2> QED BY <1>1, <2>1, Unique
<1> QED BY <1>3, <1>4

LEMMA ModAdd ==
    ASSUME NEW n \in Nat, n > 0, NEW x \in Int, NEW w \in Nat, x + w \in 0 .. n - 1
    PROVE  ((x % n) + w) % n = x + w
<1>1. /\ x \div n \in Int /\ x % n \in 0 .. n - 1 /\ x = n * (x \div n) + (x % n)
  BY DivMod
<1>2. n * (-(x \div n)) = - (n * (x \div n))
  BY <1>1, Z3
<1>3. (x % n) + w = n * (-(x \div n)) + (x + w)
  BY <1>1, <1>2
<1>4. -(x \div n) \in Int /\ (x % n) + w \in Int
  BY <1>1
<1> QED BY <1>3, <1>4, Unique

LEMMA Half ==
    ASSUME NEW n \in Nat, n > 0, NEW a \in Nat, (2 * a) % (2 * n) = 0
    PROVE  a % n = 0
<1> DEFINE q == (2 * a) \div (2 * n)
<1>1. q \in Int /\ 2 * a = (2 * n) * q
  <2> DEFINE m == 2 * n
             x == 2 * a
  <2>1. m \in Nat /\ m > 0 /\ x \in Int
    OBVIOUS
  <2>2. x % m = 0 /\ q = x \div m
    OBVIOUS
  <2> HIDE DEF m, x, q
  <2>3. x \div m \in Int /\ x % m \in 0 .. m - 1 /\ x = m * (x \div m) + (x % m)
    BY <2>1, DivMod
  <2>4. q \in Int /\ x = m * q
    BY <2>1, <2>2, <2>3
  <2> QED BY <2>4 DEF m, x
<1> HIDE DEF q
<1>2. (2 * n) * q = 2 * (n * q) /\ n * q \in Int
  BY <1>1, Z3
<1>3. a = n * q + 0 /\ 0 \in 0 .. n - 1
  BY <1>1, <1>2
<1> QED BY <1>1, <1>3, Unique

LEMMA Halves ==
    ASSUME NEW a \in Nat, Even(a)
    PROVE  a \div 2 \in Nat /\ a = 2 * (a \div 2)
  BY Z3 DEF Even

LEMMA Doubles ==
    ASSUME NEW a \in Nat
    PROVE  (2 * a) \div 2 = a /\ Even(2 * a)
<1>1. (2 * a) \div 2 = a
  BY Z3
<1>2. (2 * a) % 2 = 0
  BY Z3
<1> QED BY <1>1, <1>2 DEF Even

LEMMA HalfOfOdd ==
    ASSUME NEW n \in Nat, n > 0
    PROVE  (2 * n - 1) \div 2 = n - 1
  BY Z3

LEMMA SmallestInSet ==
    ASSUME NEW T \in SUBSET Nat, T # {}
    PROVE  \E m \in T : \A n \in T : m <= n
<1>1. PICK m \in T : \A n \in T : ~ (<<n, m>> \in OpToRel(<, Nat))
  BY WFMin, NatLessThanWellFounded, Zenon
<1>2. \A n \in T : ~ (n < m)
  BY <1>1, Zenon DEF OpToRel
<1> QED BY <1>2

LEMMA MinProperty ==
    ASSUME NEW T \in SUBSET Nat, T # {}
    PROVE  Min(T) \in T /\ \A n \in T : Min(T) <= n
  BY SmallestInSet DEF Min

LEMMA MinUnique ==
    ASSUME NEW T \in SUBSET Nat, NEW m \in T, \A n \in T : m <= n
    PROVE  Min(T) = m
<1>1. Min(T) \in T /\ Min(T) <= m
  BY MinProperty
<1>2. m <= Min(T) /\ m \in Nat /\ Min(T) \in Nat
  BY <1>1
<1> QED BY <1>1, <1>2

LEMMA MinOfTwo ==
    ASSUME NEW a \in Nat, NEW b \in Nat PROVE Min({a, b}) = IF a <= b THEN a ELSE b
<1>1. CASE a <= b
  BY <1>1, MinUnique
<1>2. CASE ~ (a <= b)
  BY <1>2, MinUnique
<1> QED BY <1>1, <1>2

LEMMA MaxProperty ==
    ASSUME NEW T \in SUBSET Nat, T # {}, NEW bound \in Nat, \A n \in T : n <= bound
    PROVE  Max(T) \in T /\ \A n \in T : Max(T) >= n
<1> DEFINE U == {u \in Nat : \A n \in T : n <= u}
<1>1. PICK u \in U : \A v \in U : u <= v
  <2>1. U \in SUBSET Nat /\ U # {}
    OBVIOUS
  <2> HIDE DEF U
  <2> QED BY <2>1, SmallestInSet
<1>2. u \in T
  <2> SUFFICES ASSUME u \notin T PROVE FALSE
    OBVIOUS
  <2>1. PICK t \in T : TRUE
    OBVIOUS
  <2>2. u > 0 /\ \A n \in T : n <= u - 1
    BY <2>1
  <2>3. u - 1 \in U
    BY <2>2
  <2> QED BY <1>1, <2>3
<1> QED BY <1>1, <1>2 DEF Max

LEMMA EvenSum ==
    ASSUME NEW a \in Nat, NEW b \in Nat, Even(a), Even(b)
    PROVE  /\ Even(a + b) /\ (a + b) \div 2 = a \div 2 + b \div 2
           /\ b <= a => Even(a - b) /\ (a - b) \div 2 = a \div 2 - b \div 2
<1>1. PICK k \in Nat : a = 2 * k
  BY Halves
<1>2. PICK j \in Nat : b = 2 * j
  BY Halves
<1>3. a \div 2 = k /\ b \div 2 = j
  BY <1>1, <1>2, Doubles
<1>4. a + b = 2 * (k + j) /\ k + j \in Nat
  BY <1>1, <1>2
<1>5. Even(a + b) /\ (a + b) \div 2 = k + j
  BY <1>4, Doubles
<1>6. ASSUME b <= a PROVE Even(a - b) /\ (a - b) \div 2 = k - j
  <2>1. a - b = 2 * (k - j) /\ k - j \in Nat
    BY <1>1, <1>2, <1>6
  <2> QED BY <2>1, Doubles
<1> QED BY <1>3, <1>5, <1>6

-----------------------------------------------------------------------------
(* A block of the content addressable memory *)

\* The largest mask that the loop of HWPatch_AllocRegion finds stands for a
\* whole number of words, no more than are left.
LEMMA BlockMaskProperty ==
    ASSUME NEW base \in Nat, NEW size \in Nat, size > 0, Even(base), Even(size)
    PROVE  \E n \in Nat :
             /\ n > 0 /\ BlockMask(base, size) = 2 * n - 1
             /\ 2 * n <= size /\ base % (2 * n) = 0
<1> DEFINE S == {m \in BlockMasks : m < size /\ base % (m + 1) = 0}
           mask == BlockMask(base, size)
<1>1. PICK bound \in Nat : \A m \in BlockMasks : m \in Nat /\ m <= bound
  <2>1. \A m \in BlockMasks : m \in Nat /\ m <= 8388607
    BY Z3 DEF BlockMasks
  <2> QED BY <2>1, Z3
<1>2. 1 \in S
  <2>1. size >= 2
    BY Halves
  <2>2. base % (1 + 1) = 0
    BY DEF Even
  <2>3. 1 \in BlockMasks
    BY Z3 DEF BlockMasks
  <2> QED BY <2>1, <2>2, <2>3
<1>3. S \in SUBSET Nat /\ S # {} /\ \A m \in S : m <= bound
  BY <1>1, <1>2
<1>4. mask \in S /\ mask >= 1
  <2>1. mask = Max(S)
    BY DEF BlockMask
  <2> HIDE DEF S, mask
  <2> QED BY <1>2, <1>3, <2>1, MaxProperty
<1>5. mask \in BlockMasks /\ mask \in Nat /\ mask < size /\ base % (mask + 1) = 0
  BY <1>1, <1>4
<1> HIDE DEF S, mask
<1>6. Even(mask + 1)
  <2>1. \A m \in BlockMasks : m >= 1 => (m + 1) % 2 = 0
    BY Z3 DEF BlockMasks
  <2> QED BY <1>4, <1>5, <2>1 DEF Even
<1>7. PICK n \in Nat : n > 0 /\ mask + 1 = 2 * n
  BY <1>5, <1>6, Halves
<1>8. mask = 2 * n - 1 /\ 2 * n <= size /\ base % (2 * n) = 0
  BY <1>5, <1>7
<1> QED BY <1>7, <1>8 DEF mask

\* The words it matches.
LEMMA BlockMatches ==
    ASSUME NEW base \in Nat, Even(base), NEW n \in Nat, n > 0, base % (2 * n) = 0,
           NEW entry, entry.addr = base \div 2, entry.mask = (2 * n - 1) \div 2,
           NEW w \in Nat
    PROVE  EntryMatches(entry, w) <=> w \in base \div 2 .. (base + 2 * n) \div 2 - 1
<1> DEFINE a == base \div 2
<1>1. a \in Nat /\ base = 2 * a
  BY Halves
<1>2. (base + 2 * n) \div 2 = a + n
  BY <1>1, EvenSum, Doubles
<1>3. (2 * n - 1) \div 2 = n - 1
  BY HalfOfOdd
<1>4. a % n = 0
  <2> HIDE DEF a
  <2>1. (2 * a) % (2 * n) = 0
    BY <1>1
  <2> QED BY <1>1, <2>1, Half
<1>5. w \div n = a \div n <=> w \in a .. a + n - 1
  <2> HIDE DEF a
  <2> QED BY <1>1, <1>4, Interval
<1>6. EntryMatches(entry, w) <=> w \div n = a \div n
  <2>1. entry.mask + 1 = n
    BY <1>3
  <2> QED BY <2>1 DEF EntryMatches
<1> QED BY <1>2, <1>5, <1>6

-----------------------------------------------------------------------------
(* HWPatch_AllocRegion *)

LEMMA ContentWordsType == ContentWords \in Nat /\ ContentWords > 0
                            /\ PATCH_CONTENT_SIZE = 2 * ContentWords
<1>1. PATCH_CONTENT_SIZE \in Nat /\ PATCH_CONTENT_SIZE > 0 /\ Even(PATCH_CONTENT_SIZE)
  BY SizesAssumption DEF Even
<1>2. PATCH_CONTENT_SIZE \div 2 \in Nat /\ PATCH_CONTENT_SIZE = 2 * (PATCH_CONTENT_SIZE \div 2)
  BY <1>1, Halves
<1> QED BY <1>1, <1>2 DEF ContentWords

LEMMA BlockOffsetType ==
    ASSUME NEW c \in Nat, NEW b \in Nat PROVE BlockOffset(c, b) \in Nat
<1>1. (c - b) \div 2 \in Int
  BY DivMod
<1> QED BY <1>1, ContentWordsType, DivMod DEF BlockOffset

LEMMA RoundUpEven ==
    ASSUME NEW n \in Nat PROVE RoundUp(n) \in Nat /\ Even(RoundUp(n))
<1>1. RoundUp(n) \in Nat
  BY Z3 DEF RoundUp
<1>2. RoundUp(n) % 2 = 0
  BY Z3 DEF RoundUp
<1> QED BY <1>1, <1>2 DEF Even

LEMMA ElementType ==
    ASSUME NEW S, NEW s \in Seq(S), NEW i \in 1 .. Len(s) PROVE s[i] \in S
  OBVIOUS

LEMMA QuietStep ==
    ASSUME LayoutInv, UNCHANGED <<patch, work, regions>>
    PROVE  LayoutInv'
<1>1. patch' = patch /\ work' = work /\ regions' = regions
  OBVIOUS
<1>2. TypeOK'
  BY <1>1 DEF LayoutInv, TypeOK
<1>3. Space'
  BY <1>1 DEF LayoutInv, Space
<1>4. Matching'
  <2>1. \A i : Laid(i)' = Laid(i)
    BY <1>1 DEF Laid
  <2>2. \A w : Hits(w)' = Hits(w) /\ Cover(w)' = Cover(w)
    BY <1>1, <2>1 DEF Hits, Cover
  <2> QED BY <1>1, <2>2, Zenon DEF LayoutInv, Matching
<1> QED BY <1>2, <1>3, <1>4 DEF LayoutInv

\* No word of a region that has just been allocated has a block.
LEMMA AllocRegionStep ==
    ASSUME LayoutInv, NEW r \in Regions, AllocRegion(r)
    PROVE  LayoutInv'
<1> DEFINE size == RoundUp(r.size)
           new == [base |-> r.base, size |-> size, content |-> patch.contentSize]
           n == Len(regions)
<1> USE DEF LayoutInv
<1>1. CASE UNCHANGED <<patch, work, regions>>
  BY <1>1, QuietStep
<1>2. CASE ~ (patch.contentSize + size > PATCH_CONTENT_SIZE)
  <2>1. /\ r.base \in Nat /\ Even(r.base) /\ size \in Nat /\ Even(size)
        /\ patch.contentSize \in Nat /\ Even(patch.contentSize)
    BY RegionsAssumption, RoundUpEven DEF TypeOK, Even, Space
  <2> HIDE DEF size
  <2>2. /\ work' = [base |-> r.base, size |-> size,
                    offset |-> BlockOffset(patch.contentSize, r.base)]
        /\ patch' = [patch EXCEPT !.contentSize = @ + size]
        /\ regions' = Append(regions, new)
        /\ work.size = 0
    BY <1>2 DEF AllocRegion, size
  <2>3. new \in [base : Nat, size : Nat, content : Nat]
    BY <2>1
  <2>4. /\ regions \in Seq([base : Nat, size : Nat, content : Nat])
        /\ n \in Nat /\ Len(regions') = n + 1
        /\ DOMAIN regions = 1 .. n /\ DOMAIN regions' = 1 .. n + 1
        /\ \A i \in 1 .. n : regions'[i] = regions[i]
        /\ regions'[n + 1] = new
        /\ regions' \in Seq([base : Nat, size : Nat, content : Nat])
    BY <2>2, <2>3 DEF TypeOK
  <2>5. /\ patch'.blocks = patch.blocks /\ patch'.contentSize = patch.contentSize + size
        /\ patch' \in [blocks : Seq(CamBlocks), contentSize : Nat]
    <3>1. patch \in [blocks : Seq(CamBlocks), contentSize : Nat]
      BY DEF TypeOK
    <3>2. patch'.blocks = patch.blocks /\ patch'.contentSize = patch.contentSize + size
      BY <2>2, <3>1
    <3>3. patch' = [blocks |-> patch'.blocks, contentSize |-> patch'.contentSize]
      BY <2>2, <3>1
    <3>4. patch'.blocks \in Seq(CamBlocks) /\ patch'.contentSize \in Nat
      BY <2>1, <3>1, <3>2
    <3> QED BY <3>2, <3>3, <3>4
  <2>6. TypeOK'
    BY <2>1, <2>2, <2>4, <2>5, BlockOffsetType DEF TypeOK
  <2>7. Space'
    <3>1. patch'.contentSize <= PATCH_CONTENT_SIZE /\ Even(patch'.contentSize)
      <4>1. patch'.contentSize <= PATCH_CONTENT_SIZE
        BY <1>2, <2>1, <2>5, SizesAssumption DEF size
      <4>2. Even(patch'.contentSize)
        BY <2>1, <2>5, EvenSum
      <4> QED BY <4>1, <4>2
    <3>2. \A i \in 1 .. n + 1 :
            /\ Even(regions'[i].base) /\ Even(regions'[i].size)
            /\ Even(regions'[i].content)
            /\ regions'[i].content + regions'[i].size <= patch'.contentSize
      <4>1. ASSUME NEW i \in 1 .. n
            PROVE  /\ Even(regions'[i].base) /\ Even(regions'[i].size)
                   /\ Even(regions'[i].content)
                   /\ regions'[i].content + regions'[i].size <= patch'.contentSize
        <5>1. regions[i] \in [base : Nat, size : Nat, content : Nat]
          BY <2>4, ElementType, Zenon
        <5>2. regions[i].content \in Nat /\ regions[i].size \in Nat
          BY <5>1
        <5>3. /\ Even(regions[i].base) /\ Even(regions[i].size)
              /\ Even(regions[i].content)
              /\ regions[i].content + regions[i].size <= patch.contentSize
          <6>1. i \in DOMAIN regions
            BY <2>4
          <6> QED BY <6>1, Zenon DEF Space
        <5>4. regions'[i] = regions[i]
          BY <2>4
        <5>5. patch.contentSize <= patch'.contentSize /\ patch'.contentSize \in Nat
          BY <2>1, <2>5
        <5>6. regions[i].content + regions[i].size <= patch'.contentSize
          BY ONLY <2>1, <5>2, <5>3, <5>5
        <5> QED BY ONLY <5>3, <5>4, <5>6
      <4>2. /\ Even(new.base) /\ Even(new.size) /\ Even(new.content)
            /\ new.content + new.size <= patch'.contentSize
        BY <2>1, <2>5
      <4>3. \A i \in 1 .. n + 1 : i \in 1 .. n \/ i = n + 1
        BY <2>4
      <4> HIDE DEF new
      <4> QED BY <2>4, <4>1, <4>2, <4>3
    <3>3. LET last == regions'[Len(regions')] IN
            /\ last.base <= work'.base /\ work'.base + work'.size = last.base + last.size
            /\ work'.offset = RegionOffset(last)
      BY <2>1, <2>2, <2>4 DEF RegionOffset
    <3>4. regions' # <<>> /\ Even(work'.size) /\ Even(work'.base)
      BY <2>1, <2>2, <2>4
    <3>5. DOMAIN regions' = 1 .. n + 1
      BY <2>4
    <3> QED BY ONLY <3>1, <3>2, <3>3, <3>4, <3>5 DEF Space
  <2>8. ASSUME NEW w \in Nat PROVE Cover(w)' = Cover(w) /\ Hits(w)' = Hits(w)
    <3>1. \A i \in 1 .. n : w \in Laid(i)' <=> w \in Laid(i)
      BY <2>2, <2>4, SMTT(20) DEF Laid, WordsOf
    <3>2. \A i : i = n + 1 => w \notin Laid(i)'
      <4> DEFINE k == r.base \div 2
                 h == size \div 2
      <4>1. (r.base + size) \div 2 = r.base \div 2 + size \div 2
        BY <2>1, EvenSum
      <4>2. k \in Nat /\ h \in Nat /\ size = 2 * h
        BY <2>1, Halves
      <4>3. WordsOf(regions'[n + 1]) = k .. k + h - 1 /\ work'.base \div 2 = k
        BY <2>2, <2>4, <4>1 DEF WordsOf
      <4>4. n + 1 = Len(regions') /\ work'.size = size
        BY <2>2, <2>4
      <4> HIDE DEF k, h
      <4>5. ~ (w \in k .. k + h - 1 /\ (size > 0 => w < k))
        BY <4>2
      <4>6. \A i : i = n + 1 => Laid(i)' = {v \in k .. k + h - 1 : size > 0 => v < k}
        BY ONLY <4>3, <4>4 DEF Laid
      <4> QED BY ONLY <4>5, <4>6
    <3>3. Cover(w)' = Cover(w)
      <4>1. \A i \in 1 .. n + 1 : i \in 1 .. n \/ i = n + 1
        BY <2>4
      <4>2. 1 .. n \subseteq 1 .. n + 1
        BY <2>4
      <4>3. /\ Cover(w)' = {i \in 1 .. n + 1 : w \in Laid(i)'}
            /\ Cover(w) = {i \in 1 .. n : w \in Laid(i)}
        BY <2>4 DEF Cover
      <4>4. \A i \in 1 .. n + 1 : w \in Laid(i)' => i \in 1 .. n
        BY ONLY <3>2, <4>1
      <4> QED BY ONLY <3>1, <4>2, <4>3, <4>4
    <3> QED BY <2>5, <3>3 DEF Hits
  <2>9. Matching'
    <3> SUFFICES ASSUME NEW w \in Nat
                 PROVE  /\ Cardinality(Hits(w)') = Cardinality(Cover(w)')
                        /\ Cover(w)' # {} => patch'.blocks[Min(Hits(w)')].offset
                                               = RegionOffset(regions'[Min(Cover(w)')])
      BY DEF Matching
    <3>1. Cover(w) # {} => Min(Cover(w)) \in 1 .. n
      <4>1. Cover(w) \subseteq 1 .. n
        <5>1. Cover(w) \subseteq DOMAIN regions
          BY DEF Cover
        <5> QED BY <2>4, <5>1
      <4>2. Cover(w) \in SUBSET Nat
        BY <2>4, <4>1
      <4>3. Cover(w) # {} => Min(Cover(w)) \in Cover(w)
        BY <4>2, MinProperty
      <4> QED BY <4>1, <4>3
    <3> QED BY <2>4, <2>5, <2>8, <3>1 DEF Matching
  <2> QED BY <2>6, <2>7, <2>9
<1> QED BY <1>1, <1>2 DEF AllocRegion

LEMMA MinAdd ==
    ASSUME NEW T \in SUBSET Nat, NEW x \in Nat, \A t \in T : t < x
    PROVE  /\ T = {} => Min(T \cup {x}) = x
           /\ T # {} => Min(T \cup {x}) = Min(T)
<1>1. T \cup {x} \in SUBSET Nat
  OBVIOUS
<1>2. ASSUME T = {} PROVE Min(T \cup {x}) = x
  <2>1. \A t \in T \cup {x} : x <= t
    BY <1>2
  <2> QED BY <1>1, <2>1, MinUnique
<1>3. ASSUME T # {} PROVE Min(T \cup {x}) = Min(T)
  <2> DEFINE m == Min(T)
  <2>1. m \in T /\ \A t \in T : m <= t
    BY <1>3, MinProperty
  <2> HIDE DEF m
  <2>2. m \in T \cup {x} /\ \A t \in T \cup {x} : m <= t
    BY <2>1
  <2>3. Min(T \cup {x}) = m
    BY <1>1, <2>2, MinUnique
  <2> QED BY <2>3 DEF m
<1> QED BY <1>2, <1>3

\* What holds of the blocks and the regions of a word is kept by one more of
\* each, and decides which is the first.
LEMMA OneMoreEach ==
    ASSUME NEW m \in Nat, NEW H \in SUBSET (1 .. m),
           NEW l \in Nat, NEW C \in SUBSET (1 .. l), l \notin C, l > 0,
           Cardinality(H) = Cardinality(C)
    PROVE  /\ Cardinality(H \cup {m + 1}) = Cardinality(C \cup {l})
           /\ C = {} => Min(H \cup {m + 1}) = m + 1 /\ Min(C \cup {l}) = l
           /\ C # {} => /\ H # {}
                        /\ Min(H \cup {m + 1}) = Min(H) /\ Min(C \cup {l}) = Min(C)
<1>1. IsFiniteSet(H) /\ IsFiniteSet(C)
  <2>1. IsFiniteSet(1 .. m) /\ IsFiniteSet(1 .. l)
    BY FS_Interval
  <2> QED BY <2>1, FS_Subset
<1>2. m + 1 \notin H
  OBVIOUS
<1>3. Cardinality(H \cup {m + 1}) = Cardinality(H) + 1
  BY <1>1, <1>2, FS_AddElement
<1>4. Cardinality(C \cup {l}) = Cardinality(C) + 1
  BY <1>1, FS_AddElement
<1>5. H = {} <=> C = {}
  BY <1>1, FS_EmptySet
<1>6. \A t \in H : t < m + 1
  OBVIOUS
<1>7. \A t \in C : t < l
  OBVIOUS
<1>8. H \in SUBSET Nat /\ C \in SUBSET Nat /\ m + 1 \in Nat
  OBVIOUS
<1>9. /\ H = {} => Min(H \cup {m + 1}) = m + 1
      /\ H # {} => Min(H \cup {m + 1}) = Min(H)
  BY <1>6, <1>8, MinAdd
<1>10. /\ C = {} => Min(C \cup {l}) = l
       /\ C # {} => Min(C \cup {l}) = Min(C)
  BY <1>7, <1>8, MinAdd
<1> QED BY <1>3, <1>4, <1>5, <1>9, <1>10

\* A turn of the loop adds a block, and the words it matches.
LEMMA EmitBlockStep ==
    ASSUME LayoutInv, EmitBlock
    PROVE  LayoutInv'
<1> DEFINE base == work.base
           size == work.size
           mask == BlockMask(base, size)
           m == Len(patch.blocks)
           l == Len(regions)
           entry == [addr |-> base \div 2, mask |-> mask \div 2, offset |-> work.offset]
<1>1. CASE UNCHANGED <<patch, work, regions>>
  BY <1>1, QuietStep
<1>2. CASE /\ patch' = [patch EXCEPT !.blocks = Append(@, entry)]
           /\ work' = [work EXCEPT !.base = @ + mask + 1, !.size = @ - (mask + 1)]
           /\ regions' = regions
  <2>1. /\ base \in Nat /\ size \in Nat /\ size > 0 /\ work.offset \in Nat
        /\ work = [base |-> base, size |-> size, offset |-> work.offset]
    BY DEF LayoutInv, TypeOK, EmitBlock
  <2>2. Even(base) /\ Even(size) /\ regions # <<>>
    BY <2>1 DEF LayoutInv, Space
  <2>3. PICK n \in Nat : n > 0 /\ mask = 2 * n - 1 /\ 2 * n <= size /\ base % (2 * n) = 0
    <3> HIDE DEF base, size, mask
    <3> QED BY <2>1, <2>2, BlockMaskProperty DEF mask
  <2>4. /\ base \div 2 \in Nat /\ mask \div 2 \in Nat
        /\ entry \in CamBlocks
    <3>1. base \div 2 \in Nat
      BY <2>1, <2>2, Halves
    <3>2. (2 * n - 1) \div 2 = n - 1
      BY <2>3, HalfOfOdd
    <3>3. mask \div 2 \in Nat
      <4> HIDE DEF mask
      <4> QED BY <2>3, <3>2
    <3> HIDE DEF mask
    <3> QED BY <2>1, <3>1, <3>3 DEF CamBlocks
  <2> HIDE DEF mask
  <2>5. /\ patch.blocks \in Seq(CamBlocks) /\ m \in Nat
        /\ patch'.blocks = Append(patch.blocks, entry)
        /\ patch'.contentSize = patch.contentSize
        /\ patch' = [blocks |-> patch'.blocks, contentSize |-> patch.contentSize]
        /\ patch.contentSize \in Nat
    <3>1. patch \in [blocks : Seq(CamBlocks), contentSize : Nat]
      BY DEF LayoutInv, TypeOK
    <3> HIDE DEF entry
    <3>2. patch' = [patch EXCEPT !.blocks = Append(@, entry)]
      BY <1>2
    <3>3. patch.blocks \in Seq(CamBlocks) /\ patch.contentSize \in Nat /\ m \in Nat
      BY ONLY <3>1
    <3>4. patch'.blocks = Append(patch.blocks, entry)
      BY ONLY <3>1, <3>2
    <3>5. patch'.contentSize = patch.contentSize
      BY ONLY <3>1, <3>2
    <3>6. patch' = [blocks |-> patch'.blocks, contentSize |-> patch'.contentSize]
      BY ONLY <3>1, <3>2
    <3> QED BY <3>3, <3>4, <3>5, <3>6
  <2> HIDE DEF entry
  <2>6. /\ patch'.blocks \in Seq(CamBlocks)
        /\ DOMAIN patch.blocks = 1 .. m /\ DOMAIN patch'.blocks = 1 .. m + 1
        /\ \A i \in 1 .. m : patch'.blocks[i] = patch.blocks[i]
        /\ patch'.blocks[m + 1] = entry
    BY <2>4, <2>5
  <2>7. work' = [base |-> base + 2 * n, size |-> size - 2 * n, offset |-> work.offset]
    <3>1. work.base + mask + 1 = base + 2 * n /\ work.size - (mask + 1) = size - 2 * n
      BY <2>1, <2>3
    <3>2. work' = [work EXCEPT !.base = work.base + mask + 1,
                               !.size = work.size - (mask + 1)]
      BY <1>2
    <3> QED BY ONLY <2>1, <3>1, <3>2
  <2>8. /\ base + 2 * n \in Nat /\ size - 2 * n \in Nat
        /\ Even(base + 2 * n) /\ Even(size - 2 * n)
    <3> DEFINE d == 2 * n
    <3>1. d \in Nat /\ d <= size /\ Even(d)
      BY <2>3, Doubles
    <3> HIDE DEF base, size, d
    <3>2. Even(base + d) /\ Even(size - d)
      BY <2>1, <2>2, <3>1, EvenSum
    <3>3. base + d \in Nat /\ size - d \in Nat
      BY <2>1, <3>1
    <3> QED BY <3>2, <3>3 DEF d
  <2>9. TypeOK'
    <3>1. patch' \in [blocks : Seq(CamBlocks), contentSize : Nat]
      BY <2>5, <2>6
    <3>2. work' \in [base : Nat, size : Nat, offset : Nat]
      BY <2>1, <2>7, <2>8
    <3>3. regions' \in Seq([base : Nat, size : Nat, content : Nat])
      BY <1>2 DEF LayoutInv, TypeOK
    <3> QED BY <3>1, <3>2, <3>3 DEF TypeOK
  <2>10. l \in Nat /\ l > 0 /\ regions[l] \in [base : Nat, size : Nat, content : Nat]
         /\ DOMAIN regions = 1 .. l
    <3>1. regions \in Seq([base : Nat, size : Nat, content : Nat])
      BY DEF LayoutInv, TypeOK
    <3>2. l \in Nat /\ l > 0 /\ DOMAIN regions = 1 .. l
      BY <2>2, <3>1
    <3>3. l \in 1 .. l
      BY <3>2
    <3> QED BY <3>1, <3>2, <3>3, ElementType, Zenon
  <2> HIDE DEF l, m
  <2>11. /\ Even(regions[l].base) /\ Even(regions[l].size)
         /\ regions[l].base <= base /\ base + size = regions[l].base + regions[l].size
         /\ work.offset = RegionOffset(regions[l])
    <3>1. l \in DOMAIN regions
      BY <2>10
    <3> QED BY <2>1, <3>1, Zenon DEF LayoutInv, Space, l
  <2>12. Space'
    <3>1. /\ patch'.contentSize <= PATCH_CONTENT_SIZE /\ Even(patch'.contentSize)
          /\ \A i \in DOMAIN regions' :
               /\ Even(regions'[i].base) /\ Even(regions'[i].size)
               /\ Even(regions'[i].content)
               /\ regions'[i].content + regions'[i].size <= patch'.contentSize
      BY <1>2, <2>5, Zenon DEF LayoutInv, Space
    <3>2. /\ regions[l].base \in Nat /\ regions[l].size \in Nat
          /\ work'.base = base + 2 * n /\ work'.size = size - 2 * n
          /\ work'.offset = work.offset
      BY <2>7, <2>10
    <3>3. /\ regions[l].base <= work'.base
          /\ work'.base + work'.size = regions[l].base + regions[l].size
      BY <2>1, <2>11, <3>2
    <3>4. Even(work'.base) /\ Even(work'.size) /\ regions' # <<>> /\ regions' = regions
      BY <1>2, <2>2, <2>8, <3>2
    <3> QED BY <2>11, <3>1, <3>2, <3>3, <3>4, Zenon DEF Space, l
  <2> DEFINE first == base \div 2
             last == (base + 2 * n) \div 2
  <2>13. ASSUME NEW w \in Nat
         PROVE  /\ w \in first .. last - 1 => l \notin Cover(w)
                /\ Cover(w)' = IF w \in first .. last - 1 THEN Cover(w) \cup {l}
                               ELSE Cover(w)
    <3>1. WordsOf(regions[l]) = regions[l].base \div 2 .. (base + size) \div 2 - 1
      BY <2>11 DEF WordsOf
    <3>2. /\ first \in Nat /\ last \in Nat /\ first <= last
          /\ (base + size) \div 2 \in Nat /\ last <= (base + size) \div 2
          /\ regions[l].base \div 2 \in Nat /\ regions[l].base \div 2 <= first
          /\ size - 2 * n = 0 => last = (base + size) \div 2
      <4> DEFINE d == 2 * n
                 b == regions[l].base
      <4>1. b \in Nat /\ Even(b) /\ b <= base
        BY <2>10, <2>11
      <4>2. d \in Nat /\ Even(d) /\ d <= size /\ d \div 2 = n
        BY <2>3, Doubles
      <4> HIDE DEF base, size, d, b
      <4>3. /\ first \in Nat /\ base = 2 * first
            /\ size \div 2 \in Nat /\ size = 2 * (size \div 2)
            /\ b \div 2 \in Nat /\ b = 2 * (b \div 2)
        BY <2>1, <2>2, <4>1, Halves
      <4>4. /\ (base + d) \div 2 = first + n
            /\ (base + size) \div 2 = first + size \div 2
        BY <2>1, <2>2, <4>2, EvenSum
      <4>5. n <= size \div 2 /\ (size - 2 * n = 0 => n = size \div 2)
        <5> DEFINE h == size \div 2
        <5>1. h \in Nat /\ size = 2 * h /\ 2 * n <= size
          BY <2>3, <4>3
        <5> HIDE DEF h
        <5>2. n <= h /\ (size - 2 * n = 0 => n = h)
          BY ONLY <2>3, <5>1
        <5> QED BY <5>2 DEF h
      <4>6. last = first + n
        BY <4>4 DEF d
      <4>7. b \div 2 <= first
        BY <2>1, <4>1, <4>3
      <4> HIDE DEF first, last
      <4> QED BY <2>1, <2>3, <4>3, <4>4, <4>5, <4>6, <4>7 DEF b
    <3>3. \A i : i = l => /\ w \in Laid(i) <=> w \in WordsOf(regions[l]) /\ w < first
                          /\ w \in Laid(i)' <=> /\ w \in WordsOf(regions[l])
                                                /\ size - 2 * n > 0 => w < last
      <4>1. work'.base = base + 2 * n /\ work'.size = size - 2 * n
        BY ONLY <2>7
      <4>2. regions' = regions /\ l = Len(regions) /\ work.base = base /\ work.size = size
        BY <1>2 DEF l
      <4>3. \A i : i = l => (w \in Laid(i) <=>
                             w \in WordsOf(regions[l]) /\ (size > 0 => w < first))
        BY ONLY <4>2 DEF Laid
      <4>4. \A i : i = l => (w \in Laid(i)' <=>
                             w \in WordsOf(regions[l]) /\ (size - 2 * n > 0 => w < last))
        BY ONLY <4>1, <4>2 DEF Laid
      <4> HIDE DEF first, last, size
      <4> QED BY <2>1, <4>3, <4>4
    <3>4. \A i \in 1 .. l : i # l => (w \in Laid(i)' <=> w \in Laid(i))
      BY <1>2, Zenon DEF Laid, l
    <3>5. Cover(w) = {i \in 1 .. l : w \in Laid(i)} /\ Cover(w)' = {i \in 1 .. l : w \in Laid(i)'}
      BY <1>2, <2>10 DEF Cover
    <3>6. CASE w \in first .. last - 1
      <4>1. \A i : i = l => w \notin Laid(i) /\ w \in Laid(i)'
        BY <2>8, <3>1, <3>2, <3>3, <3>6
      <4>2. l \in 1 .. l
        BY <2>10
      <4> QED BY ONLY <3>4, <3>5, <3>6, <4>1, <4>2
    <3>7. CASE w \notin first .. last - 1
      <4>1. \A i : i = l => (w \in Laid(i)' <=> w \in Laid(i))
        BY <2>8, <3>1, <3>2, <3>3, <3>7
      <4> QED BY ONLY <3>4, <3>5, <3>7, <4>1
    <3> QED BY <3>6, <3>7
  <2>14. ASSUME NEW w \in Nat
         PROVE  Hits(w)' = IF w \in first .. last - 1 THEN Hits(w) \cup {m + 1} ELSE Hits(w)
    <3>1. EntryMatches(entry, w) <=> w \in first .. last - 1
      <4>1. entry.addr = base \div 2 /\ entry.mask = (2 * n - 1) \div 2
        BY <2>3 DEF entry
      <4> HIDE DEF base
      <4> QED BY <2>1, <2>2, <2>3, <4>1, BlockMatches
    <3>2. /\ Hits(w) = {i \in 1 .. m : EntryMatches(patch.blocks[i], w)}
          /\ Hits(w)' = {i \in 1 .. m + 1 : EntryMatches(patch'.blocks[i], w)}
      BY <2>6 DEF Hits
    <3>3. \A i \in 1 .. m + 1 : i \in 1 .. m \/ i = m + 1
      BY <2>5
    <3>4. 1 .. m \subseteq 1 .. m + 1 /\ m + 1 \in 1 .. m + 1 /\ m + 1 \notin 1 .. m
      BY <2>5
    <3> QED BY ONLY <2>6, <3>1, <3>2, <3>3, <3>4
  <2>15. Matching'
    <3> SUFFICES ASSUME NEW w \in Nat
                 PROVE  /\ Cardinality(Hits(w)') = Cardinality(Cover(w)')
                        /\ Cover(w)' # {} => patch'.blocks[Min(Hits(w)')].offset
                                               = RegionOffset(regions'[Min(Cover(w)')])
      BY DEF Matching
    <3>1. Hits(w) \in SUBSET (1 .. m) /\ Cover(w) \in SUBSET (1 .. l)
      BY <2>6, <2>10 DEF Hits, Cover
    <3>2. /\ Cardinality(Hits(w)) = Cardinality(Cover(w))
          /\ Cover(w) # {} => patch.blocks[Min(Hits(w))].offset
                                = RegionOffset(regions[Min(Cover(w))])
      BY Zenon DEF LayoutInv, Matching
    <3>3. Hits(w) # {} => Min(Hits(w)) \in 1 .. m
      <4>1. Hits(w) \in SUBSET Nat
        BY <3>1
      <4> QED BY <3>1, <4>1, MinProperty
    <3>4. Cover(w) # {} => Hits(w) # {}
      <4>1. IsFiniteSet(1 .. l)
        BY <2>10, FS_Interval
      <4>2. IsFiniteSet(Cover(w))
        BY <3>1, <4>1, FS_Subset
      <4> QED BY <3>2, <4>2, FS_EmptySet
    <3>5. CASE w \notin first .. last - 1
      <4>1. Hits(w)' = Hits(w) /\ Cover(w)' = Cover(w)
        BY <2>13, <2>14, <3>5
      <4>2. Cover(w) # {} => patch'.blocks[Min(Hits(w))] = patch.blocks[Min(Hits(w))]
        BY <2>6, <3>3, <3>4
      <4> QED BY <1>2, <3>2, <4>1, <4>2
    <3>6. CASE w \in first .. last - 1
      <4>1. /\ Hits(w)' = Hits(w) \cup {m + 1} /\ Cover(w)' = Cover(w) \cup {l}
            /\ l \notin Cover(w)
        BY <2>13, <2>14, <3>6
      <4>2. /\ Cardinality(Hits(w) \cup {m + 1}) = Cardinality(Cover(w) \cup {l})
            /\ Cover(w) = {} => /\ Min(Hits(w) \cup {m + 1}) = m + 1
                                /\ Min(Cover(w) \cup {l}) = l
            /\ Cover(w) # {} => /\ Min(Hits(w) \cup {m + 1}) = Min(Hits(w))
                                /\ Min(Cover(w) \cup {l}) = Min(Cover(w))
        <5>1. m \in Nat /\ l \in Nat /\ l > 0
          BY <2>5, <2>10
        <5> DEFINE H == Hits(w)
                   C == Cover(w)
        <5>2. H \in SUBSET (1 .. m) /\ C \in SUBSET (1 .. l)
          BY <3>1
        <5>3. l \notin C /\ Cardinality(H) = Cardinality(C)
          BY <3>2, <4>1
        <5> HIDE DEF H, C
        <5>4. /\ Cardinality(H \cup {m + 1}) = Cardinality(C \cup {l})
              /\ C = {} => Min(H \cup {m + 1}) = m + 1 /\ Min(C \cup {l}) = l
              /\ C # {} => Min(H \cup {m + 1}) = Min(H) /\ Min(C \cup {l}) = Min(C)
          BY ONLY <5>1, <5>2, <5>3, OneMoreEach
        <5> QED BY ONLY <5>4 DEF H, C
      <4>3. CASE Cover(w) = {}
        <5>1. entry.offset = work.offset
          BY DEF entry
        <5> QED BY <1>2, <2>6, <2>11, <4>1, <4>2, <4>3, <5>1
      <4>4. CASE Cover(w) # {}
        <5>1. patch'.blocks[Min(Hits(w))] = patch.blocks[Min(Hits(w))]
          BY <2>6, <3>3, <3>4, <4>4
        <5> QED BY <1>2, <3>2, <4>1, <4>2, <4>4, <5>1
      <4> QED BY <4>3, <4>4
    <3> QED BY <3>5, <3>6
  <2> QED BY <2>9, <2>12, <2>15 DEF LayoutInv
<1> QED BY <1>1, <1>2 DEF EmitBlock

NothingLaidOut ==
    patch = [blocks |-> <<>>, contentSize |-> 0] /\ work = NoWork /\ regions = <<>>

LEMMA EmptyLayout == NothingLaidOut => LayoutInv
<1> SUFFICES ASSUME NothingLaidOut PROVE LayoutInv
  OBVIOUS
<1> USE DEF NothingLaidOut
<1>1. TypeOK
  BY DEF TypeOK, NoWork
<1>2. Space
  <2>1. Even(0) /\ 0 <= PATCH_CONTENT_SIZE
    BY Z3, SizesAssumption DEF Even
  <2> QED BY <2>1 DEF Space, NoWork
<1>3. Matching
  <2>1. \A w : Hits(w) = {} /\ Cover(w) = {}
    BY DEF Hits, Cover
  <2> QED BY <2>1 DEF Matching
<1> QED BY <1>1, <1>2, <1>3 DEF LayoutInv

-----------------------------------------------------------------------------
(* The arguments *)

LEMMA TailAny ==
    ASSUME NEW s, IsSequence(s), s # <<>>
    PROVE  /\ IsSequence(Tail(s)) /\ 1 \in DOMAIN s /\ Head(s) = s[1]
           /\ \A i \in DOMAIN Tail(s) : i + 1 \in DOMAIN s /\ Tail(s)[i] = s[i + 1]
<1> DEFINE T == Elements(s)
           t == Tail(s)
<1>1. s \in Seq(T)
  BY DEF IsSequence
<1> HIDE DEF T
<1>2. /\ t \in Seq(T) /\ Len(s) \in Nat /\ Len(s) > 0 /\ DOMAIN s = 1 .. Len(s)
      /\ Len(t) = Len(s) - 1 /\ Head(s) = s[1]
      /\ \A i \in 1 .. Len(s) - 1 : t[i] = s[i + 1]
  BY <1>1
<1>3. t \in Seq(Elements(t))
  <2> HIDE DEF t
  <2>1. \A i \in 1 .. Len(t) : t[i] \in Elements(t)
    BY <1>2 DEF Elements
  <2> QED BY <1>2, <2>1
<1>4. \A i \in DOMAIN t : i + 1 \in DOMAIN s /\ t[i] = s[i + 1]
  <2> HIDE DEF t
  <2>1. DOMAIN t = 1 .. Len(s) - 1
    BY <1>2
  <2> QED BY <1>2, <2>1
<1> QED BY <1>2, <1>3, <1>4 DEF IsSequence

\* What a step does to the layout, and to the headers.
LEMMA LayoutStep ==
    ASSUME Headers, [Next]_vars
    PROVE  /\ \/ EmitBlock
              \/ \E r \in Regions : AllocRegion(r)
              \/ AllocReset
              \/ UNCHANGED <<patch, work, regions>>
           /\ Headers'
<1>1. CASE UNCHANGED vars
  BY <1>1 DEF vars, allocVars, argVars, Headers
<1>2. CASE StartLoad \/ Clock
  BY <1>2 DEF StartLoad, Clock, allocVars, argVars, Headers
<1>3. CASE Again
  <2>1. AllocReset /\ headers' = <<>>
    BY <1>3 DEF Again, ArgReset
  <2>2. Headers'
    <3>1. IsSequence(<<>>) /\ DOMAIN <<>> = {}
      BY DEF IsSequence
    <3> QED BY <2>1, <3>1 DEF Headers
  <2> QED BY <2>1, <2>2
<1>4. CASE Layout
  <2>1. CASE EmitBlock /\ UNCHANGED argVars
    BY <2>1 DEF argVars, Headers
  <2>2. CASE \E arg \in Asked : ParseString(arg)
    <3>1. PICK arg \in Arguments : ParseString(arg)
      BY <2>2, LaterAssumption DEF Asked
    <3>2. CASE Refused(arg) /\ Fail /\ UNCHANGED argVars
      BY <3>2 DEF Fail, argVars, Headers
    <3>3. CASE /\ ~ Refused(arg) /\ arg.format = "elf"
               /\ headers' = arg.headers
               /\ UNCHANGED allocVars
      <4>1. /\ RegionsOf(arg) \subseteq Regions
            /\ arg.headers \in Seq({arg.headers[i] : i \in DOMAIN arg.headers})
        BY <3>3, ArgumentsAssumption
      <4>2. \A i \in DOMAIN arg.headers : Patchable(arg.headers[i]) =>
              [base |-> arg.headers[i].addr, size |-> arg.headers[i].memsz] \in Regions
        BY <3>3, <4>1 DEF RegionsOf
      <4>3. Headers'
        BY <3>3, <4>1, <4>2, Zenon DEF Headers, IsSequence, Elements
      <4> QED BY <3>3, <4>3 DEF allocVars
    <3>4. CASE /\ ~ Refused(arg) /\ arg.format # "elf"
               /\ AllocRegion([base |-> arg.addr, size |-> Bytes(arg)])
               /\ UNCHANGED headers
      <4>1. [base |-> arg.addr, size |-> Bytes(arg)] \in Regions
        BY <3>4, ArgumentsAssumption DEF RegionsOf
      <4>2. Headers'
        BY <3>4 DEF Headers
      <4> QED BY <3>4, <4>1, <4>2
    <3> QED BY <3>1, <3>2, <3>3, <3>4 DEF ParseString, FillRegion
  <2>3. CASE LoadHeader
    <3>1. headers # <<>> /\ headers' = Tail(headers) /\ IsSequence(headers)
      BY <2>3 DEF LoadHeader, Headers
    <3>2. /\ IsSequence(headers') /\ 1 \in DOMAIN headers /\ Head(headers) = headers[1]
          /\ \A i \in DOMAIN headers' :
               i + 1 \in DOMAIN headers /\ headers'[i] = headers[i + 1]
      BY <3>1, TailAny
    <3>3. Headers'
      BY <3>2, Zenon DEF Headers
    <3>4. CASE UNCHANGED allocVars
      BY <3>3, <3>4 DEF allocVars
    <3>5. CASE Fail
      BY <3>3, <3>5 DEF Fail
    <3>6. CASE /\ Patchable(Head(headers))
               /\ AllocRegion([base |-> Head(headers).addr, size |-> Head(headers).memsz])
      <4>1. [base |-> Head(headers).addr, size |-> Head(headers).memsz] \in Regions
        BY <3>2, <3>6 DEF Headers
      <4> QED BY <3>3, <3>6, <4>1
    <3> QED BY <2>3, <3>4, <3>5, <3>6 DEF LoadHeader, FillRegion
  <2>4. CASE HeaderMissing \/ CopyData \/ ReadFails
    BY <2>4 DEF HeaderMissing, CopyData, ReadFails, Fail, allocVars, argVars, Headers
  <2> QED BY <1>4, <2>1, <2>2, <2>3, <2>4 DEF Layout, ArgNext
<1> QED BY <1>1, <1>2, <1>3, <1>4 DEF Next

LEMMA InvStep == Inv /\ [Next]_vars => Inv'
<1> SUFFICES ASSUME Inv, [Next]_vars PROVE Inv'
  OBVIOUS
<1>1. /\ \/ EmitBlock
         \/ \E r \in Regions : AllocRegion(r)
         \/ AllocReset
         \/ UNCHANGED <<patch, work, regions>>
      /\ Headers'
  BY LayoutStep DEF Inv
<1>2. AllocReset => LayoutInv'
  <2>1. AllocReset => NothingLaidOut'
    BY DEF AllocReset, NothingLaidOut
  <2>2. NothingLaidOut' => LayoutInv'
    BY EmptyLayout, PTL
  <2> QED BY <2>1, <2>2
<1> QED BY <1>1, <1>2, EmitBlockStep, AllocRegionStep, QuietStep DEF Inv

LEMMA InitInv == Init => Inv
<1> SUFFICES ASSUME Init PROVE Inv
  OBVIOUS
<1>1. LayoutInv
  BY EmptyLayout DEF Init, AllocInit, NothingLaidOut
<1>2. Headers
  <2>1. headers = <<>> /\ IsSequence(<<>>) /\ DOMAIN <<>> = {}
    BY DEF Init, ArgInit, IsSequence
  <2> QED BY <2>1 DEF Headers
<1> QED BY <1>1, <1>2 DEF Inv

\* The invariant above, in every state.
THEOREM LayoutInvariant == Spec => []Inv
  BY InitInv, InvStep, PTL DEF Spec

\* A region in words: where it is, where its content is, and how long it is.
LEMMA RegionWords ==
    ASSUME Inv, NEW i \in DOMAIN regions
    PROVE  \E b, c, s \in Nat :
             /\ regions[i].base = 2 * b /\ regions[i].base \div 2 = b
             /\ regions[i].content \div 2 = c /\ regions[i].content = 2 * c
             /\ regions[i].size = 2 * s
             /\ WordsOf(regions[i]) = b .. b + s - 1
             /\ c + s <= ContentWords
<1> DEFINE r == regions[i]
<1> HIDE DEF r
<1>1. /\ r \in [base : Nat, size : Nat, content : Nat]
      /\ Even(r.base) /\ Even(r.size) /\ Even(r.content)
      /\ r.content + r.size <= PATCH_CONTENT_SIZE
  <2>1. /\ regions \in Seq([base : Nat, size : Nat, content : Nat])
        /\ DOMAIN regions = 1 .. Len(regions) /\ patch.contentSize \in Nat
    BY DEF Inv, LayoutInv, TypeOK
  <2>2. r \in [base : Nat, size : Nat, content : Nat]
    BY <2>1, ElementType DEF r
  <2>3. /\ Even(r.base) /\ Even(r.size) /\ Even(r.content)
        /\ r.content + r.size <= patch.contentSize
        /\ patch.contentSize <= PATCH_CONTENT_SIZE
    BY Zenon DEF Inv, LayoutInv, Space, r
  <2>4. r.content + r.size <= PATCH_CONTENT_SIZE
    BY <2>1, <2>2, <2>3, SizesAssumption, SMTT(20)
  <2> QED BY <2>2, <2>3, <2>4
<1> DEFINE b == r.base \div 2
           c == r.content \div 2
           s == r.size \div 2
<1>2. /\ b \in Nat /\ r.base = 2 * b /\ c \in Nat /\ r.content = 2 * c
      /\ s \in Nat /\ r.size = 2 * s
      /\ r.base \in Nat /\ r.size \in Nat /\ r.content \in Nat
  BY <1>1, Halves
<1>3. (r.base + r.size) \div 2 = b + s
  BY <1>1, <1>2, EvenSum
<1>4. c + s <= ContentWords
  BY <1>1, <1>2, ContentWordsType
<1>5. WordsOf(r) = b .. b + s - 1
  <2> DEFINE end == (r.base + r.size) \div 2
  <2>1. WordsOf(r) = b .. end - 1
    BY DEF WordsOf
  <2>2. end = b + s
    BY <1>3
  <2> HIDE DEF b, s, end
  <2> QED BY <1>2, <2>1, <2>2
<1>6. r.base \div 2 = b /\ r.content \div 2 = c
  OBVIOUS
<1> HIDE DEF b, c, s
<1>7. \E b0, c0, s0 \in Nat :
        /\ r.base = 2 * b0 /\ r.base \div 2 = b0
        /\ r.content \div 2 = c0 /\ r.content = 2 * c0
        /\ r.size = 2 * s0 /\ WordsOf(r) = b0 .. b0 + s0 - 1 /\ c0 + s0 <= ContentWords
  BY <1>2, <1>4, <1>5, <1>6, Zenon
<1> QED BY <1>7 DEF r

LEMMA RegionOfWord ==
    ASSUME Inv, NEW w, InRegion(w)
    PROVE  RegionOf(w) \in DOMAIN regions /\ w \in WordsOf(regions[RegionOf(w)])
<1> DEFINE R == {i \in DOMAIN regions : w \in WordsOf(regions[i])}
<1>1. R \in SUBSET Nat /\ R # {}
  <2>1. DOMAIN regions = 1 .. Len(regions) /\ Len(regions) \in Nat
    BY DEF Inv, LayoutInv, TypeOK
  <2> QED BY <2>1 DEF InRegion
<1>2. Min(R) \in R
  <2> HIDE DEF R
  <2> QED BY <1>1, MinProperty
<1> QED BY <1>2 DEF RegionOf

LEMMA InvImpliesBlocksCover == Inv => BlocksCover
<1> SUFFICES ASSUME Inv, work.size = 0, NEW w \in 0 .. Words - 1
             PROVE  /\ Cardinality(Hits(w)) = Cardinality({i \in DOMAIN regions :
                                                             w \in WordsOf(regions[i])})
                    /\ InRegion(w) =>
                         (patch.blocks[Min(Hits(w))].offset + w) % ContentWords
                           = ContentOf(regions[RegionOf(w)], w)
  BY DEF BlocksCover, Hits
<1>1. w \in Nat
  BY SizesAssumption
<1>2. Cover(w) = {i \in DOMAIN regions : w \in WordsOf(regions[i])}
  BY DEF Cover, Laid
<1>3. /\ Cardinality(Hits(w)) = Cardinality(Cover(w))
      /\ Cover(w) # {} => patch.blocks[Min(Hits(w))].offset
                            = RegionOffset(regions[Min(Cover(w))])
  BY <1>1, Zenon DEF Inv, LayoutInv, Matching
<1>4. ASSUME InRegion(w)
      PROVE  (patch.blocks[Min(Hits(w))].offset + w) % ContentWords
               = ContentOf(regions[RegionOf(w)], w)
  <2> DEFINE i == Min(Cover(w))
             r == regions[i]
  <2>1. Cover(w) # {} /\ RegionOf(w) = i
    BY <1>2, <1>4 DEF InRegion, RegionOf
  <2>2. i \in DOMAIN regions /\ w \in WordsOf(r)
    BY <1>4, <2>1, RegionOfWord
  <2> HIDE DEF i, r
  <2>3. PICK b \in Nat, c \in Nat, s \in Nat :
          /\ r.base = 2 * b /\ r.base \div 2 = b
          /\ r.content \div 2 = c /\ r.content = 2 * c
          /\ WordsOf(r) = b .. b + s - 1 /\ c + s <= ContentWords
    BY <2>2, RegionWords DEF r
  <2>4. RegionOffset(r) = (c - b) % ContentWords
    <3>1. r.content - r.base = 2 * (c - b)
      BY <2>3
    <3>2. (r.content - r.base) \div 2 = c - b
      BY <2>3, <3>1, Unique
    <3> QED BY <3>2 DEF RegionOffset, BlockOffset
  <2>5. w \in b .. b + s - 1
    BY <2>2, <2>3
  <2>6. c - b \in Int /\ c - b + w \in 0 .. ContentWords - 1
    BY <1>1, <2>3, <2>5, ContentWordsType
  <2>7. (((c - b) % ContentWords) + w) % ContentWords = c - b + w
    BY <1>1, <2>6, ContentWordsType, ModAdd
  <2>8. ContentOf(r, w) = c + w - b /\ c + w - b = c - b + w
    BY <1>1, <2>3 DEF ContentOf
  <2>9. patch.blocks[Min(Hits(w))].offset = RegionOffset(r)
    BY <1>3, <2>1 DEF i, r
  <2>10. ContentOf(regions[RegionOf(w)], w) = c - b + w
    BY <2>1, <2>8 DEF r
  <2> QED BY <2>4, <2>7, <2>9, <2>10
<1> QED BY <1>2, <1>3, <1>4

\* HWPatch_AllocRegion: the blocks of a patch match the words of its regions,
\* no word of a region twice, and lead each to its own content, whatever the
\* regions are, in whichever order, and overlapping as they may.
THEOREM LayoutIsRight == Spec => []BlocksCover
  BY LayoutInvariant, InvImpliesBlocksCover, PTL

-----------------------------------------------------------------------------
(***************************************************************************)
(* The patch hardware, for every patch, every spacing of the RAM clocks    *)
(* and every length of a CAM write that the assumptions allow.  The second *)
(* inductive invariant says how far the load of the patch has come, what   *)
(* an earlier session may have left, that the CAM is done with an entry    *)
(* when the next one comes, and where in the pipeline a burst's address is *)
(* so many clocks after it was on the bus.                                 *)
(***************************************************************************)

(* Where the load is *)

\* How many writes of this session have left the configuration bus; a write of
\* an earlier session may still be on it when the next one begins.
Registered == IF config.strobe THEN loaded - 1 ELSE loaded
\* The number of the last write to the offsets, to the last register of a CAM
\* entry, and of the last write of all.
OffsetsEnd == ContentWords + PATCH_NUM_BLOCKS
At(b) == OffsetsEnd + 3 * b + 3
Total == OffsetsEnd + 3 * PATCH_NUM_BLOCKS

Memory == 0 .. LastWord
Entry(b) == [addr |-> Block(b).addr, mask |-> Block(b).mask]
WrEntry == [addr |-> wr.cam.addr, mask |-> wr.cam.mask]
\* What an earlier session may have left in the CAM.
OldEntry(e) == \A w \in Memory : EntryMatches(e, w) => Superseded(w)

Load ==
    /\ session \in Nat \ {0} /\ loaded \in -1 .. Total
    /\ loaded >= 0 => Done
    /\ Len(patch.blocks) <= PATCH_NUM_BLOCKS
    /\ config = [strobe |-> config.strobe, reg |-> config.reg,
                 index |-> config.index, value |-> config.value]
    /\ config.strobe \in BOOLEAN
    /\ wr.cam.enable \in BOOLEAN /\ wr.content.enable \in BOOLEAN
    /\ wr.offset.enable \in BOOLEAN
    /\ config.strobe /\ loaded > 0 =>
         /\ config.reg = LoadWrites[loaded].reg /\ config.index = LoadWrites[loaded].index
         /\ config.value = LoadWrites[loaded].value

\* Block b's entry is in the CAM.
Fresh(b) == Registered > At(b) \/ (Registered = At(b) /\ ~ wr.cam.enable)
Cam ==
    /\ DOMAIN cam = Blocks
    /\ \A b \in Blocks :
         /\ Registered \in At(b) - 2 .. At(b) => wr.cam.addr = Block(b).addr
         /\ Registered \in At(b) - 1 .. At(b) => wr.cam.mask = Block(b).mask
         /\ Fresh(b) => cam[b] = <<Entry(b)>>
         /\ ~ Fresh(b) => cam[b] = <<>> \/ OldEntry(cam[b][1])
    /\ wr.cam.enable =>
         /\ wr.cam.index \in Blocks
         /\ Registered > 0 => Registered = At(wr.cam.index)
         /\ Registered <= 0 => OldEntry(WrEntry)
    /\ config.strobe /\ loaded <= 0 /\ config.reg = "camIndex" =>
         config.index \in Blocks /\ OldEntry(WrEntry)

\* How many cycles at least have passed since the last entry was triggered, as
\* the registers after it and the time since the last of them tell.
Since == IF loaded > OffsetsEnd THEN (loaded - OffsetsEnd) % 3 ELSE 0
Waited == idle + (IF Since = 0 THEN 0
                  ELSE IF Since = 1 THEN CONFIG_GAP ELSE CONFIG_GAP + CONFIG_GAP)
\* The CAM has written an entry before the next one comes.
Spaced ==
    /\ writing = [left |-> writing.left, index |-> writing.index]
    /\ writing.left \in 0 .. CAM_WRITE /\ misread \in BOOLEAN
    /\ idle \in 0 .. CONFIG_GAP - 1 /\ (config.strobe => idle = 0)
    /\ Strobed("camIndex") => Waited = 0 /\ writing.left <= 1 /\ ~ wr.cam.enable
    /\ wr.cam.enable => Waited <= 1 /\ writing.left = 0
    /\ writing.left > 0 => Waited + writing.left <= CAM_WRITE + 2

\* The words and offsets written so far are in their memories.
Stored ==
    /\ DOMAIN content = 0 .. ContentWords - 1 /\ DOMAIN offset_mem = Blocks
    /\ \A i \in 0 .. ContentWords - 1 :
         (Registered > i + 1 \/ (Registered = i + 1 /\ ~ wr.content.enable)) =>
            content[i] = Named(buffer[i + 1])
    /\ wr.content.enable /\ Registered > 0 =>
         /\ Registered <= ContentWords /\ wr.content.index = Registered - 1
         /\ wr.content.value = Named(buffer[Registered])
    /\ \A b \in Blocks :
         LET n == ContentWords + b + 1 IN
         (Registered > n \/ (Registered = n /\ ~ wr.offset.enable)) =>
            offset_mem[b] = Block(b).offset
    /\ wr.offset.enable /\ Registered > 0 =>
         LET b == Registered - ContentWords - 1 IN
         b \in Blocks /\ wr.offset.index = b /\ wr.offset.value = Block(b).offset

-----------------------------------------------------------------------------
(* Where the burst is *)

Reading == burst.kind \in {"address", "read"}
\* A RAM clock without output enable, which ends a burst.
End == filter.strobe /\ ~ filter.read
\* RAM clocks since the one with the address, and for how long they have
\* taken at least.
RamClocks ==
    CASE burst.kind = "address" -> 0
      [] burst.kind = "read" -> IF filter.strobe THEN burst_cycle + 1 ELSE burst_cycle
      [] OTHER -> 1
Least == MinGap * RamClocks + gap

Burst ==
    /\ filter = [strobe |-> filter.strobe, read |-> filter.read,
                 latch |-> filter.latch, a |-> filter.a]
    /\ burst = [start |-> burst.start, kind |-> burst.kind, ready |-> burst.ready]
    /\ filter.strobe \in BOOLEAN /\ filter.read \in BOOLEAN /\ filter.latch \in BOOLEAN
    /\ gap \in 0 .. MinGap /\ burst_cycle \in 0 .. 255
    /\ filter.strobe <=> gap = 0
    /\ burst.start \in Memory /\ burst.ready \in BOOLEAN
    /\ burst.kind \in {"none", "address", "read", "other"}
    /\ filter.a = burst.start
    /\ filter.strobe =>
         /\ filter.latch <=> burst.kind = "address"
         /\ filter.read <=> burst.kind = "read"
         /\ burst.kind # "none"
         /\ filter.read => burst_cycle < MaxStrobes
    /\ Reading /\ ~ filter.strobe => (burst_cycle > 0 <=> burst.kind = "read")
    /\ burst.ready => Ready
    /\ patch_active \in BOOLEAN /\ ram_ce1_out \in BOOLEAN
    /\ rd.enable \in BOOLEAN /\ rd.enable_out \in BOOLEAN /\ rd.match \in BOOLEAN
    /\ rd.strobe_in \in BOOLEAN /\ rd.strobe_out \in BOOLEAN
    /\ rd.hits \subseteq Blocks
    /\ burst.kind = "none" => ~ patch_active /\ ~ ram_ce1_out

\* The address went into the pipeline age clocks ago; what an earlier burst
\* left in it is on its way out.
Quiet(age) ==
    /\ age >= Least
    /\ age = 0 <=> filter.strobe /\ filter.latch
    /\ burst.kind = "none" => age > 5
    /\ rd.enable => age = 1
    /\ rd.enable_out => age = 2
    /\ rd.match => age \in {0, 3}
    /\ rd.strobe_in => age \in {0, 1, 4}
    /\ rd.strobe_out => age \in {0, 1, 2, 5}

\* An address that the CAM may match: the session's own, an earlier one's, or one
\* that it misread in the middle of a write.
Touched(w) ==
    \/ loaded >= 0 /\ (InRegion(w) \/ w = LastWord)
    \/ (misread \/ Superseded(w)) /\ ~ burst.ready

\* Nothing is made of an address that is not patched.
Untouched(age) ==
    /\ Reading /\ age >= 1 =>
         rd.addr = burst.start /\ rd.burst_offset = burst.start % ContentWords
    /\ Reading /\ age \in 1 .. 3 => ~ patch_active
    /\ Reading /\ age = 2 /\ rd.hits # {} => Touched(burst.start)
    /\ Reading /\ age = 3 /\ rd.match => Touched(burst.start)
    /\ patch_active /\ ~ End => Reading /\ Touched(burst.start)
    /\ ram_ce1_out /\ ~ End => burst.kind = "read" /\ patch_active /\ Touched(burst.start)

\* A patched address is found in the CAM in time.
Found(age) ==
    Reading /\ burst.ready /\ InRegion(burst.start) =>
      /\ age = 1 => rd.enable
      /\ age = 2 => rd.enable_out /\ rd.hits # {}
      /\ age = 3 => rd.match
      /\ age >= 4 => patch_active
      /\ burst.kind = "read" /\ burst_cycle >= 2 => ram_ce1_out

\* The block and the place in the content memory that are a patched address's.
BlockOf(w) == Min(Hits(w)) - 1
Place == ContentOf(regions[RegionOf(burst.start)], burst.start)
\* How many of the burst's words have been taken over.
Taken == IF burst_cycle >= READ_LATENCY - 2 THEN burst_cycle - (READ_LATENCY - 2) ELSE 0
WordAt(n) == content[(Place + n) % ContentWords]

\* The content is looked up in time, under the block that comes first.
LookedUp(age) ==
    (/\ Reading /\ InRegion(burst.start)
     /\ burst.ready \/ ~ (misread \/ Superseded(burst.start))) =>
      /\ (age = 2 /\ rd.hits # {}) \/ (age = 3 /\ rd.match) \/ (age >= 4 /\ patch_active) =>
           loaded >= 0 /\ Registered > OffsetsEnd
      /\ age = 2 /\ rd.hits # {} => Min(rd.hits) = BlockOf(burst.start)
      /\ age = 3 /\ rd.match => rd.index = BlockOf(burst.start)
      /\ age = 4 /\ patch_active => rd.strobe_in /\ rd.offset_addr = BlockOf(burst.start)
      /\ age = 5 /\ patch_active =>
           rd.strobe_out /\ rd.offset_data = Block(BlockOf(burst.start)).offset
      /\ age >= 6 /\ patch_active => rd.content_addr = (Place + Taken) % ContentWords
      /\ age >= 7 /\ patch_active /\ gap # 1 => rd.data_out = WordAt(Taken)
      /\ age >= 8 /\ patch_active /\ gap \notin {1, 2} => rd.data = WordAt(Taken)
      /\ age >= 8 /\ patch_active /\ burst_cycle >= READ_LATENCY - 1 =>
           ram_d_latch = WordAt(Taken - 1)

Pipeline(age) == Quiet(age) /\ Untouched(age) /\ Found(age) /\ LookedUp(age)

\* What is in the buffer: the words that arguments gave, in the regions' places.
Filled(i) ==
    LET first == regions[i].content \div 2 + 1 IN
    IF i = Len(regions) /\ copy.bytes > 0 THEN {}
    ELSE first .. first + RoundUp(given[i]) \div 2 - 1
Buffer ==
    /\ given \in Seq(Nat) /\ Len(given) = Len(regions) /\ copy.bytes \in Nat
    /\ \A i \in DOMAIN headers : headers[i].filesz \in Nat
    /\ \A i \in DOMAIN regions : given[i] <= regions[i].size
    /\ \A i, j \in DOMAIN regions :
         i < j => regions[i].content + regions[i].size <= regions[j].content
    /\ copy.bytes > 0 => regions # <<>> /\ given[Len(regions)] = copy.bytes
    /\ DOMAIN buffer = 1 .. ContentWords
    /\ \A k \in 1 .. ContentWords :
         buffer[k] = IF \E i \in DOMAIN regions : k \in Filled(i) THEN k ELSE 0

HwInv == /\ Inv /\ Load /\ Cam /\ Spaced /\ Stored /\ Buffer /\ Burst
         /\ \E age \in Nat : Pipeline(age)

-----------------------------------------------------------------------------
(* The order of the writes *)

LEMMA FunctionIsSequence ==
    ASSUME NEW n \in Nat, NEW s, s = [i \in 1 .. n |-> s[i]]
    PROVE  IsSequence(s) /\ Len(s) = n /\ DOMAIN s = 1 .. n
<1>1. DOMAIN s = 1 .. n
  OBVIOUS
<1>2. s \in [1 .. n -> Elements(s)]
  BY <1>1 DEF Elements
<1>3. s \in Seq(Elements(s))
  BY <1>2
<1> QED BY <1>1, <1>3 DEF IsSequence

LEMMA ConcatAny ==
    ASSUME NEW s, IsSequence(s), NEW t, IsSequence(t)
    PROVE  /\ IsSequence(s \o t) /\ Len(s \o t) = Len(s) + Len(t)
           /\ \A i \in 1 .. Len(s) : (s \o t)[i] = s[i]
           /\ \A i \in 1 .. Len(t) : (s \o t)[Len(s) + i] = t[i]
<1> DEFINE S == Elements(s) \cup Elements(t)
           u == s \o t
<1>1. s \in Seq(S) /\ t \in Seq(S)
  BY DEF IsSequence
<1> HIDE DEF S
<1>2. /\ u \in Seq(S) /\ Len(u) = Len(s) + Len(t) /\ Len(u) \in Nat /\ DOMAIN u = 1 .. Len(u)
      /\ \A i \in 1 .. Len(s) : u[i] = s[i]
      /\ \A i \in 1 .. Len(t) : u[Len(s) + i] = t[i]
  BY <1>1
<1> HIDE DEF u
<1>3. IsSequence(u)
  <2>1. \A i \in 1 .. Len(u) : u[i] \in Elements(u)
    BY <1>2 DEF Elements
  <2> QED BY <1>2, <2>1 DEF IsSequence
<1> QED BY <1>2, <1>3 DEF u

LEMMA ConcatLens ==
    ASSUME NEW s, NEW t, NEW m, NEW n,
           IsSequence(s), Len(s) = m, IsSequence(t), Len(t) = n
    PROVE  /\ IsSequence(s \o t) /\ Len(s \o t) = m + n
           /\ \A i \in 1 .. m : (s \o t)[i] = s[i]
           /\ \A i \in 1 .. n : (s \o t)[m + i] = t[i]
<1> DEFINE u == s \o t
<1>1. IsSequence(u) /\ Len(u) = Len(s) + Len(t)
  BY ConcatAny
<1>2. \A i \in 1 .. Len(s) : u[i] = s[i]
  BY ConcatAny
<1>3. \A i \in 1 .. Len(t) : u[Len(s) + i] = t[i]
  BY ConcatAny
<1> HIDE DEF u
<1>4. IsSequence(u) /\ Len(u) = m + n
      /\ (\A i \in 1 .. m : u[i] = s[i]) /\ (\A i \in 1 .. n : u[m + i] = t[i])
  BY <1>1, <1>2, <1>3
<1> QED BY <1>4 DEF u

LEMMA Sizes ==
    /\ ContentWords \in Nat /\ ContentWords > 0
    /\ PATCH_NUM_BLOCKS \in Nat /\ PATCH_NUM_BLOCKS > 0
    /\ OffsetsEnd = ContentWords + PATCH_NUM_BLOCKS
    /\ Total = OffsetsEnd + 3 * PATCH_NUM_BLOCKS
    /\ OffsetsEnd \in Nat /\ Total \in Nat
    /\ \A b : b \in Blocks <=> b \in Nat /\ b < PATCH_NUM_BLOCKS
  BY ContentWordsType, SizesAssumption DEF OffsetsEnd, Total, Blocks

\* The writes: their number, and what each is.
LEMMA Writes ==
    /\ Len(LoadWrites) = Total
    /\ \A n \in 1 .. ContentWords : LoadWrites[n] = ContentWrites[n]
    /\ \A n \in 1 .. PATCH_NUM_BLOCKS : LoadWrites[ContentWords + n] = OffsetWrites[n]
    /\ \A n \in 1 .. 3 * PATCH_NUM_BLOCKS : LoadWrites[OffsetsEnd + n] = CamWrites[n]
<1>1. /\ ContentWords \in Nat /\ PATCH_NUM_BLOCKS \in Nat /\ 3 * PATCH_NUM_BLOCKS \in Nat
  BY Sizes
<1>2. IsSequence(ContentWrites) /\ Len(ContentWrites) = ContentWords
  BY <1>1, FunctionIsSequence DEF ContentWrites
<1>3. IsSequence(OffsetWrites) /\ Len(OffsetWrites) = PATCH_NUM_BLOCKS
  BY <1>1, FunctionIsSequence DEF OffsetWrites
<1>4. IsSequence(CamWrites) /\ Len(CamWrites) = 3 * PATCH_NUM_BLOCKS
  BY <1>1, FunctionIsSequence DEF CamWrites
<1> DEFINE s == ContentWrites \o OffsetWrites
<1>5. /\ IsSequence(s) /\ Len(s) = OffsetsEnd
      /\ \A i \in 1 .. ContentWords : s[i] = ContentWrites[i]
      /\ \A i \in 1 .. PATCH_NUM_BLOCKS : s[ContentWords + i] = OffsetWrites[i]
  BY <1>2, <1>3, ConcatLens DEF OffsetsEnd
<1> HIDE DEF s
<1>6. /\ Len(s \o CamWrites) = OffsetsEnd + 3 * PATCH_NUM_BLOCKS
      /\ \A i \in 1 .. OffsetsEnd : (s \o CamWrites)[i] = s[i]
      /\ \A i \in 1 .. 3 * PATCH_NUM_BLOCKS : (s \o CamWrites)[OffsetsEnd + i] = CamWrites[i]
  BY <1>4, <1>5, ConcatLens
<1>7. LoadWrites = s \o CamWrites
  BY DEF LoadWrites, s
<1>8. /\ \A n \in 1 .. ContentWords : n \in 1 .. OffsetsEnd
      /\ \A n \in 1 .. PATCH_NUM_BLOCKS : ContentWords + n \in 1 .. OffsetsEnd
  BY Sizes
<1> QED BY <1>5, <1>6, <1>7, <1>8 DEF Total
LEMMA Thirds ==
    ASSUME NEW b \in Blocks
    PROVE  /\ 3 * b + 1 \in 1 .. 3 * PATCH_NUM_BLOCKS /\ 3 * b + 2 \in 1 .. 3 * PATCH_NUM_BLOCKS
           /\ 3 * b + 3 \in 1 .. 3 * PATCH_NUM_BLOCKS
           /\ (3 * b + 1) % 3 = 1 /\ (3 * b + 1 - 1) \div 3 = b
           /\ (3 * b + 2) % 3 = 2 /\ (3 * b + 2 - 1) \div 3 = b
           /\ (3 * b + 3) % 3 = 0 /\ (3 * b + 3 - 1) \div 3 = b
<1>1. b \in Nat /\ b < PATCH_NUM_BLOCKS /\ PATCH_NUM_BLOCKS \in Nat
  BY Sizes
<1> QED BY <1>1, Z3

LEMMA WriteAt ==
    /\ \A i \in 0 .. ContentWords - 1 : LoadWrites[i + 1] =
         [reg |-> "content", index |-> i, value |-> Named(buffer[i + 1])]
    /\ \A b \in Blocks : LoadWrites[ContentWords + b + 1] =
         [reg |-> "offset", index |-> b, value |-> Block(b).offset]
    /\ \A b \in Blocks :
         /\ LoadWrites[At(b) - 2] = [reg |-> "camAddr", index |-> 0, value |-> Block(b).addr]
         /\ LoadWrites[At(b) - 1] = [reg |-> "camMask", index |-> 0, value |-> Block(b).mask]
         /\ LoadWrites[At(b)] = [reg |-> "camIndex", index |-> b, value |-> 0]
<1>1. /\ ContentWords \in Nat /\ PATCH_NUM_BLOCKS \in Nat /\ OffsetsEnd \in Nat
  BY Sizes
<1>2. ASSUME NEW i \in 0 .. ContentWords - 1
      PROVE  LoadWrites[i + 1] =
               [reg |-> "content", index |-> i, value |-> Named(buffer[i + 1])]
  <2>1. i + 1 \in 1 .. ContentWords /\ i + 1 - 1 = i
    BY <1>1
  <2>2. ContentWrites[i + 1]
          = [reg |-> "content", index |-> i + 1 - 1, value |-> Named(buffer[i + 1])]
    BY <2>1 DEF ContentWrites
  <2>3. LoadWrites[i + 1] = ContentWrites[i + 1]
    BY <2>1, Writes, Zenon
  <2> QED BY <2>1, <2>2, <2>3, Zenon
<1>3. ASSUME NEW b \in Blocks
      PROVE  LoadWrites[ContentWords + b + 1] =
               [reg |-> "offset", index |-> b, value |-> Block(b).offset]
  <2>1. b + 1 \in 1 .. PATCH_NUM_BLOCKS /\ b + 1 - 1 = b
        /\ ContentWords + b + 1 = ContentWords + (b + 1)
    BY Sizes
  <2> DEFINE k == b + 1
  <2>2. OffsetWrites[k] = [reg |-> "offset", index |-> b, value |-> Block(b).offset]
    <3>1. k \in 1 .. PATCH_NUM_BLOCKS /\ k - 1 = b
      BY <2>1, Sizes
    <3> HIDE DEF k
    <3>2. OffsetWrites[k] = [reg |-> "offset", index |-> k - 1, value |-> Block(k - 1).offset]
      BY <3>1, Zenon DEF OffsetWrites
    <3> QED BY <3>1, <3>2, Zenon
  <2>3. LoadWrites[ContentWords + (b + 1)] = OffsetWrites[b + 1]
    BY <2>1, Writes, Zenon
  <2> QED BY <2>1, <2>2, <2>3, Zenon
<1>4. ASSUME NEW b \in Blocks
      PROVE  /\ LoadWrites[At(b) - 2] = [reg |-> "camAddr", index |-> 0, value |-> Block(b).addr]
             /\ LoadWrites[At(b) - 1] = [reg |-> "camMask", index |-> 0, value |-> Block(b).mask]
             /\ LoadWrites[At(b)] = [reg |-> "camIndex", index |-> b, value |-> 0]
  <2>1. /\ At(b) - 2 = OffsetsEnd + (3 * b + 1) /\ At(b) - 1 = OffsetsEnd + (3 * b + 2)
        /\ At(b) = OffsetsEnd + (3 * b + 3)
    BY Sizes DEF At
  <2>0. \A k \in 1 .. 3 * PATCH_NUM_BLOCKS :
          /\ k % 3 = 1 =>
               CamWrites[k] = [reg |-> "camAddr", index |-> 0, value |-> Block((k - 1) \div 3).addr]
          /\ k % 3 = 2 =>
               CamWrites[k] = [reg |-> "camMask", index |-> 0, value |-> Block((k - 1) \div 3).mask]
          /\ k % 3 = 0 =>
               CamWrites[k] = [reg |-> "camIndex", index |-> (k - 1) \div 3, value |-> 0]
    BY DEF CamWrites
  <2>2. CamWrites[3 * b + 1] = [reg |-> "camAddr", index |-> 0, value |-> Block(b).addr]
    <3> DEFINE k == 3 * b + 1
    <3>1. k \in 1 .. 3 * PATCH_NUM_BLOCKS /\ k % 3 = 1 /\ (k - 1) \div 3 = b
      BY Thirds
    <3> HIDE DEF k
    <3>2. CamWrites[k] = [reg |-> "camAddr", index |-> 0, value |-> Block((k - 1) \div 3).addr]
      BY <2>0, <3>1, Zenon
    <3> QED BY <3>1, <3>2, Zenon DEF k
  <2>3. CamWrites[3 * b + 2] = [reg |-> "camMask", index |-> 0, value |-> Block(b).mask]
    <3> DEFINE k == 3 * b + 2
    <3>1. k \in 1 .. 3 * PATCH_NUM_BLOCKS /\ k % 3 = 2 /\ (k - 1) \div 3 = b
      BY Thirds
    <3> HIDE DEF k
    <3>2. CamWrites[k] = [reg |-> "camMask", index |-> 0, value |-> Block((k - 1) \div 3).mask]
      BY <2>0, <3>1, Zenon
    <3> QED BY <3>1, <3>2, Zenon DEF k
  <2>4. CamWrites[3 * b + 3] = [reg |-> "camIndex", index |-> b, value |-> 0]
    <3> DEFINE k == 3 * b + 3
    <3>1. k \in 1 .. 3 * PATCH_NUM_BLOCKS /\ k % 3 = 0 /\ (k - 1) \div 3 = b
      BY Thirds
    <3> HIDE DEF k
    <3>2. CamWrites[k] = [reg |-> "camIndex", index |-> (k - 1) \div 3, value |-> 0]
      BY <2>0, <3>1, Zenon
    <3> QED BY <3>1, <3>2, Zenon DEF k
  <2>5. /\ LoadWrites[OffsetsEnd + (3 * b + 1)] = CamWrites[3 * b + 1]
        /\ LoadWrites[OffsetsEnd + (3 * b + 2)] = CamWrites[3 * b + 2]
        /\ LoadWrites[OffsetsEnd + (3 * b + 3)] = CamWrites[3 * b + 3]
    BY Thirds, Writes, Zenon
  <2> QED BY <2>1, <2>2, <2>3, <2>4, <2>5, Zenon
<1> QED BY <1>2, <1>3, <1>4, Zenon

\* The places of the writes.
LEMMA WritePlaces ==
    /\ \A b \in Blocks : At(b) \in Nat /\ At(b) >= OffsetsEnd + 3 /\ At(b) <= Total
    /\ \A a, b \in Blocks : (a < b => At(a) + 3 <= At(b)) /\ (At(a) = At(b) => a = b)
    /\ \A n \in 1 .. Total :
         \/ n \in 1 .. ContentWords
         \/ \E b \in Blocks : n = ContentWords + b + 1
         \/ \E b \in Blocks : n \in At(b) - 2 .. At(b)
<1>1. \A b \in Blocks : At(b) \in Nat /\ At(b) >= OffsetsEnd + 3 /\ At(b) <= Total
  BY Sizes DEF At
<1>2. \A a, b \in Blocks : (a < b => At(a) + 3 <= At(b)) /\ (At(a) = At(b) => a = b)
  BY Sizes DEF At
<1>3. ASSUME NEW n \in 1 .. Total, n > ContentWords, n <= OffsetsEnd
      PROVE  \E b \in Blocks : n = ContentWords + b + 1
  <2>1. n - ContentWords - 1 \in Blocks
    BY <1>3, Sizes
  <2> QED BY <2>1, <1>3, Sizes
<1>4. ASSUME NEW n \in 1 .. Total, n > OffsetsEnd
      PROVE  \E b \in Blocks : n \in At(b) - 2 .. At(b)
  <2> DEFINE m == n - OffsetsEnd - 1
             b == m \div 3
  <2>1. m \in Nat /\ m < 3 * PATCH_NUM_BLOCKS /\ n = OffsetsEnd + 1 + m
    BY <1>4, Sizes
  <2> HIDE DEF m
  <2>2. b \in Int /\ m % 3 \in 0 .. 2 /\ m = 3 * b + (m % 3)
    BY <2>1, DivMod
  <2> HIDE DEF b
  <2>3. b \in Blocks
    BY <2>1, <2>2, Sizes
  <2>4. n \in At(b) - 2 .. At(b)
    BY <2>1, <2>2, Sizes DEF At
  <2> QED BY <2>3, <2>4
<1> QED BY <1>1, <1>2, <1>3, <1>4, Sizes

-----------------------------------------------------------------------------
(* What the CAM matches *)

\* What an entry of this session matches is a word of its regions, or the last.
LEMMA NewMatch ==
    ASSUME Inv, Load, loaded >= 0, NEW b \in Blocks, NEW w \in Memory,
           EntryMatches(Entry(b), w)
    PROVE  /\ InRegion(w) \/ w = LastWord
           /\ b < Len(patch.blocks) => b + 1 \in Hits(w)
<1>1. work.size = 0 /\ ~ exited
  BY DEF Load, Done
<1>2. BlocksCover
  BY InvImpliesBlocksCover
<1>3. w \in 0 .. Words - 1 /\ w \in Nat /\ b \in Nat /\ Words \in Nat
  BY Sizes, SizesAssumption DEF Memory, LastWord
<1>4. patch.blocks \in Seq(CamBlocks)
  BY DEF Inv, LayoutInv, TypeOK
<1>5. CASE b < Len(patch.blocks)
  <2>1. b + 1 \in DOMAIN patch.blocks /\ Block(b) = patch.blocks[b + 1]
    BY <1>3, <1>4, <1>5 DEF Block
  <2>2. EntryMatches(patch.blocks[b + 1], w)
    BY <2>1 DEF EntryMatches, Entry
  <2>3. b + 1 \in Hits(w)
    BY <2>1, <2>2 DEF Hits
  <2>4. Cardinality(Hits(w)) = Cardinality({i \in DOMAIN regions : w \in WordsOf(regions[i])})
    BY <1>1, <1>2, <1>3 DEF BlocksCover, Hits
  <2>5. IsFiniteSet(Hits(w))
    <3>1. Hits(w) \subseteq 1 .. Len(patch.blocks) /\ Len(patch.blocks) \in Nat
      BY <1>4 DEF Hits
    <3>2. IsFiniteSet(1 .. Len(patch.blocks))
      BY <3>1, FS_Interval
    <3> QED BY <3>1, <3>2, FS_Subset
  <2>6. Cardinality(Hits(w)) # 0
    BY <2>3, <2>5, FS_EmptySet
  <2>7. {i \in DOMAIN regions : w \in WordsOf(regions[i])} # {}
    BY <2>4, <2>6, FS_EmptySet
  <2> QED BY <2>3, <2>7 DEF InRegion
<1>6. CASE b >= Len(patch.blocks)
  <2>1. Block(b) = [addr |-> LastWord, mask |-> 0, offset |-> 0]
    BY <1>3, <1>4, <1>6 DEF Block
  <2>2. w \div (0 + 1) = LastWord \div (0 + 1)
    BY <2>1 DEF EntryMatches, Entry
  <2>3. LastWord \in Nat
    BY SizesAssumption DEF LastWord
  <2>4. w = LastWord
    <3>1. \A n \in Nat : n \div (0 + 1) = n
      BY Z3
    <3> QED BY <2>2, <2>3, <1>3, <3>1
  <2> QED BY <1>3, <1>4, <1>6, <2>4
<1> QED BY <1>3, <1>4, <1>5, <1>6

\* A patched word has a block, and what leads to its content.
LEMMA OldMatch ==
    ASSUME Inv, Load, loaded >= 0, NEW w \in Memory, InRegion(w)
    PROVE  /\ BlockOf(w) \in Blocks /\ BlockOf(w) < Len(patch.blocks)
           /\ EntryMatches(Entry(BlockOf(w)), w)
           /\ \A i \in Hits(w) : i \in Nat /\ BlockOf(w) + 1 <= i
           /\ (Block(BlockOf(w)).offset + w) % ContentWords = ContentOf(regions[RegionOf(w)], w)
           /\ Block(BlockOf(w)).offset \in Nat
<1>1. work.size = 0 /\ ~ exited
  BY DEF Load, Done
<1>2. BlocksCover
  BY InvImpliesBlocksCover
<1>3. w \in 0 .. Words - 1 /\ w \in Nat
  BY SizesAssumption DEF Memory, LastWord
<1>4. patch.blocks \in Seq(CamBlocks) /\ DOMAIN regions = 1 .. Len(regions) /\ Len(regions) \in Nat
  BY DEF Inv, LayoutInv, TypeOK
<1> DEFINE R == {i \in DOMAIN regions : w \in WordsOf(regions[i])}
<1>5. /\ Cardinality(Hits(w)) = Cardinality(R)
      /\ (patch.blocks[Min(Hits(w))].offset + w) % ContentWords
            = ContentOf(regions[RegionOf(w)], w)
  BY <1>1, <1>2, <1>3 DEF BlocksCover, Hits
<1>6. R # {}
  BY DEF InRegion
<1>7. Hits(w) # {}
  <2>1. IsFiniteSet(R)
    <3>1. R \subseteq 1 .. Len(regions) /\ Len(regions) \in Nat
      BY <1>4
    <3> QED BY <3>1, FS_Interval, FS_Subset
  <2> HIDE DEF R
  <2>2. Cardinality(R) # 0
    BY <1>6, <2>1, FS_EmptySet
  <2> QED BY <1>5, <2>2, FS_EmptySet
<1>8. Hits(w) \subseteq 1 .. Len(patch.blocks) /\ Hits(w) \in SUBSET Nat
  BY <1>4 DEF Hits
<1>9. Min(Hits(w)) \in Hits(w) /\ \A i \in Hits(w) : Min(Hits(w)) <= i
  BY <1>7, <1>8, MinProperty
<1> DEFINE m == Min(Hits(w))
<1>10. m \in 1 .. Len(patch.blocks) /\ Len(patch.blocks) \in Nat /\ BlockOf(w) = m - 1
  BY <1>4, <1>8, <1>9 DEF BlockOf
<1>11. EntryMatches(patch.blocks[m], w)
  BY <1>9 DEF Hits
<1> HIDE DEF m
<1>12. BlockOf(w) \in Nat /\ BlockOf(w) < Len(patch.blocks) /\ BlockOf(w) + 1 = m
  BY <1>10
<1>13. BlockOf(w) \in Blocks /\ Block(BlockOf(w)) = patch.blocks[m]
  BY <1>12, Sizes, SMTT(20) DEF Load, Block
<1>14. patch.blocks[m].offset \in Nat
  <2>1. patch.blocks[m] \in CamBlocks
    BY <1>4, <1>10, ElementType
  <2> QED BY <2>1 DEF CamBlocks
<1>15. EntryMatches(Entry(BlockOf(w)), w)
  BY <1>11, <1>13 DEF Entry, EntryMatches
<1>16. \A i \in Hits(w) : i \in Nat /\ m <= i
  BY <1>8, <1>9 DEF m
<1> QED BY <1>5, <1>12, <1>13, <1>14, <1>15, <1>16 DEF m

-----------------------------------------------------------------------------
(* The load, in a clock *)

LEMMA SameWrites ==
    ASSUME UNCHANGED <<allocVars, argVars, session>> PROVE LoadWrites' = LoadWrites
<1>1. buffer' = buffer /\ patch' = patch /\ session' = session
  BY DEF allocVars, argVars
<1>2. \A w : Named(w)' = Named(w)
  BY <1>1 DEF Named
<1>3. \A b : Block(b)' = Block(b)
  BY <1>1 DEF Block
<1>4. ContentWrites' = ContentWrites
  BY <1>1, <1>2, Zenon DEF ContentWrites
<1>5. OffsetWrites' = OffsetWrites
  BY <1>3, Zenon DEF OffsetWrites
<1>6. CamWrites' = CamWrites
  BY <1>3 DEF CamWrites
<1> QED BY <1>4, <1>5, <1>6, Zenon DEF LoadWrites

\* What a clock reads from the configuration bus is one write further.
LEMMA RegisteredStep ==
    ASSUME Load, Clock
    PROVE  /\ loaded \in Nat /\ loaded' \in Nat /\ Registered \in Int
           /\ Registered' = loaded
           /\ loaded' = (IF config'.strobe THEN loaded + 1 ELSE loaded)
           /\ loaded = (IF config.strobe THEN Registered + 1 ELSE Registered)
           /\ config'.strobe \in BOOLEAN /\ config.strobe \in BOOLEAN
<1>1. loaded \in Nat /\ config.strobe \in BOOLEAN
      /\ config = [strobe |-> config.strobe, reg |-> config.reg,
                   index |-> config.index, value |-> config.value]
  BY Sizes DEF Load, Clock
<1>2. /\ Registered \in Int
      /\ loaded = (IF config.strobe THEN Registered + 1 ELSE Registered)
  BY <1>1 DEF Registered
<1>3. /\ config'.strobe \in BOOLEAN
      /\ loaded' = (IF config'.strobe THEN loaded + 1 ELSE loaded)
  <2>1. CASE ConfigNone
    <3>1. config'.strobe = FALSE /\ loaded' = loaded
      BY <1>1, <2>1 DEF ConfigNone
    <3> QED BY <3>1
  <2>2. CASE ConfigWrite
    <3>1. config'.strobe = TRUE /\ loaded' = loaded + 1
      BY <2>2 DEF ConfigWrite
    <3> QED BY <3>1
  <2> QED BY <2>1, <2>2 DEF Clock
<1>4. Registered' = loaded /\ loaded' \in Nat
  <2>1. CASE config'.strobe
    BY <1>1, <1>3, <2>1 DEF Registered
  <2>2. CASE ~ config'.strobe
    BY <1>1, <1>3, <2>2 DEF Registered
  <2> QED BY <2>1, <2>2
<1> QED BY <1>1, <1>2, <1>3, <1>4, Zenon

LEMMA LoadStep == ASSUME Load, Clock PROVE Load'
<1>1. UNCHANGED <<allocVars, argVars, session>> /\ LoadWrites' = LoadWrites
  BY SameWrites DEF Clock, sessionVars
<1>2. /\ Len(patch.blocks)' <= PATCH_NUM_BLOCKS /\ session' \in Nat \ {0} /\ Done'
  <2>1. patch' = patch /\ work' = work /\ copy' = copy /\ exited' = exited /\ session' = session
    BY <1>1 DEF allocVars, argVars
  <2>2. Done'
    BY <2>1 DEF Load, Clock, Done
  <2> QED BY <2>1, <2>2 DEF Load
<1>3. loaded \in Nat /\ loaded <= Total /\ loaded' \in Nat /\ Total \in Nat
  BY Sizes, RegisteredStep DEF Load
<1>4. loaded' \in -1 .. Total
        /\ (config'.strobe =>
              /\ config'.reg = LoadWrites[loaded'].reg /\ config'.index = LoadWrites[loaded'].index
              /\ config'.value = LoadWrites[loaded'].value)
        /\ config' = [strobe |-> config'.strobe, reg |-> config'.reg,
                      index |-> config'.index, value |-> config'.value]
  <2>1. CASE ConfigNone
    <3>1. config = [strobe |-> config.strobe, reg |-> config.reg,
                    index |-> config.index, value |-> config.value]
      BY DEF Load
    <3>2. config' = [strobe |-> FALSE, reg |-> config.reg,
                     index |-> config.index, value |-> config.value]
      BY <2>1, <3>1 DEF ConfigNone
    <3>3. loaded' = loaded
      BY <2>1 DEF ConfigNone
    <3> QED BY <1>3, <3>2, <3>3
  <2>2. CASE ConfigWrite
    <3> DEFINE w == LoadWrites[loaded + 1]
    <3>1. loaded < Total /\ loaded' = loaded + 1
      BY <2>2, Writes DEF ConfigWrite
    <3>2. config' = [strobe |-> TRUE, reg |-> w.reg, index |-> w.index, value |-> w.value]
      BY <2>2 DEF ConfigWrite
    <3>3. LoadWrites[loaded'] = w
      BY <3>1
    <3> HIDE DEF w
    <3> QED BY <1>3, <3>1, <3>2, <3>3
  <2> QED BY <2>1, <2>2 DEF Clock
<1>5. config'.strobe \in BOOLEAN
  BY RegisteredStep
<1>6. /\ wr'.cam.enable \in BOOLEAN /\ wr'.content.enable \in BOOLEAN
      /\ wr'.offset.enable \in BOOLEAN
  BY DEF Clock, StoreClock, Strobed
<1> QED BY <1>1, <1>2, <1>4, <1>5, <1>6 DEF Load

\* What the store registers take from the configuration bus.
LEMMA StoreRegisters ==
    ASSUME Clock
    PROVE  /\ wr'.cam.enable = Strobed("camIndex") /\ wr'.content.enable = Strobed("content")
           /\ wr'.offset.enable = Strobed("offset")
           /\ wr'.cam.addr = (IF Strobed("camAddr") THEN config.value ELSE wr.cam.addr)
           /\ wr'.cam.mask = (IF Strobed("camMask") THEN config.value ELSE wr.cam.mask)
           /\ wr'.cam.index = (IF Strobed("camIndex") THEN config.index ELSE wr.cam.index)
           /\ wr'.content.index = config.index /\ wr'.content.value = config.value
           /\ wr'.offset.index = config.index /\ wr'.offset.value = config.value
  BY DEF Clock, StoreClock

\* The write that a clock takes from the configuration bus.
LEMMA StrobedWrite ==
    ASSUME Load, config.strobe, loaded > 0
    PROVE  \/ /\ config.reg = "content" /\ loaded \in 1 .. ContentWords
              /\ config.index = loaded - 1 /\ config.value = Named(buffer[loaded])
           \/ \E b \in Blocks :
                /\ config.reg = "offset" /\ loaded = ContentWords + b + 1
                /\ config.index = b /\ config.value = Block(b).offset
           \/ \E b \in Blocks :
                \/ /\ config.reg = "camAddr" /\ loaded = At(b) - 2
                   /\ config.value = Block(b).addr
                \/ /\ config.reg = "camMask" /\ loaded = At(b) - 1
                   /\ config.value = Block(b).mask
                \/ /\ config.reg = "camIndex" /\ loaded = At(b) /\ config.index = b
<1>1. loaded \in 1 .. Total
  BY Sizes DEF Load
<1>2. /\ config.reg = LoadWrites[loaded].reg /\ config.index = LoadWrites[loaded].index
      /\ config.value = LoadWrites[loaded].value
  BY DEF Load
<1>3. CASE loaded \in 1 .. ContentWords
  <2>1. loaded - 1 \in 0 .. ContentWords - 1 /\ loaded - 1 + 1 = loaded
    BY <1>3, Sizes
  <2>2. LoadWrites[loaded]
          = [reg |-> "content", index |-> loaded - 1, value |-> Named(buffer[loaded])]
    BY <2>1, WriteAt
  <2> QED BY <1>2, <1>3, <2>2
<1>4. ASSUME NEW b \in Blocks, loaded = ContentWords + b + 1
      PROVE  /\ config.reg = "offset" /\ config.index = b /\ config.value = Block(b).offset
  <2>1. LoadWrites[loaded] = [reg |-> "offset", index |-> b, value |-> Block(b).offset]
    BY <1>4, WriteAt
  <2> QED BY <1>2, <2>1
<1>5. ASSUME NEW b \in Blocks, loaded \in At(b) - 2 .. At(b)
      PROVE  \/ /\ config.reg = "camAddr" /\ loaded = At(b) - 2
                /\ config.value = Block(b).addr
             \/ /\ config.reg = "camMask" /\ loaded = At(b) - 1
                /\ config.value = Block(b).mask
             \/ /\ config.reg = "camIndex" /\ loaded = At(b) /\ config.index = b
  <2>1. /\ LoadWrites[At(b) - 2] = [reg |-> "camAddr", index |-> 0, value |-> Block(b).addr]
        /\ LoadWrites[At(b) - 1] = [reg |-> "camMask", index |-> 0, value |-> Block(b).mask]
        /\ LoadWrites[At(b)] = [reg |-> "camIndex", index |-> b, value |-> 0]
    BY WriteAt
  <2>2. loaded = At(b) - 2 \/ loaded = At(b) - 1 \/ loaded = At(b)
    BY <1>5, WritePlaces
  <2>3. CASE loaded = At(b) - 2
    BY <1>2, <2>1, <2>3
  <2>4. CASE loaded = At(b) - 1
    BY <1>2, <2>1, <2>4
  <2>5. CASE loaded = At(b)
    BY <1>2, <2>1, <2>5
  <2> QED BY <2>2, <2>3, <2>4, <2>5
<1> QED BY <1>1, <1>3, <1>4, <1>5, WritePlaces

\* The state in which a clock finds an entry of the CAM that counts as loaded.
LEMMA FreshStep ==
    ASSUME Load, Clock, NEW b \in Blocks
    PROVE  /\ At(b) > 0 /\ At(b) \in Nat
           /\ Fresh(b)' => \/ Fresh(b)
                           \/ Registered = At(b) /\ wr.cam.enable
           /\ Fresh(b) => Fresh(b)'
           /\ ~ Fresh(b) => Registered <= At(b)
<1>1. At(b) > 0 /\ At(b) \in Nat
  BY WritePlaces, Sizes
<1>2. /\ loaded \in Nat /\ Registered \in Int /\ Registered' = loaded
      /\ loaded = (IF config.strobe THEN Registered + 1 ELSE Registered)
      /\ config.strobe \in BOOLEAN /\ wr.cam.enable \in BOOLEAN
  BY RegisteredStep DEF Load
<1>3. wr'.cam.enable = Strobed("camIndex")
  BY StoreRegisters
<1>4. Fresh(b)' <=> (loaded > At(b) \/ (loaded = At(b) /\ ~ wr'.cam.enable))
  BY <1>2 DEF Fresh, At, OffsetsEnd
<1>5. config.strobe /\ loaded = At(b) => config.reg = "camIndex"
  <2>1. LoadWrites[At(b)] = [reg |-> "camIndex", index |-> b, value |-> 0]
    BY WriteAt
  <2> QED BY <1>1, <2>1 DEF Load
<1>6. CASE config.strobe
  <2>1. loaded = At(b) => wr'.cam.enable
    BY <1>3, <1>5, <1>6 DEF Strobed
  <2> QED BY <1>1, <1>2, <1>4, <1>6, <2>1 DEF Fresh
<1>7. CASE ~ config.strobe
  <2>1. ~ wr'.cam.enable
    BY <1>3, <1>7 DEF Strobed
  <2> QED BY <1>1, <1>2, <1>4, <1>7, <2>1 DEF Fresh
<1> QED BY <1>1, <1>2, <1>6, <1>7

-----------------------------------------------------------------------------
(* The spacing of the entries, in a clock *)

\* The write that triggers an entry is the third of its registers.
LEMMA TriggerPlace ==
    ASSUME Load, Clock, config'.strobe, config'.reg = "camIndex"
    PROVE  Since = 2
<1>1. loaded < Total /\ loaded' = loaded + 1 /\ loaded \in Nat /\ loaded' \in 1 .. Total
      /\ LoadWrites[loaded + 1].reg = "camIndex"
  <2>1. ~ ConfigNone
    <3>1. config = [strobe |-> config.strobe, reg |-> config.reg,
                    index |-> config.index, value |-> config.value]
      BY DEF Load
    <3> QED BY <3>1 DEF ConfigNone
  <2>2. ConfigWrite
    BY <2>1 DEF Clock
  <2>3. loaded \in Nat /\ loaded < Total
    BY <2>2, RegisteredStep, Writes DEF ConfigWrite
  <2>4. loaded' = loaded + 1 /\ LoadWrites[loaded + 1].reg = "camIndex"
    BY <2>2 DEF ConfigWrite
  <2> QED BY <2>3, <2>4, Sizes
<1>2. PICK b \in Blocks : loaded + 1 = At(b)
  <2>1. ASSUME loaded + 1 \in 1 .. ContentWords PROVE FALSE
    <3>1. loaded \in 0 .. ContentWords - 1
      BY <1>1, <2>1, Sizes
    <3>2. LoadWrites[loaded + 1]
            = [reg |-> "content", index |-> loaded, value |-> Named(buffer[loaded + 1])]
      BY <3>1, WriteAt
    <3> QED BY <1>1, <3>2
  <2>2. ASSUME NEW b \in Blocks, loaded + 1 = ContentWords + b + 1 PROVE FALSE
    <3>1. LoadWrites[loaded + 1]
            = [reg |-> "offset", index |-> b, value |-> Block(b).offset]
      BY <2>2, WriteAt
    <3> QED BY <1>1, <3>1
  <2>3. ASSUME NEW b \in Blocks, loaded + 1 \in At(b) - 2 .. At(b) PROVE loaded + 1 = At(b)
    <3>1. /\ LoadWrites[At(b) - 2] = [reg |-> "camAddr", index |-> 0, value |-> Block(b).addr]
          /\ LoadWrites[At(b) - 1] = [reg |-> "camMask", index |-> 0, value |-> Block(b).mask]
      BY WriteAt
    <3>2. loaded + 1 # At(b) - 2 /\ loaded + 1 # At(b) - 1
      BY <1>1, <3>1
    <3> QED BY <2>3, <3>2, WritePlaces
  <2> QED BY <1>1, <2>1, <2>2, <2>3, WritePlaces
<1>3. loaded - OffsetsEnd = 3 * b + 2 /\ b \in Nat /\ loaded > OffsetsEnd
  BY <1>1, <1>2, Sizes DEF At
<1>4. (3 * b + 2) % 3 = 2
  BY <1>3, Unique
<1> QED BY <1>3, <1>4 DEF Since

LEMMA SinceStep ==
    ASSUME Load, Clock
    PROVE  /\ Since \in 0 .. 2 /\ Since' \in 0 .. 2
           /\ loaded' = loaded => Since' = Since
           /\ loaded' = loaded + 1 => Since' = 0 \/ Since' = Since + 1
<1>1. loaded \in Nat /\ loaded' \in Nat /\ OffsetsEnd \in Nat /\ OffsetsEnd' = OffsetsEnd
  BY RegisteredStep, Sizes DEF OffsetsEnd
<1>2. \A x \in Nat : x % 3 \in 0 .. 2 /\ ((x + 1) % 3 = 0 \/ (x + 1) % 3 = (x % 3) + 1)
  BY Z3
<1>3. \A m, n \in Nat : m > n => m - n \in Nat /\ (m - n) % 3 \in 0 .. 2
  <2> TAKE m, n \in Nat
  <2> HAVE m > n
  <2>1. m - n \in Nat
    OBVIOUS
  <2> QED BY <1>2, <2>1, Zenon
<1>4. /\ loaded > OffsetsEnd => Since = (loaded - OffsetsEnd) % 3
      /\ ~ (loaded > OffsetsEnd) => Since = 0
      /\ loaded' > OffsetsEnd => Since' = (loaded' - OffsetsEnd) % 3
      /\ ~ (loaded' > OffsetsEnd) => Since' = 0
  BY <1>1, Zenon DEF Since
<1>5. 0 \in 0 .. 2
  OBVIOUS
<1>6. Since \in 0 .. 2 /\ Since' \in 0 .. 2
  BY <1>1, <1>3, <1>4, <1>5, Zenon
<1>7. loaded' = loaded => Since' = Since
  BY <1>4, Zenon
<1>8. ASSUME loaded' = loaded + 1 PROVE Since' = 0 \/ Since' = Since + 1
  <2>1. CASE loaded > OffsetsEnd
    <3>1. loaded' > OffsetsEnd /\ loaded' - OffsetsEnd = (loaded - OffsetsEnd) + 1
      BY <1>1, <1>8, <2>1
    <3>2. Since = (loaded - OffsetsEnd) % 3 /\ Since' = ((loaded - OffsetsEnd) + 1) % 3
      BY <1>4, <2>1, <3>1, Zenon
    <3>3. loaded - OffsetsEnd \in Nat
      BY <1>1, <1>3, <2>1, Zenon
    <3> QED BY <1>2, <3>2, <3>3, Zenon
  <2>2. CASE loaded = OffsetsEnd
    <3>1. ~ (loaded > OffsetsEnd) /\ loaded' - OffsetsEnd = 1 /\ loaded' > OffsetsEnd
      BY <1>1, <1>8, <2>2
    <3>2. Since = 0 /\ Since' = 1 % 3
      BY <1>4, <3>1, Zenon
    <3>3. 1 % 3 = 1
      BY Z3
    <3> QED BY <3>2, <3>3
  <2>3. CASE loaded < OffsetsEnd
    <3>1. ~ (loaded' > OffsetsEnd)
      BY <1>1, <1>8, <2>3
    <3> QED BY <1>4, <3>1, Zenon
  <2> QED BY <1>1, <2>1, <2>2, <2>3
<1> QED BY <1>6, <1>7, <1>8

\* A clock brings the next entry at most one cycle nearer.
LEMMA WaitedStep ==
    ASSUME Load, Spaced, Clock
    PROVE  /\ Waited \in Nat /\ Waited' \in Nat /\ Waited' <= Waited + 1
           /\ idle' \in 0 .. CONFIG_GAP - 1 /\ (config'.strobe => idle' = 0)
           /\ config'.strobe /\ config'.reg = "camIndex" =>
                Waited' = 0 /\ Waited >= 2 /\ Waited >= CAM_WRITE
<1>1. /\ CONFIG_GAP \in Nat /\ CONFIG_GAP > 0 /\ CAM_WRITE \in Nat
      /\ CAM_WRITE < 3 * CONFIG_GAP /\ idle \in 0 .. CONFIG_GAP - 1
  BY LoadAssumption DEF Spaced
<1>2. /\ Since \in 0 .. 2 /\ Since' \in 0 .. 2
      /\ loaded' = loaded => Since' = Since
      /\ loaded' = loaded + 1 => Since' = 0 \/ Since' = Since + 1
  BY SinceStep
<1>3. Waited = idle + (IF Since = 0 THEN 0
                       ELSE IF Since = 1 THEN CONFIG_GAP ELSE CONFIG_GAP + CONFIG_GAP)
  BY DEF Waited
<1>4. Waited' = idle' + (IF Since' = 0 THEN 0
                         ELSE IF Since' = 1 THEN CONFIG_GAP ELSE CONFIG_GAP + CONFIG_GAP)
  BY DEF Waited
<1>5. CASE ConfigNone
  <2>1. loaded' = loaded /\ ~ config'.strobe
    <3>1. config = [strobe |-> config.strobe, reg |-> config.reg,
                    index |-> config.index, value |-> config.value]
      BY DEF Load
    <3> QED BY <1>5, <3>1 DEF ConfigNone
  <2>2. idle' = Min({idle + 1, CONFIG_GAP - 1})
    BY <1>5 DEF ConfigNone
  <2>3. idle' = IF idle + 1 <= CONFIG_GAP - 1 THEN idle + 1 ELSE CONFIG_GAP - 1
    BY <1>1, <2>2, MinOfTwo
  <2> QED BY ONLY <1>1, <1>2, <1>3, <1>4, <2>1, <2>3
<1>6. CASE ConfigWrite
  <2>1. loaded' = loaded + 1 /\ idle >= CONFIG_GAP - 1 /\ idle' = 0
    BY <1>6 DEF ConfigWrite
  <2>2. config'.strobe /\ config'.reg = "camIndex" => Since = 2
    BY TriggerPlace
  <2> QED BY ONLY <1>1, <1>2, <1>3, <1>4, <2>1, <2>2
<1> QED BY <1>5, <1>6 DEF Clock

LEMMA SpacedStep == ASSUME Load, Spaced, Clock PROVE Spaced'
<1>1. /\ Waited \in Nat /\ Waited' \in Nat /\ Waited' <= Waited + 1
      /\ idle' \in 0 .. CONFIG_GAP - 1 /\ (config'.strobe => idle' = 0)
      /\ config'.strobe /\ config'.reg = "camIndex" =>
           Waited' = 0 /\ Waited >= 2 /\ Waited >= CAM_WRITE
  BY WaitedStep
<1>2. /\ writing = [left |-> writing.left, index |-> writing.index]
      /\ writing.left \in 0 .. CAM_WRITE /\ CAM_WRITE \in Nat
      /\ Strobed("camIndex") => Waited = 0 /\ writing.left <= 1 /\ ~ wr.cam.enable
      /\ wr.cam.enable => Waited <= 1 /\ writing.left = 0
      /\ writing.left > 0 => Waited + writing.left <= CAM_WRITE + 2
      /\ wr.cam.enable \in BOOLEAN /\ Strobed("camIndex") \in BOOLEAN
  BY LoadAssumption DEF Spaced, Load, Strobed
<1>3. wr'.cam.enable = Strobed("camIndex")
  BY StoreRegisters
<1>4. writing' = [left |-> writing'.left, index |-> writing'.index]
  BY <1>2 DEF Clock, CamWriteClock
<1>5. writing'.left = IF wr.cam.enable THEN CAM_WRITE
                      ELSE IF writing.left = 0 THEN 0 ELSE writing.left - 1
  BY <1>2 DEF Clock, CamWriteClock
<1>6. writing'.left \in 0 .. CAM_WRITE
  BY <1>2, <1>5
<1>7. misread' \in BOOLEAN
  BY DEF Clock, Lookup, Spaced
<1>8. Strobed("camIndex")' => Waited' = 0 /\ writing'.left <= 1 /\ ~ wr'.cam.enable
  <2> SUFFICES ASSUME config'.strobe, config'.reg = "camIndex"
               PROVE  Waited' = 0 /\ writing'.left <= 1 /\ ~ wr'.cam.enable
    BY DEF Strobed
  <2>1. Waited' = 0 /\ Waited >= 2 /\ Waited >= CAM_WRITE
    BY <1>1
  <2>2. ~ wr.cam.enable /\ ~ Strobed("camIndex")
    BY <1>1, <1>2, <2>1
  <2>3. writing'.left <= 1
    BY <1>1, <1>2, <1>5, <2>1, <2>2
  <2> QED BY <1>3, <2>1, <2>2, <2>3
<1>9. wr'.cam.enable => Waited' <= 1 /\ writing'.left = 0
  BY <1>1, <1>2, <1>3, <1>5
<1>10. writing'.left > 0 => Waited' + writing'.left <= CAM_WRITE + 2
  BY <1>1, <1>2, <1>5
<1> QED BY <1>1, <1>4, <1>6, <1>7, <1>8, <1>9, <1>10 DEF Spaced

-----------------------------------------------------------------------------
(* The CAM, in a clock *)

LEMMA CamStep == ASSUME Load, Cam, Spaced, Clock PROVE Cam'
<1>1. /\ session' = session /\ earlier' = earlier /\ patch' = patch
  BY DEF Clock, sessionVars, allocVars
<1>2. /\ loaded \in Nat /\ Registered \in Int /\ Registered' = loaded /\ loaded' \in Nat
      /\ loaded = (IF config.strobe THEN Registered + 1 ELSE Registered)
      /\ loaded' = (IF config'.strobe THEN loaded + 1 ELSE loaded)
      /\ config.strobe \in BOOLEAN /\ config'.strobe \in BOOLEAN /\ wr.cam.enable \in BOOLEAN
  BY RegisteredStep DEF Load
<1>3. /\ wr'.cam.enable = Strobed("camIndex")
      /\ wr'.cam.addr = (IF Strobed("camAddr") THEN config.value ELSE wr.cam.addr)
      /\ wr'.cam.mask = (IF Strobed("camMask") THEN config.value ELSE wr.cam.mask)
      /\ wr'.cam.index = (IF Strobed("camIndex") THEN config.index ELSE wr.cam.index)
  BY StoreRegisters
<1>4. cam' = IF wr.cam.enable THEN [cam EXCEPT ![wr.cam.index] = <<WrEntry>>] ELSE cam
  BY DEF Spaced, Clock, CamWriteClock, WrEntry
<1>5. /\ DOMAIN cam = Blocks /\ DOMAIN cam' = Blocks
      /\ \A b \in Blocks :
           cam'[b] = IF wr.cam.enable /\ wr.cam.index = b THEN <<WrEntry>> ELSE cam[b]
  BY <1>4 DEF Cam
<1>6. \A b \in Blocks : Block(b)' = Block(b) /\ Entry(b)' = Entry(b)
  BY <1>1 DEF Block, Entry
\* The registers of the entry that is being written.
<1>7. ASSUME NEW b \in Blocks
      PROVE  /\ loaded \in At(b) - 2 .. At(b) => wr'.cam.addr = Block(b).addr
             /\ loaded \in At(b) - 1 .. At(b) => wr'.cam.mask = Block(b).mask
  <2>1. At(b) \in Nat /\ At(b) > 2
    BY WritePlaces, Sizes
  <2>2. /\ Registered \in At(b) - 2 .. At(b) => wr.cam.addr = Block(b).addr
        /\ Registered \in At(b) - 1 .. At(b) => wr.cam.mask = Block(b).mask
    BY DEF Cam
  <2>3. CASE ~ config.strobe
    BY <1>2, <1>3, <2>2, <2>3 DEF Strobed
  <2>4. CASE config.strobe
    <3>1. config.strobe /\ loaded > 0 => /\ config.reg = LoadWrites[loaded].reg
                                         /\ config.value = LoadWrites[loaded].value
      BY DEF Load
    <3>0. /\ LoadWrites[At(b) - 2] = [reg |-> "camAddr", index |-> 0, value |-> Block(b).addr]
          /\ LoadWrites[At(b) - 1] = [reg |-> "camMask", index |-> 0, value |-> Block(b).mask]
          /\ LoadWrites[At(b)] = [reg |-> "camIndex", index |-> b, value |-> 0]
      BY WriteAt
    <3>2. loaded = At(b) - 2 => config.reg = "camAddr" /\ config.value = Block(b).addr
      BY <2>1, <2>4, <3>0, <3>1
    <3>3. loaded = At(b) - 1 => config.reg = "camMask" /\ config.value = Block(b).mask
      BY <2>1, <2>4, <3>0, <3>1
    <3>4. loaded = At(b) => config.reg = "camIndex"
      BY <2>1, <2>4, <3>0, <3>1
    <3>5. Registered = loaded - 1
      BY <1>2, <2>4
    <3> QED BY <1>2, <1>3, <2>1, <2>2, <2>4, <3>2, <3>3, <3>4, <3>5 DEF Strobed
  <2> QED BY <2>3, <2>4
\* The entries.
<1>8. ASSUME NEW b \in Blocks
      PROVE  /\ Fresh(b)' => cam'[b] = <<Entry(b)>>
             /\ ~ Fresh(b)' => cam'[b] = <<>> \/ OldEntry(cam'[b][1])
  <2>1. /\ At(b) > 0 /\ At(b) \in Nat
        /\ Fresh(b)' => Fresh(b) \/ (Registered = At(b) /\ wr.cam.enable)
        /\ Fresh(b) => Fresh(b)'
        /\ ~ Fresh(b) => Registered <= At(b)
    BY FreshStep
  <2>2. wr.cam.enable => /\ wr.cam.index \in Blocks
                         /\ Registered > 0 => Registered = At(wr.cam.index)
                         /\ Registered <= 0 => OldEntry(WrEntry)
    BY DEF Cam
  <2>3. ASSUME wr.cam.enable, Registered = At(b) PROVE cam'[b] = <<Entry(b)>>
    <3>1. wr.cam.index = b
      BY <2>1, <2>2, <2>3, WritePlaces
    <3>2. wr.cam.addr = Block(b).addr /\ wr.cam.mask = Block(b).mask
      BY <2>1, <2>3 DEF Cam
    <3> QED BY <1>5, <2>3, <3>1, <3>2 DEF Entry, WrEntry
  <2>4. ASSUME Fresh(b), ~ (wr.cam.enable /\ Registered = At(b)) PROVE cam'[b] = <<Entry(b)>>
    <3>1. ~ (wr.cam.enable /\ wr.cam.index = b)
      BY <1>2, <2>1, <2>2, <2>4 DEF Fresh
    <3> QED BY <1>5, <2>4, <3>1 DEF Cam
  <2>5. ASSUME ~ Fresh(b)' PROVE cam'[b] = <<>> \/ OldEntry(cam'[b][1])
    <3>1. ~ Fresh(b) /\ (cam[b] = <<>> \/ OldEntry(cam[b][1]))
      BY <2>1, <2>5 DEF Cam
    <3>2. CASE wr.cam.enable /\ wr.cam.index = b
      <4>1. Registered # At(b)
        <5>1. Registered = At(b) => loaded = At(b) \/ loaded = At(b) + 1
          BY <1>2, <2>1
        <5>2. loaded = At(b) /\ Registered = At(b) => ~ wr'.cam.enable
          BY <1>2, <1>3, <2>1 DEF Strobed
        <5>3. Fresh(b)' <=> (loaded > At(b) \/ (loaded = At(b) /\ ~ wr'.cam.enable))
          BY <1>2 DEF Fresh, At, OffsetsEnd
        <5> QED BY <2>1, <2>5, <5>1, <5>2, <5>3
      <4>2. OldEntry(WrEntry)
        BY <1>2, <2>1, <2>2, <3>2, <4>1
      <4>3. cam'[b][1] = WrEntry
        BY <1>5, <3>2
      <4> QED BY <4>2, <4>3
    <3>3. CASE ~ (wr.cam.enable /\ wr.cam.index = b)
      BY <1>5, <3>1, <3>3
    <3> QED BY <3>2, <3>3
  <2> QED BY <2>1, <2>3, <2>4, <2>5
\* The index that is being written.
<1>9. ASSUME wr'.cam.enable
      PROVE  /\ wr'.cam.index \in Blocks
             /\ loaded > 0 => loaded = At(wr'.cam.index)
             /\ loaded <= 0 => OldEntry([addr |-> wr'.cam.addr, mask |-> wr'.cam.mask])
  <2>1. config.strobe /\ config.reg = "camIndex" /\ wr'.cam.index = config.index
    BY <1>3, <1>9 DEF Strobed
  <2>2. CASE loaded > 0
    BY <1>2, <2>1, <2>2, StrobedWrite
  <2>3. CASE loaded <= 0
    <3>1. config.index \in Blocks /\ OldEntry(WrEntry)
      BY <2>1, <2>3 DEF Cam
    <3>2. wr'.cam.addr = wr.cam.addr /\ wr'.cam.mask = wr.cam.mask
      BY <1>3, <2>1 DEF Strobed
    <3> QED BY <1>2, <2>1, <2>3, <3>1, <3>2 DEF WrEntry
  <2> QED BY <1>2, <2>2, <2>3
<1>10. config'.strobe => ~ (loaded' <= 0)
  BY <1>2
<1>11. \A b \in Blocks :
         /\ (Registered \in At(b) - 2 .. At(b) => wr.cam.addr = Block(b).addr)'
         /\ (Registered \in At(b) - 1 .. At(b) => wr.cam.mask = Block(b).mask)'
         /\ (Fresh(b) => cam[b] = <<Entry(b)>>)'
         /\ (~ Fresh(b) => cam[b] = <<>> \/ OldEntry(cam[b][1]))'
  <2> TAKE b \in Blocks
  <2>1. Block(b)' = Block(b) /\ Entry(b)' = Entry(b)
    BY <1>6
  <2>2. (Registered \in At(b) - 2 .. At(b) => wr.cam.addr = Block(b).addr)'
    BY <1>2, <1>7, <2>1
  <2>3. (Registered \in At(b) - 1 .. At(b) => wr.cam.mask = Block(b).mask)'
    BY <1>2, <1>7, <2>1
  <2>4. (Fresh(b) => cam[b] = <<Entry(b)>>)'
    BY <1>8, <2>1
  <2>5. (~ Fresh(b) => cam[b] = <<>> \/ OldEntry(cam[b][1]))'
    BY <1>1, <1>8 DEF OldEntry, Superseded
  <2> QED BY <2>2, <2>3, <2>4, <2>5
<1>12. (wr.cam.enable => /\ wr.cam.index \in Blocks
                         /\ Registered > 0 => Registered = At(wr.cam.index)
                         /\ Registered <= 0 => OldEntry(WrEntry))'
  BY <1>1, <1>2, <1>9 DEF OldEntry, Superseded, WrEntry, At
<1>13. (config.strobe /\ loaded <= 0 /\ config.reg = "camIndex" =>
          config.index \in Blocks /\ OldEntry(WrEntry))'
  BY <1>10
<1> QED BY <1>5, <1>11, <1>12, <1>13 DEF Cam

LEMMA StoredStep == ASSUME Load, Stored, Clock PROVE Stored'
<1>1. /\ session' = session /\ patch' = patch /\ buffer' = buffer
  BY DEF Clock, sessionVars, allocVars, argVars
<1>2. /\ loaded \in Nat /\ Registered \in Int /\ Registered' = loaded /\ loaded' \in Nat
      /\ loaded = (IF config.strobe THEN Registered + 1 ELSE Registered)
      /\ config.strobe \in BOOLEAN
      /\ wr.content.enable \in BOOLEAN /\ wr.offset.enable \in BOOLEAN
  BY RegisteredStep DEF Load
<1>3. /\ wr'.content.enable = Strobed("content") /\ wr'.offset.enable = Strobed("offset")
      /\ wr'.content.index = config.index /\ wr'.content.value = config.value
      /\ wr'.offset.index = config.index /\ wr'.offset.value = config.value
  BY StoreRegisters
<1>4. /\ content' = IF wr.content.enable
                    THEN [content EXCEPT ![wr.content.index] = wr.content.value] ELSE content
      /\ offset_mem' = IF wr.offset.enable
                       THEN [offset_mem EXCEPT ![wr.offset.index] = wr.offset.value]
                       ELSE offset_mem
  BY DEF Clock, StoreClock
<1>5. /\ DOMAIN content = 0 .. ContentWords - 1 /\ DOMAIN offset_mem = Blocks
  BY DEF Stored
<1>6. \A w : Named(w)' = Named(w)
  BY <1>1 DEF Named
<1>7. \A b : Block(b)' = Block(b)
  BY <1>1 DEF Block
<1>8. ContentWords \in Nat /\ PATCH_NUM_BLOCKS \in Nat
      /\ \A b : b \in Blocks <=> b \in Nat /\ b < PATCH_NUM_BLOCKS
  BY Sizes
<1>9. ASSUME NEW i \in 0 .. ContentWords - 1,
             loaded > i + 1 \/ (loaded = i + 1 /\ ~ wr'.content.enable)
      PROVE  content'[i] = Named(buffer[i + 1])
  <2>1. Registered >= i + 1
    <3>1. CASE config.strobe /\ loaded = i + 1
      <4>1. config.reg = "content"
        <5>1. LoadWrites[i + 1] = [reg |-> "content", index |-> i, value |-> Named(buffer[i + 1])]
          BY WriteAt
        <5>2. loaded > 0
          BY <1>8, <3>1
        <5> QED BY <3>1, <5>1, <5>2 DEF Load
      <4>2. wr'.content.enable
        BY <1>3, <3>1, <4>1 DEF Strobed
      <4> QED BY <1>8, <1>9, <3>1, <4>2
    <3> QED BY <1>2, <1>8, <1>9, <3>1
  <2>2. (Registered > i + 1 \/ (Registered = i + 1 /\ ~ wr.content.enable)) =>
            content[i] = Named(buffer[i + 1])
    BY DEF Stored
  <2>3. wr.content.enable => /\ wr.content.index = Registered - 1
                             /\ wr.content.value = Named(buffer[Registered])
    BY <1>2, <1>8, <2>1 DEF Stored
  <2>4. CASE Registered = i + 1 /\ wr.content.enable
    <3>1. wr.content.index = i /\ wr.content.value = Named(buffer[i + 1])
      BY <1>8, <2>3, <2>4
    <3> QED BY <1>4, <1>5, <2>4, <3>1
  <2>5. CASE ~ (Registered = i + 1 /\ wr.content.enable)
    <3>1. content[i] = Named(buffer[i + 1])
      BY <1>2, <1>8, <2>1, <2>2, <2>5
    <3>2. wr.content.enable => wr.content.index # i
      BY <1>2, <1>8, <2>1, <2>3, <2>5
    <3> QED BY <1>4, <1>5, <3>1, <3>2
  <2> QED BY <2>4, <2>5
<1>10. ASSUME NEW b \in Blocks, loaded > ContentWords + b + 1
                                \/ (loaded = ContentWords + b + 1 /\ ~ wr'.offset.enable)
       PROVE  offset_mem'[b] = Block(b).offset
  <2> DEFINE n == ContentWords + b + 1
  <2>0. n \in Nat /\ n > 0 /\ b = n - ContentWords - 1 /\ b \in Nat
    BY <1>8
  <2> HIDE DEF n
  <2>1. Registered >= n
    <3>1. CASE config.strobe /\ loaded = n
      <4>1. config.reg = "offset"
        <5>1. LoadWrites[n] = [reg |-> "offset", index |-> b, value |-> Block(b).offset]
          BY WriteAt DEF n
        <5> QED BY <2>0, <3>1, <5>1 DEF Load
      <4>2. wr'.offset.enable
        BY <1>3, <3>1, <4>1 DEF Strobed
      <4> QED BY <1>8, <1>10, <3>1, <4>2 DEF n
    <3>2. loaded > n \/ (loaded = n /\ ~ wr'.offset.enable)
      BY <1>10 DEF n
    <3> QED BY <1>2, <2>0, <3>1, <3>2
  <2>2. (Registered > n \/ (Registered = n /\ ~ wr.offset.enable)) =>
            offset_mem[b] = Block(b).offset
    BY DEF Stored, n
  <2>3. wr.offset.enable =>
          /\ wr.offset.index = Registered - ContentWords - 1
          /\ wr.offset.value = Block(Registered - ContentWords - 1).offset
    BY <1>2, <2>0, <2>1 DEF Stored
  <2>4. CASE Registered = n /\ wr.offset.enable
    <3>1. wr.offset.index = b /\ wr.offset.value = Block(b).offset
      BY <2>0, <2>3, <2>4
    <3> QED BY <1>4, <1>5, <2>4, <3>1
  <2>5. CASE ~ (Registered = n /\ wr.offset.enable)
    <3>1. offset_mem[b] = Block(b).offset
      BY <1>2, <2>0, <2>1, <2>2, <2>5
    <3>2. wr.offset.enable => wr.offset.index # b
      BY <1>2, <1>8, <2>0, <2>1, <2>3, <2>5
    <3> QED BY <1>4, <1>5, <3>1, <3>2
  <2> QED BY <2>4, <2>5
<1>11. ASSUME wr'.content.enable, loaded > 0
       PROVE  /\ loaded <= ContentWords /\ wr'.content.index = loaded - 1
              /\ wr'.content.value = Named(buffer[loaded])
  <2>1. config.strobe /\ config.reg = "content"
    BY <1>3, <1>11 DEF Strobed
  <2> QED BY <1>3, <1>8, <1>11, <2>1, StrobedWrite
<1>12. ASSUME wr'.offset.enable, loaded > 0
       PROVE  \E b \in Blocks : /\ loaded = ContentWords + b + 1 /\ wr'.offset.index = b
                                /\ wr'.offset.value = Block(b).offset
  <2>1. config.strobe /\ config.reg = "offset"
    BY <1>3, <1>12 DEF Strobed
  <2> QED BY <1>3, <1>12, <2>1, StrobedWrite
<1>13. DOMAIN content' = 0 .. ContentWords - 1 /\ DOMAIN offset_mem' = Blocks
  BY <1>4, <1>5
<1>14. (\A i \in 0 .. ContentWords - 1 :
          (Registered > i + 1 \/ (Registered = i + 1 /\ ~ wr.content.enable)) =>
            content[i] = Named(buffer[i + 1]))'
  BY <1>1, <1>2, <1>6, <1>9
<1>15. (wr.content.enable /\ Registered > 0 =>
         /\ Registered <= ContentWords /\ wr.content.index = Registered - 1
         /\ wr.content.value = Named(buffer[Registered]))'
  BY <1>1, <1>2, <1>11 DEF Named
<1>16. (\A b \in Blocks :
         LET n == ContentWords + b + 1 IN
         (Registered > n \/ (Registered = n /\ ~ wr.offset.enable)) =>
            offset_mem[b] = Block(b).offset)'
  BY <1>2, <1>7, <1>10
<1>17. (wr.offset.enable /\ Registered > 0 =>
         LET b == Registered - ContentWords - 1 IN
         b \in Blocks /\ wr.offset.index = b /\ wr.offset.value = Block(b).offset)'
  <2> SUFFICES ASSUME wr'.offset.enable, loaded > 0
      PROVE  (LET b == Registered - ContentWords - 1 IN
              b \in Blocks /\ wr.offset.index = b /\ wr.offset.value = Block(b).offset)'
    BY <1>2
  <2>1. PICK b \in Blocks : /\ loaded = ContentWords + b + 1 /\ wr'.offset.index = b
                            /\ wr'.offset.value = Block(b).offset
    BY <1>12
  <2>2. Registered' - ContentWords - 1 = b
    BY <1>2, <1>8, <2>1
  <2>3. /\ Registered' - ContentWords - 1 \in Blocks
        /\ wr'.offset.index = Registered' - ContentWords - 1
        /\ wr'.offset.value = Block(Registered' - ContentWords - 1).offset
    BY <2>1, <2>2
  <2> QED BY <1>1, <2>3 DEF Block
<1> QED BY <1>13, <1>14, <1>15, <1>16, <1>17, Zenon DEF Stored

-----------------------------------------------------------------------------
(* The bus, in a clock: nothing, a word is asked for, something else, or a   *)
(* new address.                                                              *)

BusSame == burst'.start = burst.start /\ burst'.ready = burst.ready /\ filter'.a = filter.a
BusIdle ==
    /\ BusSame /\ burst'.kind = burst.kind /\ filter'.strobe = FALSE
    /\ filter'.read = filter.read /\ filter'.latch = filter.latch
    /\ gap' = IF gap < MinGap THEN gap + 1 ELSE MinGap
BusRead ==
    /\ BusSame /\ Reading /\ burst'.kind = "read" /\ ~ filter.strobe
    /\ gap >= MinGap - 1 /\ gap' = 0 /\ burst_cycle < MaxStrobes
    /\ filter'.strobe = TRUE /\ filter'.read = TRUE /\ filter'.latch = FALSE
BusOther ==
    /\ BusSame /\ burst.kind # "none" /\ burst'.kind = "other" /\ ~ filter.strobe
    /\ gap >= MinGap - 1 /\ gap' = 0
    /\ filter'.strobe = TRUE /\ filter'.read = FALSE /\ filter'.latch = FALSE
BusAddress ==
    /\ burst'.start \in Memory /\ filter'.a = burst'.start /\ burst'.kind = "address"
    /\ burst'.ready = Ready /\ ~ filter.strobe /\ gap >= MinGap - 1 /\ gap' = 0
    /\ filter'.strobe = TRUE /\ filter'.read = FALSE /\ filter'.latch = TRUE

LEMMA BusStep ==
    ASSUME Burst, Clock
    PROVE  /\ BusIdle \/ BusRead \/ BusOther \/ BusAddress
           /\ filter' = [strobe |-> filter'.strobe, read |-> filter'.read,
                         latch |-> filter'.latch, a |-> filter'.a]
           /\ burst' = [start |-> burst'.start, kind |-> burst'.kind, ready |-> burst'.ready]
<1>1. /\ filter = [strobe |-> filter.strobe, read |-> filter.read,
                   latch |-> filter.latch, a |-> filter.a]
      /\ burst = [start |-> burst.start, kind |-> burst.kind, ready |-> burst.ready]
      /\ gap \in 0 .. MinGap /\ (filter.strobe <=> gap = 0) /\ filter.strobe \in BOOLEAN
  BY DEF Burst
<1>2. MinGap \in Nat /\ MinGap >= 3 /\ BurstAddrs \subseteq Memory
  BY TimingAssumption, BurstsAssumption DEF Memory, LastWord
<1>3. CASE NoStrobe
  <2>1. filter' = [strobe |-> FALSE, read |-> filter.read, latch |-> filter.latch, a |-> filter.a]
    BY <1>1, <1>3 DEF NoStrobe
  <2>2. burst' = burst
    BY <1>3 DEF NoStrobe
  <2>3. gap' = IF gap < MinGap THEN gap + 1 ELSE MinGap
    <3>1. gap' = Min({gap + 1, MinGap}) /\ gap + 1 \in Nat
      BY <1>1, <1>2, <1>3 DEF NoStrobe
    <3> QED BY <1>1, <1>2, <3>1, MinOfTwo
  <2>4. BusIdle
    BY <2>1, <2>2, <2>3 DEF BusIdle, BusSame
  <2>5. burst' = [start |-> burst'.start, kind |-> burst'.kind, ready |-> burst'.ready]
    BY <1>1, <2>2
  <2> QED BY <2>1, <2>4, <2>5
<1>4. CASE ReadStrobe
  <2>1. filter' = [strobe |-> TRUE, read |-> TRUE, latch |-> FALSE, a |-> filter.a]
    BY <1>4 DEF ReadStrobe, Strobe
  <2>2. burst' = [start |-> burst.start, kind |-> "read", ready |-> burst.ready]
    BY <1>1, <1>4 DEF ReadStrobe
  <2>3. gap >= MinGap - 1 /\ gap' = 0 /\ ~ filter.strobe /\ Reading /\ burst_cycle < MaxStrobes
    BY <1>1, <1>2, <1>4 DEF ReadStrobe, Strobe, Reading
  <2>4. BusRead
    BY <2>1, <2>2, <2>3 DEF BusRead, BusSame
  <2> QED BY <2>1, <2>2, <2>4
<1>5. CASE OtherStrobe
  <2>1. filter' = [strobe |-> TRUE, read |-> FALSE, latch |-> FALSE, a |-> filter.a]
    BY <1>5 DEF OtherStrobe, Strobe
  <2>2. burst' = [start |-> burst.start, kind |-> "other", ready |-> burst.ready]
    BY <1>1, <1>5 DEF OtherStrobe
  <2>3. gap >= MinGap - 1 /\ gap' = 0 /\ ~ filter.strobe /\ burst.kind # "none"
    BY <1>1, <1>2, <1>5 DEF OtherStrobe, Strobe
  <2>4. BusOther
    BY <2>1, <2>2, <2>3 DEF BusOther, BusSame
  <2> QED BY <2>1, <2>2, <2>4
<1>6. ASSUME NEW a \in BurstAddrs, Address(a)
      PROVE  /\ BusAddress
             /\ filter' = [strobe |-> filter'.strobe, read |-> filter'.read,
                           latch |-> filter'.latch, a |-> filter'.a]
             /\ burst' = [start |-> burst'.start, kind |-> burst'.kind, ready |-> burst'.ready]
  <2>1. filter' = [strobe |-> TRUE, read |-> FALSE, latch |-> TRUE, a |-> a]
    BY <1>6 DEF Address, Strobe
  <2>2. burst' = [start |-> a, kind |-> "address", ready |-> Ready]
    BY <1>6 DEF Address
  <2>3. gap >= MinGap - 1 /\ gap' = 0 /\ ~ filter.strobe /\ a \in Memory
    BY <1>1, <1>2, <1>6 DEF Address, Strobe
  <2>4. BusAddress
    BY <2>1, <2>2, <2>3 DEF BusAddress
  <2> QED BY <2>1, <2>2, <2>4
<1>7. Bus
  BY DEF Clock
<1> QED BY <1>3, <1>4, <1>5, <1>6, <1>7 DEF Bus

LEMMA CycleStep ==
    ASSUME Burst, Clock
    PROVE  /\ burst_cycle \in Nat /\ burst_cycle' \in 0 .. 255
           /\ burst_cycle' = IF ~ filter.strobe THEN burst_cycle
                             ELSE IF filter.latch THEN 0
                             ELSE IF filter.read THEN burst_cycle + 1 ELSE burst_cycle
<1>1. burst_cycle \in 0 .. 255 /\ MaxStrobes \in Nat /\ MaxStrobes <= 255
      /\ filter.strobe \in BOOLEAN /\ filter.latch \in BOOLEAN /\ filter.read \in BOOLEAN
  BY BurstsAssumption DEF Burst
<1>2. filter.strobe /\ filter.read => burst_cycle < MaxStrobes
  BY DEF Burst
<1>3. Min({burst_cycle + 1, 255}) = IF burst_cycle + 1 <= 255 THEN burst_cycle + 1 ELSE 255
  BY <1>1, MinOfTwo
<1>4. burst_cycle' = IF ~ filter.strobe THEN burst_cycle
                   ELSE IF filter.latch THEN 0
                   ELSE IF filter.read THEN Min({burst_cycle + 1, 255})
                   ELSE burst_cycle
  BY DEF Clock, BurstCycle
<1>5. filter.strobe /\ ~ filter.latch /\ filter.read => burst_cycle' = burst_cycle + 1
  BY <1>1, <1>2, <1>3, <1>4
<1> QED BY <1>1, <1>2, <1>4, <1>5

\* The read pipeline takes over what was in it.
LEMMA ReadRegisters ==
    ASSUME Clock
    PROVE  /\ rd'.enable = burst_addr_strobe /\ rd'.addr = filter.a
           /\ rd'.enable_out = rd.enable
           /\ rd'.match = (rd.hits # {} /\ rd.enable_out)
           /\ rd'.index = (IF rd.hits # {} THEN Min(rd.hits) ELSE 0)
           /\ rd'.offset_addr = rd.index /\ rd'.strobe_in = rd.match
           /\ rd'.strobe_out = rd.strobe_in /\ rd'.offset_data = offset_mem[rd.offset_addr]
           /\ rd'.burst_offset = (IF burst_addr_strobe THEN filter.a % ContentWords
                                  ELSE rd.burst_offset)
           /\ rd'.content_addr = ContentAddr
           /\ rd'.data_out = content[rd.content_addr] /\ rd'.data = rd.data_out
  BY DEF Clock, ReadClock

\* The CAM's answer is what its entries say, or it was misread in the middle of a
\* write.
LEMMA LookupStep ==
    ASSUME Clock
    PROVE  /\ rd'.hits \subseteq Blocks
           /\ rd'.hits = CamHits(rd.addr) \/ (misread' /\ writing.left # 0)
           /\ ~ rd.enable => misread' = misread
<1>1. PICK hits \in SUBSET Blocks : Lookup(hits) /\ ReadClock(hits)
  BY DEF Clock
<1>2. rd'.hits = hits
  BY <1>1 DEF ReadClock
<1>3. /\ hits \in IF rd.enable THEN CamAnswers(rd.addr) ELSE {CamHits(rd.addr)}
      /\ misread' = IF rd.enable THEN hits # CamHits(rd.addr) ELSE misread
  BY <1>1 DEF Lookup
<1>4. writing.left = 0 => CamAnswers(rd.addr) = {CamHits(rd.addr)}
  BY DEF CamAnswers
<1>5. CASE rd.enable
  BY <1>2, <1>3, <1>4, <1>5
<1>6. CASE ~ rd.enable
  BY <1>2, <1>3, <1>6
<1> QED BY <1>5, <1>6

LEMMA InjectStep ==
    ASSUME Clock
    PROVE  /\ patch_active' = (~ End /\ (patch_active \/ rd.match))
           /\ End => ram_ce1_out' = FALSE
           /\ ~ End /\ patched_read => ram_ce1_out' = TRUE /\ ram_d_latch' = rd.data
           /\ ~ End /\ ~ patched_read => ram_ce1_out' = ram_ce1_out /\ ram_d_latch' = ram_d_latch
  BY DEF Clock, PatchActive, InjectClock, End

-----------------------------------------------------------------------------
(* The age of a burst, in a clock *)

Aged(age) == IF filter'.strobe /\ filter'.latch THEN 0 ELSE age + 1

LEMMA Sizes2 ==
    /\ MinGap \in Nat /\ MinGap >= 3 /\ READ_LATENCY \in Nat /\ READ_LATENCY >= 3
    /\ MinGap * (READ_LATENCY - 1) >= 8
  BY TimingAssumption

LEMMA Times ==
    ASSUME NEW m \in Nat, NEW n \in Nat, m <= n
    PROVE  MinGap * m \in Nat /\ MinGap * m <= MinGap * n /\ MinGap * (m + 1) = MinGap * m + MinGap
           /\ MinGap * 1 = MinGap /\ MinGap * 0 = 0
<1>1. MinGap \in Nat
  BY Sizes2
<1>2. \A g \in Nat : g * m \in Nat /\ g * (m + 1) = g * m + g /\ g * 1 = g /\ g * 0 = 0
  BY Z3
<1>3. \A g \in Nat, d \in Nat : g * (m + d) = g * m + g * d /\ g * d \in Nat
  BY Z3
<1>4. PICK d \in Nat : n = m + d
  <2>1. n - m \in Nat /\ n = m + (n - m)
    OBVIOUS
  <2> QED BY <2>1
<1> QED BY <1>1, <1>2, <1>3, <1>4

LEMMA RamClocksStep ==
    ASSUME Burst, Clock
    PROVE  /\ RamClocks \in Nat /\ RamClocks' \in Nat
           /\ BusIdle => RamClocks' <= RamClocks
           /\ BusRead => RamClocks' = RamClocks + 1
           /\ BusOther => RamClocks' = 1 /\ (RamClocks = 0 => burst.kind = "address")
           /\ BusAddress => RamClocks' = 0
<1>1. /\ burst.kind \in {"none", "address", "read", "other"}
      /\ filter.strobe => (filter.latch <=> burst.kind = "address")
      /\ filter.strobe => (filter.read <=> burst.kind = "read")
      /\ Reading /\ ~ filter.strobe => (burst_cycle > 0 <=> burst.kind = "read")
      /\ filter.strobe \in BOOLEAN /\ filter.latch \in BOOLEAN /\ filter.read \in BOOLEAN
  BY DEF Burst
<1>2. /\ burst_cycle \in Nat /\ burst_cycle' \in Nat
      /\ burst_cycle' = IF ~ filter.strobe THEN burst_cycle
                        ELSE IF filter.latch THEN 0
                        ELSE IF filter.read THEN burst_cycle + 1 ELSE burst_cycle
  BY CycleStep
<1>3. RamClocks = (IF burst.kind = "address" THEN 0
                   ELSE IF burst.kind = "read"
                     THEN IF filter.strobe THEN burst_cycle + 1 ELSE burst_cycle
                   ELSE 1)
  BY <1>1 DEF RamClocks
<1>4. RamClocks' = (IF burst'.kind = "address" THEN 0
                    ELSE IF burst'.kind = "read"
                      THEN IF filter'.strobe THEN burst_cycle' + 1 ELSE burst_cycle'
                    ELSE 1)
      \/ burst'.kind \notin {"none", "address", "read", "other"}
  BY DEF RamClocks
<1>5. CASE BusIdle
  <2>1. burst'.kind = burst.kind /\ ~ filter'.strobe
    BY <1>5 DEF BusIdle
  <2> QED BY <1>1, <1>2, <1>3, <1>4, <2>1 DEF BusIdle, BusRead, BusOther, BusAddress
<1>6. CASE BusRead
  <2>1. burst'.kind = "read" /\ filter'.strobe /\ ~ filter.strobe /\ Reading
    BY <1>6 DEF BusRead
  <2>2. RamClocks = burst_cycle
    BY <1>1, <1>2, <1>3, <2>1 DEF Reading
  <2> QED BY <1>2, <1>4, <1>6, <2>1, <2>2 DEF BusIdle, BusRead, BusOther, BusAddress
<1>7. CASE BusOther
  <2>1. burst'.kind = "other" /\ ~ filter.strobe
    BY <1>7 DEF BusOther
  <2>2. RamClocks = 0 => burst.kind = "address"
    BY <1>1, <1>2, <1>3, <2>1 DEF Reading
  <2> QED BY <1>1, <1>2, <1>3, <1>4, <1>7, <2>1, <2>2 DEF BusIdle, BusRead, BusOther, BusAddress
<1>8. CASE BusAddress
  <2>1. burst'.kind = "address"
    BY <1>8 DEF BusAddress
  <2> QED BY <1>1, <1>2, <1>3, <1>4, <1>8, <2>1 DEF BusIdle, BusRead, BusOther, BusAddress
<1> QED BY <1>5, <1>6, <1>7, <1>8, BusStep

LEMMA LeastStep ==
    ASSUME Burst, Clock, NEW age \in Nat, Quiet(age)
    PROVE  /\ Least \in Nat /\ gap <= Least /\ Least' \in Nat
           /\ Aged(age) \in Nat /\ Aged(age) >= Least'
<1> DEFINE r == RamClocks
           s == RamClocks'
           next == Aged(age)
<1>1. gap \in 0 .. MinGap /\ MinGap \in Nat /\ MinGap >= 3
  BY Sizes2 DEF Burst
<1>2. r \in Nat /\ s \in Nat
  BY RamClocksStep
<1>3. /\ Least = MinGap * r + gap /\ Least' = MinGap * s + gap'
  BY DEF Least
<1>4. /\ MinGap * r \in Nat /\ MinGap * s \in Nat /\ MinGap * (r + 1) = MinGap * r + MinGap
      /\ MinGap * 1 = MinGap /\ MinGap * 0 = 0
  <2>1. r <= r /\ s <= s
    BY <1>2
  <2> HIDE DEF r, s
  <2> QED BY <1>2, <2>1, Times, Zenon
<1>5. age >= MinGap * r + gap
  BY <1>3 DEF Quiet
<1>6. next = IF filter'.strobe /\ filter'.latch THEN 0 ELSE age + 1
  BY DEF Aged
<1>7. CASE BusIdle
  <2>1. s <= r /\ gap' <= gap + 1 /\ gap' \in Nat /\ next = age + 1
    <3>1. gap' = (IF gap < MinGap THEN gap + 1 ELSE MinGap) /\ ~ filter'.strobe
      BY <1>7 DEF BusIdle
    <3>2. gap' <= gap + 1 /\ gap' \in Nat /\ next = age + 1
      BY <1>1, <1>6, <3>1
    <3>3. s <= r
      BY <1>7, RamClocksStep
    <3> QED BY <3>2, <3>3
  <2>2. MinGap * s <= MinGap * r
    BY <1>2, <2>1, Times
  <2> HIDE DEF r, s, next
  <2> QED BY <1>1, <1>3, <1>4, <1>5, <2>1, <2>2 DEF next
<1>8. CASE BusRead
  <2>1. s = r + 1 /\ gap' = 0 /\ gap >= MinGap - 1 /\ next = age + 1
    BY <1>6, <1>8, RamClocksStep DEF BusRead
  <2> HIDE DEF r, s, next
  <2> QED BY <1>1, <1>3, <1>4, <1>5, <2>1 DEF next
<1>9. CASE BusOther
  <2>1. s = 1 /\ gap' = 0 /\ gap >= MinGap - 1 /\ next = age + 1
    BY <1>6, <1>9, RamClocksStep DEF BusOther
  <2> HIDE DEF r, s, next
  <2> QED BY <1>1, <1>3, <1>4, <1>5, <2>1 DEF next
<1>10. CASE BusAddress
  <2>1. s = 0 /\ gap' = 0 /\ next = 0
    BY <1>6, <1>10, RamClocksStep DEF BusAddress
  <2> HIDE DEF r, s, next
  <2> QED BY <1>1, <1>3, <1>4, <1>5, <2>1 DEF next
<1> QED BY <1>7, <1>8, <1>9, <1>10, BusStep

LEMMA AgeFacts ==
    ASSUME Burst, Clock, NEW age \in Nat, Quiet(age)
    PROVE  /\ BusAddress => Aged(age) = 0 /\ age >= 2
           /\ BusIdle \/ BusRead \/ BusOther => Aged(age) = age + 1
           /\ BusRead \/ BusOther \/ BusAddress => gap >= 2 /\ ~ filter.strobe
           /\ age = 0 => End /\ burst.kind = "address"
           /\ Reading /\ age >= 1 => ~ End
           /\ Reading /\ filter.strobe /\ age >= 1 =>
                burst.kind = "read" /\ filter.read /\ ~ filter.latch
           /\ rd.match /\ ~ End => Reading /\ age = 3
<1>1. /\ gap \in 0 .. MinGap /\ MinGap \in Nat /\ MinGap >= 3
      /\ filter.strobe \in BOOLEAN /\ filter.latch \in BOOLEAN /\ filter.read \in BOOLEAN
      /\ burst.kind \in {"none", "address", "read", "other"}
      /\ filter.strobe <=> gap = 0
      /\ filter.strobe => (filter.latch <=> burst.kind = "address")
      /\ filter.strobe => (filter.read <=> burst.kind = "read")
      /\ filter.strobe => burst.kind # "none"
  BY Sizes2 DEF Burst
<1>2. gap <= Least /\ Least \in Nat
  BY LeastStep
<1>3. /\ age >= Least /\ (age = 0 <=> filter.strobe /\ filter.latch)
      /\ burst.kind = "none" => age > 5
      /\ rd.match => age \in {0, 3}
  BY DEF Quiet
<1>4. BusRead \/ BusOther \/ BusAddress => gap >= 2 /\ ~ filter.strobe
  BY <1>1 DEF BusRead, BusOther, BusAddress
<1>5. BusAddress => Aged(age) = 0 /\ age >= 2
  BY <1>1, <1>2, <1>3, <1>4 DEF BusAddress, Aged
<1>6. BusIdle \/ BusRead \/ BusOther => Aged(age) = age + 1
  BY DEF BusIdle, BusRead, BusOther, Aged
<1>7. age = 0 => End /\ burst.kind = "address"
  BY <1>1, <1>3 DEF End
<1>8. Reading /\ filter.strobe /\ age >= 1 =>
         burst.kind = "read" /\ filter.read /\ ~ filter.latch
  BY <1>1, <1>3 DEF Reading
<1>9. Reading /\ age >= 1 => ~ End
  BY <1>8 DEF End
<1>10. rd.match /\ ~ End => Reading /\ age = 3
  <2> SUFFICES ASSUME rd.match, ~ End PROVE Reading /\ age = 3
    OBVIOUS
  <2>1. age = 3
    BY <1>3, <1>7
  <2>2. burst.kind # "none"
    BY <1>3, <2>1
  <2>3. burst.kind # "other"
    <3> SUFFICES ASSUME burst.kind = "other" PROVE FALSE
      OBVIOUS
    <3>1. RamClocks = 1
      BY DEF RamClocks
    <3>2. Least = MinGap * 1 + gap
      BY <3>1 DEF Least
    <3>3. Least = MinGap + gap
      BY <1>1, <3>2
    <3>4. filter.strobe
      BY <1>1, <1>3, <2>1, <3>3
    <3> QED BY <1>1, <3>4 DEF End
  <2> QED BY <1>1, <2>1, <2>2, <2>3 DEF Reading
<1> QED BY <1>4, <1>5, <1>6, <1>7, <1>8, <1>9, <1>10

LEMMA QuietAge ==
    ASSUME Burst, Clock, NEW age \in Nat, Quiet(age), NEW next \in Nat, next = Aged(age)
    PROVE  Quiet(next)'
<1>1. /\ age = 0 <=> filter.strobe /\ filter.latch
      /\ burst.kind = "none" => age > 5
      /\ rd.enable => age = 1
      /\ rd.enable_out => age = 2
      /\ rd.match => age \in {0, 3}
      /\ rd.strobe_in => age \in {0, 1, 4}
      /\ rd.strobe_out => age \in {0, 1, 2, 5}
  BY DEF Quiet
<1>2. /\ BusAddress => next = 0 /\ age >= 2
      /\ BusIdle \/ BusRead \/ BusOther => next = age + 1
      /\ BusIdle \/ BusRead \/ BusOther \/ BusAddress
  BY AgeFacts, BusStep
<1>3. next >= Least'
  BY LeastStep
<1>4. next = 0 <=> filter'.strobe /\ filter'.latch
  BY DEF Aged
<1>5. burst'.kind = "none" => next > 5
  BY <1>1, <1>2 DEF BusIdle, BusRead, BusOther, BusAddress
<1>6. /\ rd'.enable = burst_addr_strobe /\ rd'.enable_out = rd.enable
      /\ rd'.match = (rd.hits # {} /\ rd.enable_out)
      /\ rd'.strobe_in = rd.match /\ rd'.strobe_out = rd.strobe_in
  BY ReadRegisters
<1>7. rd'.enable => next = 1
  <2>1. rd'.enable => filter.strobe /\ filter.latch
    BY <1>6, Zenon DEF burst_addr_strobe
  <2> QED BY <1>1, <1>2, <2>1
<1>8. rd'.enable_out => next = 2
  BY <1>1, <1>2, <1>6
<1>9. rd'.match => next \in {0, 3}
  <2>1. rd'.match => rd.enable_out
    BY <1>6, Zenon
  <2> QED BY <1>1, <1>2, <2>1
<1>10. rd'.strobe_in => next \in {0, 1, 4}
  BY <1>1, <1>2, <1>6
<1>11. rd'.strobe_out => next \in {0, 1, 2, 5}
  BY <1>1, <1>2, <1>6
<1> QED BY <1>3, <1>4, <1>5, <1>7, <1>8, <1>9, <1>10, <1>11 DEF Quiet

LEMMA ReadyStep ==
    ASSUME Load, Spaced, Clock, Ready PROVE Ready' /\ loaded' = loaded
<1>1. loaded = Len(LoadWrites) /\ config.strobe = FALSE /\ loaded \in Nat
  BY RegisteredStep DEF Ready
<1>2. ~ ConfigWrite
  BY <1>1 DEF ConfigWrite
<1>3. config'.strobe = FALSE /\ loaded' = loaded
  <2>1. config = [strobe |-> config.strobe, reg |-> config.reg,
                  index |-> config.index, value |-> config.value]
    BY DEF Load
  <2> QED BY <1>2, <2>1 DEF Clock, ConfigNone
<1>4. wr'.cam.enable = FALSE
  BY <1>1, StoreRegisters DEF Strobed
<1>5. LoadWrites' = LoadWrites
  BY SameWrites DEF Clock, sessionVars
<1>6. writing'.left = 0
  <2>1. ~ wr.cam.enable /\ writing.left = 0
    BY DEF Ready
  <2>2. writing = [left |-> writing.left, index |-> writing.index]
    BY DEF Spaced
  <2> QED BY <2>1, <2>2 DEF Clock, CamWriteClock
<1> QED BY <1>1, <1>3, <1>4, <1>5, <1>6 DEF Ready

LEMMA BurstStep ==
    ASSUME Load, Spaced, Burst, Clock, NEW age \in Nat, Quiet(age)
    PROVE  Burst'
<1>1. /\ gap \in 0 .. MinGap /\ MinGap \in Nat /\ MinGap >= 3
      /\ filter.strobe \in BOOLEAN /\ filter.latch \in BOOLEAN /\ filter.read \in BOOLEAN
      /\ burst.kind \in {"none", "address", "read", "other"}
      /\ burst.start \in Memory /\ burst.ready \in BOOLEAN /\ filter.a = burst.start
      /\ filter.strobe <=> gap = 0
      /\ filter.strobe => (filter.latch <=> burst.kind = "address")
      /\ filter.strobe => (filter.read <=> burst.kind = "read")
      /\ Reading /\ ~ filter.strobe => (burst_cycle > 0 <=> burst.kind = "read")
      /\ burst.kind = "none" => ~ patch_active /\ ~ ram_ce1_out
      /\ patch_active \in BOOLEAN /\ ram_ce1_out \in BOOLEAN
  BY Sizes2 DEF Burst
<1>2. /\ BusIdle \/ BusRead \/ BusOther \/ BusAddress
      /\ filter' = [strobe |-> filter'.strobe, read |-> filter'.read,
                    latch |-> filter'.latch, a |-> filter'.a]
      /\ burst' = [start |-> burst'.start, kind |-> burst'.kind, ready |-> burst'.ready]
  BY BusStep
<1>3. /\ burst_cycle \in Nat /\ burst_cycle' \in 0 .. 255
      /\ burst_cycle' = IF ~ filter.strobe THEN burst_cycle
                        ELSE IF filter.latch THEN 0
                        ELSE IF filter.read THEN burst_cycle + 1 ELSE burst_cycle
  BY CycleStep
<1>4. /\ filter'.strobe \in BOOLEAN /\ filter'.read \in BOOLEAN /\ filter'.latch \in BOOLEAN
      /\ gap' \in 0 .. MinGap /\ (filter'.strobe <=> gap' = 0)
      /\ burst'.kind \in {"none", "address", "read", "other"}
      /\ burst'.start \in Memory /\ filter'.a = burst'.start
      /\ filter'.strobe =>
           /\ filter'.latch <=> burst'.kind = "address"
           /\ filter'.read <=> burst'.kind = "read"
           /\ burst'.kind # "none"
           /\ filter'.read => burst_cycle' < MaxStrobes
  <2>1. CASE BusIdle
    <3>1. gap' \in 0 .. MinGap /\ gap' # 0
      BY <1>1, <2>1 DEF BusIdle
    <3> QED BY <1>1, <2>1, <3>1 DEF BusIdle, BusSame
  <2>2. CASE BusRead
    <3>1. /\ filter'.strobe = TRUE /\ filter'.read = TRUE /\ filter'.latch = FALSE
          /\ burst'.kind = "read" /\ gap' = 0
      BY <2>2 DEF BusRead
    <3>2. /\ burst'.start \in Memory /\ filter'.a = burst'.start /\ burst_cycle' < MaxStrobes
      BY <1>1, <1>3, <2>2 DEF BusRead, BusSame
    <3>3. gap' \in 0 .. MinGap /\ gap' = 0
      BY <1>1, <3>1
    <3> QED BY <3>1, <3>2, <3>3, Zenon
  <2>3. CASE BusOther
    <3>1. /\ filter'.strobe = TRUE /\ filter'.read = FALSE /\ filter'.latch = FALSE
          /\ burst'.kind = "other" /\ gap' = 0
      BY <2>3 DEF BusOther
    <3>2. /\ burst'.start \in Memory /\ filter'.a = burst'.start
      BY <1>1, <1>3, <2>3 DEF BusOther, BusSame
    <3>3. gap' \in 0 .. MinGap /\ gap' = 0
      BY <1>1, <3>1
    <3> QED BY <3>1, <3>2, <3>3, Zenon
  <2>4. CASE BusAddress
    <3>1. /\ filter'.strobe = TRUE /\ filter'.read = FALSE /\ filter'.latch = TRUE
          /\ burst'.kind = "address" /\ gap' = 0
      BY <2>4 DEF BusAddress
    <3>2. /\ burst'.start \in Memory /\ filter'.a = burst'.start
      BY <1>1, <1>3, <2>4 DEF BusAddress, BusSame
    <3>3. gap' \in 0 .. MinGap /\ gap' = 0
      BY <1>1, <3>1
    <3> QED BY <3>1, <3>2, <3>3, Zenon
  <2> QED BY <1>2, <2>1, <2>2, <2>3, <2>4
<1>5. Reading' /\ ~ filter'.strobe => (burst_cycle' > 0 <=> burst'.kind = "read")
  <2> SUFFICES ASSUME Reading', ~ filter'.strobe
               PROVE  burst_cycle' > 0 <=> burst'.kind = "read"
    OBVIOUS
  <2>1. BusIdle
    BY <1>2 DEF BusRead, BusOther, BusAddress
  <2>2. burst'.kind = burst.kind /\ Reading
    BY <2>1 DEF BusIdle, Reading
  <2>3. CASE filter.strobe
    BY <1>1, <1>3, <2>2, <2>3 DEF Reading
  <2>4. CASE ~ filter.strobe
    BY <1>1, <1>3, <2>2, <2>4 DEF Reading
  <2> QED BY <2>3, <2>4
<1>6. burst'.ready \in BOOLEAN /\ (burst'.ready => Ready')
  <2>1. CASE BusAddress
    <3>1. Ready \in BOOLEAN
      BY DEF Ready
    <3> QED BY <2>1, <3>1, ReadyStep DEF BusAddress
  <2>2. CASE ~ BusAddress
    <3>1. burst'.ready = burst.ready
      BY <1>2, <2>2 DEF BusIdle, BusRead, BusOther, BusSame
    <3>2. burst.ready => Ready
      BY DEF Burst
    <3> QED BY <1>1, <3>1, <3>2, ReadyStep
  <2> QED BY <2>1, <2>2
<1>7. patch_active' \in BOOLEAN /\ ram_ce1_out' \in BOOLEAN
  BY <1>1, InjectStep
<1>8. burst'.kind = "none" => ~ patch_active' /\ ~ ram_ce1_out'
  <2> SUFFICES ASSUME burst'.kind = "none" PROVE ~ patch_active' /\ ~ ram_ce1_out'
    OBVIOUS
  <2>1. BusIdle
    BY <1>2 DEF BusRead, BusOther, BusAddress
  <2>2. burst.kind = "none" /\ ~ patch_active /\ ~ ram_ce1_out
    BY <1>1, <2>1 DEF BusIdle
  <2>3. ~ rd.match \/ End
    BY <2>2, AgeFacts DEF Reading
  <2>4. ~ patch_active'
    BY <2>2, <2>3, InjectStep
  <2>5. ~ ram_ce1_out'
    BY <1>1, <2>2, InjectStep DEF patched_read
  <2> QED BY <2>4, <2>5
<1>9. /\ rd'.enable \in BOOLEAN /\ rd'.enable_out \in BOOLEAN /\ rd'.match \in BOOLEAN
      /\ rd'.strobe_in \in BOOLEAN /\ rd'.strobe_out \in BOOLEAN
      /\ rd'.hits \subseteq Blocks
  BY ReadRegisters, LookupStep DEF Burst, burst_addr_strobe
<1> QED BY <1>2, <1>3, <1>4, <1>5, <1>6, <1>7, <1>8, <1>9 DEF Burst

-----------------------------------------------------------------------------
(* What the hardware makes of an address, in a clock *)

\* A burst that goes on is the same burst, one clock older.
LEMMA GoesOn ==
    ASSUME Burst, Clock, NEW age \in Nat, Quiet(age), NEW next \in Nat, next = Aged(age),
           next >= 1, Reading'
    PROVE  /\ Reading /\ next = age + 1 /\ (BusIdle \/ BusRead)
           /\ burst'.start = burst.start /\ burst'.ready = burst.ready
           /\ burst.start \in Memory
<1>1. BusIdle \/ BusRead \/ BusOther \/ BusAddress
  BY BusStep
<1>2. ~ BusAddress
  BY AgeFacts
<1>3. ~ BusOther
  BY DEF BusOther, Reading
<1>4. Reading
  BY <1>1, <1>2, <1>3 DEF BusIdle, BusRead, Reading
<1>5. burst'.start = burst.start /\ burst'.ready = burst.ready
  BY <1>1, <1>2, <1>3 DEF BusIdle, BusRead, BusSame
<1>6. next = age + 1
  BY <1>1, <1>2, <1>3, AgeFacts
<1> QED BY <1>1, <1>2, <1>3, <1>4, <1>5, <1>6 DEF Burst

LEMMA TouchedStep ==
    ASSUME Load, Clock, burst'.start = burst.start, burst'.ready = burst.ready,
           misread' = misread, Touched(burst.start)
    PROVE  (loaded >= 0 /\ (InRegion(burst.start) \/ burst.start = LastWord))'
           \/ ((misread \/ Superseded(burst.start)) /\ ~ burst.ready)'
<1>1. /\ session' = session /\ earlier' = earlier /\ regions' = regions
  BY DEF Clock, sessionVars, allocVars
<1>2. loaded' >= 0
  BY RegisteredStep
<1>3. InRegion(burst.start)' <=> InRegion(burst.start)
  BY <1>1 DEF InRegion
<1>4. Superseded(burst.start)' <=> Superseded(burst.start)
  BY <1>1 DEF Superseded
<1> QED BY <1>2, <1>3, <1>4 DEF Touched

\* What the CAM matches when the load is not yet, or not at all, complete.
LEMMA CamMatch ==
    ASSUME Inv, Load, Cam, loaded >= 0, NEW w \in Memory, NEW b \in CamHits(w)
    PROVE  /\ b \in Blocks
           /\ \/ /\ Fresh(b) /\ EntryMatches(Entry(b), w)
                 /\ InRegion(w) \/ w = LastWord
                 /\ b < Len(patch.blocks) => b + 1 \in Hits(w)
              \/ ~ Fresh(b) /\ Superseded(w)
<1>1. b \in Blocks /\ cam[b] # <<>> /\ EntryMatches(cam[b][1], w)
  BY DEF CamHits
<1>2. CASE Fresh(b)
  <2>1. cam[b] = <<Entry(b)>>
    BY <1>1, <1>2 DEF Cam
  <2>2. EntryMatches(Entry(b), w)
    BY <1>1, <2>1
  <2>3. InRegion(w) \/ w = LastWord
    BY <1>1, <2>2, NewMatch
  <2>4. b < Len(patch.blocks) => b + 1 \in Hits(w)
    BY <1>1, <2>2, NewMatch
  <2> QED BY <1>1, <1>2, <2>2, <2>3, <2>4
<1>3. CASE ~ Fresh(b)
  <2>1. OldEntry(cam[b][1])
    BY <1>1, <1>3 DEF Cam
  <2> QED BY <1>1, <1>3, <2>1 DEF OldEntry
<1> QED BY <1>2, <1>3

LEMMA ReadyIsFresh ==
    ASSUME Load, Ready, NEW b \in Blocks PROVE Fresh(b) /\ loaded >= 0 /\ Registered > OffsetsEnd
<1>1. loaded = Total /\ config.strobe = FALSE /\ ~ wr.cam.enable /\ loaded \in Nat
  BY Sizes, Writes DEF Ready, Load
<1>2. Registered = Total
  BY <1>1 DEF Registered
<1>3. At(b) <= Total /\ At(b) \in Nat /\ At(b) > OffsetsEnd
  BY WritePlaces, Sizes
<1> QED BY <1>1, <1>2, <1>3, Sizes DEF Fresh

LEMMA UntouchedStep ==
    ASSUME Inv, Load, Cam, Burst, Clock, NEW age \in Nat, Quiet(age), Untouched(age),
           NEW next \in Nat, next = Aged(age)
    PROVE  Untouched(next)'
<1>1. /\ Reading /\ age >= 1 =>
           rd.addr = burst.start /\ rd.burst_offset = burst.start % ContentWords
      /\ Reading /\ age \in 1 .. 3 => ~ patch_active
      /\ Reading /\ age = 2 /\ rd.hits # {} => Touched(burst.start)
      /\ Reading /\ age = 3 /\ rd.match => Touched(burst.start)
      /\ patch_active /\ ~ End => Reading /\ Touched(burst.start)
      /\ ram_ce1_out /\ ~ End => burst.kind = "read" /\ patch_active /\ Touched(burst.start)
  BY DEF Untouched
<1>2. /\ age = 0 => End /\ burst.kind = "address"
      /\ Reading /\ age >= 1 => ~ End
      /\ rd.match /\ ~ End => Reading /\ age = 3
      /\ rd.match => age \in {0, 3}
      /\ rd.enable_out => age = 2
      /\ age = 0 <=> filter.strobe /\ filter.latch
  BY AgeFacts DEF Quiet
<1>3. ASSUME Reading', next >= 1
      PROVE  /\ Reading /\ next = age + 1
             /\ burst'.start = burst.start /\ burst'.ready = burst.ready
             /\ burst.start \in Memory
  BY <1>3, GoesOn
<1>4. ASSUME Touched(burst.start), burst'.start = burst.start, burst'.ready = burst.ready,
             age # 1
      PROVE  Touched(burst.start)'
  <2>1. misread' = misread
    BY <1>4, LookupStep DEF Quiet
  <2> QED BY <1>4, <2>1, TouchedStep DEF Touched
<1>5. Reading' /\ next >= 1 => /\ rd'.addr = burst'.start
                               /\ rd'.burst_offset = burst'.start % ContentWords
  <2> SUFFICES ASSUME Reading', next >= 1
               PROVE  /\ rd'.addr = burst'.start
                      /\ rd'.burst_offset = burst'.start % ContentWords
    OBVIOUS
  <2>1. filter.a = burst.start
    BY DEF Burst
  <2>2. /\ rd'.addr = filter.a
        /\ rd'.burst_offset = (IF burst_addr_strobe THEN filter.a % ContentWords
                               ELSE rd.burst_offset)
    BY ReadRegisters
  <2>3. CASE age = 0
    BY <1>2, <1>3, <2>1, <2>2, <2>3 DEF burst_addr_strobe
  <2>4. CASE age # 0
    BY <1>1, <1>2, <1>3, <2>1, <2>2, <2>4 DEF burst_addr_strobe
  <2> QED BY <2>3, <2>4
<1>6. Reading' /\ next \in 1 .. 3 => ~ patch_active'
  <2> SUFFICES ASSUME Reading', next \in 1 .. 3 PROVE ~ patch_active'
    OBVIOUS
  <2>1. Reading /\ age \in 0 .. 2
    BY <1>3
  <2>2. End \/ (~ patch_active /\ ~ rd.match)
    BY <1>1, <1>2, <2>1
  <2> QED BY <2>2, InjectStep
<1>7. Reading' /\ next = 2 /\ rd'.hits # {} => Touched(burst.start)'
  <2> SUFFICES ASSUME Reading', next = 2, rd'.hits # {} PROVE Touched(burst.start)'
    OBVIOUS
  <2>1. Reading /\ age = 1 /\ burst.start \in Memory
        /\ burst'.start = burst.start /\ burst'.ready = burst.ready
    BY <1>3
  <2>2. loaded >= 0 /\ loaded' >= 0
    BY RegisteredStep
  <2>3. CASE misread' /\ writing.left # 0
    <3>1. ~ burst.ready
      BY <2>3 DEF Burst, Ready
    <3> QED BY <2>1, <2>3, <3>1 DEF Touched
  <2>4. CASE rd'.hits = CamHits(rd.addr)
    <3>1. PICK b \in CamHits(burst.start) : TRUE
      BY <1>1, <2>1, <2>4
    <3>2. /\ b \in Blocks
          /\ \/ InRegion(burst.start) \/ burst.start = LastWord
             \/ ~ Fresh(b) /\ Superseded(burst.start)
      BY <2>1, <2>2, <3>1, CamMatch
    <3>3. ~ Fresh(b) => ~ burst.ready
      BY <3>2, ReadyIsFresh DEF Burst
    <3>4. /\ InRegion(burst.start)' <=> InRegion(burst.start)
          /\ Superseded(burst.start)' <=> Superseded(burst.start)
      BY <2>1 DEF Clock, sessionVars, allocVars, InRegion, Superseded, LastWord
    <3> QED BY <2>1, <2>2, <3>2, <3>3, <3>4 DEF Touched, LastWord
  <2> QED BY <2>3, <2>4, LookupStep
<1>8. Reading' /\ next = 3 /\ rd'.match => Touched(burst.start)'
  <2>1. rd'.match => rd.hits # {}
    BY ReadRegisters
  <2>2. Reading' /\ next = 3 => age = 2
    BY <1>3
  <2> QED BY <1>1, <1>3, <1>4, <2>1, <2>2
<1>9. patch_active' /\ ~ End' => Reading' /\ Touched(burst.start)'
  <2> SUFFICES ASSUME patch_active', ~ End' PROVE Reading' /\ Touched(burst.start)'
    OBVIOUS
  <2>1. ~ End /\ (patch_active \/ rd.match)
    BY InjectStep
  <2>2. Reading /\ Touched(burst.start)
    BY <1>1, <1>2, <2>1
  <2>3. BusIdle \/ BusRead
    BY BusStep DEF BusOther, BusAddress, End
  <2>4. Reading' /\ burst'.start = burst.start /\ burst'.ready = burst.ready
    BY <2>2, <2>3 DEF BusIdle, BusRead, BusSame, Reading
  <2>5. age # 1
    BY <1>1, <1>2, <2>1, <2>2
  <2> QED BY <1>4, <2>2, <2>4, <2>5
<1>10. ram_ce1_out' /\ ~ End' =>
         burst'.kind = "read" /\ patch_active' /\ Touched(burst.start)'
  <2> SUFFICES ASSUME ram_ce1_out', ~ End'
               PROVE  burst'.kind = "read" /\ patch_active' /\ Touched(burst.start)'
    OBVIOUS
  <2>1. ~ End /\ (ram_ce1_out \/ patched_read)
    BY InjectStep
  <2>2. burst.kind = "read" /\ patch_active
    <3>1. CASE patched_read
      BY <3>1 DEF patched_read, Burst
    <3>2. CASE ~ patched_read
      BY <1>1, <2>1, <3>2
    <3> QED BY <3>1, <3>2
  <2>3. patch_active'
    BY <2>1, <2>2, InjectStep
  <2>4. Touched(burst.start)'
    BY <1>9, <2>3
  <2>5. BusIdle \/ BusRead
    BY BusStep DEF BusOther, BusAddress, End
  <2>6. burst'.kind = "read"
    BY <2>2, <2>5 DEF BusIdle, BusRead
  <2> QED BY <2>3, <2>4, <2>6
<1> QED BY <1>5, <1>6, <1>7, <1>8, <1>9, <1>10 DEF Untouched

LEMMA FoundStep ==
    ASSUME Inv, Load, Cam, Burst, Clock, NEW age \in Nat, Quiet(age), Untouched(age),
           Found(age), NEW next \in Nat, next = Aged(age)
    PROVE  Found(next)'
<1> SUFFICES ASSUME Reading', burst'.ready, InRegion(burst.start)'
    PROVE  /\ next = 1 => rd'.enable
           /\ next = 2 => rd'.enable_out /\ rd'.hits # {}
           /\ next = 3 => rd'.match
           /\ next >= 4 => patch_active'
           /\ burst'.kind = "read" /\ burst_cycle' >= 2 => ram_ce1_out'
  BY DEF Found
<1>1. CASE next = 0
  <2>1. burst'.kind = "address"
    <3>1. BusAddress
      <4>1. BusIdle \/ BusRead \/ BusOther => next = age + 1
        BY AgeFacts
      <4>2. BusIdle \/ BusRead \/ BusOther \/ BusAddress
        BY BusStep
      <4> QED BY <1>1, <4>1, <4>2
    <3> QED BY <3>1 DEF BusAddress
  <2> QED BY <1>1, <2>1
<1>2. CASE next # 0
  <2>1. /\ Reading /\ next = age + 1 /\ (BusIdle \/ BusRead)
        /\ burst'.start = burst.start /\ burst'.ready = burst.ready
        /\ burst.start \in Memory
    <3>1. next >= 1
      BY <1>2
    <3> QED BY <3>1, GoesOn
  <2>2. InRegion(burst.start)
    <3>1. regions' = regions
      BY DEF Clock, allocVars
    <3> QED BY <2>1, <3>1 DEF InRegion
  <2>3. /\ age = 1 => rd.enable
        /\ age = 2 => rd.enable_out /\ rd.hits # {}
        /\ age = 3 => rd.match
        /\ age >= 4 => patch_active
        /\ burst.kind = "read" /\ burst_cycle >= 2 => ram_ce1_out
    BY <2>1, <2>2 DEF Found
  <2>4. Ready /\ loaded >= 0
    BY <2>1, RegisteredStep DEF Burst
  <2>5. next = 1 => rd'.enable
    <3> SUFFICES ASSUME age = 0 PROVE rd'.enable
      BY <2>1
    <3>1. filter.strobe /\ filter.latch
      BY DEF Quiet
    <3> QED BY <3>1, ReadRegisters DEF burst_addr_strobe
  <2>6. next = 2 => rd'.enable_out /\ rd'.hits # {}
    <3> SUFFICES ASSUME age = 1 PROVE rd'.enable_out /\ rd'.hits # {}
      BY <2>1
    <3>1. rd.enable /\ rd.addr = burst.start
      BY <2>1, <2>3 DEF Untouched
    <3> DEFINE b == BlockOf(burst.start)
    <3>2. b \in Blocks /\ EntryMatches(Entry(b), burst.start)
      BY <2>1, <2>2, <2>4, OldMatch
    <3> HIDE DEF b
    <3>3. cam[b] = <<Entry(b)>>
      BY <2>4, <3>2, ReadyIsFresh DEF Cam
    <3>4. b \in CamHits(burst.start)
      BY <3>2, <3>3 DEF CamHits
    <3>5. rd'.hits = CamHits(rd.addr)
      BY <2>4, LookupStep DEF Ready
    <3> QED BY <3>1, <3>4, <3>5, ReadRegisters
  <2>7. next = 3 => rd'.match
    <3> SUFFICES ASSUME age = 2 PROVE rd'.match
      BY <2>1
    <3>1. rd.enable_out /\ rd.hits # {}
      BY <2>3
    <3> QED BY <3>1, ReadRegisters
  <2>8. next >= 4 => patch_active'
    <3> SUFFICES ASSUME age >= 3 PROVE patch_active'
      BY <2>1
    <3>1. patch_active \/ rd.match
      BY <2>3
    <3>2. ~ End
      BY <2>1, AgeFacts
    <3> QED BY <3>1, <3>2, InjectStep
  <2>9. burst'.kind = "read" /\ burst_cycle' >= 2 => ram_ce1_out'
    <3> SUFFICES ASSUME burst'.kind = "read", burst_cycle' >= 2 PROVE ram_ce1_out'
      OBVIOUS
    <3>1. /\ burst_cycle \in Nat /\ filter.strobe \in BOOLEAN
          /\ burst_cycle' = IF ~ filter.strobe THEN burst_cycle
                            ELSE IF filter.latch THEN 0
                            ELSE IF filter.read THEN burst_cycle + 1 ELSE burst_cycle
      BY CycleStep DEF Burst
    <3>2. age >= 1
      <4>1. age = 0 => burst_cycle' = 0
        BY <3>1 DEF Quiet
      <4> QED BY <4>1
    <3>3. ~ End
      BY <2>1, <3>2, AgeFacts
    <3>4. burst.kind = "read"
      <4>1. CASE filter.strobe
        BY <2>1, <3>2, <4>1, AgeFacts
      <4>2. CASE ~ filter.strobe
        BY <2>1, <3>1, <4>2 DEF Burst
      <4> QED BY <4>1, <4>2
    <3>5. CASE burst_cycle >= 2
      BY <2>3, <3>3, <3>4, <3>5, InjectStep
    <3>6. CASE burst_cycle < 2
      <4>1. filter.strobe /\ filter.read /\ ~ filter.latch /\ burst_cycle = 1
        BY <3>1, <3>6
      <4>2. RamClocks = 2
        BY <3>4, <4>1 DEF RamClocks
      <4>3. age >= 4
        <5>1. age >= MinGap * 2 + gap
          BY <4>2 DEF Quiet, Least
        <5>2. gap \in 0 .. MinGap /\ MinGap \in Nat /\ MinGap >= 3
          BY Sizes2 DEF Burst
        <5> QED BY <5>1, <5>2
      <4>4. patched_read
        BY <2>3, <4>1, <4>3 DEF patched_read
      <4> QED BY <3>3, <4>4, InjectStep
    <3> QED BY <3>1, <3>5, <3>6
  <2> QED BY <1>2, <2>5, <2>6, <2>7, <2>8, <2>9
<1> QED BY <1>1, <1>2

-----------------------------------------------------------------------------
(* The content is looked up, in a clock *)

LEMMA ModSum ==
    ASSUME NEW n \in Nat, n > 0, NEW x \in Int, NEW y \in Int
    PROVE  (x + (y % n)) % n = (x + y) % n /\ ((y % n) + x) % n = (y + x) % n
<1>1. /\ y \div n \in Int /\ y % n \in 0 .. n - 1 /\ y = n * (y \div n) + (y % n)
      /\ (x + y) \div n \in Int /\ (x + y) % n \in 0 .. n - 1
      /\ x + y = n * ((x + y) \div n) + ((x + y) % n)
  BY DivMod
<1> DEFINE q == y \div n
           s == (x + y) \div n
           m == (x + y) % n
           r == y % n
<1>2. n * (s - q) = n * s - n * q
  BY <1>1, Z3
<1>3. x + r = n * (s - q) + m /\ s - q \in Int /\ x + r \in Int /\ m \in 0 .. n - 1
  <2> HIDE DEF q, s, m, r
  <2>1. n * q \in Int /\ n * s \in Int /\ q \in Int /\ s \in Int /\ r \in Int
    BY <1>1, Z3 DEF q, s, r
  <2>2. y = n * q + r /\ x + y = n * s + m /\ m \in 0 .. n - 1
    BY <1>1 DEF q, s, m, r
  <2> QED BY <1>2, <2>1, <2>2
<1> HIDE DEF q, s, m, r
<1>4. (x + r) % n = m
  BY <1>3, Unique
<1>5. x + r = r + x /\ x + y = y + x
  BY <1>1 DEF r
<1> QED BY <1>4, <1>5 DEF r, m

LEMMA Late ==
    ASSUME Burst, NEW age \in Nat, Quiet(age), Reading, age >= 1,
           \/ burst_cycle >= READ_LATENCY - 1
           \/ filter.strobe /\ burst_cycle >= READ_LATENCY - 2
    PROVE  age >= 8
<1>1. /\ burst_cycle \in Nat /\ filter.strobe \in BOOLEAN /\ gap \in Nat
      /\ filter.strobe => (filter.latch <=> burst.kind = "address")
      /\ ~ filter.strobe => (burst_cycle > 0 <=> burst.kind = "read")
  BY DEF Burst
<1>2. age >= MinGap * RamClocks + gap /\ ~ (filter.strobe /\ filter.latch)
  BY DEF Quiet, Least
<1>3. READ_LATENCY \in Nat /\ READ_LATENCY - 1 \in Nat /\ READ_LATENCY >= 3 /\ MinGap * (READ_LATENCY - 1) >= 8
      /\ MinGap \in Nat
  BY Sizes2
<1>4. burst.kind = "read"
  BY <1>1, <1>2, <1>3 DEF Reading
<1>5. RamClocks = (IF filter.strobe THEN burst_cycle + 1 ELSE burst_cycle)
  BY <1>4 DEF RamClocks
<1>6. RamClocks \in Nat /\ READ_LATENCY - 1 <= RamClocks
  BY <1>1, <1>3, <1>5
<1>7. MinGap * (READ_LATENCY - 1) <= MinGap * RamClocks
  BY <1>3, <1>6, Times
<1>8. MinGap * RamClocks \in Nat
  BY <1>6, Times
<1> DEFINE m == MinGap * RamClocks
           k == MinGap * (READ_LATENCY - 1)
<1>9. k >= 8 /\ k <= m /\ m \in Nat /\ age >= m + gap /\ gap \in Nat /\ k \in Int
  <2>1. k \in Nat
    BY <1>3, Times
  <2> QED BY <1>1, <1>2, <1>3, <1>7, <1>8, <2>1
<1> HIDE DEF m, k
<1> QED BY <1>9

LEMMA TakenStep ==
    ASSUME Burst, Clock, NEW age \in Nat, Quiet(age), Reading, age >= 1
    PROVE  /\ Taken \in Nat
           /\ ~ filter.strobe => burst_cycle' = burst_cycle /\ Taken' = Taken
           /\ filter.strobe => burst_cycle' = burst_cycle + 1
           /\ filter.strobe /\ burst_cycle >= READ_LATENCY - 2 => Taken' = Taken + 1
           /\ filter.strobe /\ burst_cycle < READ_LATENCY - 2 => Taken' = Taken
           /\ burst_cycle < READ_LATENCY - 1 => Taken = 0
<1>1. /\ burst_cycle \in Nat /\ filter.strobe \in BOOLEAN
      /\ burst_cycle' = IF ~ filter.strobe THEN burst_cycle
                        ELSE IF filter.latch THEN 0
                        ELSE IF filter.read THEN burst_cycle + 1 ELSE burst_cycle
  BY CycleStep DEF Burst
<1>2. filter.strobe => filter.read /\ ~ filter.latch
  BY AgeFacts
<1>3. filter.strobe => burst_cycle' = burst_cycle + 1
  BY <1>1, <1>2
<1>4. READ_LATENCY \in Nat /\ READ_LATENCY >= 3
  BY Sizes2
<1> QED BY <1>1, <1>3, <1>4 DEF Taken

LEMMA ContentStays ==
    ASSUME Stored, Clock, Registered > OffsetsEnd, Registered \in Int
    PROVE  content' = content
<1>1. Registered > 0 /\ ~ (Registered <= ContentWords)
  BY Sizes
<1>2. ~ wr.content.enable
  BY <1>1 DEF Stored
<1> QED BY <1>2 DEF Clock, StoreClock

\* The first block of the CAM that matches is the first one of the patch.
LEMMA FirstHit ==
    ASSUME Inv, Load, Cam, loaded >= 0, NEW w \in Memory, InRegion(w), CamHits(w) # {},
           Ready \/ ~ Superseded(w)
    PROVE  /\ Min(CamHits(w)) = BlockOf(w)
           /\ Registered > OffsetsEnd
<1> DEFINE m == BlockOf(w)
           H == CamHits(w)
<1>1. /\ m \in Blocks /\ m < Len(patch.blocks) /\ EntryMatches(Entry(m), w)
      /\ \A i \in Hits(w) : i \in Nat /\ m + 1 <= i
  BY OldMatch
<1>2. \A b \in H : b \in Blocks
  BY DEF CamHits
<1>3. ASSUME NEW b \in H
      PROVE  Fresh(b) /\ (b < Len(patch.blocks) => b + 1 \in Hits(w))
  <2>1. Fresh(b)
    BY <1>2, <1>3, CamMatch, ReadyIsFresh
  <2> QED BY <1>3, <2>1, CamMatch
<1>4. \A b \in H : m <= b
  <2> TAKE b \in H
  <2>1. b \in Nat /\ m \in Nat /\ Len(patch.blocks) \in Nat
    BY <1>1, <1>2, Sizes DEF Inv, LayoutInv, TypeOK
  <2>2. CASE b < Len(patch.blocks)
    BY <1>1, <1>3, <2>1, <2>2
  <2>3. CASE b >= Len(patch.blocks)
    BY <1>1, <2>1, <2>3
  <2> QED BY <2>1, <2>2, <2>3
<1> HIDE DEF m
<1>5. PICK b \in H : TRUE
  OBVIOUS
<1>6. Fresh(b) /\ b \in Blocks /\ m <= b
  BY <1>2, <1>3, <1>4
<1>7. /\ At(b) \in Nat /\ At(b) >= OffsetsEnd + 3 /\ At(m) \in Nat
      /\ m < b => At(m) + 3 <= At(b)
  BY <1>1, <1>6, WritePlaces
<1>8. Registered \in Int /\ wr.cam.enable \in BOOLEAN
  BY DEF Registered, Load
<1>9. Registered > OffsetsEnd
  BY <1>6, <1>7, <1>8, Sizes DEF Fresh
<1>10. Fresh(m)
  <2>1. m \in Nat /\ b \in Nat
    BY <1>1, <1>6, Sizes
  <2>2. CASE m = b
    BY <1>6, <2>2
  <2>3. CASE m < b
    BY <1>6, <1>7, <1>8, <2>3 DEF Fresh
  <2> QED BY <1>6, <2>1, <2>2, <2>3
<1>11. cam[m] = <<Entry(m)>>
  BY <1>1, <1>10 DEF Cam
<1>12. m \in H
  BY <1>1, <1>11 DEF CamHits
<1>13. H \in SUBSET Nat
  BY <1>2, Sizes
<1>14. Min(H) = m
  BY <1>4, <1>12, <1>13, MinUnique
<1> QED BY <1>9, <1>14 DEF m

LEMMA LookedUpStep ==
    ASSUME Inv, Load, Cam, Stored, Burst, Clock, NEW age \in Nat, Quiet(age), Untouched(age),
           LookedUp(age), NEW next \in Nat, next = Aged(age)
    PROVE  LookedUp(next)'
<1> DEFINE a == burst.start
           b == BlockOf(burst.start)
           p == Place
           t == Taken
           o == Block(BlockOf(burst.start)).offset
<1> SUFFICES ASSUME Reading', InRegion(burst.start)',
                    burst'.ready \/ ~ (misread' \/ Superseded(burst.start)')
    PROVE
      /\ (next = 2 /\ rd'.hits # {}) \/ (next = 3 /\ rd'.match) \/ (next >= 4 /\ patch_active') =>
           loaded' >= 0 /\ Registered' > OffsetsEnd
      /\ next = 2 /\ rd'.hits # {} => Min(rd'.hits) = BlockOf(burst.start)'
      /\ next = 3 /\ rd'.match => rd'.index = BlockOf(burst.start)'
      /\ next = 4 /\ patch_active' => rd'.strobe_in /\ rd'.offset_addr = BlockOf(burst.start)'
      /\ next = 5 /\ patch_active' =>
           rd'.strobe_out /\ rd'.offset_data = Block(BlockOf(burst.start))'.offset
      /\ next >= 6 /\ patch_active' => rd'.content_addr = (Place' + Taken') % ContentWords
      /\ next >= 7 /\ patch_active' /\ gap' # 1 =>
           rd'.data_out = content'[(Place' + Taken') % ContentWords]
      /\ next >= 8 /\ patch_active' /\ gap' \notin {1, 2} =>
           rd'.data = content'[(Place' + Taken') % ContentWords]
      /\ next >= 8 /\ patch_active' /\ burst_cycle' >= READ_LATENCY - 1 =>
           ram_d_latch' = content'[(Place' + (Taken' - 1)) % ContentWords]
  BY Zenon DEF LookedUp, WordAt
<1>1. CASE next = 0
  BY <1>1
<1>2. CASE next # 0
  <2>1. /\ Reading /\ next = age + 1 /\ (BusIdle \/ BusRead)
        /\ burst'.start = burst.start /\ burst'.ready = burst.ready /\ burst.start \in Memory
    <3>1. next >= 1
      BY <1>2
    <3> QED BY <3>1, GoesOn
  <2>2. /\ session' = session /\ earlier' = earlier /\ regions' = regions /\ patch' = patch
    BY DEF Clock, sessionVars, allocVars
  <2>3. /\ InRegion(a) /\ (burst.ready \/ ~ (misread' \/ Superseded(a)))
        /\ age # 1 => misread' = misread
    BY <2>1, <2>2, LookupStep DEF InRegion, Superseded, Quiet
  <2>4. BlockOf(burst.start)' = b /\ Place' = p /\ Block(BlockOf(burst.start))' = Block(b)
    BY <2>1, <2>2 DEF BlockOf, Hits, Place, ContentOf, RegionOf, Block
  <2>5. loaded >= 0 /\ loaded' >= 0 /\ loaded \in Nat /\ Registered \in Int
        /\ Registered' = loaded /\ Registered <= loaded
    BY RegisteredStep
  <2>6. burst.ready => Ready
    BY DEF Burst
  <2>7. /\ b \in Blocks /\ (Block(b).offset + a) % ContentWords = p /\ Block(b).offset \in Nat
        /\ a \in Nat
    BY <2>1, <2>3, <2>5, OldMatch, SizesAssumption DEF Place, Memory, LastWord
  <2>8. ContentWords \in Nat /\ ContentWords > 0 /\ OffsetsEnd \in Nat
    BY Sizes
  <2>9. p \in 0 .. ContentWords - 1 /\ p % ContentWords = p
    <3>1. p \in 0 .. ContentWords - 1
      BY <2>7, <2>8, DivMod
    <3>2. p = ContentWords * 0 + p
      BY <2>8, <3>1
    <3> HIDE DEF p
    <3> QED BY <2>8, <3>1, <3>2, Unique
  <2>10. t \in Nat
    <3>1. burst_cycle \in Nat /\ READ_LATENCY \in Nat
      BY Sizes2 DEF Burst
    <3> QED BY <3>1 DEF Taken
  <2>11. /\ age >= 1 /\ age # 3 /\ patch_active' => patch_active
         /\ age = 3 /\ patch_active' => rd.match
         /\ age = 3 => ~ patch_active
    <3>1. age = 3 => ~ patch_active
      BY <2>1 DEF Untouched
    <3>2. patch_active' => ~ End /\ (patch_active \/ rd.match)
      BY InjectStep
    <3>3. rd.match => age \in {0, 3}
      BY DEF Quiet
    <3> QED BY <3>1, <3>2, <3>3
  <2>12. /\ (age = 2 /\ rd.hits # {}) \/ (age = 3 /\ rd.match) \/ (age >= 4 /\ patch_active) =>
              loaded >= 0 /\ Registered > OffsetsEnd
         /\ age = 2 /\ rd.hits # {} => Min(rd.hits) = b
         /\ age = 3 /\ rd.match => rd.index = b
         /\ age = 4 /\ patch_active => rd.strobe_in /\ rd.offset_addr = b
         /\ age = 5 /\ patch_active => rd.strobe_out /\ rd.offset_data = Block(b).offset
         /\ age >= 6 /\ patch_active => rd.content_addr = (p + t) % ContentWords
         /\ age >= 7 /\ patch_active /\ gap # 1 => rd.data_out = content[(p + t) % ContentWords]
         /\ age >= 8 /\ patch_active /\ gap \notin {1, 2} => rd.data = content[(p + t) % ContentWords]
         /\ age >= 8 /\ patch_active /\ burst_cycle >= READ_LATENCY - 1 =>
              ram_d_latch = content[(p + (t - 1)) % ContentWords]
    BY <2>1, <2>3 DEF LookedUp, WordAt
  <2> HIDE DEF a, b, p, t
  <2>13. next = 2 /\ rd'.hits # {} => Registered > OffsetsEnd /\ Min(rd'.hits) = b
    <3> SUFFICES ASSUME age = 1, rd'.hits # {}
                 PROVE  Registered > OffsetsEnd /\ Min(rd'.hits) = b
      BY <2>1
    <3>1. rd.addr = a
      BY <2>1 DEF Untouched, a
    <3>2. rd'.hits = CamHits(a)
      BY <2>3, <2>6, <3>1, LookupStep DEF Ready
    <3>3. a \in Memory
      BY <2>1 DEF a
    <3>4. Ready \/ ~ Superseded(a)
      BY <2>3, <2>6
    <3> QED BY <2>3, <2>5, <3>2, <3>3, <3>4, FirstHit DEF a, b
  <2>14. next = 3 /\ rd'.match => rd.hits # {} /\ rd'.index = b
    <3> SUFFICES ASSUME age = 2, rd'.match PROVE rd.hits # {} /\ rd'.index = b
      BY <2>1
    <3>1. rd.hits # {}
      BY ReadRegisters
    <3> QED BY <2>12, <3>1, ReadRegisters
  <2>15. (next = 2 /\ rd'.hits # {}) \/ (next = 3 /\ rd'.match) \/ (next >= 4 /\ patch_active') =>
           loaded' >= 0 /\ Registered' > OffsetsEnd
    <3>1. next = 2 /\ rd'.hits # {} => Registered > OffsetsEnd
      BY <2>13
    <3>2. next = 3 /\ rd'.match => Registered > OffsetsEnd
      BY <2>1, <2>12, <2>14
    <3>3. next >= 4 /\ patch_active' => Registered > OffsetsEnd
      BY <2>1, <2>11, <2>12
    <3> QED BY <2>5, <2>8, <3>1, <3>2, <3>3
  <2>16. next = 4 /\ patch_active' => rd'.strobe_in /\ rd'.offset_addr = b
    <3> SUFFICES ASSUME age = 3, patch_active' PROVE rd'.strobe_in /\ rd'.offset_addr = b
      BY <2>1
    <3>1. rd.match /\ rd.index = b
      BY <2>11, <2>12
    <3> QED BY <3>1, ReadRegisters
  <2>17. next = 5 /\ patch_active' => rd'.strobe_out /\ rd'.offset_data = Block(b).offset
    <3> SUFFICES ASSUME age = 4, patch_active'
                 PROVE  rd'.strobe_out /\ rd'.offset_data = Block(b).offset
      BY <2>1
    <3>1. rd.strobe_in /\ rd.offset_addr = b /\ Registered > OffsetsEnd
      BY <2>11, <2>12
    <3>2. Registered > ContentWords + b + 1
      BY <2>5, <2>7, <2>8, <3>1, Sizes
    <3>3. offset_mem[b] = Block(b).offset
      BY <2>7, <3>2 DEF Stored
    <3> QED BY <3>1, <3>3, ReadRegisters
\* From the offset to the content.
  <2>18. /\ age >= 1 => Taken' \in Nat
         /\ age >= 1 /\ ~ filter.strobe => burst_cycle' = burst_cycle /\ Taken' = t
         /\ age >= 1 /\ filter.strobe => burst_cycle' = burst_cycle + 1
         /\ age >= 1 /\ filter.strobe /\ burst_cycle >= READ_LATENCY - 2 => Taken' = t + 1
         /\ age >= 1 /\ filter.strobe /\ burst_cycle < READ_LATENCY - 2 => Taken' = t
         /\ age >= 1 /\ burst_cycle < READ_LATENCY - 1 => t = 0
    <3>1. burst_cycle \in Nat /\ READ_LATENCY \in Nat /\ filter.strobe \in BOOLEAN
      BY Sizes2 DEF Burst
    <3> QED BY <2>1, <2>10, <3>1, TakenStep DEF t
  <2>19. /\ burst_cycle \in Nat /\ READ_LATENCY \in Nat /\ READ_LATENCY >= 3
         /\ filter.strobe \in BOOLEAN /\ (filter.strobe <=> gap = 0)
         /\ gap \in 0 .. MinGap /\ MinGap \in Nat /\ MinGap >= 3
    BY Sizes2 DEF Burst
  <2>20. age >= 1 /\ age < 8 => /\ burst_cycle < READ_LATENCY - 1
                                /\ ~ (filter.strobe /\ burst_cycle >= READ_LATENCY - 2)
    <3>1. READ_LATENCY - 1 \in Int /\ READ_LATENCY - 2 \in Int
      BY <2>19
    <3>2. age >= 1 /\ (burst_cycle >= READ_LATENCY - 1
                       \/ (filter.strobe /\ burst_cycle >= READ_LATENCY - 2)) => age >= 8
      BY <2>1, Late
    <3> QED BY <2>19, <3>1, <3>2
  <2>21. next >= 6 /\ patch_active' => rd'.content_addr = (p + Taken') % ContentWords
    <3> SUFFICES ASSUME age >= 5, patch_active'
                 PROVE  rd'.content_addr = (p + Taken') % ContentWords
      BY <2>1
    <3>1. patch_active
      BY <2>11
    <3>2. CASE age = 5
      <4>1. rd.strobe_out /\ rd.offset_data = Block(b).offset
        BY <2>12, <3>1, <3>2
      <4>2. rd.burst_offset = a % ContentWords
        BY <2>1, <3>2 DEF Untouched, a
      <4>3. rd'.content_addr = (Block(b).offset + (a % ContentWords)) % ContentWords
        BY <4>1, <4>2, ReadRegisters DEF ContentAddr
      <4>4. rd'.content_addr = p
        <5>1. Block(b).offset \in Int /\ a \in Int
          BY <2>7
        <5>2. (Block(b).offset + (a % ContentWords)) % ContentWords
                = (Block(b).offset + a) % ContentWords
          BY <2>8, <5>1, ModSum, Zenon
        <5> QED BY <2>7, <4>3, <5>2, Zenon
      <4>5. Taken' = 0
        <5>1. t = 0 /\ Taken' = t
          BY <2>18, <2>19, <2>20, <3>2
        <5> QED BY <5>1
      <4>6. p + Taken' = p
        BY <2>9, <4>5
      <4> QED BY <2>9, <4>4, <4>6
    <3>3. CASE age >= 6
      <4>1. ~ rd.strobe_out
        BY <3>3 DEF Quiet
      <4>2. rd'.content_addr = (IF patch_data_next THEN (rd.content_addr + 1) % ContentWords
                                ELSE rd.content_addr)
        BY <4>1, ReadRegisters DEF ContentAddr
      <4>3. rd.content_addr = (p + t) % ContentWords
        BY <2>12, <3>1, <3>3
      <4>4. patch_data_next <=> filter.strobe /\ burst_cycle >= READ_LATENCY - 2
        <5>1. filter.strobe => filter.read
          BY <2>1, AgeFacts
        <5> QED BY <3>1, <5>1 DEF patch_data_next, patched_read
      <4>5. CASE patch_data_next
        <5>1. Taken' = t + 1
          BY <2>18, <4>4, <4>5
        <5>2. rd'.content_addr = (((p + t) % ContentWords) + 1) % ContentWords
          BY <4>2, <4>3, <4>5
        <5>3. p + t \in Int /\ (p + t) + 1 = p + Taken'
          BY <2>9, <2>10, <5>1 DEF t
        <5>4. (((p + t) % ContentWords) + 1) % ContentWords = ((p + t) + 1) % ContentWords
          <6>1. 1 \in Int
            OBVIOUS
          <6> QED BY <2>8, <5>3, <6>1, ModSum, Zenon
        <5> QED BY <5>2, <5>3, <5>4
      <4>6. CASE ~ patch_data_next
        <5>1. Taken' = t
          BY <2>18, <2>19, <3>3, <4>4, <4>6
        <5> QED BY <4>2, <4>3, <4>6, <5>1
      <4> QED BY <4>5, <4>6
    <3> QED BY <3>2, <3>3
  <2>22. age >= 4 /\ patch_active' => content' = content
    <3> SUFFICES ASSUME age >= 4, patch_active' PROVE content' = content
      OBVIOUS
    <3>1. Registered > OffsetsEnd
      BY <2>11, <2>12
    <3> QED BY <2>5, <3>1, ContentStays
\* The bus has not moved on.
  <2>23. /\ gap' # 1 => ~ filter.strobe
         /\ gap' \notin {1, 2} => gap # 1
    <3>1. BusRead => gap >= 2 /\ ~ filter.strobe
      BY AgeFacts
    <3>2. BusIdle => gap' = (IF gap < MinGap THEN gap + 1 ELSE MinGap)
      BY DEF BusIdle
    <3> QED BY <2>1, <2>19, <3>1, <3>2
  <2>24. next >= 7 /\ patch_active' /\ gap' # 1 =>
           rd'.data_out = content'[(p + Taken') % ContentWords]
    <3> SUFFICES ASSUME age >= 6, patch_active', gap' # 1
                 PROVE  rd'.data_out = content'[(p + Taken') % ContentWords]
      BY <2>1
    <3>1. rd.content_addr = (p + t) % ContentWords
      BY <2>11, <2>12
    <3>2. Taken' = t /\ content' = content
      BY <2>18, <2>22, <2>23
    <3> QED BY <3>1, <3>2, ReadRegisters
  <2>25. next >= 8 /\ patch_active' /\ gap' \notin {1, 2} =>
           rd'.data = content'[(p + Taken') % ContentWords]
    <3> SUFFICES ASSUME age >= 7, patch_active', gap' \notin {1, 2}
                 PROVE  rd'.data = content'[(p + Taken') % ContentWords]
      BY <2>1
    <3>1. rd.data_out = content[(p + t) % ContentWords]
      BY <2>11, <2>12, <2>23
    <3>2. Taken' = t /\ content' = content
      BY <2>18, <2>22, <2>23
    <3> QED BY <3>1, <3>2, ReadRegisters
  <2>26. next >= 8 /\ patch_active' /\ burst_cycle' >= READ_LATENCY - 1 =>
           ram_d_latch' = content'[(p + (Taken' - 1)) % ContentWords]
    <3> SUFFICES ASSUME age >= 7, patch_active', burst_cycle' >= READ_LATENCY - 1
                 PROVE  ram_d_latch' = content'[(p + (Taken' - 1)) % ContentWords]
      BY <2>1
    <3>1. patch_active /\ content' = content
      BY <2>11, <2>22
    <3>2. ~ End
      BY InjectStep
    <3>3. CASE filter.strobe
      <4>1. burst_cycle >= READ_LATENCY - 2
        BY <2>18, <2>19, <3>3
      <4>2. age >= 8
        BY <2>1, <3>3, <4>1, Late
      <4>3. rd.data = content[(p + t) % ContentWords]
        BY <2>12, <2>19, <3>1, <3>3, <4>2
      <4>4. patched_read
        BY <2>1, <3>1, <3>3, AgeFacts DEF patched_read
      <4>5. ram_d_latch' = rd.data
        BY <3>2, <4>4, InjectStep
      <4>6. Taken' - 1 = t
        <5>1. Taken' = t + 1 /\ t \in Nat
          BY <2>10, <2>18, <3>3, <4>1 DEF t
        <5> QED BY <5>1
      <4> QED BY <3>1, <4>3, <4>5, <4>6
    <3>4. CASE ~ filter.strobe
      <4>1. burst_cycle' = burst_cycle /\ Taken' = t
        BY <2>18, <3>4
      <4>2. age >= 8
        BY <2>1, <4>1, Late
      <4>3. ram_d_latch = content[(p + (t - 1)) % ContentWords]
        BY <2>12, <3>1, <4>1, <4>2
      <4>4. ram_d_latch' = ram_d_latch
        BY <3>2, <3>4, InjectStep DEF patched_read
      <4> QED BY <3>1, <4>1, <4>3, <4>4
    <3> QED BY <3>3, <3>4
  <2> HIDE DEF o
  <2> QED BY <2>4, <2>13, <2>14, <2>15, <2>16, <2>17, <2>21, <2>24, <2>25, <2>26
<1> QED BY <1>1, <1>2

-----------------------------------------------------------------------------
(* The steps between the clocks: a patch is laid out, its load begins, and   *)
(* the host program is started again.                                        *)

\* The hardware stands still, and what it may match is an earlier patch's.
LEMMA Held ==
    ASSUME Burst, NEW age \in Nat, Quiet(age), Untouched(age), UNCHANGED busVars,
           burst' = [start |-> burst.start, kind |-> burst.kind, ready |-> FALSE],
           misread' = misread,
           Touched(burst.start) => misread \/ Superseded(burst.start)'
    PROVE  Burst' /\ Pipeline(age)'
<1>1. /\ filter' = filter /\ gap' = gap /\ burst_cycle' = burst_cycle /\ rd' = rd
      /\ patch_active' = patch_active /\ ram_ce1_out' = ram_ce1_out
      /\ burst'.start = burst.start /\ burst'.kind = burst.kind /\ burst'.ready = FALSE
      /\ burst' = [start |-> burst'.start, kind |-> burst'.kind, ready |-> burst'.ready]
  BY DEF busVars
<1>2. (Reading <=> Reading') /\ (End <=> End')
  BY <1>1 DEF Reading, End
<1>3. Least' = Least
  BY <1>1 DEF Least, RamClocks
<1>4. Burst'
  <2>1. (burst.ready => Ready)'
    BY <1>1
  <2> QED BY <1>1, <1>2, <2>1 DEF Burst, Memory, LastWord
<1>5. Quiet(age)'
  BY <1>1, <1>3 DEF Quiet
<1>6. Touched(burst.start) =>
        (misread' \/ Superseded(burst.start)') /\ Touched(burst.start)'
  BY <1>1 DEF Touched
<1>7. Untouched(age)'
  BY <1>1, <1>2, <1>6 DEF Untouched
<1>8. Found(age)'
  BY <1>1 DEF Found
<1>9. Reading /\ age >= 1 => ~ End
  BY DEF Reading, End, Burst, Quiet
<1>10. Reading /\ ((age = 2 /\ rd.hits # {}) \/ (age = 3 /\ rd.match) \/ (age >= 4 /\ patch_active))
         => misread' \/ Superseded(burst.start)'
  BY <1>6, <1>9 DEF Untouched
<1>11. LookedUp(age)'
  <2> SUFFICES ASSUME Reading', ~ (misread' \/ Superseded(burst.start)')
               PROVE  LookedUp(age)'
    BY <1>1 DEF LookedUp
  <2>1. /\ ~ (age = 2 /\ rd'.hits # {}) /\ ~ (age = 3 /\ rd'.match)
        /\ ~ (age >= 4 /\ patch_active')
    BY <1>1, <1>2, <1>10
  <2>2. /\ age = 4 => age >= 4
        /\ age = 5 => age >= 4
        /\ age >= 6 => age >= 4
        /\ age >= 7 => age >= 4
        /\ age >= 8 => age >= 4
    OBVIOUS
  <2> QED BY <2>1, <2>2, Zenon DEF LookedUp
<1> QED BY <1>4, <1>5, <1>7, <1>8, <1>11 DEF Pipeline

\* What the CAM holds, and what is on its way there, counts as an earlier
\* patch's when the next load begins.
LEMMA CamHeld ==
    ASSUME Inv, Load, Cam, UNCHANGED <<config, wr, cam>>, loaded' \in {-1, 0},
           \A w \in Memory : Superseded(w) => Superseded(w)',
           loaded >= 0 => \A w \in Memory : InRegion(w) \/ w = LastWord => Superseded(w)'
    PROVE  Cam'
<1>1. /\ loaded \in Int /\ config.strobe \in BOOLEAN /\ wr.cam.enable \in BOOLEAN
      /\ loaded <= Total /\ Total \in Nat
  BY Sizes DEF Load
<1>2. /\ Registered \in Int /\ Registered = (IF config.strobe THEN loaded - 1 ELSE loaded)
      /\ Registered' \in Int /\ Registered' <= 0
  <2>1. loaded' = -1 \/ loaded' = 0
    OBVIOUS
  <2>2. Registered' = loaded' - 1 \/ Registered' = loaded'
    BY DEF Registered
  <2>3. Registered' \in Int /\ Registered' <= 0
    BY ONLY <2>1, <2>2
  <2>4. Registered = IF config.strobe THEN loaded - 1 ELSE loaded
    BY DEF Registered
  <2>5. Registered \in Int
    BY <1>1, <2>4
  <2> QED BY <2>3, <2>4, <2>5
<1>3. \A b \in Blocks : At(b) \in Nat /\ At(b) > 2 /\ At(b)' = At(b)
  BY WritePlaces, Sizes DEF At, OffsetsEnd
<1>4. ASSUME NEW e, OldEntry(e)
      PROVE  \A w \in Memory : EntryMatches(e, w) => Superseded(w)'
  BY <1>4 DEF OldEntry
<1>5. ASSUME NEW b \in Blocks, loaded >= 0
      PROVE  \A w \in Memory : EntryMatches(Entry(b), w) => Superseded(w)'
  BY <1>5, NewMatch
<1>6. \A b \in Blocks : ~ Fresh(b)'
  BY <1>2, <1>3 DEF Fresh
<1>7. ASSUME NEW b \in Blocks
      PROVE  cam[b] = <<>> \/ \A w \in Memory : EntryMatches(cam[b][1], w) => Superseded(w)'
  <2>1. CASE Fresh(b)
    <3>1. cam[b] = <<Entry(b)>>
      BY <2>1 DEF Cam
    <3>2. loaded >= 0
      BY <1>1, <1>2, <1>3, <2>1 DEF Fresh
    <3>3. cam[b][1] = Entry(b)
      BY <3>1
    <3> QED BY <1>5, <3>2, <3>3
  <2>2. CASE ~ Fresh(b)
    <3>1. cam[b] = <<>> \/ OldEntry(cam[b][1])
      BY <2>2 DEF Cam
    <3> QED BY <1>4, <3>1
  <2> QED BY <2>1, <2>2
<1>8. ASSUME NEW b \in Blocks, Registered \in At(b) - 1 .. At(b)
      PROVE  \A w \in Memory : EntryMatches(WrEntry, w) => Superseded(w)'
  <2>1. wr.cam.addr = Block(b).addr /\ wr.cam.mask = Block(b).mask
    BY <1>2, <1>3, <1>8 DEF Cam
  <2>2. WrEntry = Entry(b)
    BY <2>1 DEF WrEntry, Entry
  <2>3. loaded >= 0
    BY <1>1, <1>2, <1>3, <1>8
  <2> QED BY <1>5, <2>2, <2>3
<1>9. ASSUME wr.cam.enable
      PROVE  /\ wr.cam.index \in Blocks
             /\ \A w \in Memory : EntryMatches(WrEntry, w) => Superseded(w)'
  <2>1. /\ wr.cam.index \in Blocks
        /\ Registered > 0 => Registered = At(wr.cam.index)
        /\ Registered <= 0 => OldEntry(WrEntry)
    BY <1>9 DEF Cam
  <2>2. CASE Registered > 0
    <3>1. Registered \in At(wr.cam.index) - 1 .. At(wr.cam.index)
      BY <1>3, <2>1, <2>2
    <3> QED BY <1>8, <2>1, <3>1
  <2>3. CASE Registered <= 0
    BY <1>4, <2>1, <2>3
  <2> QED BY <1>2, <2>2, <2>3
<1>10. ASSUME config.strobe, config.reg = "camIndex"
       PROVE  /\ config.index \in Blocks
              /\ \A w \in Memory : EntryMatches(WrEntry, w) => Superseded(w)'
  <2>1. CASE loaded > 0
    <3>1. config.index \in Blocks /\ loaded = At(config.index)
      BY <1>10, <2>1, StrobedWrite
    <3>2. Registered \in At(config.index) - 1 .. At(config.index)
      BY <1>2, <1>3, <1>10, <3>1
    <3> QED BY <1>8, <3>1, <3>2
  <2>2. CASE loaded <= 0
    <3>1. config.index \in Blocks /\ OldEntry(WrEntry)
      BY <1>10, <2>2 DEF Cam
    <3> QED BY <1>4, <3>1
  <2> QED BY <1>1, <2>1, <2>2
<1>11. DOMAIN cam' = Blocks
  BY DEF Cam
<1>12. \A b \in Blocks :
         /\ (Registered \in At(b) - 2 .. At(b) => wr.cam.addr = Block(b).addr)'
         /\ (Registered \in At(b) - 1 .. At(b) => wr.cam.mask = Block(b).mask)'
         /\ (Fresh(b) => cam[b] = <<Entry(b)>>)'
         /\ (~ Fresh(b) => cam[b] = <<>> \/ OldEntry(cam[b][1]))'
  <2> TAKE b \in Blocks
  <2>1. Registered' \notin At(b) - 2 .. At(b) /\ Registered' \notin At(b) - 1 .. At(b)
    BY <1>2, <1>3
  <2>2. /\ (Registered \in At(b) - 2 .. At(b) => wr.cam.addr = Block(b).addr)'
        /\ (Registered \in At(b) - 1 .. At(b) => wr.cam.mask = Block(b).mask)'
    BY <1>3, <2>1
  <2>3. (Fresh(b) => cam[b] = <<Entry(b)>>)'
    BY <1>6
  <2>4. (~ Fresh(b) => cam[b] = <<>> \/ OldEntry(cam[b][1]))'
    BY <1>7 DEF OldEntry, Memory, LastWord
  <2> QED BY <2>2, <2>3, <2>4
<1>13. (wr.cam.enable => /\ wr.cam.index \in Blocks
                         /\ Registered > 0 => Registered = At(wr.cam.index)
                         /\ Registered <= 0 => OldEntry(WrEntry))'
  BY <1>2, <1>9 DEF OldEntry, WrEntry, Memory, LastWord
<1>14. (config.strobe /\ loaded <= 0 /\ config.reg = "camIndex" =>
          config.index \in Blocks /\ OldEntry(WrEntry))'
  BY <1>10 DEF OldEntry, WrEntry, Memory, LastWord
<1> QED BY <1>11, <1>12, <1>13, <1>14 DEF Cam

\* The next load's first entry is farther away than the one that was cut short.
LEMMA SpacedHeld ==
    ASSUME Load, Spaced, UNCHANGED busVars, misread' = misread, loaded' \in {-1, 0}
    PROVE  Spaced'
<1>1. /\ config' = config /\ idle' = idle /\ wr' = wr /\ writing' = writing
  BY DEF busVars
<1>2. OffsetsEnd \in Nat /\ OffsetsEnd' = OffsetsEnd
  BY Sizes DEF OffsetsEnd
<1>3. Since' = 0
  <2>1. ~ (loaded' > OffsetsEnd)
    BY <1>2
  <2> QED BY <1>2, <2>1, Zenon DEF Since
<1>4. Waited' = idle /\ idle \in 0 .. CONFIG_GAP - 1 /\ CONFIG_GAP \in Nat
  BY <1>1, <1>3, LoadAssumption DEF Waited, Spaced
<1>5. Waited' <= Waited /\ Waited \in Int
  BY <1>4 DEF Waited
<1>6. /\ writing.left \in 0 .. CAM_WRITE /\ CAM_WRITE \in Nat /\ (config.strobe => idle = 0)
      /\ Strobed("camIndex") => Waited = 0 /\ writing.left <= 1 /\ ~ wr.cam.enable
      /\ wr.cam.enable => Waited <= 1 /\ writing.left = 0
      /\ writing.left > 0 => Waited + writing.left <= CAM_WRITE + 2
      /\ Strobed("camIndex")' <=> Strobed("camIndex")
  BY <1>1, LoadAssumption DEF Spaced, Strobed
<1>7. Strobed("camIndex") => idle = 0
  BY <1>6 DEF Strobed
<1>8. /\ Strobed("camIndex")' => Waited' = 0 /\ writing'.left <= 1 /\ ~ wr'.cam.enable
      /\ wr'.cam.enable => Waited' <= 1 /\ writing'.left = 0
      /\ writing'.left > 0 => Waited' + writing'.left <= CAM_WRITE + 2
  BY <1>1, <1>4, <1>5, <1>6, <1>7
<1> QED BY <1>1, <1>4, <1>6, <1>8 DEF Spaced

\* Nothing of the next patch is in the memories yet.
LEMMA StoredHeld ==
    ASSUME Load, Stored, UNCHANGED <<config, content, offset_mem>>, loaded' \in {-1, 0}
    PROVE  Stored'
<1>1. Registered' \in Int /\ Registered' <= 0
  BY DEF Registered, Load
<1>2. /\ ContentWords \in Nat /\ Blocks \subseteq Nat
      /\ \A i \in 0 .. ContentWords - 1 : i + 1 \in Nat /\ i + 1 > 0
      /\ \A b \in Blocks : ContentWords + b + 1 \in Nat /\ ContentWords + b + 1 > 0
  BY Sizes
<1>3. DOMAIN content' = 0 .. ContentWords - 1 /\ DOMAIN offset_mem' = Blocks
  BY DEF Stored
<1>4. ~ (Registered' > 0) /\ \A n \in Nat : n > 0 => ~ (Registered' > n) /\ Registered' # n
  BY <1>1
<1> QED BY <1>2, <1>3, <1>4, Zenon DEF Stored

-----------------------------------------------------------------------------
(* What is in the buffer, in a step *)

LEMMA BufferHeld ==
    ASSUME Buffer, UNCHANGED <<regions, given, buffer, copy>>,
           \A i \in DOMAIN headers' : headers'[i].filesz \in Nat
    PROVE  Buffer'
<1>1. \A i : Filled(i)' = Filled(i)
  BY DEF Filled
<1> QED BY <1>1, Zenon DEF Buffer

\* A region is allocated for the bytes to come.
LEMMA FillStep ==
    ASSUME Inv, Buffer, Done, NEW base, NEW size, NEW data \in Nat, NEW file,
           data <= size, [base |-> base, size |-> size] \in Regions,
           FillRegion(base, size, data, file),
           \A i \in DOMAIN headers' : headers'[i].filesz \in Nat
    PROVE  Buffer'
<1> DEFINE r == [base |-> base, size |-> size]
           n == Len(regions)
           s == RoundUp(r.size)
           new == [base |-> r.base, size |-> s, content |-> patch.contentSize]
<1>1. /\ regions \in Seq([base : Nat, size : Nat, content : Nat])
      /\ n \in Nat /\ DOMAIN regions = 1 .. n /\ patch.contentSize \in Nat
      /\ \A i \in DOMAIN regions : regions[i].content + regions[i].size <= patch.contentSize
  BY DEF Inv, LayoutInv, TypeOK, Space
<1>2. /\ given \in Seq(Nat) /\ Len(given) = n
      /\ copy.bytes = 0 /\ buffer' = buffer
  BY DEF Buffer, Done, FillRegion
<1>3. s \in Nat /\ data <= s
  <2>1. size \in Nat
    BY RegionsAssumption
  <2>2. RoundUp(size) \in Nat /\ RoundUp(size) >= size
    BY <2>1, Z3 DEF RoundUp
  <2> QED BY <2>1, <2>2
<1>4. \/ UNCHANGED <<regions, copy, given>>
      \/ /\ regions' = Append(regions, new) /\ given' = Append(given, data)
         /\ copy' = [bytes |-> data, file |-> file]
  <2> DEFINE full == patch.contentSize + RoundUp(r.size) > PATCH_CONTENT_SIZE
  <2>1. AllocRegion(r) /\ ~ exited
    BY DEF FillRegion, Done
  <2>2. CASE full
    <3>1. exited' = TRUE /\ UNCHANGED regions
      BY <2>1, <2>2 DEF AllocRegion
    <3> QED BY <3>1 DEF FillRegion
  <2>3. CASE ~ full
    <3>1. regions' = Append(regions, new) /\ exited' = exited
      BY <2>1, <2>3 DEF AllocRegion
    <3> QED BY <2>1, <3>1 DEF FillRegion
  <2> QED BY <2>2, <2>3
<1>5. CASE UNCHANGED <<regions, copy, given>>
  BY <1>2, <1>5, BufferHeld
<1>6. CASE /\ regions' = Append(regions, new) /\ given' = Append(given, data)
           /\ copy' = [bytes |-> data, file |-> file]
  <2>1. /\ Len(regions') = n + 1 /\ DOMAIN regions' = 1 .. n + 1
        /\ \A i \in 1 .. n : regions'[i] = regions[i]
        /\ regions'[n + 1] = new
    BY <1>1, <1>6
  <2>2. /\ given' \in Seq(Nat) /\ Len(given') = n + 1 /\ given'[n + 1] = data
        /\ \A i \in 1 .. n : given'[i] = given[i]
    BY <1>1, <1>2, <1>6
  <2>3. copy'.bytes = data
    BY <1>6
  <2>4. new.size = s /\ new.content = patch.contentSize
    OBVIOUS
  <2> HIDE DEF new, n, s, r
  <2>5. \A i \in DOMAIN regions' : given'[i] <= regions'[i].size
    <3>1. \A i \in 1 .. n : given[i] <= regions[i].size
      BY <1>1 DEF Buffer
    <3>2. \A i \in 1 .. n + 1 : i \in 1 .. n \/ i = n + 1
      BY <1>1
    <3> QED BY <1>3, <2>1, <2>2, <2>4, <3>1, <3>2
  <2>6. \A i, j \in DOMAIN regions' :
          i < j => regions'[i].content + regions'[i].size <= regions'[j].content
    <3>1. \A i, j \in 1 .. n : i < j => regions[i].content + regions[i].size <= regions[j].content
      BY <1>1 DEF Buffer
    <3>0. n \in Nat
      BY <1>1
    <3>2. \A i, j \in 1 .. n + 1 : i < j => i \in 1 .. n /\ (j \in 1 .. n \/ j = n + 1)
      BY ONLY <3>0
    <3> QED BY <1>1, <2>1, <2>4, <3>1, <3>2
  <2>7. copy'.bytes > 0 => regions' # <<>> /\ given'[Len(regions')] = copy'.bytes
    <3>1. Len(regions') # 0
      BY <1>1, <2>1
    <3>2. regions' # <<>>
      BY <3>1
    <3> QED BY <2>1, <2>2, <2>3, <3>2
  <2>8. \A i \in 1 .. n : Filled(i)' = Filled(i)
    <3> TAKE i \in 1 .. n
    <3>1. ~ (i = n + 1)
      BY <1>1
    <3>2. ~ (copy.bytes > 0)
      BY <1>2
    <3> QED BY <2>1, <2>2, <3>1, <3>2 DEF Filled
  <2>9. ASSUME NEW i \in Nat, i = n + 1 PROVE Filled(i)' = {}
    <3>1. i = Len(regions') /\ regions'[i] = new /\ given'[i] = data
      BY <2>1, <2>2, <2>9
    <3>2. CASE data > 0
      BY <2>3, <3>1, <3>2 DEF Filled
    <3>3. CASE ~ (data > 0)
      <4>1. data = 0
        BY <3>3
      <4>2. RoundUp(0) \div 2 = 0
        BY Z3 DEF RoundUp
      <4> DEFINE first == regions'[i].content \div 2 + 1
      <4>3. Filled(i)' = first .. first + RoundUp(given'[i]) \div 2 - 1
        BY <2>3, <3>3 DEF Filled
      <4>4. first \in Int
        BY <1>1, <2>4, <3>1, DivMod
      <4> HIDE DEF first
      <4>5. first .. first + 0 - 1 = {}
        BY <4>4
      <4> QED BY <3>1, <4>1, <4>2, <4>3, <4>5
    <3> QED BY <3>2, <3>3
  <2>10. \A k : (\E i \in DOMAIN regions' : k \in Filled(i)')
                  <=> \E i \in DOMAIN regions : k \in Filled(i)
    <3>1. \A i : i \in 1 .. n + 1 <=> i \in 1 .. n \/ i = n + 1
      BY <1>1
    <3>2. n + 1 \in Nat
      BY <1>1
    <3> QED BY <1>1, <2>1, <2>8, <2>9, <3>1, <3>2, Zenon
  <2>11. \A k \in 1 .. ContentWords :
           buffer'[k] = IF \E i \in DOMAIN regions' : k \in Filled(i)' THEN k ELSE 0
    BY <1>2, <2>10, Zenon DEF Buffer
  <2>12. DOMAIN buffer' = 1 .. ContentWords
    BY <1>2 DEF Buffer
  <2> QED BY <2>1, <2>2, <2>3, <2>5, <2>6, <2>7, <2>11, <2>12 DEF Buffer
<1> QED BY <1>4, <1>5, <1>6

\* The bytes are copied to where the last region's content is.
LEMMA CopyStep ==
    ASSUME Inv, Buffer, CopyData PROVE Buffer'
<1>1. /\ regions' = regions /\ given' = given /\ headers' = headers
      /\ copy.bytes > 0 /\ copy' = [bytes |-> 0, file |-> FALSE]
      /\ buffer' = [k \in 1 .. ContentWords |->
           IF k \in regions[Len(regions)].content \div 2 + 1 ..
                      regions[Len(regions)].content \div 2 + 1 + RoundUp(copy.bytes) \div 2 - 1
             THEN k ELSE buffer[k]]
  BY DEF CopyData, allocVars, NoCopy
<1>2. /\ Len(regions) \in Nat /\ DOMAIN regions = 1 .. Len(regions) /\ Len(regions) # 0
      /\ given[Len(regions)] = copy.bytes
  BY <1>1 DEF Inv, LayoutInv, TypeOK, Buffer
<1>3. copy'.bytes = 0 /\ ~ (copy'.bytes > 0)
  BY <1>1
<1>4. ASSUME NEW i \in DOMAIN regions
      PROVE  /\ i # Len(regions) => Filled(i)' = Filled(i)
             /\ i = Len(regions) => Filled(i) = {}
             /\ i = Len(regions) => Filled(i)' =
                  regions[Len(regions)].content \div 2 + 1 ..
                    regions[Len(regions)].content \div 2 + 1 + RoundUp(copy.bytes) \div 2 - 1
  <2>1. i # Len(regions) => Filled(i)' = Filled(i)
    BY <1>1, <1>3, Zenon DEF Filled
  <2>2. i = Len(regions) => Filled(i) = {}
    BY <1>1, Zenon DEF Filled
  <2>3. i = Len(regions) => Filled(i)' = regions[i].content \div 2 + 1 ..
                    regions[i].content \div 2 + 1 + RoundUp(given[i]) \div 2 - 1
    BY <1>1, <1>3, Zenon DEF Filled
  <2> QED BY <1>2, <2>1, <2>2, <2>3
<1>5. ASSUME NEW k \in 1 .. ContentWords
      PROVE  buffer'[k] = IF \E i \in DOMAIN regions' : k \in Filled(i)' THEN k ELSE 0
  <2> DEFINE last == regions[Len(regions)].content \div 2 + 1 ..
                       regions[Len(regions)].content \div 2 + 1 + RoundUp(copy.bytes) \div 2 - 1
  <2>1. buffer'[k] = IF k \in last THEN k ELSE buffer[k]
    BY <1>1
  <2>2. buffer[k] = IF \E i \in DOMAIN regions : k \in Filled(i) THEN k ELSE 0
    BY DEF Buffer
  <2>3. (\E i \in DOMAIN regions' : k \in Filled(i)')
           <=> k \in last \/ \E i \in DOMAIN regions : k \in Filled(i)
    <3>1. Len(regions) \in DOMAIN regions
      BY <1>2
    <3> QED BY <1>1, <1>4, <3>1, Zenon
  <2> HIDE DEF last
  <2> QED BY <2>1, <2>2, <2>3, Zenon
<1>6. DOMAIN buffer' = 1 .. ContentWords
  BY <1>1
<1> QED BY <1>1, <1>3, <1>5, <1>6 DEF Buffer

LEMMA BytesInNat ==
    ASSUME NEW arg \in Arguments, ~ Refused(arg), arg.format # "elf"
    PROVE  /\ [base |-> arg.addr, size |-> Bytes(arg)] \in Regions
           /\ Bytes(arg) \in Nat
<1>1. [base |-> arg.addr, size |-> Bytes(arg)] \in Regions
  BY ArgumentsAssumption DEF RegionsOf
<1> HIDE DEF Bytes
<1> QED BY <1>1, RegionsAssumption

LEMMA EmptyBuffer ==
    regions = <<>> /\ headers = <<>> /\ copy = NoCopy /\ given = <<>>
      /\ buffer = [i \in 1 .. ContentWords |-> 0] => Buffer
  BY DEF Buffer, NoCopy

LEMMA BufferStep ==
    ASSUME Inv, Load, Buffer, [Next]_vars PROVE Buffer'
<1>1. CASE UNCHANGED vars \/ StartLoad \/ Clock
  <2>1. UNCHANGED <<regions, given, buffer, copy, headers>>
    BY <1>1 DEF vars, StartLoad, Clock, allocVars, argVars
  <2> QED BY <2>1, BufferHeld DEF Buffer
<1>2. CASE Again
  <2>1. (regions = <<>> /\ headers = <<>> /\ copy = NoCopy /\ given = <<>>
         /\ buffer = [i \in 1 .. ContentWords |-> 0])'
    BY <1>2 DEF Again, AllocReset, ArgReset, NoCopy
  <2> QED BY <2>1, EmptyBuffer, PTL
<1>3. CASE Layout
  <2>1. CASE (EmitBlock /\ UNCHANGED argVars) \/ HeaderMissing \/ ReadFails
    <3>1. UNCHANGED <<regions, given, buffer, copy, headers>>
      BY <2>1 DEF EmitBlock, HeaderMissing, ReadFails, Fail, argVars
    <3> QED BY <3>1, BufferHeld DEF Buffer
  <2>2. CASE CopyData
    BY <2>2, CopyStep
  <2>3. CASE \E arg \in Asked : ParseString(arg)
    <3>1. PICK arg \in Arguments : ParseString(arg)
      BY <2>3, LaterAssumption DEF Asked
    <3>2. CASE Refused(arg) /\ Fail /\ UNCHANGED argVars
      <4>1. UNCHANGED <<regions, given, buffer, copy, headers>>
        BY <3>2 DEF Fail, argVars
      <4> QED BY <4>1, BufferHeld DEF Buffer
    <3>3. CASE /\ headers' = arg.headers
               /\ UNCHANGED <<allocVars, copy, given, buffer>>
      <4>1. \A i \in DOMAIN headers' : headers'[i].filesz \in Nat
        BY <3>3, ArgumentsAssumption
      <4> QED BY <3>3, <4>1, BufferHeld DEF allocVars
    <3>4. CASE /\ ~ Refused(arg) /\ arg.format # "elf"
               /\ FillRegion(arg.addr, Bytes(arg), Bytes(arg), arg.format = "flat")
               /\ UNCHANGED headers
      <4>1. /\ [base |-> arg.addr, size |-> Bytes(arg)] \in Regions
            /\ Bytes(arg) \in Nat /\ Bytes(arg) <= Bytes(arg)
        <5>1. /\ [base |-> arg.addr, size |-> Bytes(arg)] \in Regions
              /\ Bytes(arg) \in Nat
          BY <3>4, BytesInNat
        <5> HIDE DEF Bytes
        <5> QED BY <5>1
      <4>2. Done /\ \A i \in DOMAIN headers' : headers'[i].filesz \in Nat
        BY <3>1, <3>4 DEF ParseString, Buffer
      <4> QED BY <3>4, <4>1, <4>2, FillStep
    <3> QED BY <3>1, <3>2, <3>3, <3>4 DEF ParseString
  <2>4. CASE LoadHeader
    <3>1. headers # <<>> /\ headers' = Tail(headers) /\ Done
          /\ IsSequence(headers)
      BY <2>4 DEF LoadHeader, Inv, Headers
    <3>2. /\ 1 \in DOMAIN headers /\ Head(headers) = headers[1]
          /\ \A i \in DOMAIN headers' : headers'[i].filesz \in Nat
      BY <3>1, TailAny DEF Buffer
    <3>3. CASE UNCHANGED <<allocVars, copy, given, buffer>>
      BY <3>2, <3>3, BufferHeld DEF allocVars
    <3>4. CASE Fail /\ UNCHANGED <<copy, given, buffer>>
      BY <3>2, <3>4, BufferHeld DEF Fail
    <3>5. CASE /\ Patchable(Head(headers))
               /\ FillRegion(Head(headers).addr, Head(headers).memsz,
                             Head(headers).filesz, TRUE)
      <4> DEFINE h == Head(headers)
      <4>1. [base |-> h.addr, size |-> h.memsz] \in Regions
        BY <3>2, <3>5 DEF Inv, Headers
      <4>2. h.filesz \in Nat /\ h.filesz <= h.memsz
        BY <3>2, <3>5 DEF Buffer, Patchable
      <4> HIDE DEF h
      <4>3. FillRegion(h.addr, h.memsz, h.filesz, TRUE)
        BY <3>5 DEF h
      <4> QED BY <3>1, <3>2, <4>1, <4>2, <4>3, FillStep
    <3> QED BY <2>4, <3>3, <3>4, <3>5 DEF LoadHeader
  <2> QED BY <1>3, <2>1, <2>2, <2>3, <2>4 DEF Layout, ArgNext
<1> QED BY <1>1, <1>2, <1>3 DEF Next

-----------------------------------------------------------------------------
(* Every step *)

\* HWPatch_AllocRegion ends the program before a patch has too many blocks.
LEMMA FewBlocks ==
    ASSUME Inv, Load, [Next]_vars PROVE Len(patch.blocks)' <= PATCH_NUM_BLOCKS
<1>1. /\ patch \in [blocks : Seq(CamBlocks), contentSize : Nat]
      /\ Len(patch.blocks) <= PATCH_NUM_BLOCKS
      /\ PATCH_NUM_BLOCKS \in Nat
  BY Sizes DEF Inv, LayoutInv, TypeOK, Load
<1>2. \/ EmitBlock
      \/ \E r \in Regions : AllocRegion(r)
      \/ AllocReset
      \/ UNCHANGED <<patch, work, regions>>
  BY LayoutStep DEF Inv
<1>3. CASE EmitBlock
  <2>1. CASE Len(patch.blocks) >= PATCH_NUM_BLOCKS
    <3>1. patch' = patch
      BY <1>3, <2>1 DEF EmitBlock
    <3> QED BY <1>1, <3>1
  <2>2. CASE ~ (Len(patch.blocks) >= PATCH_NUM_BLOCKS)
    <3>1. PICK e : patch' = [patch EXCEPT !.blocks = Append(@, e)]
      BY <1>3, <2>2 DEF EmitBlock
    <3>2. patch'.blocks = Append(patch.blocks, e)
      BY <1>1, <3>1
    <3>3. Len(Append(patch.blocks, e)) = Len(patch.blocks) + 1 /\ Len(patch.blocks) \in Nat
      BY <1>1
    <3> QED BY <1>1, <2>2, <3>2, <3>3
  <2> QED BY <2>1, <2>2
<1>4. CASE \E r \in Regions : AllocRegion(r)
  <2>1. patch'.blocks = patch.blocks
    BY <1>1, <1>4 DEF AllocRegion
  <2> QED BY <1>1, <2>1
<1>5. CASE AllocReset
  BY <1>1, <1>5 DEF AllocReset
<1>6. CASE UNCHANGED <<patch, work, regions>>
  BY <1>1, <1>6
<1> QED BY <1>2, <1>3, <1>4, <1>5, <1>6

\* Whatever happens between the clocks happens while the hardware stands still.
LEMMA StillStep ==
    ASSUME Inv, Load, Layout \/ StartLoad \/ Again, Burst
    PROVE  /\ UNCHANGED <<busVars, misread>>
           /\ burst' = [start |-> burst.start, kind |-> burst.kind, ready |-> FALSE]
           /\ loaded' \in {-1, 0} /\ session' \in Nat \ {0}
           /\ loaded' >= 0 => Done'
           /\ \A w \in Memory : Superseded(w) => Superseded(w)'
           /\ loaded >= 0 =>
                \A w \in Memory : InRegion(w) \/ w = LastWord => Superseded(w)'
<1>1. /\ burst = [start |-> burst.start, kind |-> burst.kind, ready |-> burst.ready]
      /\ burst.ready \in BOOLEAN /\ (burst.ready => Ready)
      /\ session \in Nat \ {0}
  BY DEF Burst, Load
<1>2. Ready => loaded >= 0
  BY Writes, Sizes DEF Ready
<1>3. CASE Layout \/ StartLoad
  <2>1. /\ UNCHANGED <<busVars, misread>> /\ burst' = burst /\ loaded = -1 /\ loaded' \in {-1, 0}
        /\ session' = session /\ earlier' = earlier
    BY <1>3 DEF Layout, StartLoad, hwVars, sessionVars
  <2>2. burst.ready = FALSE
    BY <1>1, <1>2, <2>1
  <2>3. loaded' >= 0 => Done'
    <3>1. Layout => loaded' = -1
      BY <2>1 DEF Layout, hwVars
    <3>2. StartLoad => Done'
      BY DEF StartLoad, Done, allocVars, argVars
    <3> QED BY <1>3, <3>1, <3>2
  <2>4. \A w \in Memory : Superseded(w) => Superseded(w)'
    BY <2>1 DEF Superseded
  <2> QED BY <1>1, <2>1, <2>2, <2>3, <2>4
<1>4. CASE Again
  <2>1. /\ UNCHANGED <<busVars, misread>>
        /\ burst' = [burst EXCEPT !.ready = FALSE] /\ loaded' = -1
        /\ session' = session + 1
        /\ earlier' = earlier \cup UNION {WordsOf(regions[i]) : i \in DOMAIN regions}
    BY <1>4 DEF Again
  <2>2. burst' = [start |-> burst.start, kind |-> burst.kind, ready |-> FALSE]
    BY <1>1, <2>1
  <2>3. session' > 1 /\ session' \in Nat \ {0}
    BY <1>1, <2>1
  <2>4. \A w \in Memory : Superseded(w) => Superseded(w)'
    BY <2>1, <2>3 DEF Superseded, LastWord
  <2>5. \A w \in Memory : InRegion(w) \/ w = LastWord => Superseded(w)'
    BY <2>1, <2>3 DEF Superseded, LastWord, InRegion
  <2>6. loaded' \in {-1, 0} /\ ~ (loaded' >= 0)
    BY <2>1
  <2> QED BY <2>1, <2>2, <2>3, <2>4, <2>5, <2>6, Zenon
<1> QED BY <1>3, <1>4

LEMMA LoadHeld ==
    ASSUME Load, UNCHANGED busVars, loaded' \in {-1, 0}, session' \in Nat \ {0},
           loaded' >= 0 => Done', Len(patch.blocks)' <= PATCH_NUM_BLOCKS
    PROVE  Load'
<1>1. /\ config' = config /\ wr' = wr /\ Total \in Nat
      /\ loaded' \in -1 .. Total /\ ~ (loaded' > 0)
  BY Sizes DEF busVars
<1>2. Total' = Total
  BY DEF Total, OffsetsEnd
<1> QED BY <1>1, <1>2, Zenon DEF Load

LEMMA Stutter ==
    ASSUME Load, Cam, Spaced, Stored, Burst, NEW age \in Nat, Pipeline(age), UNCHANGED vars
    PROVE  Load' /\ Cam' /\ Spaced' /\ Stored' /\ Burst' /\ Pipeline(age)'
<1>1. /\ session' = session /\ earlier' = earlier /\ loaded' = loaded /\ config' = config
      /\ wr' = wr /\ content' = content /\ offset_mem' = offset_mem /\ cam' = cam /\ rd' = rd
      /\ filter' = filter /\ gap' = gap /\ burst_cycle' = burst_cycle /\ burst' = burst
      /\ patch_active' = patch_active /\ ram_ce1_out' = ram_ce1_out
      /\ ram_d_latch' = ram_d_latch /\ patch' = patch /\ work' = work /\ regions' = regions
      /\ exited' = exited /\ buffer' = buffer /\ copy' = copy
      /\ idle' = idle /\ writing' = writing /\ misread' = misread
  BY DEF vars, allocVars, argVars, sessionVars, hwVars, busVars
<1>2. /\ LoadWrites' = LoadWrites /\ Registered' = Registered /\ (Done <=> Done')
      /\ (Ready <=> Ready') /\ WrEntry' = WrEntry
  <2>1. LoadWrites' = LoadWrites
    BY <1>1, SameWrites DEF vars, sessionVars
  <2>2. Ready <=> Ready'
    BY <1>1, <2>1 DEF Ready
  <2> QED BY <1>1, <2>1, <2>2 DEF Registered, Done, WrEntry
<1>3. \A w : /\ Named(w)' = Named(w) /\ Block(w)' = Block(w) /\ Entry(w)' = Entry(w)
             /\ (Superseded(w) <=> Superseded(w)') /\ (InRegion(w) <=> InRegion(w)')
  BY <1>1, Zenon DEF Named, Block, Entry, Superseded, InRegion, LastWord
<1>4. \A w : (OldEntry(w) <=> OldEntry(w)') /\ (Fresh(w) <=> Fresh(w)')
  BY <1>1, <1>2, <1>3, Zenon DEF OldEntry, Fresh, Memory, LastWord, At, OffsetsEnd
<1>5. Load'
  BY <1>1, <1>2, Zenon DEF Load, Total, OffsetsEnd
<1>6. Cam'
  BY <1>1, <1>2, <1>3, <1>4, Zenon DEF Cam, At, OffsetsEnd
<1>7. Stored'
  BY <1>1, <1>2, <1>3, Zenon DEF Stored
<1>8. (Reading <=> Reading') /\ (End <=> End') /\ Least' = Least
  BY <1>1, Zenon DEF Reading, End, Least, RamClocks
<1>9. Burst'
  BY <1>1, <1>2, <1>8 DEF Burst, Memory, LastWord
<1>10. Quiet(age)'
  BY <1>1, <1>8, Zenon DEF Pipeline, Quiet
<1>11. Touched(burst.start) <=> Touched(burst.start)'
  BY <1>1, Zenon DEF Touched, Superseded, InRegion, LastWord
<1>12. Untouched(age)'
  BY <1>1, <1>8, <1>11, Zenon DEF Pipeline, Untouched
<1>13. Found(age)'
  BY <1>1, <1>8, Zenon DEF Pipeline, Found, InRegion
<1>14. /\ BlockOf(burst.start)' = BlockOf(burst.start) /\ Place' = Place /\ Taken' = Taken
       /\ Block(BlockOf(burst.start))' = Block(BlockOf(burst.start))
       /\ (InRegion(burst.start) <=> InRegion(burst.start)')
       /\ (Superseded(burst.start) <=> Superseded(burst.start)')
       /\ \A n : WordAt(n)' = WordAt(n)
       /\ WordAt(Taken)' = WordAt(Taken) /\ WordAt(Taken - 1)' = WordAt(Taken - 1)
  BY <1>1, Zenon DEF BlockOf, Hits, Place, Taken, RegionOf, Block, InRegion, Superseded,
                     LastWord, WordAt
<1>15. LookedUp(age)'
  BY <1>1, <1>2, <1>8, <1>14, Zenon DEF Pipeline, LookedUp, OffsetsEnd
<1>16. Spaced'
  BY <1>1, Zenon DEF Spaced, Waited, Since, Strobed, OffsetsEnd
<1> QED BY <1>5, <1>6, <1>7, <1>9, <1>10, <1>12, <1>13, <1>15, <1>16 DEF Pipeline

LEMMA HwStep == HwInv /\ [Next]_vars => HwInv'
<1> SUFFICES ASSUME HwInv, [Next]_vars PROVE HwInv'
  OBVIOUS
<1>1. Inv /\ Load /\ Cam /\ Spaced /\ Stored /\ Buffer /\ Burst
  BY DEF HwInv
<1>2. PICK age \in Nat : Pipeline(age)
  BY DEF HwInv
<1>3. Quiet(age) /\ Untouched(age) /\ Found(age) /\ LookedUp(age)
  BY <1>2 DEF Pipeline
<1>4. Inv' /\ Buffer'
  BY <1>1, InvStep, BufferStep
<1>5. CASE Clock
  <2> DEFINE next == Aged(age)
  <2>1. next \in Nat
    BY DEF Aged
  <2> HIDE DEF next
  <2>2. next = Aged(age)
    BY DEF next
  <2>3. Load' /\ Cam' /\ Spaced' /\ Stored' /\ Burst'
    BY <1>1, <1>3, <1>5, LoadStep, CamStep, SpacedStep, StoredStep, BurstStep
  <2>4. \E n \in Nat : n = Aged(age)
    BY <2>1, <2>2
  <2>5. PICK n \in Nat : n = Aged(age)
    BY <2>4
  <2>6. Quiet(n)' /\ Untouched(n)'
    BY <1>1, <1>3, <1>5, <2>5, QuietAge, UntouchedStep
  <2>7. Found(n)'
    BY <1>1, <1>3, <1>5, <2>5, FoundStep
  <2>8. LookedUp(n)'
    BY <1>1, <1>3, <1>5, <2>5, LookedUpStep
  <2>9. \E m \in Nat : Pipeline(m)'
    BY <2>6, <2>7, <2>8 DEF Pipeline
  <2> QED BY <1>4, <2>3, <2>9 DEF HwInv
<1>6. CASE Layout \/ StartLoad \/ Again
  <2>1. /\ UNCHANGED <<busVars, misread>>
        /\ burst' = [start |-> burst.start, kind |-> burst.kind, ready |-> FALSE]
        /\ loaded' \in {-1, 0} /\ session' \in Nat \ {0}
        /\ loaded' >= 0 => Done'
        /\ \A w \in Memory : Superseded(w) => Superseded(w)'
        /\ loaded >= 0 =>
             \A w \in Memory : InRegion(w) \/ w = LastWord => Superseded(w)'
    BY <1>1, <1>6, StillStep
  <2>2. Load'
    BY <1>1, <2>1, FewBlocks, LoadHeld
  <2>3. Cam' /\ Spaced' /\ Stored'
    BY <1>1, <2>1, CamHeld, SpacedHeld, StoredHeld DEF busVars
  <2>4. Touched(burst.start) => misread \/ Superseded(burst.start)'
    <3>1. burst.start \in Memory /\ burst'.start = burst.start
      BY <1>1, <2>1 DEF Burst
    <3>2. \A w \in Memory : Touched(w) => misread \/ Superseded(w)'
      BY <2>1 DEF Touched
    <3>3. PICK a \in Memory : a = burst.start
      BY <3>1
    <3>4. Superseded(a)' => Superseded(burst.start)'
      BY <3>1, <3>3 DEF Superseded
    <3> QED BY <3>2, <3>3, <3>4
  <2>5. Burst' /\ Pipeline(age)'
    BY <1>1, <1>3, <2>1, <2>4, Held
  <2> QED BY <1>4, <2>2, <2>3, <2>5 DEF HwInv
<1>7. CASE UNCHANGED vars
  BY <1>1, <1>2, <1>4, <1>7, Stutter DEF HwInv
<1> QED BY <1>5, <1>6, <1>7 DEF Next

LEMMA HwStart == Init => HwInv
<1> SUFFICES ASSUME Init PROVE HwInv
  OBVIOUS
<1> USE DEF Init, HwInit
<1>1. Inv /\ Buffer
  BY InitInv, EmptyBuffer DEF AllocInit, ArgInit
<1>2. MinGap \in Nat /\ MinGap >= 3 /\ MinGap * 1 = MinGap
  BY Sizes2, Times
<1>3. Registered = -1
  BY DEF Registered
<1>4. Load
  <2>1. loaded \in -1 .. Total /\ session \in Nat \ {0} /\ ~ (loaded >= 0) /\ ~ (loaded > 0)
    BY Sizes
  <2>2. Len(patch.blocks) <= PATCH_NUM_BLOCKS
    BY Sizes DEF AllocInit
  <2>3. config = [strobe |-> config.strobe, reg |-> config.reg,
                  index |-> config.index, value |-> config.value]
        /\ config.strobe = FALSE
    OBVIOUS
  <2>4. wr.cam.enable = FALSE /\ wr.content.enable = FALSE /\ wr.offset.enable = FALSE
    BY DEF NoWrite
  <2> QED BY <2>1, <2>2, <2>3, <2>4, Zenon DEF Load
<1>5. Cam
  <2>1. \A b \in Blocks : At(b) \in Nat /\ At(b) > 2
    BY WritePlaces, Sizes
  <2>2. \A b \in Blocks : ~ Fresh(b) /\ cam[b] = <<>>
    BY <1>3, <2>1 DEF Fresh
  <2>3. \A b \in Blocks : Registered \notin At(b) - 2 .. At(b) /\ Registered \notin At(b) - 1 .. At(b)
    BY <1>3, <2>1
  <2>4. DOMAIN cam = Blocks /\ ~ wr.cam.enable /\ ~ config.strobe
    OBVIOUS
  <2> QED BY <2>2, <2>3, <2>4, Zenon DEF Cam
<1>6. Stored
  <2>1. /\ \A i \in 0 .. ContentWords - 1 : ~ (Registered > i + 1) /\ Registered # i + 1
        /\ \A b \in Blocks : /\ ~ (Registered > ContentWords + b + 1)
                             /\ Registered # ContentWords + b + 1
    BY <1>3, Sizes
  <2>2. ~ wr.content.enable /\ ~ wr.offset.enable
    BY DEF NoWrite
  <2>3. DOMAIN content = 0 .. ContentWords - 1 /\ DOMAIN offset_mem = Blocks
    OBVIOUS
  <2> QED BY <2>1, <2>2, <2>3, Zenon DEF Stored
<1>7. Burst
  <2>1. 0 \in Memory
    BY SizesAssumption DEF Memory, LastWord
  <2>2. /\ filter.strobe = FALSE /\ filter.read = FALSE /\ filter.latch = FALSE /\ filter.a = 0
        /\ filter = [strobe |-> filter.strobe, read |-> filter.read,
                     latch |-> filter.latch, a |-> filter.a]
    OBVIOUS
  <2>3. /\ burst.start = 0 /\ burst.kind = "none" /\ burst.ready = FALSE
        /\ burst = [start |-> burst.start, kind |-> burst.kind, ready |-> burst.ready]
    OBVIOUS
  <2>4. /\ rd.enable = FALSE /\ rd.enable_out = FALSE /\ rd.match = FALSE
        /\ rd.strobe_in = FALSE /\ rd.strobe_out = FALSE /\ rd.hits = {}
    OBVIOUS
  <2>5. gap = MinGap /\ burst_cycle = 0 /\ patch_active = FALSE /\ ram_ce1_out = FALSE
    OBVIOUS
  <2>6. /\ gap \in 0 .. MinGap /\ gap # 0 /\ burst_cycle \in 0 .. 255
    BY <1>2, <2>5
  <2>7. ~ Reading
    BY <2>3 DEF Reading
  <2> QED BY ONLY <2>1, <2>2, <2>3, <2>4, <2>5, <2>6, <2>7, Zenon DEF Burst
<1>8. Least = MinGap + MinGap
  <2>1. RamClocks = 1 /\ gap = MinGap
    BY DEF RamClocks
  <2> QED BY <1>2, <2>1 DEF Least
<1>9. PICK age \in Nat : age >= MinGap + MinGap /\ age > 5
  <2>1. /\ MinGap + MinGap + 6 \in Nat /\ MinGap + MinGap + 6 >= MinGap + MinGap
        /\ MinGap + MinGap + 6 > 5
    BY <1>2
  <2> QED BY <2>1, Zenon
<1>10. Quiet(age)
  BY <1>8, <1>9 DEF Quiet
<1>11. ~ Reading /\ ~ patch_active /\ ~ ram_ce1_out
  BY DEF Reading
<1>12. Untouched(age) /\ Found(age) /\ LookedUp(age)
  BY <1>11, Zenon DEF Untouched, Found, LookedUp
<1>13. Spaced
  <2>1. /\ idle \in 0 .. CONFIG_GAP - 1 /\ 0 \in 0 .. CAM_WRITE
    BY LoadAssumption
  <2>2. /\ ~ wr.cam.enable /\ ~ config.strobe /\ misread \in BOOLEAN
        /\ writing = [left |-> 0, index |-> 0]
    OBVIOUS
  <2>3. writing.left = 0 /\ writing.index = 0 /\ ~ (writing.left > 0)
    BY <2>2
  <2> QED BY ONLY <2>1, <2>2, <2>3, Zenon DEF Spaced, Strobed
<1> QED BY <1>1, <1>4, <1>5, <1>6, <1>7, <1>10, <1>12, <1>13 DEF HwInv, Pipeline

\* The invariant above, in every state.
THEOREM PipelineInvariant == Spec => []HwInv
  BY HwStart, HwStep, PTL DEF Spec

-----------------------------------------------------------------------------
(* What follows from it *)

LEMMA InvImpliesOthersUntouched == HwInv => OthersUntouched
  BY Zenon DEF HwInv, Pipeline, Untouched, Touched, End, OthersUntouched

\* "If the first word of a memory burst is not patched, no part of the burst may
\* be patched": whatever is or was loaded, and in every clock of the load, but for
\* what the CAM misreads while it writes an entry and what an earlier patch had.
THEOREM OthersAreUntouched == Spec => []OthersUntouched
  BY PipelineInvariant, InvImpliesOthersUntouched, PTL

LEMMA InvImpliesPatchNeverMissed == HwInv => PatchNeverMissed
<1> SUFFICES ASSUME HwInv, DataStrobe, burst.ready, InRegion(burst.start) PROVE ram_ce1_out
  BY DEF PatchNeverMissed
<1>1. PICK age \in Nat : Found(age)
  BY DEF HwInv, Pipeline
<1>2. filter.strobe /\ filter.read /\ burst_cycle >= READ_LATENCY - 1
  BY DEF DataStrobe
<1>3. burst.kind = "read"
  BY <1>2 DEF HwInv, Burst
<1>4. burst_cycle >= 2
  BY <1>2, Sizes2 DEF HwInv, Burst
<1> QED BY <1>1, <1>3, <1>4 DEF Found, Reading

\* "If a patch affects the first word of a memory burst, the entire burst will be
\* modified": once the patch is loaded, its last entry written in the CAM, the bus
\* is driven in time, however close the RAM clocks are.  No entry was lost because
\* the CAM was still busy with the one before.
THEOREM NeverMissed == Spec => []PatchNeverMissed
  BY PipelineInvariant, InvImpliesPatchNeverMissed, PTL

LEMMA Rounded ==
    ASSUME NEW g \in Nat
    PROVE  /\ RoundUp(g) \div 2 \in Nat
           /\ \A m \in Nat : m < RoundUp(g) \div 2 <=> 2 * m < g
           /\ \A s \in Nat : g <= 2 * s => RoundUp(g) \div 2 <= s
<1> DEFINE h == RoundUp(g) \div 2
<1>1. RoundUp(g) \in Nat /\ Even(RoundUp(g))
  BY RoundUpEven
<1>2. h \in Nat /\ RoundUp(g) = 2 * h
  <2> HIDE DEF h
  <2>1. RoundUp(g) \div 2 \in Nat /\ RoundUp(g) = 2 * (RoundUp(g) \div 2)
    BY <1>1, Halves
  <2> QED BY <2>1 DEF h
<1>3. RoundUp(g) = g \/ RoundUp(g) = g + 1
  BY Z3 DEF RoundUp
<1> HIDE DEF h
<1>4. /\ \A m \in Nat : m < h <=> 2 * m < g
      /\ \A s \in Nat : g <= 2 * s => h <= s
  BY <1>2, <1>3
<1> QED BY <1>2, <1>4 DEF h

\* What the place m of the content has, counted from 0, is the region's whose
\* content is there.
LEMMA FilledPlaces ==
    ASSUME Inv, Buffer, copy.bytes = 0, NEW i \in DOMAIN regions,
           NEW c \in Nat, NEW s \in Nat, regions[i].content \div 2 = c,
           regions[i].content = 2 * c, regions[i].size = 2 * s, c + s <= ContentWords,
           NEW d \in Nat, d < s
    PROVE  buffer[c + d + 1] = IF 2 * d < given[i] THEN c + d + 1 ELSE 0
<1> DEFINE k == c + d + 1
<1>1. /\ DOMAIN regions = 1 .. Len(regions) /\ Len(regions) \in Nat
      /\ \A j \in DOMAIN regions : given[j] \in Nat /\ given[j] <= regions[j].size
      /\ \A j, l \in DOMAIN regions :
           j < l => regions[j].content + regions[j].size <= regions[l].content
  <2>1. /\ DOMAIN regions = 1 .. Len(regions) /\ Len(regions) \in Nat
        /\ given \in Seq(Nat) /\ Len(given) = Len(regions)
    BY DEF Inv, LayoutInv, TypeOK, Buffer
  <2>2. \A j \in DOMAIN regions : given[j] \in Nat
    BY <2>1, ElementType
  <2> QED BY <2>1, <2>2 DEF Buffer
<1>2. k \in 1 .. ContentWords
  BY Sizes
<1>3. buffer[k] = IF \E j \in DOMAIN regions : k \in Filled(j) THEN k ELSE 0
  BY <1>2, Zenon DEF Buffer
<1>4. \A j : Filled(j) = regions[j].content \div 2 + 1 ..
                           regions[j].content \div 2 + 1 + RoundUp(given[j]) \div 2 - 1
  BY DEF Filled
<1>5. k \in Filled(i) <=> 2 * d < given[i]
  <2> DEFINE h == RoundUp(given[i]) \div 2
  <2>1. h \in Nat /\ (d < h <=> 2 * d < given[i])
    BY <1>1, Rounded
  <2>2. Filled(i) = c + 1 .. c + 1 + h - 1
    BY <1>4
  <2> HIDE DEF h
  <2>3. k \in Filled(i) <=> d < h
    BY <2>1, <2>2
  <2> QED BY <2>1, <2>3
<1>6. ASSUME NEW j \in DOMAIN regions, j # i PROVE k \notin Filled(j)
  <2>1. PICK cj \in Nat, sj \in Nat : /\ regions[j].content \div 2 = cj
                                      /\ regions[j].content = 2 * cj
                                      /\ regions[j].size = 2 * sj
    BY RegionWords
  <2> DEFINE h == RoundUp(given[j]) \div 2
  <2>2. h \in Nat /\ h <= sj
    <3>1. given[j] \in Nat /\ given[j] <= 2 * sj
      BY <1>1, <2>1
    <3> QED BY <3>1, Rounded
  <2>3. Filled(j) = cj + 1 .. cj + 1 + h - 1
    BY <1>4, <2>1
  <2>4. 2 * cj + 2 * sj <= 2 * c \/ 2 * c + 2 * s <= 2 * cj
    <3>1. i < j \/ j < i
      BY <1>1, <1>6
    <3> QED BY <1>1, <2>1, <3>1
  <2> HIDE DEF h
  <2> QED BY <2>1, <2>2, <2>3, <2>4
<1>7. (\E j \in DOMAIN regions : k \in Filled(j)) <=> 2 * d < given[i]
  BY <1>5, <1>6, Zenon
<1> HIDE DEF k
<1> QED BY <1>3, <1>7 DEF k

LEMMA InvImpliesInjectedRight == HwInv => InjectedRight
<1> DEFINE a == burst.start
           i == RegionOf(burst.start)
           n == burst_cycle - (READ_LATENCY - 1)
<1> SUFFICES ASSUME HwInv, DataStrobe, ram_ce1_out, InRegion(burst.start), Inside(WordAddr),
                    burst.ready \/ ~ (misread \/ Superseded(burst.start))
             PROVE  ram_d_latch = Expected(WordAddr)
  BY DEF InjectedRight
<1>1. Inv /\ Load /\ Stored /\ Buffer /\ Burst
  BY DEF HwInv
<1>2. PICK age \in Nat : Quiet(age) /\ Untouched(age) /\ LookedUp(age)
  BY DEF HwInv, Pipeline
<1>3. /\ filter.strobe /\ filter.read /\ burst_cycle \in Nat /\ burst_cycle >= READ_LATENCY - 1
      /\ ~ filter.latch /\ burst.kind = "read" /\ a \in Nat
  <2>1. filter.strobe /\ filter.read /\ burst_cycle >= READ_LATENCY - 1
    BY DEF DataStrobe
  <2>2. burst_cycle \in Nat /\ a \in Nat /\ burst.kind = "read" /\ ~ filter.latch
    BY <1>1, <2>1, SizesAssumption DEF Burst, Memory, LastWord
  <2> QED BY <2>1, <2>2
<1>4. Reading /\ ~ End /\ age >= 1
  BY <1>2, <1>3 DEF Reading, End, Quiet
<1>5. patch_active
  BY <1>2, <1>4 DEF Untouched
<1>6. age >= 8
  BY <1>1, <1>2, <1>3, <1>4, Late
\* The word is the one that is so far into the region's content.
<1>7. /\ ram_d_latch = WordAt(Taken - 1)
      /\ loaded >= 0 /\ Registered > OffsetsEnd
  BY <1>2, <1>3, <1>4, <1>5, <1>6 DEF LookedUp
<1>8. n \in Nat /\ Taken - 1 = n /\ WordAddr = a + n
  BY <1>3, Sizes2 DEF Taken, WordAddr
<1>9. i \in DOMAIN regions /\ a \in WordsOf(regions[i])
  BY <1>1, RegionOfWord
<1>10. a + n \in WordsOf(regions[i])
  BY <1>8 DEF Inside
<1> HIDE DEF a, i, n
<1>11. PICK b \in Nat, c \in Nat, s \in Nat :
         /\ regions[i].base \div 2 = b
         /\ regions[i].content \div 2 = c /\ regions[i].content = 2 * c
         /\ regions[i].size = 2 * s
         /\ WordsOf(regions[i]) = b .. b + s - 1
         /\ c + s <= ContentWords
  BY <1>1, <1>9, RegionWords
<1> DEFINE d == a + n - b
           p == c + d
<1>12. /\ a \in Nat /\ d \in Nat /\ d < s /\ p \in 0 .. ContentWords - 1
       /\ c + a - b + n = p /\ c + (a + n) - b = p
  <2>1. a \in Nat /\ n \in Nat /\ ContentWords \in Nat
    BY <1>3, <1>8, Sizes DEF a
  <2>2. a + n \in b .. b + s - 1
    BY <1>10, <1>11
  <2>3. b \in Nat /\ c \in Nat /\ s \in Nat /\ c + s <= ContentWords
    BY <1>11
  <2> QED BY ONLY <2>1, <2>2, <2>3
<1>13. /\ Place = c + a - b
       /\ ContentOf(regions[i], a + n) = p
  <2>1. \A w : ContentOf(regions[i], w) = c + w - b
    BY <1>11 DEF ContentOf
  <2>2. Place = ContentOf(regions[i], a)
    BY DEF Place, a, i
  <2> QED BY <1>12, <2>1, <2>2
<1> HIDE DEF p, d
<1>14. ram_d_latch = content[p]
  <2>1. (Place + n) % ContentWords = p
    <3>1. Place + n = p
      BY <1>12, <1>13
    <3>2. p = ContentWords * 0 + p /\ p \in Int
      BY <1>12, Sizes
    <3>3. p % ContentWords = p
      BY <1>12, <3>2, Sizes, Unique
    <3> QED BY <3>1, <3>3
  <2> QED BY <1>7, <1>8, <2>1 DEF WordAt
<1>15. content[p] = Named(buffer[p + 1])
  <2>1. Registered > p + 1
    <3>1. Registered \in Int
      BY <1>1 DEF Registered, Load
    <3> QED BY <1>7, <1>12, <3>1, Sizes
  <2> QED BY <1>1, <1>12, <2>1 DEF Stored
<1>16. buffer[p + 1] = IF 2 * d < given[i] THEN p + 1 ELSE 0
  <2>1. copy.bytes = 0
    BY <1>1, <1>7 DEF Load, Done
  <2>2. \A j \in DOMAIN regions : \A c0, s0, d0 \in Nat :
          (/\ regions[j].content \div 2 = c0 /\ regions[j].content = 2 * c0
           /\ regions[j].size = 2 * s0 /\ c0 + s0 <= ContentWords /\ d0 < s0) =>
            buffer[c0 + d0 + 1] = IF 2 * d0 < given[j] THEN c0 + d0 + 1 ELSE 0
    BY <1>1, <2>1, FilledPlaces
  <2>3. buffer[c + d + 1] = IF 2 * d < given[i] THEN c + d + 1 ELSE 0
    BY <1>9, <1>11, <1>12, <2>2, Zenon
  <2> QED BY <2>3 DEF p
<1>17. Expected(WordAddr) = IF 2 * d < given[i] THEN Named(p + 1) ELSE 0
  <2>1. WordAddr - regions[i].base \div 2 = d
    <3> DEFINE base == regions[i].base \div 2
               w == WordAddr
    <3>1. base = b /\ w = a + n
      BY <1>8, <1>11
    <3> HIDE DEF base, w
    <3>2. w - base = a + n - b
      BY <1>8, <1>12, <3>1
    <3> QED BY <3>2 DEF base, w, d
  <2>2. ContentOf(regions[i], WordAddr) = p
    BY <1>8, <1>13
  <2> QED BY <2>1, <2>2, Zenon DEF Expected, i
<1>18. Named(0) = 0
  BY DEF Named
<1> QED BY <1>14, <1>15, <1>16, <1>17, <1>18

\* Every word of a patched burst is the patch's: whatever the regions are and
\* hold, also while the patch is being loaded, unless the CAM misread the address
\* in the middle of a write or an earlier patch had it; and then after the load.
THEOREM InjectionIsRight == Spec => []InjectedRight
  BY PipelineInvariant, InvImpliesInjectedRight, PTL
=============================================================================
