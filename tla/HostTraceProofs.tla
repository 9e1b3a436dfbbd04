--------------------------- MODULE HostTraceProofs ---------------------------
(***************************************************************************)
(* Proofs about the host's reading of the trace, for every stream, block   *)
(* size and length of a hook burst.  The groups of four bytes parsed do    *)
(* not depend on how the blocks were cut: they are the groups of the       *)
(* stream from its first flag byte on.  Each is the next packet, an        *)
(* overflow report or, after a lost byte, out of step, and Parsed(st, m)   *)
(* says what the parser knows after the first m packets.                   *)
(***************************************************************************)
EXTENDS HostTrace, FiniteSetTheorems, WellFoundedInduction, TLAPS

-----------------------------------------------------------------------------
(* Induction *)

\* The order of the naturals is well-founded.
LEMMA LessIsWellFounded ==
    IsWellFoundedOn({p \in Nat \X Nat : p[1] < p[2]}, Nat)
<1>1. OpToRel(<, Nat) = {p \in Nat \X Nat : p[1] < p[2]}
  BY Zenon DEF OpToRel
<1> QED BY <1>1, NatLessThanWellFounded, Zenon

\* A set of naturals that is not empty has a least element.
LEMMA NatHasMin == ASSUME NEW T, T \subseteq Nat, T # {} PROVE \E x \in T : \A y \in T : x <= y
<1> DEFINE R == {p \in Nat \X Nat : p[1] < p[2]}
<1>1. IsWellFoundedOn(R, Nat)
  BY LessIsWellFounded
<1>2. \E x \in T : \A y \in T : ~ (<<y, x>> \in R)
  <2> HIDE DEF R
  <2> QED BY <1>1, WFMin
<1>3. PICK x \in T : \A y \in T : ~ (<<y, x>> \in R)
  BY <1>2, Zenon
<1>4. ASSUME NEW y \in T, ~ (x <= y) PROVE FALSE
  <2>1. y < x /\ x \in Nat /\ y \in Nat
    BY <1>4
  <2>2. <<y, x>> \in R
    <3>1. <<y, x>> \in Nat \X Nat /\ <<y, x>>[1] = y /\ <<y, x>>[2] = x
      BY <2>1
    <3> QED BY <2>1, <3>1
  <2> QED BY <1>3, <1>4, <2>2, Zenon
<1> QED BY <1>4

\* Induction, stated of a set of naturals.
LEMMA SetInduction ==
    ASSUME NEW T, T \subseteq Nat, 0 \in T, \A n \in T : n + 1 \in T
    PROVE  T = Nat
<1>1. SUFFICES ASSUME Nat \ T # {} PROVE FALSE
  OBVIOUS
<1>2. PICK x \in Nat \ T : \A y \in Nat \ T : x <= y
  BY <1>1, NatHasMin
<1>3. x # 0 /\ x - 1 \in Nat
  BY <1>2
<1>4. x - 1 \in T
  BY <1>2, <1>3
<1> QED BY <1>2, <1>4

\* The groups are parsed one after the other.
LEMMA ParseAllRecursion ==
    ASSUME NEW st, NEW groups, Len(groups) \in Nat
    PROVE  \E f : /\ f = [i \in 0 .. Len(groups) |->
                            IF i = 0 THEN st ELSE ParsePacket(f[i - 1], groups[i])]
                  /\ ParseAll(st, groups) = f[Len(groups)]
<1> DEFINE Step(x, i) == ParsePacket(x, groups[i])
           F(f, n) == f = [i \in 0 .. n |-> IF i = 0 THEN st ELSE Step(f[i - 1], i)]
           T == {n \in Nat : \E f : F(f, n)}
<1>0. \A x, i : Step(x, i) = ParsePacket(x, groups[i])
  OBVIOUS
<1> HIDE DEF Step
<1>1. 0 \in T
  <2> DEFINE f == [i \in 0 .. 0 |-> st]
  <2>1. F(f, 0)
    OBVIOUS
  <2> QED BY <2>1
<1>2. ASSUME NEW n \in T PROVE n + 1 \in T
  <2>1. n \in Nat
    OBVIOUS
  <2>2. PICK f : F(f, n)
    OBVIOUS
  <2> DEFINE g == [i \in 0 .. n + 1 |-> IF i = n + 1 THEN Step(f[n], n + 1) ELSE f[i]]
  <2>3. F(g, n + 1)
    <3>1. ASSUME NEW i \in 0 .. n + 1
          PROVE  g[i] = IF i = 0 THEN st ELSE Step(g[i - 1], i)
      <4>1. CASE i = n + 1
        BY <2>1, <4>1
      <4>2. CASE i # n + 1
        <5>1. i \in 0 .. n /\ g[i] = f[i] /\ (i # 0 => g[i - 1] = f[i - 1])
          BY <2>1, <4>2
        <5>2. f[i] = IF i = 0 THEN st ELSE Step(f[i - 1], i)
          BY <2>2, <5>1
        <5> QED BY <5>1, <5>2
      <4> QED BY <4>1, <4>2
    <3> DEFINE h == [i \in 0 .. n + 1 |-> IF i = 0 THEN st ELSE Step(g[i - 1], i)]
    <3>2. \A i \in 0 .. n + 1 : g[i] = h[i]
      BY <3>1
    <3>3. g = h
      BY <3>2
    <3> QED BY <3>3
  <2>4. \E k : F(k, n + 1)
    <3> HIDE DEF F, g
    <3> QED BY <2>3
  <2> HIDE DEF F
  <2> QED BY <2>1, <2>4
<1>3. Len(groups) \in T
  <2>1. T \subseteq Nat
    OBVIOUS
  <2> HIDE DEF T
  <2> QED BY <1>1, <1>2, <2>1, SetInduction
<1>4. PICK f : F(f, Len(groups))
  BY <1>3
<1> DEFINE Chosen == CHOOSE h : F(h, Len(groups))
<1>5. F(Chosen, Len(groups))
  BY <1>4, Zenon
<1>6. ParseAll(st, groups) = Chosen[Len(groups)]
  BY DEF ParseAll, Step
<1> QED BY <1>0, <1>5, <1>6

-----------------------------------------------------------------------------
(* Parts of a sequence *)

\* Sequences of one length with the same elements are equal.
LEMMA EqualSequences ==
    ASSUME NEW S, NEW s \in Seq(S), NEW t \in Seq(S), Len(s) = Len(t),
           \A i \in 1 .. Len(s) : s[i] = t[i]
    PROVE  s = t
<1>1. DOMAIN s = 1 .. Len(s) /\ DOMAIN t = 1 .. Len(t)
  OBVIOUS
<1>2. s = [i \in DOMAIN s |-> s[i]] /\ t = [i \in DOMAIN t |-> t[i]]
  OBVIOUS
<1> QED BY <1>1, <1>2

\* The elements of a part of a sequence.
LEMMA Part ==
    ASSUME NEW S, NEW B \in Seq(S), NEW a \in Nat, NEW b \in Int, 1 <= a, a <= b + 1,
           b <= Len(B)
    PROVE  /\ SubSeq(B, a, b) \in Seq(S) /\ Len(SubSeq(B, a, b)) = b - a + 1
           /\ \A i \in 1 .. b - a + 1 : SubSeq(B, a, b)[i] = B[a + i - 1]
           /\ SubSeq(B, a, b) = <<>> <=> a = b + 1
<1>1. /\ SubSeq(B, a, b) \in Seq(S) /\ Len(SubSeq(B, a, b)) = b - a + 1
      /\ \A i \in 1 .. b - a + 1 : SubSeq(B, a, b)[i] = B[a + i - 1]
  OBVIOUS
<1>2. SubSeq(B, a, b) = <<>> <=> Len(SubSeq(B, a, b)) = 0
  BY <1>1
<1> QED BY <1>1, <1>2

\* A part of a part is a part.
LEMMA PartOfPart ==
    ASSUME NEW S, NEW B \in Seq(S), NEW a \in Nat, NEW b \in Int, 1 <= a, a <= b + 1,
           b <= Len(B), NEW c \in Nat, NEW d \in Int, 1 <= c, c <= d + 1, d <= b - a + 1
    PROVE  SubSeq(SubSeq(B, a, b), c, d) = SubSeq(B, a + c - 1, a + d - 1)
<1> DEFINE P == SubSeq(B, a, b)
           Q == SubSeq(P, c, d)
           R == SubSeq(B, a + c - 1, a + d - 1)
<1>1. /\ P \in Seq(S) /\ Len(P) = b - a + 1
      /\ \A i \in 1 .. b - a + 1 : P[i] = B[a + i - 1]
  BY Part
<1>2. /\ R \in Seq(S) /\ Len(R) = d - c + 1
      /\ \A i \in 1 .. d - c + 1 : R[i] = B[a + c - 1 + i - 1]
  <2>1. a + c - 1 \in Nat /\ a + d - 1 \in Int /\ a + c - 1 <= (a + d - 1) + 1
        /\ a + d - 1 <= Len(B) /\ 1 <= a + c - 1
    OBVIOUS
  <2> HIDE DEF P
  <2> QED BY <2>1, Part
<1> HIDE DEF P
<1>3. /\ Q \in Seq(S) /\ Len(Q) = d - c + 1
      /\ \A i \in 1 .. d - c + 1 : Q[i] = P[c + i - 1]
  BY <1>1, Part
<1> HIDE DEF Q, R
<1>4. \A i \in 1 .. d - c + 1 : Q[i] = R[i]
  BY <1>1, <1>2, <1>3
<1>5. Q = R
  BY <1>2, <1>3, <1>4, EqualSequences
<1> QED BY <1>5 DEF P, Q, R

\* Two adjacent parts make one.
LEMMA TwoParts ==
    ASSUME NEW S, NEW B \in Seq(S), NEW a \in Nat, NEW b \in Int, NEW c \in Int,
           1 <= a, a <= b + 1, b <= c, c <= Len(B)
    PROVE  SubSeq(B, a, b) \o SubSeq(B, b + 1, c) = SubSeq(B, a, c)
<1> DEFINE P == SubSeq(B, a, b)
           Q == SubSeq(B, b + 1, c)
           R == SubSeq(B, a, c)
<1>1. /\ P \in Seq(S) /\ Len(P) = b - a + 1
      /\ \A i \in 1 .. b - a + 1 : P[i] = B[a + i - 1]
  BY Part
<1>2. /\ Q \in Seq(S) /\ Len(Q) = c - b
      /\ \A i \in 1 .. c - b : Q[i] = B[b + i]
  <2>1. b + 1 \in Nat /\ b + 1 <= c + 1 /\ 1 <= b + 1
    OBVIOUS
  <2> QED BY <2>1, Part
<1>3. /\ R \in Seq(S) /\ Len(R) = c - a + 1
      /\ \A i \in 1 .. c - a + 1 : R[i] = B[a + i - 1]
  BY Part
<1> HIDE DEF P, Q, R
<1>4. P \o Q \in Seq(S) /\ Len(P \o Q) = c - a + 1
  <2>1. P \in Seq(S) /\ Q \in Seq(S) /\ Len(P) + Len(Q) = c - a + 1
    BY <1>1, <1>2
  <2> QED BY <2>1
<1>5. \A i \in 1 .. c - a + 1 : (P \o Q)[i] = IF i <= Len(P) THEN P[i] ELSE Q[i - Len(P)]
  BY <1>1, <1>2
<1>6. \A i \in 1 .. c - a + 1 : (P \o Q)[i] = R[i]
  BY <1>1, <1>2, <1>3, <1>5
<1>7. P \o Q = R
  BY <1>3, <1>4, <1>6, EqualSequences
<1> QED BY <1>7 DEF P, Q, R

\* The empty sequence adds nothing.
LEMMA Empty ==
    ASSUME NEW S, NEW s \in Seq(S)
    PROVE  s \o <<>> = s /\ <<>> \o s = s /\ <<>> \in Seq(S) /\ Len(<<>>) = 0
  OBVIOUS

-----------------------------------------------------------------------------
(* Wherever the blocks are cut, the groups are those of the stream. *)

Regrouped(B, f, x, y, j, k, buf, block) ==
    (/\ j = (x - f + 1) \div 4 /\ k = (y - f + 1) \div 4
     /\ buf = SubSeq(B, f + 4 * j, x) /\ block = SubSeq(B, x + 1, y))
    =>
    (/\ j <= k /\ Len(Groups(buf, block)) = k - j
     /\ \A i \in 1 .. k - j :
          Groups(buf, block)[i] = SubSeq(B, f + 4 * (j + i) - 4, f + 4 * (j + i) - 1)
     /\ Held(buf, block) = SubSeq(B, f + 4 * k, y))

\* Parsing a block between byte x + 1 and byte y makes the groups j + 1 to k of a
\* stream that starts at byte f, and keeps what comes after them.
LEMMA Regroup ==
    ASSUME NEW S, NEW B \in Seq(S), NEW f \in Nat, NEW x \in Nat, NEW y \in Nat,
           1 <= f, f <= x + 1, x <= y, y <= Len(B),
           NEW j \in Nat, NEW k \in Nat, NEW buf, NEW block
    PROVE  Regrouped(B, f, x, y, j, k, buf, block)
<1>0. SUFFICES ASSUME j = (x - f + 1) \div 4, k = (y - f + 1) \div 4,
                      buf = SubSeq(B, f + 4 * j, x), block = SubSeq(B, x + 1, y)
               PROVE  /\ j <= k /\ Len(Groups(buf, block)) = k - j
                      /\ \A i \in 1 .. k - j : Groups(buf, block)[i]
                           = SubSeq(B, f + 4 * (j + i) - 4, f + 4 * (j + i) - 1)
                      /\ Held(buf, block) = SubSeq(B, f + 4 * k, y)
  BY DEF Regrouped
<1>1. PICK n, r : n = y - x /\ r = x - f + 1 - 4 * j
  OBVIOUS
<1>2. PICK fill : fill = Fill(buf, block)
  OBVIOUS
<1>3. PICK joined : joined = Joined(buf, block)
  OBVIOUS
<1>4. PICK rest : rest = Rest(buf, block)
  OBVIOUS
<1>5. /\ n \in Nat /\ r \in 0 .. 3 /\ y = x + n /\ x + 1 = f + 4 * j + r
      /\ 4 * k <= y - f + 1 /\ y - f + 1 <= 4 * k + 3 /\ j <= k
  BY <1>0, <1>1
<1>6. buf \in Seq(S) /\ Len(buf) = r /\ (buf = <<>> <=> r = 0)
  <2>1. PICK a : a = f + 4 * j
    OBVIOUS
  <2>2. /\ a \in Nat /\ 1 <= a /\ a <= x + 1 /\ x <= Len(B) /\ x \in Int
        /\ x - a + 1 = r /\ (a = x + 1 <=> r = 0)
    BY <1>5, <2>1
  <2>3. /\ SubSeq(B, a, x) \in Seq(S) /\ Len(SubSeq(B, a, x)) = x - a + 1
        /\ SubSeq(B, a, x) = <<>> <=> a = x + 1
    BY <2>2, Part
  <2> QED BY <1>0, <2>1, <2>2, <2>3
<1>7. block \in Seq(S) /\ Len(block) = n
  <2>1. x + 1 \in Nat /\ 1 <= x + 1 /\ x + 1 <= y + 1 /\ y - (x + 1) + 1 = n /\ y \in Int
    BY <1>5
  <2>2. SubSeq(B, x + 1, y) \in Seq(S) /\ Len(SubSeq(B, x + 1, y)) = y - (x + 1) + 1
    BY <2>1, Part
  <2> QED BY <1>0, <2>1, <2>2
<1>8. fill = IF r = 0 THEN 0 ELSE IF n < 4 - r THEN n ELSE 4 - r
  BY <1>2, <1>6, <1>7 DEF Fill
<1>9. fill \in Nat /\ fill <= n
  BY <1>5, <1>8
<1>10. joined = SubSeq(B, f + 4 * j, x + fill)
  <2>1. SubSeq(block, 1, fill) = SubSeq(B, x + 1, x + fill)
    <3>1. /\ x + 1 \in Nat /\ 1 <= x + 1 /\ x + 1 <= y + 1 /\ fill \in Int /\ 1 <= fill + 1
          /\ fill <= y - (x + 1) + 1 /\ 1 \in Nat
          /\ x + 1 + 1 - 1 = x + 1 /\ x + 1 + fill - 1 = x + fill
      BY <1>5, <1>9
    <3>2. SubSeq(SubSeq(B, x + 1, y), 1, fill) = SubSeq(B, x + 1 + 1 - 1, x + 1 + fill - 1)
      BY <3>1, PartOfPart
    <3> QED BY <1>0, <3>1, <3>2
  <2>2. /\ f + 4 * j \in Nat /\ 1 <= f + 4 * j /\ f + 4 * j <= x + 1 /\ x <= x + fill
        /\ x + fill <= Len(B) /\ x + fill \in Int /\ x \in Int
    BY <1>5, <1>9
  <2>3. joined = SubSeq(B, f + 4 * j, x) \o SubSeq(B, x + 1, x + fill)
    BY <1>0, <1>2, <1>3, <2>1 DEF Joined
  <2> QED BY <2>2, <2>3, TwoParts, Zenon
<1>11. rest = SubSeq(B, x + fill + 1, y)
  <2>1. PICK a, c : a = x + 1 /\ c = fill + 1
    OBVIOUS
  <2>2. /\ a \in Nat /\ 1 <= a /\ a <= y + 1 /\ c \in Nat /\ 1 <= c /\ c <= n + 1
        /\ n \in Int /\ y \in Int /\ n <= y - a + 1
        /\ a + c - 1 = x + fill + 1 /\ a + n - 1 = y
    BY <1>5, <1>9, <2>1
  <2>3. rest = SubSeq(SubSeq(B, a, y), c, n)
    BY <1>0, <1>2, <1>4, <1>7, <2>1 DEF Rest
  <2>4. SubSeq(SubSeq(B, a, y), c, n) = SubSeq(B, a + c - 1, a + n - 1)
    BY <2>2, PartOfPart
  <2> QED BY <2>2, <2>3, <2>4
<1>12. PICK m : m = n - fill
  OBVIOUS
<1>13. PICK w : w = m \div 4
  OBVIOUS
<1>14. /\ m \in Nat /\ y = x + fill + m /\ n = fill + m
       /\ w \in Nat /\ 4 * w <= m /\ m <= 4 * w + 3
  BY <1>5, <1>9, <1>12, <1>13
<1>15. /\ joined \in Seq(S) /\ Len(joined) = r + fill
       /\ rest \in Seq(S) /\ Len(rest) = m
  <2>1. PICK a, b, c : a = f + 4 * j /\ b = x + fill /\ c = x + fill + 1
    OBVIOUS
  <2>2. /\ a \in Nat /\ 1 <= a /\ a <= b + 1 /\ b <= Len(B) /\ b \in Int
        /\ b - a + 1 = r + fill
    BY <1>5, <1>9, <2>1
  <2>3. c \in Nat /\ 1 <= c /\ c <= y + 1 /\ y \in Int /\ y - c + 1 = m
    BY <1>5, <1>9, <1>14, <2>1
  <2>4. SubSeq(B, a, b) \in Seq(S) /\ Len(SubSeq(B, a, b)) = b - a + 1
    BY <2>2, Part
  <2>5. SubSeq(B, c, y) \in Seq(S) /\ Len(SubSeq(B, c, y)) = y - c + 1
    BY <2>3, Part
  <2> QED BY <1>10, <1>11, <2>1, <2>2, <2>3, <2>4, <2>5
<1>16. PICK g : g = [i \in 1 .. w |-> Group(rest, i)]
  OBVIOUS
<1>17. \A i \in 1 .. w : g[i] = SubSeq(B, x + fill + 4 * i - 3, x + fill + 4 * i)
  <2> SUFFICES ASSUME NEW i \in 1 .. w
               PROVE  g[i] = SubSeq(B, x + fill + 4 * i - 3, x + fill + 4 * i)
    OBVIOUS
  <2>1. PICK a, c, d : a = x + fill + 1 /\ c = 4 * i - 3 /\ d = 4 * i
    OBVIOUS
  <2>2. g[i] = SubSeq(SubSeq(B, a, y), c, d)
    BY <1>11, <1>16, <2>1 DEF Group
  <2>3. /\ a \in Nat /\ 1 <= a /\ a <= y + 1 /\ c \in Nat /\ d \in Int /\ 1 <= c
        /\ c <= d + 1 /\ d <= y - a + 1 /\ y \in Int
        /\ a + c - 1 = x + fill + 4 * i - 3 /\ a + d - 1 = x + fill + 4 * i
    BY <1>9, <1>14, <2>1
  <2>4. SubSeq(SubSeq(B, a, y), c, d) = SubSeq(B, a + c - 1, a + d - 1)
    BY <2>3, PartOfPart
  <2> QED BY <2>2, <2>3, <2>4
<1>18. PICK remainder : remainder = SubSeq(rest, 4 * w + 1, m)
  OBVIOUS
<1>19. /\ remainder = SubSeq(B, x + fill + 1 + 4 * w, y)
       /\ remainder = <<>> <=> m = 4 * w
  <2>1. PICK a, c : a = x + fill + 1 /\ c = 4 * w + 1
    OBVIOUS
  <2>2. /\ a \in Nat /\ 1 <= a /\ a <= y + 1 /\ c \in Nat /\ m \in Int /\ 1 <= c
        /\ c <= m + 1 /\ m <= y - a + 1 /\ y \in Int /\ m <= Len(rest)
        /\ a + c - 1 = x + fill + 1 + 4 * w /\ a + m - 1 = y /\ (c = m + 1 <=> m = 4 * w)
    BY <1>9, <1>14, <1>15, <2>1
  <2>3. SubSeq(SubSeq(B, a, y), c, m) = SubSeq(B, a + c - 1, a + m - 1)
    BY <2>2, PartOfPart
  <2>4. SubSeq(rest, c, m) = <<>> <=> c = m + 1
    <3>1. /\ rest \in Seq(S) /\ c \in Nat /\ m \in Int /\ 1 <= c /\ c <= m + 1
          /\ m <= Len(rest)
      BY <1>15, <2>2
    <3>2. SubSeq(rest, c, m) \in Seq(S) /\ Len(SubSeq(rest, c, m)) = m - c + 1
      BY <3>1
    <3>3. SubSeq(rest, c, m) = <<>> <=> Len(SubSeq(rest, c, m)) = 0
      <4>1. \A t \in Seq(S) : t = <<>> <=> Len(t) = 0
        OBVIOUS
      <4> QED BY <3>2, <4>1
    <3> QED BY <3>1, <3>2, <3>3
  <2> QED BY <1>11, <1>18, <2>1, <2>2, <2>3, <2>4
<1>20. DOMAIN g = 1 .. w /\ Len(g) = w /\ \A i \in 1 .. w : g[i] = g[i]
  BY <1>14, <1>16
<1>21. Groups(buf, block) = (IF r + fill = 4 THEN <<joined>> ELSE <<>>) \o g
  BY <1>3, <1>4, <1>13, <1>15, <1>16 DEF Groups
<1>22. Held(buf, block) = IF remainder # <<>> THEN remainder
                          ELSE IF r + fill = 4 THEN <<>> ELSE joined
  BY <1>3, <1>4, <1>13, <1>15, <1>18 DEF Held
<1>23. CASE r + fill = 4
  <2>1. k = j + w + 1 /\ x + fill + 1 = f + 4 * (j + 1) /\ x + fill + 1 + 4 * w = f + 4 * k
    <3>1. x + fill + 1 = f + 4 * j + 4
      BY <1>5, <1>9, <1>23
    <3>2. y - f + 1 = 4 * j + 4 + m
      BY <1>5, <1>9, <1>14, <3>1
    <3>3. k <= j + 1 + w /\ j + 1 + w <= k
      <4>1. 4 * k <= y - f + 1 /\ y - f + 1 <= 4 * k + 3 /\ y - f + 1 \in Int
        BY <1>5, <3>2, <1>14
      <4> QED BY <1>14, <3>2, <4>1
    <3>4. k = j + 1 + w
      BY <1>14, <3>3
    <3> QED BY <1>5, <1>14, <3>1, <3>4
  <2>2. Len(Groups(buf, block)) = k - j
    BY <1>14, <1>15, <1>20, <1>21, <1>23, <2>1
  <2>3. \A i \in 1 .. k - j : Groups(buf, block)[i] = IF i = 1 THEN joined ELSE g[i - 1]
    BY <1>14, <1>15, <1>20, <1>21, <1>23, <2>1
  <2>4. ASSUME NEW i \in 1 .. k - j
        PROVE  Groups(buf, block)[i]
                 = SubSeq(B, f + 4 * (j + i) - 4, f + 4 * (j + i) - 1)
    <3>1. CASE i = 1
      <4>1. f + 4 * (j + i) - 4 = f + 4 * j /\ f + 4 * (j + i) - 1 = x + fill
        BY <1>5, <1>9, <1>23, <3>1
      <4> QED BY <1>10, <2>3, <3>1, <4>1
    <3>2. CASE i # 1
      <4>1. i - 1 \in 1 .. w
        BY <1>14, <2>1, <3>2
      <4>2. /\ f + 4 * (j + i) - 4 = x + fill + 4 * (i - 1) - 3
            /\ f + 4 * (j + i) - 1 = x + fill + 4 * (i - 1)
        BY <1>9, <1>14, <2>1, <3>2
      <4> QED BY <1>17, <2>3, <3>2, <4>1, <4>2
    <3> QED BY <3>1, <3>2
  <2>5. Held(buf, block) = SubSeq(B, f + 4 * k, y)
    <3>1. CASE m = 4 * w
      <4>1. f + 4 * k = y + 1
        BY <1>9, <1>14, <2>1, <3>1
      <4> QED BY <1>19, <1>22, <1>23, <2>1, <3>1
    <3>2. CASE m # 4 * w
      BY <1>19, <1>22, <2>1, <3>2
    <3> QED BY <3>1, <3>2
  <2> QED BY <1>5, <2>2, <2>4, <2>5
<1>24. CASE r + fill # 4
  <2>1. /\ r = 0 => fill = 0 /\ x + 1 = f + 4 * j /\ k = j + w /\ f + 4 * k = x + 1 + 4 * w
        /\ r # 0 => fill = n /\ m = 0 /\ k = j /\ w = 0
    <3>1. CASE r = 0
      <4>1. fill = 0 /\ x + 1 = f + 4 * j
        BY <1>5, <1>8, <3>1
      <4>2. y - f + 1 = 4 * j + m
        BY <1>5, <1>14, <4>1
      <4>3. k <= j + w /\ j + w <= k
        BY <1>5, <1>14, <4>2, SMTT(20)
      <4> QED BY <1>5, <1>14, <3>1, <4>1, <4>3
    <3>2. CASE r # 0
      <4>1. n < 4 - r /\ fill = n
        BY <1>5, <1>8, <1>24, <3>2
      <4>2. m = 0 /\ w = 0
        BY <1>5, <1>14, <4>1
      <4>3. y - f + 1 = 4 * j + r + n /\ r + n <= 3
        BY <1>5, <4>1
      <4> QED BY <1>5, <3>2, <4>1, <4>2, <4>3
    <3> QED BY <3>1, <3>2
  <2>2. Groups(buf, block) = g
    <3>1. PICK T : T = {g[i] : i \in 1 .. w}
      OBVIOUS
    <3>2. g \in [1 .. w -> T]
      BY <1>16, <3>1
    <3>3. g \in Seq(T)
      BY <1>14, <3>2
    <3>4. <<>> \o g = g
      BY <3>3, Empty
    <3> QED BY <1>21, <1>24, <3>4
  <2>3. Len(g) = k - j
    BY <1>5, <1>14, <1>20, <2>1
  <2>4. ASSUME NEW i \in 1 .. k - j
        PROVE  g[i] = SubSeq(B, f + 4 * (j + i) - 4, f + 4 * (j + i) - 1)
    <3>1. r = 0 /\ i \in 1 .. w
      BY <1>5, <1>14, <2>1
    <3>2. /\ f + 4 * (j + i) - 4 = x + fill + 4 * i - 3
          /\ f + 4 * (j + i) - 1 = x + fill + 4 * i
      BY <2>1, <3>1
    <3> QED BY <1>17, <3>1, <3>2
  <2>5. Held(buf, block) = SubSeq(B, f + 4 * k, y)
    <3>1. CASE r = 0
      <4>1. joined = SubSeq(B, x + 1, x) /\ x + fill + 1 + 4 * w = f + 4 * k
        BY <1>10, <2>1, <3>1
      <4>2. CASE m = 4 * w
        <5>1. f + 4 * k = y + 1
          BY <1>14, <2>1, <3>1, <4>2
        <5>2. SubSeq(B, x + 1, x) = <<>> /\ SubSeq(B, y + 1, y) = <<>>
          OBVIOUS
        <5> QED BY <1>19, <1>22, <1>24, <4>1, <4>2, <5>1, <5>2
      <4>3. CASE m # 4 * w
        BY <1>19, <1>22, <4>1, <4>3
      <4> QED BY <4>2, <4>3
    <3>2. CASE r # 0
      <4>1. x + fill = y
        BY <1>5, <2>1, <3>2
      <4> QED BY <1>10, <1>19, <1>22, <1>24, <2>1, <3>2, <4>1
    <3> QED BY <3>1, <3>2
  <2> QED BY <1>5, <2>2, <2>3, <2>4, <2>5
<1> QED BY <1>23, <1>24

-----------------------------------------------------------------------------
(* The bytes sent and received *)

ByteSet == [pkt : Nat, k : Nat]
ChoicesOK ==
    /\ packets \in Streams /\ junk \in 0 .. MaxJunk /\ overflow \in BOOLEAN
    /\ damage \in [what : {"none", "byte", "packet"}, at : Nat]
    /\ damage.what = "byte" => damage.at \in junk + 1 .. junk + 4 * Len(packets)
    /\ damage.what = "packet" => damage.at \in 1 .. Len(packets)

\* The stream is synchronised at its second packet when the first byte is lost.
Shift == IF damage.what = "byte" /\ damage.at = junk + 1 THEN 1 ELSE 0
Start == IF Shift = 1 THEN junk + 4 ELSE junk + 1
OverflowLen == IF overflow THEN 8 ELSE 0

\* The types of what was chosen.
LEMMA ChoicesTypes ==
    ASSUME ChoicesOK
    PROVE  /\ packets \in Seq(Kinds) /\ Len(packets) \in Nat
           /\ junk \in 0 .. 3 /\ overflow \in BOOLEAN /\ OverflowLen \in Nat
           /\ DOMAIN packets = 1 .. Len(packets)
<1> USE HostTraceAssumption, StreamsAssumption
<1>1. packets \in Seq(Kinds)
  BY DEF ChoicesOK
<1>2. junk \in 0 .. 3 /\ overflow \in BOOLEAN
  BY DEF ChoicesOK
<1> QED BY <1>1, <1>2 DEF OverflowLen

\* The elements of two sequences put together.
LEMMA Concatenation ==
    ASSUME NEW S, NEW p \in Seq(S), NEW q \in Seq(S)
    PROVE  /\ p \o q \in Seq(S) /\ Len(p \o q) = Len(p) + Len(q)
           /\ \A i \in 1 .. Len(p) : (p \o q)[i] = p[i]
           /\ \A i \in Len(p) + 1 .. Len(p) + Len(q) : (p \o q)[i] = q[i - Len(p)]
  OBVIOUS

\* The bytes sent: those of an older packet, of the packets and of the report.
LEMMA WholeStream ==
    ASSUME ChoicesOK
    PROVE  /\ Whole \in Seq(ByteSet) /\ Len(Whole) = junk + 4 * Len(packets) + OverflowLen
           /\ \A i \in 1 .. junk : Whole[i] = [pkt |-> 0, k |-> 4 - junk + i - 1]
           /\ \A i \in junk + 1 .. junk + 4 * Len(packets) :
                Whole[i] = Byte((i - junk - 1) \div 4 + 1, (i - junk - 1) % 4)
           /\ \A i \in junk + 4 * Len(packets) + 1 .. Len(Whole) : Whole[i] = FF
<1>1. PICK n : n = 4 * Len(packets)
  OBVIOUS
<1>2. n \in Nat /\ junk \in 0 .. 3 /\ junk \in Nat /\ OverflowLen \in Nat
  BY <1>1, ChoicesTypes
<1>3. /\ JunkBytes \in Seq(ByteSet) /\ Len(JunkBytes) = junk
      /\ \A i \in 1 .. junk : JunkBytes[i] = [pkt |-> 0, k |-> 4 - junk + i - 1]
  <2>1. \A i \in 1 .. junk : [pkt |-> 0, k |-> 4 - junk + i - 1] \in ByteSet
    <3>1. \A i \in 1 .. junk : 4 - junk + i - 1 \in Nat
      BY <1>2
    <3> QED BY <3>1 DEF ByteSet
  <2>2. JunkBytes \in [1 .. junk -> ByteSet]
    BY <2>1 DEF JunkBytes
  <2> QED BY <1>2, <2>2 DEF JunkBytes
<1>4. /\ PacketBytes \in Seq(ByteSet) /\ Len(PacketBytes) = n
      /\ \A i \in 1 .. n : PacketBytes[i] = Byte((i - 1) \div 4 + 1, (i - 1) % 4)
  <2>1. \A i \in 1 .. n : Byte((i - 1) \div 4 + 1, (i - 1) % 4) \in ByteSet
    <3>1. \A i \in 1 .. n : (i - 1) \div 4 + 1 \in Nat /\ (i - 1) % 4 \in Nat
      BY <1>2
    <3> QED BY <3>1 DEF ByteSet, Byte
  <2>2. PacketBytes \in [1 .. n -> ByteSet]
    BY <1>1, <2>1 DEF PacketBytes
  <2>3. \A i \in 1 .. n : PacketBytes[i] = Byte((i - 1) \div 4 + 1, (i - 1) % 4)
    BY <1>1 DEF PacketBytes
  <2>4. PacketBytes \in Seq(ByteSet) /\ Len(PacketBytes) = n
    <3>1. \A t \in [1 .. n -> ByteSet] : t \in Seq(ByteSet) /\ Len(t) = n
      BY <1>2
    <3> QED BY <2>2, <3>1
  <2> QED BY <2>3, <2>4
<1>5. /\ OverflowBytes \in Seq(ByteSet) /\ Len(OverflowBytes) = OverflowLen
      /\ \A i \in 1 .. OverflowLen : OverflowBytes[i] = FF
  <2>1. FF \in ByteSet
    BY DEF FF, ByteSet
  <2>2. CASE overflow
    <3>1. OverflowBytes = [i \in 1 .. 8 |-> FF]
      BY <2>2 DEF OverflowBytes
    <3>2. OverflowBytes \in [1 .. 8 -> ByteSet]
      BY <2>1, <3>1
    <3> QED BY <2>2, <3>1, <3>2 DEF OverflowLen
  <2>3. CASE ~ overflow
    BY <2>3 DEF OverflowBytes, OverflowLen
  <2> QED BY <2>2, <2>3
<1>6. PICK P, Q, R : P = JunkBytes /\ Q = PacketBytes /\ R = OverflowBytes
  OBVIOUS
<1>7. P \in Seq(ByteSet) /\ Q \in Seq(ByteSet) /\ R \in Seq(ByteSet)
      /\ Len(P) = junk /\ Len(Q) = n /\ Len(R) = OverflowLen
  BY <1>3, <1>4, <1>5, <1>6
<1>8. Whole = (P \o Q) \o R
  BY <1>6 DEF Whole
<1>9. /\ P \o Q \in Seq(ByteSet) /\ Len(P \o Q) = junk + n
      /\ \A i \in 1 .. junk : (P \o Q)[i] = P[i]
      /\ \A i \in junk + 1 .. junk + n : (P \o Q)[i] = Q[i - junk]
  BY <1>2, <1>7
<1>10. /\ Whole \in Seq(ByteSet) /\ Len(Whole) = junk + n + OverflowLen
       /\ \A i \in 1 .. junk + n : Whole[i] = (P \o Q)[i]
       /\ \A i \in junk + n + 1 .. junk + n + OverflowLen : Whole[i] = R[i - (junk + n)]
  <2>1. PICK T : T = P \o Q
    OBVIOUS
  <2>2. T \in Seq(ByteSet) /\ Len(T) = junk + n /\ Whole = T \o R
    BY <1>8, <1>9, <2>1
  <2>3. /\ Whole \in Seq(ByteSet) /\ Len(Whole) = junk + n + OverflowLen
        /\ \A i \in 1 .. junk + n : Whole[i] = T[i]
        /\ \A i \in junk + n + 1 .. junk + n + OverflowLen : Whole[i] = R[i - (junk + n)]
    <3>1. /\ T \o R \in Seq(ByteSet) /\ Len(T \o R) = Len(T) + Len(R)
          /\ \A i \in 1 .. Len(T) : (T \o R)[i] = T[i]
          /\ \A i \in Len(T) + 1 .. Len(T) + Len(R) : (T \o R)[i] = R[i - Len(T)]
      <4>1. T \in Seq(ByteSet) /\ R \in Seq(ByteSet)
        BY <1>7, <2>2
      <4> QED BY <4>1, Concatenation, Zenon
    <3>2. Len(T) = junk + n /\ Len(R) = OverflowLen /\ Whole = T \o R
      BY <1>7, <2>2
    <3> QED BY <3>1, <3>2, Zenon
  <2> QED BY <2>1, <2>3
<1>11. \A i \in 1 .. junk : Whole[i] = [pkt |-> 0, k |-> 4 - junk + i - 1]
  BY <1>2, <1>3, <1>6, <1>9, <1>10
<1>12. ASSUME NEW i \in junk + 1 .. junk + n
       PROVE  Whole[i] = Byte((i - junk - 1) \div 4 + 1, (i - junk - 1) % 4)
  <2>1. i - junk \in 1 .. n /\ i \in 1 .. junk + n
    BY <1>2
  <2>2. Whole[i] = PacketBytes[i - junk]
    BY <1>6, <1>9, <1>10, <2>1
  <2> QED BY <1>4, <2>1, <2>2
<1>13. ASSUME NEW i \in junk + n + 1 .. Len(Whole)
       PROVE  Whole[i] = FF
  <2>1. i - (junk + n) \in 1 .. OverflowLen /\ i \in junk + n + 1 .. junk + n + OverflowLen
    BY <1>2, <1>10
  <2> QED BY <1>5, <1>6, <1>10, <2>1
<1> QED BY <1>1, <1>10, <1>11, <1>12, <1>13

\* The bytes received: all of them, or all but one.
LEMMA StreamOnTheWay ==
    ASSUME ChoicesOK
    PROVE  /\ Bytes \in Seq(ByteSet)
           /\ damage.what # "byte" => Bytes = Whole
           /\ damage.what = "byte" =>
                /\ Len(Bytes) = Len(Whole) - 1
                /\ \A i \in 1 .. Len(Bytes) :
                     Bytes[i] = IF i < damage.at THEN Whole[i] ELSE Whole[i + 1]
<1>1. CASE damage.what # "byte"
  BY <1>1, WholeStream DEF Bytes
<1>2. CASE damage.what = "byte"
  <2>1. PICK W, a : W = Whole /\ a = damage.at
    OBVIOUS
  <2>2. W \in Seq(ByteSet) /\ a \in 1 .. Len(W) /\ a \in Nat /\ Len(W) \in Nat
    BY <1>2, <2>1, WholeStream, ChoicesTypes, SMTT(20) DEF ChoicesOK
  <2>3. PICK P, Q : P = SubSeq(W, 1, a - 1) /\ Q = SubSeq(W, a + 1, Len(W))
    OBVIOUS
  <2>4. Bytes = P \o Q
    BY <1>2, <2>1, <2>3 DEF Bytes, RemoveAt
  <2>5. /\ P \in Seq(ByteSet) /\ Len(P) = a - 1
        /\ \A i \in 1 .. a - 1 : P[i] = W[i]
    BY <2>2, <2>3
  <2>6. /\ Q \in Seq(ByteSet) /\ Len(Q) = Len(W) - a
        /\ \A i \in 1 .. Len(W) - a : Q[i] = W[a + i]
    BY <2>2, <2>3
  <2>7. P \o Q \in Seq(ByteSet) /\ Len(P \o Q) = Len(W) - 1
    <3>1. P \in Seq(ByteSet) /\ Q \in Seq(ByteSet) /\ Len(P) + Len(Q) = Len(W) - 1
      BY <2>2, <2>5, <2>6
    <3> QED BY <3>1
  <2>8. ASSUME NEW i \in 1 .. Len(W) - 1
        PROVE  (P \o Q)[i] = IF i < a THEN W[i] ELSE W[i + 1]
    <3>1. (P \o Q)[i] = IF i <= Len(P) THEN P[i] ELSE Q[i - Len(P)]
      BY <2>2, <2>5, <2>6
    <3>2. CASE i < a
      BY <2>2, <2>5, <3>1, <3>2
    <3>3. CASE ~ (i < a)
      <4>1. i - (a - 1) \in 1 .. Len(W) - a /\ a + (i - (a - 1)) = i + 1 /\ ~ (i <= Len(P))
        BY <2>2, <2>5, <3>3
      <4> QED BY <2>5, <2>6, <3>1, <3>3, <4>1
    <3> QED BY <3>2, <3>3
  <2> QED BY <1>2, <2>1, <2>4, <2>7, <2>8
<1> QED BY <1>1, <1>2

\* A byte received before the loss is the one sent at its place ...
LEMMA ByteBefore ==
    ASSUME ChoicesOK, NEW i \in 1 .. Len(Bytes), damage.what = "byte" => i < damage.at
    PROVE  Bytes[i] = Whole[i] /\ i \in 1 .. Len(Whole)
  BY StreamOnTheWay, WholeStream, ChoicesTypes DEF ChoicesOK

\* ... and one received after it the one sent next.
LEMMA ByteAfter ==
    ASSUME ChoicesOK, NEW i \in 1 .. Len(Bytes), damage.what = "byte", damage.at <= i
    PROVE  Bytes[i] = Whole[i + 1] /\ i + 1 \in 1 .. Len(Whole)
  BY StreamOnTheWay, WholeStream, ChoicesTypes DEF ChoicesOK

-----------------------------------------------------------------------------
(* The groups of the stream *)

\* What Min returns.
LEMMA MinIs ==
    ASSUME NEW T, T \subseteq Nat, NEW x \in T, \A y \in T : x <= y
    PROVE  Min(T) = x
<1>1. \E z \in T : \A y \in T : z <= y
  OBVIOUS
<1>2. Min(T) \in T /\ \A y \in T : Min(T) <= y
  BY <1>1, Zenon DEF Min
<1>3. PICK m : m = Min(T)
  OBVIOUS
<1>4. m \in Nat /\ x \in Nat /\ m <= x /\ x <= m
  BY <1>2, <1>3
<1> QED BY <1>3, <1>4

\* What Max returns.
LEMMA MaxIs ==
    ASSUME NEW T, T \subseteq Nat, NEW x \in T, \A y \in T : y <= x
    PROVE  Max(T) = x
<1>1. \E z \in T : \A y \in T : z >= y
  OBVIOUS
<1>2. Max(T) \in T /\ \A y \in T : Max(T) >= y
  BY <1>1, Zenon DEF Max
<1>3. PICK m : m = Max(T)
  OBVIOUS
<1>4. m \in Nat /\ x \in Nat /\ m <= x /\ x <= m
  BY <1>2, <1>3
<1> QED BY <1>3, <1>4

\* What FirstFlag returns.
LEMMA FirstFlagIs ==
    ASSUME NEW S, NEW s \in Seq(S), NEW f \in 1 .. Len(s) + 1,
           \A i \in 1 .. f - 1 : ~ Flag(s[i]), f <= Len(s) => Flag(s[f])
    PROVE  FirstFlag(s) = f
<1>1. PICK T : T = {Len(s) + 1} \cup {i \in 1 .. Len(s) : Flag(s[i])}
  OBVIOUS
<1>2. T \subseteq Nat /\ f \in T
  BY <1>1
<1>3. \A y \in T : f <= y
  <2> SUFFICES ASSUME NEW y \in T PROVE f <= y
    OBVIOUS
  <2>1. CASE y = Len(s) + 1
    BY <2>1
  <2>2. CASE y \in 1 .. Len(s) /\ Flag(s[y])
    <3>1. y \notin 1 .. f - 1
      BY <2>2
    <3> QED BY <2>2, <3>1
  <2> QED BY <1>1, <2>1, <2>2
<1>4. Min(T) = f
  BY <1>2, <1>3, MinIs
<1> QED BY <1>1, <1>4 DEF FirstFlag

\* Which bytes have the flag bit.
LEMMA FlagOfByte ==
    /\ \A p, k : Flag(Byte(p, k)) <=> k = 0
    /\ Flag(FF)
    /\ \A p, k : Flag([pkt |-> p, k |-> k]) <=> k = 0
  BY DEF Flag, Byte, FF

\* The bytes of the packets, by place in the stream.
LEMMA WholeFlags ==
    ASSUME ChoicesOK
    PROVE  /\ \A i \in 1 .. junk : ~ Flag(Whole[i])
           /\ \A q \in Nat : junk + 4 * q + 1 \in 1 .. Len(Whole) => Flag(Whole[junk + 4 * q + 1])
           /\ \A q \in Nat, r \in 0 .. 3 : q < Len(packets) =>
                Whole[junk + 4 * q + 1 + r] = Byte(q + 1, r)
<1>1. PICK n : n = Len(packets)
  OBVIOUS
<1>2. n \in Nat /\ junk \in 0 .. 3 /\ junk \in Nat
  BY <1>1, ChoicesTypes
<1>3. ASSUME NEW i \in 1 .. junk PROVE ~ Flag(Whole[i])
  <2>1. Whole[i] = [pkt |-> 0, k |-> 4 - junk + i - 1]
    BY WholeStream
  <2>2. 4 - junk + i - 1 # 0
    BY <1>2
  <2> QED BY <2>1, <2>2, FlagOfByte
<1>4. ASSUME NEW q \in Nat, NEW r \in 0 .. 3, q < n
      PROVE  Whole[junk + 4 * q + 1 + r] = Byte(q + 1, r)
  <2>1. PICK i : i = junk + 4 * q + 1 + r
    OBVIOUS
  <2>2. i \in junk + 1 .. junk + 4 * n
    BY <1>2, <1>4, <2>1
  <2>3. i - junk - 1 = 4 * q + r
    BY <1>2, <2>1
  <2>4. (4 * q + r) \div 4 = q /\ (4 * q + r) % 4 = r
    OBVIOUS
  <2>5. Whole[i] = Byte((i - junk - 1) \div 4 + 1, (i - junk - 1) % 4)
    BY <1>1, <2>2, WholeStream
  <2> QED BY <2>1, <2>3, <2>4, <2>5
<1>5. ASSUME NEW q \in Nat, junk + 4 * q + 1 \in 1 .. Len(Whole)
      PROVE  Flag(Whole[junk + 4 * q + 1])
  <2>1. CASE q < n
    <3>1. Whole[junk + 4 * q + 1 + 0] = Byte(q + 1, 0)
      BY <1>4, <2>1
    <3>2. junk + 4 * q + 1 + 0 = junk + 4 * q + 1
      BY <1>2
    <3> QED BY <3>1, <3>2, FlagOfByte
  <2>2. CASE ~ (q < n)
    <3>1. junk + 4 * q + 1 \in junk + 4 * n + 1 .. Len(Whole)
      BY <1>2, <1>5, <2>2
    <3> QED BY <1>1, <3>1, WholeStream, FlagOfByte
  <2> QED BY <2>1, <2>2
<1> QED BY <1>1, <1>3, <1>4, <1>5

\* The stream is synchronised at Start.
LEMMA StartIs ==
    ASSUME ChoicesOK
    PROVE  /\ Start \in 1 .. Len(Bytes) + 1 /\ Len(Bytes) \in Nat
           /\ \A i \in 1 .. Start - 1 : ~ Flag(Bytes[i])
           /\ Start <= Len(Bytes) => Flag(Bytes[Start])
<1>1. PICK n : n = Len(packets)
  OBVIOUS
<1>2. n \in Nat /\ junk \in 0 .. 3 /\ junk \in Nat /\ OverflowLen \in Nat
  BY <1>1, ChoicesTypes
<1>3. Len(Bytes) \in Nat /\ Len(Whole) = junk + 4 * n + OverflowLen
  BY <1>1, StreamOnTheWay, WholeStream
<1>4. CASE Shift = 1
  <2>1. damage.what = "byte" /\ damage.at = junk + 1 /\ n > 0 /\ Start = junk + 4
    BY <1>1, <1>2, <1>4 DEF Shift, Start, ChoicesOK
  <2>2. Len(Bytes) = Len(Whole) - 1 /\ Len(Bytes) >= junk + 3
    BY <1>2, <1>3, <2>1, StreamOnTheWay
  <2>3. ASSUME NEW i \in 1 .. Start - 1 PROVE ~ Flag(Bytes[i])
    <3>1. CASE i <= junk
      <4>1. Bytes[i] = Whole[i]
        BY <1>2, <2>1, <2>2, <3>1, ByteBefore
      <4>2. i \in 1 .. junk
        BY <1>2, <2>1, <3>1
      <4> QED BY <4>1, <4>2, WholeFlags
    <3>2. CASE i > junk
      <4>1. PICK r \in 1 .. 3 : i = junk + r
        BY <1>2, <2>1, <3>2
      <4>2. Bytes[i] = Whole[i + 1]
        BY <1>2, <2>1, <2>2, <3>2, ByteAfter
      <4>3. Whole[junk + 4 * 0 + 1 + r] = Byte(0 + 1, r)
        BY <1>1, <2>1, WholeFlags
      <4>4. junk + 4 * 0 + 1 + r = i + 1
        BY <1>2, <4>1
      <4> QED BY <4>1, <4>2, <4>3, <4>4, FlagOfByte
    <3> QED BY <1>2, <3>1, <3>2
  <2>4. ASSUME Start <= Len(Bytes) PROVE Flag(Bytes[Start])
    <3>1. Bytes[junk + 4] = Whole[junk + 4 + 1] /\ junk + 4 + 1 \in 1 .. Len(Whole)
      BY <1>2, <1>3, <2>1, <2>4, ByteAfter
    <3>2. junk + 4 + 1 = junk + 4 * 1 + 1
      BY <1>2
    <3> QED BY <2>1, <3>1, <3>2, WholeFlags
  <2> QED BY <1>2, <1>3, <2>1, <2>2, <2>3, <2>4
<1>5. CASE Shift # 1
  <2>1. Start = junk + 1 /\ (damage.what = "byte" => damage.at > junk + 1 /\ n > 0)
    BY <1>1, <1>2, <1>5 DEF Shift, Start, ChoicesOK
  <2>2. Len(Bytes) >= junk
    BY <1>2, <1>3, <2>1, StreamOnTheWay
  <2>3. ASSUME NEW i \in 1 .. Start - 1 PROVE ~ Flag(Bytes[i])
    <3>1. i \in 1 .. junk /\ i \in 1 .. Len(Bytes) /\ (damage.what = "byte" => i < damage.at)
      BY <1>2, <1>3, <2>1, <2>2 DEF ChoicesOK
    <3>2. Bytes[i] = Whole[i]
      BY <3>1, ByteBefore
    <3> QED BY <3>1, <3>2, WholeFlags
  <2>4. ASSUME Start <= Len(Bytes) PROVE Flag(Bytes[Start])
    <3>1. junk + 1 \in 1 .. Len(Bytes) /\ (damage.what = "byte" => junk + 1 < damage.at)
      BY <1>2, <1>3, <2>1, <2>4 DEF ChoicesOK
    <3>2. Bytes[junk + 1] = Whole[junk + 1] /\ junk + 1 \in 1 .. Len(Whole)
      BY <3>1, ByteBefore
    <3>3. junk + 1 = junk + 4 * 0 + 1
      BY <1>2
    <3> QED BY <2>1, <3>2, <3>3, WholeFlags
  <2> QED BY <1>2, <1>3, <2>1, <2>2, <2>3, <2>4
<1> QED BY <1>4, <1>5

-----------------------------------------------------------------------------
(* The groups of four bytes *)

GroupAt(k) == SubSeq(Bytes, Start + 4 * k - 4, Start + 4 * k - 1)
Within(k) == Start + 4 * k - 1 <= Len(Bytes)
OutOfStep == damage.what = "byte" /\ Shift = 0

\* The packet whose bytes come in the k-th group.
Intact(q) == q \in 1 .. Len(packets) /\ (OutOfStep => q < Hit)

\* The bytes of the k-th group.
LEMMA GroupElements ==
    ASSUME ChoicesOK, NEW k \in Nat \ {0}, Within(k)
    PROVE  /\ Len(GroupAt(k)) = 4
           /\ \A i \in 1 .. 4 : /\ GroupAt(k)[i] = Bytes[Start + 4 * k - 5 + i]
                                /\ Start + 4 * k - 5 + i \in 1 .. Len(Bytes)
<1>1. PICK a, b : a = Start + 4 * k - 4 /\ b = Start + 4 * k - 1
  OBVIOUS
<1>2. Start \in Nat /\ Start >= 1 /\ Len(Bytes) \in Nat /\ Bytes \in Seq(ByteSet)
  BY StartIs, StreamOnTheWay
<1>3. /\ a \in Nat /\ b \in Int /\ 1 <= a /\ a <= b + 1 /\ b <= Len(Bytes) /\ b - a + 1 = 4
      /\ \A i \in 1 .. 4 : /\ a + i - 1 = Start + 4 * k - 5 + i
                           /\ a + i - 1 \in 1 .. Len(Bytes)
  BY <1>1, <1>2 DEF Within
<1>4. PICK B : B = Bytes
  OBVIOUS
<1>5. /\ Len(SubSeq(B, a, b)) = b - a + 1
      /\ \A i \in 1 .. b - a + 1 : SubSeq(B, a, b)[i] = B[a + i - 1]
  BY <1>2, <1>3, <1>4, Part
<1> QED BY <1>1, <1>3, <1>4, <1>5 DEF GroupAt

\* The packet that the damage hit.
LEMMA HitIs ==
    ASSUME ChoicesOK
    PROVE  /\ Hit \in 0 .. Len(packets)
           /\ damage.what = "packet" => Hit = damage.at
           /\ damage.what = "none" => Hit = 0
           /\ damage.what = "byte" => Hit > 0 /\ junk + 4 * Hit - 3 <= damage.at
                                      /\ damage.at <= junk + 4 * Hit
           /\ Shift = 1 => Hit = 1
<1>1. PICK n, a : n = Len(packets) /\ a = damage.at
  OBVIOUS
<1>2. n \in Nat /\ junk \in Nat /\ a \in Nat
  BY <1>1, ChoicesTypes DEF ChoicesOK
<1>3. CASE damage.what = "byte"
  <2>1. a \in junk + 1 .. junk + 4 * n /\ Hit = (a - junk - 1) \div 4 + 1
    BY <1>1, <1>3 DEF ChoicesOK, Hit
  <2>2. (a - junk - 1) \div 4 \in 0 .. n - 1
    BY <1>2, <2>1
  <2>3. /\ 4 * ((a - junk - 1) \div 4) <= a - junk - 1
        /\ a - junk - 1 <= 4 * ((a - junk - 1) \div 4) + 3
    BY <1>2, <2>1
  <2>4. a = junk + 1 => (a - junk - 1) \div 4 = 0
    BY <1>2
  <2>5. Shift = 1 => Hit = 1
    BY <1>1, <2>1, <2>4 DEF Shift
  <2>6. Hit \in 1 .. n /\ junk + 4 * Hit - 3 <= a /\ a <= junk + 4 * Hit
    BY <1>2, <2>1, <2>2, <2>3
  <2> QED BY <1>1, <1>2, <1>3, <2>5, <2>6
<1>4. CASE damage.what # "byte"
  BY <1>1, <1>2, <1>4 DEF ChoicesOK, Hit, Shift
<1> QED BY <1>3, <1>4

\* A group is the next packet, as long as nothing shifted the bytes,
LEMMA GroupIsPacket ==
    ASSUME ChoicesOK, NEW k \in Nat \ {0}, Within(k), Intact(k + Shift)
    PROVE  \A i \in 1 .. 4 : GroupAt(k)[i] = Byte(k + Shift, i - 1)
<1> SUFFICES ASSUME NEW i \in 1 .. 4 PROVE GroupAt(k)[i] = Byte(k + Shift, i - 1)
  OBVIOUS
<1>1. PICK p : p = Start + 4 * k - 5 + i
  OBVIOUS
<1>2. GroupAt(k)[i] = Bytes[p] /\ p \in 1 .. Len(Bytes)
  BY <1>1, GroupElements
<1>3. junk \in Nat /\ Len(packets) \in Nat
  BY ChoicesTypes
<1>4. CASE Shift = 1
  <2>1. p = junk + 4 * k - 1 + i /\ damage.what = "byte" /\ damage.at = junk + 1
    BY <1>1, <1>3, <1>4 DEF Start, Shift
  <2>2. Bytes[p] = Whole[p + 1]
    <3>1. damage.at <= p
      BY <1>3, <2>1
    <3> QED BY <1>2, <2>1, <3>1, ByteAfter
  <2>3. k \in Nat /\ i - 1 \in 0 .. 3 /\ k < Len(packets) /\ p + 1 = junk + 4 * k + 1 + (i - 1)
    BY <1>3, <1>4, <2>1 DEF Intact
  <2>4. Whole[junk + 4 * k + 1 + (i - 1)] = Byte(k + 1, i - 1)
    BY <2>3, WholeFlags
  <2> QED BY <1>2, <1>4, <2>2, <2>3, <2>4
<1>5. CASE Shift # 1
  <2>1. p = junk + 4 * (k - 1) + 1 + (i - 1) /\ Shift = 0
    BY <1>1, <1>3, <1>5 DEF Start, Shift
  <2>2. damage.what = "byte" => p < damage.at
    <3>1. SUFFICES ASSUME damage.what = "byte" PROVE p < damage.at
      OBVIOUS
    <3>2. k + 1 <= Hit /\ Hit \in Nat /\ junk + 4 * Hit - 3 <= damage.at /\ damage.at \in Nat
      BY <1>3, <2>1, <3>1, HitIs DEF Intact, OutOfStep, ChoicesOK
    <3> QED BY <1>3, <2>1, <3>2
  <2>3. Bytes[p] = Whole[p]
    BY <1>2, <2>2, ByteBefore
  <2>4. k - 1 \in Nat /\ i - 1 \in 0 .. 3 /\ k - 1 < Len(packets)
    BY <1>3, <2>1 DEF Intact
  <2>5. Whole[junk + 4 * (k - 1) + 1 + (i - 1)] = Byte((k - 1) + 1, i - 1)
    BY <2>4, WholeFlags
  <2>6. (k - 1) + 1 = k + Shift
    BY <2>1
  <2> QED BY <1>2, <2>1, <2>3, <2>5, <2>6
<1> QED BY <1>4, <1>5

\* an overflow report when there are no more packets,
LEMMA GroupIsOverflow ==
    ASSUME ChoicesOK, NEW k \in Nat \ {0}, Within(k), k + Shift > Len(packets)
    PROVE  IsOverflow(GroupAt(k))
<1> SUFFICES ASSUME NEW i \in 1 .. 4 PROVE GroupAt(k)[i] = FF
  BY DEF IsOverflow
<1>1. PICK p : p = Start + 4 * k - 5 + i
  OBVIOUS
<1>2. GroupAt(k)[i] = Bytes[p] /\ p \in 1 .. Len(Bytes)
  BY <1>1, GroupElements
<1>3. junk \in Nat /\ Len(packets) \in Nat
  BY ChoicesTypes
<1>4. CASE Shift = 1
  <2>1. p = junk + 4 * k - 1 + i /\ damage.what = "byte" /\ damage.at = junk + 1
    BY <1>1, <1>3, <1>4 DEF Start, Shift
  <2>2. Bytes[p] = Whole[p + 1] /\ p + 1 \in 1 .. Len(Whole)
    BY <1>2, <1>3, <2>1, ByteAfter
  <2>3. p + 1 \in junk + 4 * Len(packets) + 1 .. Len(Whole)
    BY <1>3, <1>4, <2>1, <2>2
  <2> QED BY <1>2, <2>2, <2>3, WholeStream
<1>5. CASE Shift # 1
  <2>1. p = junk + 4 * (k - 1) + 1 + (i - 1) /\ Shift = 0 /\ k > Len(packets)
    BY <1>1, <1>3, <1>5 DEF Start, Shift
  <2>2. \/ Bytes[p] = Whole[p] /\ p \in 1 .. Len(Whole)
        \/ Bytes[p] = Whole[p + 1] /\ p + 1 \in 1 .. Len(Whole)
    <3>1. CASE damage.what = "byte" /\ damage.at <= p
      BY <1>2, <3>1, ByteAfter
    <3>2. CASE damage.what = "byte" => p < damage.at
      <4>1. p \in 1 .. Len(Bytes) /\ (damage.what = "byte" => p < damage.at)
        BY <1>2, <3>2
      <4>2. Bytes[p] = Whole[p] /\ p \in 1 .. Len(Whole)
        BY <4>1, ByteBefore
      <4> QED BY <4>2
    <3>3. damage.at \in Nat /\ p \in Nat
      BY <1>2 DEF ChoicesOK
    <3> QED BY <3>1, <3>2, <3>3
  <2>3. \A x \in {p, p + 1} : x \in 1 .. Len(Whole) =>
          x \in junk + 4 * Len(packets) + 1 .. Len(Whole)
    BY <1>3, <2>1
  <2> QED BY <1>2, <2>2, <2>3, WholeStream
<1> QED BY <1>4, <1>5

\* or no packet at all once a byte was lost.
LEMMA GroupIsOutOfStep ==
    ASSUME ChoicesOK, NEW k \in Nat \ {0}, Within(k), OutOfStep, k >= Hit
    PROVE  ~ IsAligned(GroupAt(k))
<1>1. PICK p : p = Start + 4 * k - 5 + 4
  OBVIOUS
<1>2. GroupAt(k)[4] = Bytes[p] /\ p \in 1 .. Len(Bytes)
  BY <1>1, GroupElements
<1>3. junk \in Nat /\ Start = junk + 1 /\ p = junk + 4 * k
  BY <1>1, ChoicesTypes DEF OutOfStep, Start
<1>4. damage.what = "byte" /\ damage.at <= p
  <2>1. damage.at <= junk + 4 * Hit /\ Hit \in Nat /\ damage.at \in Nat /\ damage.what = "byte"
    BY HitIs, ChoicesTypes DEF OutOfStep, ChoicesOK
  <2> QED BY <1>3, <2>1
<1>5. Bytes[p] = Whole[p + 1] /\ p + 1 \in 1 .. Len(Whole)
  BY <1>2, <1>4, ByteAfter
<1>6. Flag(Whole[junk + 4 * k + 1])
  BY <1>3, <1>5, WholeFlags
<1> QED BY <1>2, <1>3, <1>5, <1>6 DEF IsAligned

-----------------------------------------------------------------------------
(* Bursts *)

\* A set of naturals up to n that is not empty has a greatest element.
LEMMA BoundedHasMax ==
    ASSUME NEW n \in Nat, NEW T, T \subseteq 0 .. n, T # {}
    PROVE  \E x \in T : \A y \in T : y <= x
<1>1. PICK U : U = {n - y : y \in T}
  OBVIOUS
<1>2. U \subseteq Nat /\ U # {}
  <2>1. \A y \in T : y \in 0 .. n /\ n - y \in Nat
    OBVIOUS
  <2>2. PICK y \in T : TRUE
    OBVIOUS
  <2>3. n - y \in U
    BY <1>1
  <2>4. U \subseteq Nat
    BY <1>1, <2>1
  <2> QED BY <2>3, <2>4
<1>3. PICK u \in U : \A v \in U : u <= v
  BY <1>2, NatHasMin
<1>4. PICK x \in T : u = n - x
  BY <1>1
<1>5. ASSUME NEW y \in T PROVE y <= x
  <2>1. n - x <= n - y
    BY <1>1, <1>3, <1>4
  <2>2. x \in Nat /\ y \in Nat
    OBVIOUS
  <2> QED BY <2>1, <2>2
<1> QED BY <1>5

Places == 1 .. Len(packets) + 1

\* Addresses and words are packets of different kinds.
LEMMA BurstTypes ==
    ASSUME ChoicesOK
    PROVE  /\ Addresses \subseteq 1 .. Len(packets) /\ Words \subseteq 1 .. Len(packets)
           /\ Addresses \cap Words = {} /\ Len(packets) \in Nat
  BY ChoicesTypes DEF Addresses, Words

\* BurstOf is the last address before the packet.
LEMMA BurstIs ==
    ASSUME ChoicesOK, NEW p \in Places
    PROVE  /\ BurstOf(p) \in 0 .. p - 1 /\ BurstOf(p) \in Nat
           /\ BurstOf(p) # 0 => BurstOf(p) \in Addresses
           /\ \A a \in Addresses : a < p => a <= BurstOf(p)
<1>1. PICK T : T = {0} \cup {a \in Addresses : a < p}
  OBVIOUS
<1>2. T \subseteq 0 .. p - 1 /\ T # {} /\ p - 1 \in Nat
  BY <1>1, BurstTypes DEF Places
<1>3. PICK x \in T : \A y \in T : y <= x
  BY <1>2, BoundedHasMax
<1>4. T \subseteq Nat
  BY <1>2
<1>5. BurstOf(p) = x
  BY <1>1, <1>3, <1>4, MaxIs DEF BurstOf
<1>6. \A a \in Addresses : a < p => a \in T
  BY <1>1
<1> QED BY <1>1, <1>2, <1>3, <1>5, <1>6

\* The last address before the packet is BurstOf.
LEMMA BurstUnique ==
    ASSUME ChoicesOK, NEW p \in Places, NEW b \in 0 .. p - 1, b # 0 => b \in Addresses,
           \A a \in Addresses : a < p => a <= b
    PROVE  BurstOf(p) = b
<1>1. PICK c : c = BurstOf(p)
  OBVIOUS
<1>2. /\ c \in 0 .. p - 1 /\ c \in Nat /\ (c # 0 => c \in Addresses)
      /\ \A a \in Addresses : a < p => a <= c
  BY <1>1, BurstIs
<1>3. p \in Nat /\ b \in Nat
  BY BurstTypes DEF Places
<1>4. c <= b /\ b <= c
  BY <1>2, <1>3
<1> QED BY <1>1, <1>2, <1>3, <1>4

\* An address begins a burst; any other packet is in the burst before it.
LEMMA NextBurst ==
    ASSUME ChoicesOK, NEW p \in 1 .. Len(packets)
    PROVE  BurstOf(p + 1) = IF p \in Addresses THEN p ELSE BurstOf(p)
<1>1. p \in Places /\ p + 1 \in Places /\ p \in Nat /\ p > 0
  BY BurstTypes DEF Places
<1>2. CASE p \in Addresses
  <2>1. \A a \in Addresses : a < p + 1 => a <= p
    BY <1>1, BurstTypes
  <2>2. p \in 0 .. (p + 1) - 1
    BY <1>1
  <2>3. BurstOf(p + 1) = p
    BY <1>1, <1>2, <2>1, <2>2, BurstUnique
  <2> QED BY <1>2, <2>3
<1>3. CASE p \notin Addresses
  <2>1. PICK b : b = BurstOf(p)
    OBVIOUS
  <2>2. /\ b \in 0 .. (p + 1) - 1 /\ (b # 0 => b \in Addresses)
        /\ \A a \in Addresses : a < p => a <= b
    BY <1>1, <2>1, BurstIs
  <2>3. \A a \in Addresses : a < p + 1 => a <= b
    BY <1>1, <1>3, <2>2, BurstTypes
  <2>4. BurstOf(p + 1) = b
    BY <1>1, <2>2, <2>3, BurstUnique
  <2> QED BY <1>3, <2>1, <2>4
<1> QED BY <1>2, <1>3

\* Later packets are in the same burst or in a later one.
LEMMA BurstMonotone ==
    ASSUME ChoicesOK, NEW p \in Places, NEW r \in Places, p <= r
    PROVE  BurstOf(p) <= BurstOf(r)
<1>1. /\ BurstOf(p) \in 0 .. p - 1 /\ BurstOf(p) \in Nat /\ BurstOf(r) \in Nat
      /\ BurstOf(p) # 0 => BurstOf(p) \in Addresses
      /\ \A a \in Addresses : a < r => a <= BurstOf(r)
  BY BurstIs
<1>2. p \in Nat /\ r \in Nat
  BY BurstTypes DEF Places
<1>3. PICK b : b = BurstOf(p)
  OBVIOUS
<1>4. CASE b = 0
  BY <1>1, <1>3, <1>4
<1>5. CASE b # 0
  <2>1. b < r /\ b \in Addresses
    BY <1>1, <1>2, <1>3, <1>5
  <2> QED BY <1>1, <1>3, <2>1
<1> QED BY <1>4, <1>5

Earlier(p) == {q \in Words : BurstOf(q) = BurstOf(p) /\ q < p}

\* A place is a natural number.
LEMMA EarlierFinite ==
    ASSUME ChoicesOK, NEW p
    PROVE  IsFiniteSet(Earlier(p)) /\ Place(p) = Cardinality(Earlier(p)) /\ Place(p) \in Nat
<1>1. IsFiniteSet(1 .. Len(packets))
  BY BurstTypes, FS_Interval
<1>2. Earlier(p) \in SUBSET (1 .. Len(packets))
  BY BurstTypes DEF Earlier
<1>3. IsFiniteSet(Earlier(p))
  BY <1>1, <1>2, FS_Subset
<1>4. Place(p) = Cardinality(Earlier(p))
  BY DEF Place, Earlier
<1> QED BY <1>3, <1>4, FS_CardinalityType

\* A word moves the place, an address sets it to 0.
LEMMA NextPlace ==
    ASSUME ChoicesOK, NEW p \in 1 .. Len(packets)
    PROVE  Place(p + 1) = IF p \in Addresses THEN 0
                          ELSE IF p \in Words THEN Place(p) + 1 ELSE Place(p)
<1>1. p \in Places /\ p + 1 \in Places /\ p \in Nat
  BY BurstTypes DEF Places
<1>2. Words \subseteq Nat /\ Words \subseteq Places
  BY BurstTypes DEF Places
<1>3. CASE p \in Addresses
  <2>1. ASSUME NEW q \in Words, BurstOf(q) = p, q < p + 1 PROVE FALSE
    <3>1. BurstOf(q) \in 0 .. q - 1
      BY <1>2, BurstIs
    <3> QED BY <1>1, <1>2, <2>1, <3>1
  <2>2. Earlier(p + 1) = {}
    BY <1>3, <2>1, NextBurst DEF Earlier
  <2> QED BY <1>3, <2>2, EarlierFinite, FS_EmptySet
<1>4. CASE p \notin Addresses /\ p \in Words
  <2>1. BurstOf(p + 1) = BurstOf(p)
    BY <1>4, NextBurst
  <2>2. Earlier(p + 1) = Earlier(p) \cup {p}
    <3>1. \A q \in Words : q < p + 1 <=> q < p \/ q = p
      BY <1>1, <1>2
    <3> QED BY <1>4, <2>1, <3>1 DEF Earlier
  <2>3. p \notin Earlier(p)
    BY <1>1 DEF Earlier
  <2>4. Cardinality(Earlier(p) \cup {p}) = Cardinality(Earlier(p)) + 1
    BY <2>3, EarlierFinite, FS_AddElement
  <2> QED BY <1>4, <2>2, <2>4, EarlierFinite
<1>5. CASE p \notin Addresses /\ p \notin Words
  <2>1. BurstOf(p + 1) = BurstOf(p)
    BY <1>5, NextBurst
  <2>2. Earlier(p + 1) = Earlier(p)
    <3>1. \A q \in Words : q < p + 1 <=> q < p
      BY <1>1, <1>2, <1>5
    <3> QED BY <2>1, <3>1 DEF Earlier
  <2> QED BY <1>5, <2>2, EarlierFinite
<1> QED BY <1>3, <1>4, <1>5

\* A burst has finitely many words.
LEMMA BurstWordsFinite ==
    ASSUME ChoicesOK, NEW a
    PROVE  IsFiniteSet(BurstWords(a)) /\ Cardinality(BurstWords(a)) \in Nat
<1>1. IsFiniteSet(1 .. Len(packets))
  BY BurstTypes, FS_Interval
<1>2. BurstWords(a) \in SUBSET (1 .. Len(packets))
  BY BurstTypes DEF BurstWords
<1>3. IsFiniteSet(BurstWords(a))
  BY <1>1, <1>2, FS_Subset
<1> QED BY <1>3, FS_CardinalityType

\* A word's place is less than the length of its burst.
LEMMA PlaceInBurst ==
    ASSUME ChoicesOK, NEW p \in Words, BurstOf(p) # 0
    PROVE  Place(p) < Cardinality(BurstWords(BurstOf(p)))
<1>1. Earlier(p) \cup {p} \in SUBSET BurstWords(BurstOf(p))
  BY DEF Earlier, BurstWords
<1>2. p \notin Earlier(p)
  BY BurstTypes DEF Earlier
<1>3. Cardinality(Earlier(p) \cup {p}) = Place(p) + 1
  BY <1>2, EarlierFinite, FS_AddElement
<1>4. Cardinality(Earlier(p) \cup {p}) <= Cardinality(BurstWords(BurstOf(p)))
  BY <1>1, BurstWordsFinite, FS_Subset
<1> QED BY <1>3, <1>4, EarlierFinite, BurstWordsFinite

\* The last word of a burst.
LEMMA LastPlace ==
    ASSUME ChoicesOK, NEW p \in Words, BurstOf(p) # 0,
           \A q \in BurstWords(BurstOf(p)) : q <= p
    PROVE  Place(p) + 1 = Cardinality(BurstWords(BurstOf(p)))
<1>1. Earlier(p) \cup {p} = BurstWords(BurstOf(p))
  <2>1. \A q \in BurstWords(BurstOf(p)) : q = p \/ q < p
    BY BurstTypes DEF BurstWords
  <2> QED BY <2>1 DEF Earlier, BurstWords
<1>2. p \notin Earlier(p)
  BY BurstTypes DEF Earlier
<1> QED BY <1>1, <1>2, EarlierFinite, FS_AddElement

\* The console's bursts to the hook have no more than HookLen words.
LEMMA HookBurstSize ==
    ASSUME ChoicesOK, NEW a \in Addresses, packets[a] = "hookaddr"
    PROVE  Cardinality(BurstWords(a)) <= HookLen
<1> USE HostTraceAssumption
<1>1. CASE BurstWords(a) = {}
  BY <1>1, FS_EmptySet
<1>2. CASE BurstWords(a) # {}
  <2>1. BurstWords(a) \subseteq 0 .. Len(packets)
    BY BurstTypes DEF BurstWords
  <2>2. PICK b \in BurstWords(a) : \A y \in BurstWords(a) : y <= b
    BY <1>2, <2>1, BurstTypes, BoundedHasMax
  <2>3. b \in Words /\ BurstOf(b) = a /\ b \in 1 .. Len(packets) /\ b \in Places
    BY <2>2, BurstTypes DEF BurstWords, Places
  <2>4. \A p \in Addresses : p < b => p <= a
    BY <2>3, BurstIs
  <2>5. a \in 1 .. Len(packets) /\ Len(packets) \in Nat
    BY BurstTypes
  <2>6. \A p \in a + 1 .. b : p \notin Addresses
    <3> SUFFICES ASSUME NEW p \in a + 1 .. b, p \in Addresses PROVE FALSE
      OBVIOUS
    <3>1. p # b
      BY <2>3, BurstTypes
    <3>2. p < b /\ ~ (p <= a)
      BY <2>3, <2>5, <3>1
    <3> QED BY <2>4, <3>2
  <2>7. \A p \in a + 1 .. b : packets[p] \notin {"hookaddr", "addr"}
    BY <2>3, <2>5, <2>6 DEF Addresses
  <2>8. Cardinality({p \in a + 1 .. b : packets[p] \in {"read", "write"}}) <= HookLen
    <3>1. packets \in Streams /\ a \in DOMAIN packets /\ b \in DOMAIN packets
      BY <2>3, <2>5, ChoicesTypes DEF ChoicesOK
    <3> QED BY <2>7, <3>1, StreamsAssumption
  <2>9. PICK W : W = {p \in a + 1 .. b : packets[p] \in {"read", "write"}}
    OBVIOUS
  <2>10. BurstWords(a) \in SUBSET W
    <3> SUFFICES ASSUME NEW p \in BurstWords(a) PROVE p \in W
      OBVIOUS
    <3>1. p \in Words /\ BurstOf(p) = a /\ p <= b /\ p \in Places
      BY <2>2, BurstTypes DEF BurstWords, Places
    <3>2. a \in 0 .. p - 1
      BY <3>1, BurstIs
    <3>3. p \in a + 1 .. b
      BY <2>3, <2>5, <3>1, <3>2, BurstTypes
    <3> QED BY <2>9, <3>1, <3>3 DEF Words
  <2>11. IsFiniteSet(W)
    <3>1. IsFiniteSet(a + 1 .. b)
      BY <2>3, <2>5, FS_Interval
    <3>2. W \in SUBSET (a + 1 .. b)
      BY <2>9
    <3> QED BY <3>1, <3>2, FS_Subset
  <2>12. Cardinality(BurstWords(a)) <= Cardinality(W) /\ Cardinality(W) \in Nat
    BY <2>10, <2>11, FS_Subset, FS_CardinalityType
  <2> QED BY <2>8, <2>9, <2>12, BurstWordsFinite
<1> QED BY <1>1, <1>2

\* A buffer with the checksum of a burst sent to the hook holds that burst.
LEMMA HookBurstIs ==
    ASSUME ChoicesOK, NEW buf \in [0 .. HookLen - 1 -> 0 .. Len(packets)], IsHookBurst(buf)
    PROVE  LET a == BurstOf(buf[0]) IN
           /\ a \in Addresses /\ packets[a] = "hookaddr"
           /\ Cardinality(BurstWords(a)) = HookLen
           /\ \A p \in BurstWords(a) : /\ packets[p] = "write"
                                       /\ \E i \in 0 .. HookLen - 1 : buf[i] = p
           /\ \A i \in 0 .. HookLen - 1 : buf[i] \in BurstWords(a)
<1> USE HostTraceAssumption
<1>1. PICK a : a = BurstOf(buf[0])
  OBVIOUS
<1>2. DOMAIN buf = 0 .. HookLen - 1 /\ 0 \in 0 .. HookLen - 1
  OBVIOUS
<1>3. /\ a # 0 /\ packets[a] = "hookaddr"
      /\ \A i \in 0 .. HookLen - 1 :
            /\ buf[i] # 0 /\ packets[buf[i]] = "write"
            /\ BurstOf(buf[i]) = a /\ Place(buf[i]) = i
  BY <1>1, <1>2 DEF IsHookBurst
<1>4. \A i \in 0 .. HookLen - 1 : buf[i] \in Words /\ buf[i] \in Places
  <2> SUFFICES ASSUME NEW i \in 0 .. HookLen - 1 PROVE buf[i] \in Words /\ buf[i] \in Places
    OBVIOUS
  <2>1. buf[i] \in 0 .. Len(packets) /\ buf[i] # 0 /\ packets[buf[i]] = "write"
    BY <1>3
  <2>2. buf[i] \in 1 .. Len(packets)
    BY <2>1, BurstTypes
  <2> QED BY <2>1, <2>2, BurstTypes DEF Words, Places
<1>5. a \in Addresses
  BY <1>1, <1>2, <1>3, <1>4, BurstIs
<1>6. \A i \in 0 .. HookLen - 1 : buf[i] \in BurstWords(a)
  BY <1>3, <1>4 DEF BurstWords
<1>7. buf \in Injection(0 .. HookLen - 1, BurstWords(a))
  <2>1. buf \in [0 .. HookLen - 1 -> BurstWords(a)]
    BY <1>6
  <2>2. \A i, j \in 0 .. HookLen - 1 : buf[i] = buf[j] => i = j
    <3> SUFFICES ASSUME NEW i \in 0 .. HookLen - 1, NEW j \in 0 .. HookLen - 1,
                        buf[i] = buf[j]
                 PROVE  i = j
      OBVIOUS
    <3>1. Place(buf[i]) = i /\ Place(buf[j]) = j
      BY <1>3
    <3> QED BY <3>1
  <2> QED BY <1>2, <2>1, <2>2 DEF Injection, IsInjective
<1>8. IsFiniteSet(0 .. HookLen - 1) /\ Cardinality(0 .. HookLen - 1) = HookLen
  BY FS_Interval
<1>9. Cardinality(BurstWords(a)) <= HookLen /\ Cardinality(BurstWords(a)) \in Nat
      /\ IsFiniteSet(BurstWords(a))
  BY <1>3, <1>5, HookBurstSize, BurstWordsFinite
<1>10. /\ Cardinality(0 .. HookLen - 1) <= Cardinality(BurstWords(a))
       /\ Cardinality(0 .. HookLen - 1) = Cardinality(BurstWords(a)) <=>
            buf \in Surjection(0 .. HookLen - 1, BurstWords(a))
  BY <1>7, <1>9, FS_Injection
<1>11. Cardinality(BurstWords(a)) = HookLen
  BY <1>8, <1>9, <1>10
<1>12. \A p \in BurstWords(a) : \E i \in 0 .. HookLen - 1 : buf[i] = p
  BY <1>2, <1>8, <1>10, <1>11 DEF Surjection
<1>13. \A p \in BurstWords(a) : packets[p] = "write"
  BY <1>3, <1>12
<1> QED BY <1>1, <1>3, <1>5, <1>6, <1>11, <1>12, <1>13

-----------------------------------------------------------------------------
(* The parser after the first m packets *)

ParserStates ==
    [lastAddr : Nat, burstIndex : Nat, lastReadAddr : Nat, lastWriteAddr : Nat,
     buf : [0 .. HookLen - 1 -> 0 .. Len(packets)], ok : BOOLEAN, overrun : BOOLEAN,
     dispatched : Seq(Nat), accepted : Seq(Nat), where : Seq(Nat)]

\* The packets accepted out of the first m.
Took(m) == 1 .. m \ {Hit}
AddressLost == damage.what = "packet" /\ damage.at \in Addresses
Unbroken(a, m) == Hit \notin {p \in a .. m : packets[p] # "timestamp"}

\* A hook burst that has been accepted whole.
Completed(a, m) ==
    /\ a \in Addresses /\ packets[a] = "hookaddr"
    /\ Cardinality(BurstWords(a)) = HookLen
    /\ \A p \in BurstWords(a) : packets[p] = "write" /\ p \in Took(m)

Noted(st, m) ==
    /\ st.accepted = Undamaged(m) /\ Len(st.where) = Len(st.accepted)
    /\ \A i \in 1 .. Len(st.accepted) :
         LET p == st.accepted[i]
             a == BurstOf(p) IN
         (p \in Words /\ a # 0 /\ Hit \notin a .. p - 1) =>
             st.where[i] = AddrOf(packets[a]) + Place(p)
\* The parser knows where it is in a burst of which nothing was damaged.
Following(st, m) ==
    LET a == BurstOf(m + 1) IN
    (a # 0 /\ Unbroken(a, m)) =>
        st.lastAddr = AddrOf(packets[a]) /\ st.burstIndex = Place(m + 1)
\* It takes a burst for the hook's only if it is, unless an address was damaged.
AtTheHook(st, m) ==
    LET a == BurstOf(m + 1) IN
    st.lastAddr = HookAddr =>
        \/ AddressLost
        \/ a # 0 /\ packets[a] = "hookaddr" /\ st.burstIndex <= Place(m + 1)
Collected(st, m) ==
    /\ \A i \in 0 .. HookLen - 1 : st.buf[i] # 0 => st.buf[i] \in Took(m)
    /\ st.overrun => AddressLost
Dispatched(st, m) ==
    /\ \A i, j \in 1 .. Len(st.dispatched) :
          i < j => st.dispatched[i] < st.dispatched[j]
    /\ \A i \in 1 .. Len(st.dispatched) : Completed(st.dispatched[i], m)
NoneMissed(st, m) ==
    st.ok => \A a \in Took(m) : Completed(a, m) =>
               \E i \in 1 .. Len(st.dispatched) : st.dispatched[i] = a

Passed(m) == m \in Shift .. Len(packets) /\ (OutOfStep => m < Hit)
Parsed(st, m) ==
    /\ Passed(m) /\ st \in ParserStates
    /\ Noted(st, m) /\ Following(st, m) /\ AtTheHook(st, m) /\ Collected(st, m)
    /\ Dispatched(st, m) /\ NoneMissed(st, m)

\* The types of a position in the stream.
LEMMA PassedTypes ==
    ASSUME ChoicesOK, NEW m, Passed(m)
    PROVE  /\ m \in Nat /\ m \in 0 .. Len(packets) /\ m + 1 \in Places
           /\ Hit \in Nat /\ (Shift = 1 => Hit = 1 /\ m >= 1)
  BY BurstTypes, HitIs DEF Passed, Shift, Places

-----------------------------------------------------------------------------
(* One packet more *)

\* The first n packets but the damaged one, as a sequence.
LEMMA UndamagedType ==
    ASSUME ChoicesOK, NEW m \in 0 .. Len(packets)
    PROVE  /\ Undamaged(m) \in Seq(Nat)
           /\ Len(Undamaged(m)) = IF Hit \in 1 .. m THEN m - 1 ELSE m
           /\ \A i \in 1 .. Len(Undamaged(m)) :
                Undamaged(m)[i] = IF Hit \in 1 .. i THEN i + 1 ELSE i
<1>1. PICK c : c = IF Hit \in 1 .. m THEN m - 1 ELSE m
  OBVIOUS
<1>2. c \in Nat
  BY <1>1, HitIs, BurstTypes
<1>3. PICK u : u = [i \in 1 .. c |-> IF Hit \in 1 .. i THEN i + 1 ELSE i]
  OBVIOUS
<1>4. \A i \in 1 .. c : (IF Hit \in 1 .. i THEN i + 1 ELSE i) \in Nat
  OBVIOUS
<1>5. u \in [1 .. c -> Nat]
  BY <1>3, <1>4
<1>6. u \in Seq(Nat) /\ Len(u) = c
  BY <1>2, <1>3, <1>5
<1>7. Undamaged(m) = u
  BY <1>1, <1>3 DEF Undamaged
<1> QED BY <1>1, <1>3, <1>6, <1>7

\* With the next packet the sequence is longer by that packet, unless it was damaged.
LEMMA NextUndamaged ==
    ASSUME ChoicesOK, NEW m \in Nat, m + 1 <= Len(packets)
    PROVE  Undamaged(m + 1) = IF m + 1 = Hit THEN Undamaged(m) ELSE Append(Undamaged(m), m + 1)
<1>1. PICK u, v : u = Undamaged(m) /\ v = Undamaged(m + 1)
  OBVIOUS
<1>2. m \in 0 .. Len(packets) /\ m + 1 \in 0 .. Len(packets) /\ Hit \in Nat
  BY BurstTypes, HitIs
<1>3. /\ u \in Seq(Nat)
      /\ Len(u) = IF Hit \in 1 .. m THEN m - 1 ELSE m
      /\ \A i \in 1 .. Len(u) : u[i] = IF Hit \in 1 .. i THEN i + 1 ELSE i
  BY <1>1, <1>2, UndamagedType
<1>4. /\ v \in Seq(Nat)
      /\ Len(v) = IF Hit \in 1 .. m + 1 THEN m ELSE m + 1
      /\ \A i \in 1 .. Len(v) : v[i] = IF Hit \in 1 .. i THEN i + 1 ELSE i
  BY <1>1, <1>2, UndamagedType
<1>5. CASE m + 1 = Hit
  <2>1. Len(u) = m /\ Len(v) = m
    BY <1>2, <1>3, <1>4, <1>5
  <2>2. \A i \in 1 .. Len(u) : u[i] = v[i]
    BY <1>3, <1>4, <2>1
  <2>3. u = v
    BY <1>3, <1>4, <2>1, <2>2, EqualSequences
  <2> QED BY <1>1, <1>5, <2>3
<1>6. CASE m + 1 # Hit
  <2>1. PICK w : w = Append(u, m + 1)
    OBVIOUS
  <2>2. /\ w \in Seq(Nat) /\ Len(w) = Len(u) + 1 /\ w[Len(u) + 1] = m + 1
        /\ \A i \in 1 .. Len(u) : w[i] = u[i]
    BY <1>3, <2>1
  <2>3. Len(v) = Len(u) + 1 /\ Len(u) \in Nat
    BY <1>2, <1>3, <1>4, <1>6
  <2>4. v[Len(u) + 1] = m + 1
    BY <1>2, <1>3, <1>4, <1>6, <2>3
  <2>5. \A i \in 1 .. Len(w) : w[i] = v[i]
    <3> SUFFICES ASSUME NEW i \in 1 .. Len(w) PROVE w[i] = v[i]
      OBVIOUS
    <3>1. CASE i = Len(u) + 1
      BY <2>2, <2>4, <3>1
    <3>2. CASE i # Len(u) + 1
      <4>1. i \in 1 .. Len(u) /\ i \in 1 .. Len(v)
        BY <2>2, <2>3, <3>2
      <4> QED BY <1>3, <1>4, <2>2, <4>1
    <3> QED BY <3>1, <3>2
  <2>6. w = v
    BY <1>4, <2>2, <2>3, <2>5, EqualSequences
  <2> QED BY <1>1, <1>6, <2>1, <2>6
<1> QED BY <1>5, <1>6

\* The sequence has no other elements.
LEMMA UndamagedElements ==
    ASSUME ChoicesOK, NEW m \in 0 .. Len(packets)
    PROVE  \A i \in 1 .. Len(Undamaged(m)) : Undamaged(m)[i] \in Took(m)
<1> SUFFICES ASSUME NEW i \in 1 .. Len(Undamaged(m)) PROVE Undamaged(m)[i] \in Took(m)
  OBVIOUS
<1>1. Hit \in Nat /\ m \in Nat
  BY HitIs, BurstTypes
<1>2. /\ i \in 1 .. (IF Hit \in 1 .. m THEN m - 1 ELSE m)
      /\ Undamaged(m)[i] = IF Hit \in 1 .. i THEN i + 1 ELSE i
  BY UndamagedType
<1> QED BY <1>1, <1>2 DEF Took

\* The packets accepted with the next one.
LEMMA NextTook ==
    ASSUME ChoicesOK, NEW m \in Nat
    PROVE  /\ Took(m) \subseteq Took(m + 1)
           /\ Took(m + 1) = IF m + 1 = Hit THEN Took(m) ELSE Took(m) \cup {m + 1}
           /\ m + 1 \notin Took(m) /\ Hit \notin Took(m)
  BY DEF Took

\* A burst accepted whole stays so, and has no word to come.
LEMMA NextCompleted ==
    ASSUME ChoicesOK, NEW m \in Nat, m + 1 <= Len(packets), NEW a
    PROVE  /\ Completed(a, m) => Completed(a, m + 1)
           /\ Completed(a, m + 1) /\ m + 1 \notin BurstWords(a) => Completed(a, m)
           /\ Completed(a, m) => m + 1 \notin BurstWords(a)
           /\ Completed(a, m) => \E p \in BurstWords(a) : p \in Took(m)
<1>1. Completed(a, m) => Completed(a, m + 1)
  BY NextTook DEF Completed
<1>2. Completed(a, m + 1) /\ m + 1 \notin BurstWords(a) => Completed(a, m)
  BY NextTook DEF Completed
<1>3. Completed(a, m) => m + 1 \notin BurstWords(a)
  BY NextTook DEF Completed
<1>4. Completed(a, m) => \E p \in BurstWords(a) : p \in Took(m)
  <2>1. Completed(a, m) => BurstWords(a) # {}
    BY FS_EmptySet, HostTraceAssumption DEF Completed
  <2> QED BY <2>1 DEF Completed
<1> QED BY <1>1, <1>2, <1>3, <1>4

\* Every packet of a burst that is accepted whole was right.
LEMMA CompletedUnbroken ==
    ASSUME ChoicesOK, NEW m \in Nat, m + 1 <= Len(packets), m + 1 \in Words,
           m + 1 # Hit, Completed(BurstOf(m + 1), m + 1), BurstOf(m + 1) # Hit
    PROVE  /\ BurstOf(m + 1) # 0 /\ Unbroken(BurstOf(m + 1), m)
           /\ Place(m + 1) = HookLen - 1
<1>1. PICK a : a = BurstOf(m + 1)
  OBVIOUS
<1>2. m + 1 \in Places /\ m + 1 \in Nat
  BY BurstTypes DEF Places
<1>3. /\ a \in 0 .. m /\ a # 0 /\ a \in Addresses /\ a \in Nat
      /\ \A b \in Addresses : b < m + 1 => b <= a
  <2>1. a \in 0 .. (m + 1) - 1 /\ a \in Nat /\ \A b \in Addresses : b < m + 1 => b <= a
    BY <1>1, <1>2, BurstIs
  <2>2. a \in Addresses
    BY <1>1 DEF Completed
  <2>3. a # 0
    BY <2>2, BurstTypes
  <2> QED BY <2>1, <2>2, <2>3
<1>4. m + 1 \in BurstWords(a)
  BY <1>1, <1>3 DEF BurstWords
<1>5. ASSUME Hit \in a .. m, packets[Hit] # "timestamp" PROVE FALSE
  <2>1. Hit \in 1 .. Len(packets) /\ Hit \in Places /\ a < Hit /\ Hit < m + 1
    BY <1>1, <1>3, <1>5, HitIs, BurstTypes DEF Places
  <2>2. Hit \notin Addresses
    BY <1>3, <2>1, BurstTypes
  <2>3. packets[Hit] \in Kinds
    BY <2>1, ChoicesTypes
  <2>4. Hit \in Words
    BY <1>5, <2>1, <2>2, <2>3 DEF Words, Addresses, Kinds
  <2>5. a <= BurstOf(Hit) /\ BurstOf(Hit) <= a /\ BurstOf(Hit) \in Nat
    BY <1>1, <1>2, <1>3, <2>1, BurstIs, BurstMonotone
  <2>6. Hit \in BurstWords(a)
    BY <1>3, <2>4, <2>5 DEF BurstWords
  <2> QED BY <1>1, <2>6 DEF Completed, Took
<1>6. \A q \in BurstWords(a) : q <= m + 1
  BY <1>1 DEF Completed, Took
<1>7. Place(m + 1) + 1 = Cardinality(BurstWords(a))
  BY <1>1, <1>3, <1>6, LastPlace
<1>8. Place(m + 1) + 1 = HookLen /\ Place(m + 1) \in Nat
  BY <1>1, <1>7, EarlierFinite DEF Completed
<1> QED BY <1>1, <1>3, <1>5, <1>8, HostTraceAssumption DEF Unbroken

\* A packet that was damaged is skipped.
LEMMA SkipStep ==
    ASSUME ChoicesOK, NEW st, NEW m, Parsed(st, m), m + 1 = Hit, Passed(m + 1)
    PROVE  Parsed(st, m + 1)
<1>1. m \in Nat /\ m + 1 \in Nat /\ m + 1 \in 1 .. Len(packets) /\ m + 1 \in Places
  BY PassedTypes, BurstTypes DEF Parsed, Places
<1>2. Noted(st, m + 1)
  BY <1>1, NextUndamaged DEF Parsed, Noted
<1>3. PICK a, b : a = BurstOf(m + 1) /\ b = BurstOf(m + 1 + 1)
  OBVIOUS
<1>4. b = IF m + 1 \in Addresses THEN m + 1 ELSE a
  BY <1>1, <1>3, NextBurst
<1>5. Place(m + 1 + 1) = IF m + 1 \in Addresses THEN 0
                         ELSE IF m + 1 \in Words THEN Place(m + 1) + 1 ELSE Place(m + 1)
  BY <1>1, NextPlace
<1>6. a \in 0 .. m /\ a \in Nat /\ Place(m + 1) \in Nat
  BY <1>1, <1>3, BurstIs, EarlierFinite
<1>7. packets[m + 1] = "timestamp" <=> m + 1 \notin Addresses \cup Words
  <2>1. packets[m + 1] \in Kinds
    BY <1>1, ChoicesTypes
  <2> QED BY <1>1, <2>1 DEF Addresses, Words, Kinds
<1>8. Following(st, m + 1)
  <2> SUFFICES ASSUME b # 0, Unbroken(b, m + 1)
               PROVE  st.lastAddr = AddrOf(packets[b]) /\ st.burstIndex = Place(m + 1 + 1)
    BY <1>3 DEF Following
  <2>1. m + 1 \in b .. m + 1
    BY <1>1, <1>4, <1>6
  <2>2. packets[m + 1] = "timestamp"
    BY <2>1 DEF Unbroken
  <2>3. b = a /\ Place(m + 1 + 1) = Place(m + 1)
    BY <1>4, <1>5, <1>7, <2>2
  <2>4. Unbroken(a, m)
    BY <1>1, <1>6, <2>3 DEF Unbroken
  <2> QED BY <1>3, <2>3, <2>4 DEF Parsed, Following
<1>9. AtTheHook(st, m + 1)
  <2> SUFFICES ASSUME st.lastAddr = HookAddr, ~ AddressLost
               PROVE  /\ b # 0 /\ packets[b] = "hookaddr"
                      /\ st.burstIndex <= Place(m + 1 + 1)
    BY <1>3 DEF AtTheHook
  <2>1. a # 0 /\ packets[a] = "hookaddr" /\ st.burstIndex <= Place(m + 1)
    BY <1>3 DEF Parsed, AtTheHook
  <2>2. m + 1 \notin Addresses
    <3>1. CASE damage.what = "packet"
      BY <3>1, HitIs DEF AddressLost
    <3>2. CASE damage.what = "byte"
      BY <3>2, HitIs DEF Passed, OutOfStep, Parsed, Shift
    <3>3. CASE damage.what = "none"
      BY <1>1, <3>3, HitIs
    <3> QED BY <3>1, <3>2, <3>3 DEF ChoicesOK
  <2>3. st.burstIndex \in Nat
    BY DEF Parsed, ParserStates
  <2> QED BY <1>4, <1>5, <1>6, <2>1, <2>2, <2>3
<1>10. Took(m + 1) = Took(m)
  BY <1>1, NextTook
<1>11. \A x : Completed(x, m + 1) <=> Completed(x, m)
  BY <1>10 DEF Completed
<1>12. Collected(st, m + 1)
  BY <1>10 DEF Parsed, Collected
<1>13. Dispatched(st, m + 1)
  BY <1>11 DEF Parsed, Dispatched
<1>14. NoneMissed(st, m + 1)
  BY <1>10, <1>11 DEF Parsed, NoneMissed
<1> QED BY <1>2, <1>8, <1>9, <1>12, <1>13, <1>14 DEF Parsed

\* What every packet accepted has in common.
LEMMA AcceptStep ==
    ASSUME ChoicesOK, NEW st, NEW m, Parsed(st, m), m + 1 # Hit, Passed(m + 1),
           NEW t \in ParserStates, NEW w \in Nat,
           t.accepted = Append(st.accepted, m + 1), t.where = Append(st.where, w),
           (m + 1 \in Words /\ BurstOf(m + 1) # 0 /\ Hit \notin BurstOf(m + 1) .. m) =>
              w = AddrOf(packets[BurstOf(m + 1)]) + Place(m + 1)
    PROVE  Noted(t, m + 1)
<1>1. m \in Nat /\ m + 1 \in Nat /\ m + 1 \in 1 .. Len(packets)
  BY PassedTypes, BurstTypes DEF Parsed, Places
<1>2. t.accepted = Undamaged(m + 1)
  <2>1. st.accepted = Undamaged(m)
    BY DEF Parsed, Noted
  <2>2. m + 1 <= Len(packets)
    BY <1>1
  <2>3. Undamaged(m + 1) = Append(Undamaged(m), m + 1)
    BY <1>1, <2>2, NextUndamaged
  <2> QED BY <2>1, <2>3
<1>3. st.accepted \in Seq(Nat) /\ st.where \in Seq(Nat) /\ Len(st.where) = Len(st.accepted)
  BY DEF Parsed, Noted, ParserStates
<1>4. PICK s, u, n : s = st.accepted /\ u = st.where /\ n = Len(st.accepted)
  OBVIOUS
<1>5. /\ n \in Nat /\ Len(t.accepted) = n + 1 /\ Len(t.where) = n + 1
      /\ t.accepted[n + 1] = m + 1 /\ t.where[n + 1] = w
      /\ \A i \in 1 .. n : t.accepted[i] = s[i] /\ t.where[i] = u[i]
  <2>1. s \in Seq(Nat) /\ u \in Seq(Nat) /\ Len(s) = n /\ Len(u) = n /\ n \in Nat
    BY <1>3, <1>4
  <2>2. t.accepted = Append(s, m + 1) /\ t.where = Append(u, w)
    BY <1>4
  <2> QED BY <2>1, <2>2
<1>6. ASSUME NEW i \in 1 .. n + 1
      PROVE  LET p == t.accepted[i]
                 a == BurstOf(p) IN
             (p \in Words /\ a # 0 /\ Hit \notin a .. p - 1) =>
                 t.where[i] = AddrOf(packets[a]) + Place(p)
  <2>1. CASE i = n + 1
    <3>1. t.accepted[i] = m + 1 /\ t.where[i] = w /\ (m + 1) - 1 = m
      BY <1>1, <1>5, <2>1
    <3> QED BY <3>1
  <2>2. CASE i # n + 1
    <3>1. i \in 1 .. n
      BY <1>5, <2>2
    <3>2. t.accepted[i] = st.accepted[i] /\ t.where[i] = st.where[i] /\ i \in 1 .. Len(st.accepted)
      BY <1>4, <1>5, <3>1
    <3> QED BY <3>2 DEF Parsed, Noted
  <2> QED BY <2>1, <2>2
<1> QED BY <1>2, <1>5, <1>6 DEF Noted

\* What the accepted packet leaves of the dispatched bursts.
LEMMA SameDispatched ==
    ASSUME ChoicesOK, NEW st, NEW m, Parsed(st, m), Passed(m + 1),
           NEW t, t.dispatched = st.dispatched
    PROVE  Dispatched(t, m + 1)
<1>1. m \in Nat /\ m + 1 <= Len(packets)
  BY PassedTypes, BurstTypes DEF Parsed
<1>2. \A x : Completed(x, m) => Completed(x, m + 1)
  BY <1>1, NextCompleted
<1> QED BY <1>2 DEF Parsed, Dispatched

\* What it leaves of the collected words.
LEMMA SameCollected ==
    ASSUME ChoicesOK, NEW st, NEW m, Parsed(st, m), Passed(m + 1),
           NEW t, t.buf = st.buf, t.overrun = st.overrun
    PROVE  Collected(t, m + 1)
<1>1. m \in Nat
  BY PassedTypes DEF Parsed
<1> QED BY <1>1, NextTook DEF Parsed, Collected

\* No burst is completed by a packet that is not its last word.
LEMMA NoneCompleted ==
    ASSUME ChoicesOK, NEW st, NEW m, Parsed(st, m), Passed(m + 1),
           NEW t, t.dispatched = st.dispatched, t.ok => st.ok,
           t.ok /\ m + 1 \in Words => ~ (/\ Completed(BurstOf(m + 1), m + 1)
                                        /\ BurstOf(m + 1) \in Took(m + 1))
    PROVE  NoneMissed(t, m + 1)
<1>1. m \in Nat /\ m + 1 <= Len(packets) /\ m + 1 \in Nat
  BY PassedTypes, BurstTypes DEF Parsed
<1> SUFFICES ASSUME t.ok, NEW a \in Took(m + 1), Completed(a, m + 1)
             PROVE  \E i \in 1 .. Len(t.dispatched) : t.dispatched[i] = a
  BY DEF NoneMissed
<1>2. m + 1 \notin BurstWords(a)
  BY DEF BurstWords
<1>3. Completed(a, m)
  BY <1>1, <1>2, NextCompleted
<1>4. a # m + 1
  <2>1. PICK p \in BurstWords(a) : p \in Took(m)
    BY <1>1, <1>3, NextCompleted
  <2>2. p \in Words /\ BurstOf(p) = a /\ p \in Places /\ p \in 1 .. m
    BY <2>1, BurstTypes DEF BurstWords, Took, Places
  <2>3. a \in 0 .. p - 1
    BY <2>2, BurstIs
  <2> QED BY <1>1, <2>2, <2>3
<1>5. a \in Took(m)
  <2>1. Took(m + 1) \subseteq Took(m) \cup {m + 1}
    BY <1>1, NextTook
  <2> QED BY <1>4, <2>1
<1> QED BY <1>3, <1>5 DEF Parsed, NoneMissed

\* Where the next packet is in its burst.
LEMMA NextInBurst ==
    ASSUME ChoicesOK, NEW m, Passed(m), Passed(m + 1)
    PROVE  LET q == m + 1 IN
           /\ q \in 1 .. Len(packets) /\ q \in Nat /\ m \in Nat /\ q \in Places
           /\ BurstOf(q) \in 0 .. m /\ Place(q) \in Nat
           /\ BurstOf(q + 1) = IF q \in Addresses THEN q ELSE BurstOf(q)
           /\ Place(q + 1) = IF q \in Addresses THEN 0
                             ELSE IF q \in Words THEN Place(q) + 1 ELSE Place(q)
           /\ BurstOf(q) # 0 /\ Unbroken(BurstOf(q), q) => Unbroken(BurstOf(q), m)
           /\ BurstOf(q) # 0 /\ Hit \notin BurstOf(q) .. m => Unbroken(BurstOf(q), m)
<1>1. PICK q : q = m + 1
  OBVIOUS
<1>2. q \in 1 .. Len(packets) /\ q \in Nat /\ m \in Nat /\ q \in Places /\ q - 1 = m
  BY <1>1, PassedTypes, BurstTypes DEF Places
<1>3. BurstOf(q) \in 0 .. m /\ Place(q) \in Nat
  BY <1>2, BurstIs, EarlierFinite
<1>4. BurstOf(q + 1) = IF q \in Addresses THEN q ELSE BurstOf(q)
  BY <1>2, NextBurst
<1>5. Place(q + 1) = IF q \in Addresses THEN 0
                     ELSE IF q \in Words THEN Place(q) + 1 ELSE Place(q)
  BY <1>2, NextPlace
<1>6. Unbroken(BurstOf(q), q) => Unbroken(BurstOf(q), m)
  BY <1>1, <1>2, <1>3 DEF Unbroken
<1>7. Hit \notin BurstOf(q) .. m => Unbroken(BurstOf(q), m)
  BY DEF Unbroken
<1> QED BY <1>1, <1>2, <1>3, <1>4, <1>5, <1>6, <1>7

-----------------------------------------------------------------------------
(* Words, addresses and timestamps *)

\* What Accept changes.
LEMMA AcceptIs ==
    ASSUME NEW st \in ParserStates, NEW p \in Nat, NEW w \in Nat
    PROVE  LET s == Accept(st, p, w) IN
           /\ s.accepted = Append(st.accepted, p) /\ s.where = Append(st.where, w)
           /\ s.dispatched = st.dispatched /\ s.buf = st.buf /\ s.overrun = st.overrun
           /\ s.lastAddr = st.lastAddr /\ s.burstIndex = st.burstIndex
           /\ s.lastReadAddr = st.lastReadAddr /\ s.lastWriteAddr = st.lastWriteAddr
           /\ s.ok = st.ok /\ s \in ParserStates
<1>1. PICK r : r = [st EXCEPT !.accepted = Append(@, p)]
  OBVIOUS
<1>2. Append(st.accepted, p) \in Seq(Nat) /\ Append(st.where, w) \in Seq(Nat)
  BY DEF ParserStates
<1>3. /\ r.accepted = Append(st.accepted, p) /\ r.where = st.where
      /\ r.dispatched = st.dispatched /\ r.buf = st.buf /\ r.overrun = st.overrun
      /\ r.lastAddr = st.lastAddr /\ r.burstIndex = st.burstIndex
      /\ r.lastReadAddr = st.lastReadAddr /\ r.lastWriteAddr = st.lastWriteAddr
      /\ r.ok = st.ok
  BY <1>1 DEF ParserStates
<1>4. r \in ParserStates
  BY <1>1, <1>2 DEF ParserStates
<1>5. PICK s : s = [r EXCEPT !.where = Append(@, w)]
  OBVIOUS
<1>6. Accept(st, p, w) = s
  BY <1>1, <1>5 DEF Accept, ParserStates
<1>7. /\ s.where = Append(r.where, w) /\ s.accepted = r.accepted
      /\ s.dispatched = r.dispatched /\ s.buf = r.buf /\ s.overrun = r.overrun
      /\ s.lastAddr = r.lastAddr /\ s.burstIndex = r.burstIndex
      /\ s.lastReadAddr = r.lastReadAddr /\ s.lastWriteAddr = r.lastWriteAddr
      /\ s.ok = r.ok
  BY <1>4, <1>5 DEF ParserStates
<1>8. s \in ParserStates
  BY <1>2, <1>3, <1>4, <1>5 DEF ParserStates
<1> QED BY <1>3, <1>6, <1>7, <1>8

\* A word accepted leaves the parser one further in its burst.
LEMMA WordFollowed ==
    ASSUME ChoicesOK, NEW st, NEW m, Parsed(st, m), Passed(m + 1), m + 1 \in Words,
           NEW t, t.lastAddr = st.lastAddr, t.burstIndex = st.burstIndex + 1
    PROVE  /\ Following(t, m + 1) /\ AtTheHook(t, m + 1)
           /\ (BurstOf(m + 1) # 0 /\ Hit \notin BurstOf(m + 1) .. m) =>
                 st.lastAddr + st.burstIndex = AddrOf(packets[BurstOf(m + 1)]) + Place(m + 1)
<1>0. Passed(m) /\ st.burstIndex \in Nat /\ st.lastAddr \in Nat
  BY DEF Parsed, ParserStates
<1>1. PICK a, b : a = BurstOf(m + 1) /\ b = BurstOf(m + 1 + 1)
  OBVIOUS
<1>2. /\ m \in Nat /\ Place(m + 1) \in Nat /\ a \in 0 .. m
      /\ b = a /\ Place(m + 1 + 1) = Place(m + 1) + 1
      /\ a # 0 /\ Unbroken(a, m + 1) => Unbroken(a, m)
      /\ a # 0 /\ Hit \notin a .. m => Unbroken(a, m)
  <2>1. m + 1 \notin Addresses
    BY BurstTypes
  <2> QED BY <1>0, <1>1, <2>1, NextInBurst
<1>3. (a # 0 /\ Unbroken(a, m)) =>
         st.lastAddr = AddrOf(packets[a]) /\ st.burstIndex = Place(m + 1)
  BY <1>1 DEF Parsed, Following
<1>4. Following(t, m + 1)
  BY <1>1, <1>2, <1>3 DEF Following
<1>5. st.lastAddr = HookAddr =>
        \/ AddressLost
        \/ a # 0 /\ packets[a] = "hookaddr" /\ st.burstIndex <= Place(m + 1)
  BY <1>1 DEF Parsed, AtTheHook
<1>6. AtTheHook(t, m + 1)
  BY <1>0, <1>1, <1>2, <1>5 DEF AtTheHook
<1> QED BY <1>1, <1>2, <1>3, <1>4, <1>6

\* A packet that is no word: an address ...
LEMMA AddressStep ==
    ASSUME ChoicesOK, NEW st, NEW m, Parsed(st, m), m + 1 # Hit, Passed(m + 1),
           m + 1 \in Addresses
    PROVE  Parsed(ParseAddr(st, m + 1), m + 1)
<1>0. Passed(m) /\ st \in ParserStates
  BY DEF Parsed
<1>1. PICK t : t = ParseAddr(st, m + 1)
  OBVIOUS
<1>2. /\ m \in Nat /\ m + 1 \in Nat /\ m + 1 \in 1 .. Len(packets)
      /\ BurstOf(m + 1 + 1) = m + 1 /\ Place(m + 1 + 1) = 0
  BY <1>0, NextInBurst
<1>3. /\ t.accepted = Append(st.accepted, m + 1) /\ t.where = Append(st.where, 0)
      /\ t.lastAddr = AddrOf(packets[m + 1]) /\ t.burstIndex = 0
      /\ t.dispatched = st.dispatched /\ t.buf = st.buf /\ t.overrun = st.overrun
      /\ t.ok = st.ok /\ t \in ParserStates
  <2>1. PICK s : s = Accept(st, m + 1, 0)
    OBVIOUS
  <2>2. /\ s.accepted = Append(st.accepted, m + 1) /\ s.where = Append(st.where, 0)
        /\ s.dispatched = st.dispatched /\ s.buf = st.buf /\ s.overrun = st.overrun
        /\ s.ok = st.ok /\ s \in ParserStates
    <3>1. m + 1 \in Nat /\ 0 \in Nat
      BY <1>2
    <3> QED BY <1>0, <2>1, <3>1, AcceptIs, Zenon
  <2>3. AddrOf(packets[m + 1]) \in Nat
    BY DEF AddrOf, HookAddr, OtherAddr
  <2>4. t = [s EXCEPT !.lastAddr = AddrOf(packets[m + 1]), !.burstIndex = 0]
    BY <1>1, <2>1 DEF ParseAddr
  <2> QED BY <2>2, <2>3, <2>4 DEF ParserStates
<1>4. m + 1 \notin Words
  BY BurstTypes
<1>5. Noted(t, m + 1)
  BY <1>3, <1>4, AcceptStep
<1>6. Following(t, m + 1)
  BY <1>2, <1>3 DEF Following
<1>7. AtTheHook(t, m + 1)
  <2>1. t.lastAddr = HookAddr => packets[m + 1] = "hookaddr"
    BY <1>3 DEF AddrOf, HookAddr, OtherAddr
  <2> QED BY <1>2, <1>3, <2>1 DEF AtTheHook
<1>8. Collected(t, m + 1) /\ Dispatched(t, m + 1)
  BY <1>3, SameCollected, SameDispatched
<1>9. NoneMissed(t, m + 1)
  BY <1>3, <1>4, NoneCompleted
<1> QED BY <1>1, <1>3, <1>5, <1>6, <1>7, <1>8, <1>9 DEF Parsed

\* ... or a timestamp.
LEMMA TimestampStep ==
    ASSUME ChoicesOK, NEW st, NEW m, Parsed(st, m), m + 1 # Hit, Passed(m + 1),
           m + 1 \notin Addresses, m + 1 \notin Words
    PROVE  Parsed(Accept(st, m + 1, 0), m + 1)
<1>0. Passed(m) /\ st \in ParserStates
  BY DEF Parsed
<1>1. PICK t : t = Accept(st, m + 1, 0)
  OBVIOUS
<1>2. /\ m \in Nat /\ m + 1 \in Nat /\ m + 1 \in 1 .. Len(packets)
      /\ BurstOf(m + 1 + 1) = BurstOf(m + 1) /\ Place(m + 1 + 1) = Place(m + 1)
      /\ BurstOf(m + 1) # 0 /\ Unbroken(BurstOf(m + 1), m + 1) => Unbroken(BurstOf(m + 1), m)
  BY <1>0, NextInBurst
<1>3. /\ t.accepted = Append(st.accepted, m + 1) /\ t.where = Append(st.where, 0)
      /\ t.dispatched = st.dispatched /\ t.buf = st.buf /\ t.overrun = st.overrun
      /\ t.lastAddr = st.lastAddr /\ t.burstIndex = st.burstIndex
      /\ t.ok = st.ok /\ t \in ParserStates
  <2>1. m + 1 \in Nat /\ 0 \in Nat
    BY <1>2
  <2> QED BY <1>0, <1>1, <2>1, AcceptIs, Zenon
<1>5. Noted(t, m + 1)
  BY <1>3, AcceptStep
<1>6. Following(t, m + 1)
  BY <1>2, <1>3 DEF Following, Parsed
<1>7. AtTheHook(t, m + 1)
  BY <1>2, <1>3 DEF AtTheHook, Parsed
<1>8. Collected(t, m + 1) /\ Dispatched(t, m + 1)
  BY <1>3, SameCollected, SameDispatched
<1>9. NoneMissed(t, m + 1)
  BY <1>3, NoneCompleted
<1> QED BY <1>1, <1>3, <1>5, <1>6, <1>7, <1>8, <1>9 DEF Parsed

\* A read word.
LEMMA ReadStep ==
    ASSUME ChoicesOK, NEW st, NEW m, Parsed(st, m), st.ok, m + 1 # Hit, Passed(m + 1),
           m + 1 \in Words, packets[m + 1] = "read"
    PROVE  Parsed(ParseRead(st, m + 1), m + 1)
<1>0. Passed(m) /\ st \in ParserStates
  BY DEF Parsed
<1>1. PICK t, w : t = ParseRead(st, m + 1) /\ w = st.lastAddr + st.burstIndex
  OBVIOUS
<1>2. /\ m \in Nat /\ m + 1 \in Nat /\ m + 1 \in 1 .. Len(packets)
      /\ BurstOf(m + 1) \in 0 .. m
  BY <1>0, NextInBurst
<1>3. /\ t.accepted = Append(st.accepted, m + 1) /\ t.where = Append(st.where, w)
      /\ t.dispatched = st.dispatched /\ t.buf = st.buf /\ t.overrun = st.overrun
      /\ t.lastAddr = st.lastAddr /\ t.burstIndex = st.burstIndex + 1
      /\ t \in ParserStates /\ w \in Nat
  <2>0. w \in Nat
    BY <1>0, <1>1 DEF ParserStates
  <2>1. PICK s : s = Accept(st, m + 1, w)
    OBVIOUS
  <2>2. /\ s.accepted = Append(st.accepted, m + 1) /\ s.where = Append(st.where, w)
        /\ s.dispatched = st.dispatched /\ s.buf = st.buf /\ s.overrun = st.overrun
        /\ s.lastAddr = st.lastAddr /\ s.burstIndex = st.burstIndex /\ s \in ParserStates
    <3>1. m + 1 \in Nat /\ w \in Nat
      BY <1>2, <2>0
    <3>2. st \in ParserStates
      BY <1>0
    <3> QED BY <2>1, <3>1, <3>2, AcceptIs, ZenonT(30)
  <2>3. t = [s EXCEPT !.lastReadAddr = w, !.burstIndex = @ + 1, !.ok = w # StopAddr]
    BY <1>1, <2>1 DEF ParseRead
  <2>4. PICK r, n, v : /\ v = (w # StopAddr) /\ n = st.burstIndex + 1
                       /\ r = [s EXCEPT !.lastReadAddr = w]
    OBVIOUS
  <2>5. v \in BOOLEAN /\ n \in Nat
    <3>1. v \in BOOLEAN
      BY <2>4, Zenon
    <3>2. n \in Nat
      BY <1>0, <2>4 DEF ParserStates
    <3> QED BY <3>1, <3>2
  <2>6. /\ r \in ParserStates
        /\ r.accepted = s.accepted /\ r.where = s.where
        /\ r.dispatched = s.dispatched /\ r.buf = s.buf /\ r.overrun = s.overrun
        /\ r.lastAddr = s.lastAddr /\ r.burstIndex = s.burstIndex
    BY <2>0, <2>2, <2>4 DEF ParserStates
  <2>7. t = [r EXCEPT !.burstIndex = n, !.ok = v]
    BY <2>2, <2>3, <2>4 DEF ParserStates
  <2>8. /\ t \in ParserStates
        /\ t.accepted = r.accepted /\ t.where = r.where
        /\ t.dispatched = r.dispatched /\ t.buf = r.buf /\ t.overrun = r.overrun
        /\ t.lastAddr = r.lastAddr /\ t.burstIndex = n
    BY <2>5, <2>6, <2>7 DEF ParserStates
  <2> QED BY <2>0, <2>2, <2>4, <2>6, <2>8
<1>4. /\ Following(t, m + 1) /\ AtTheHook(t, m + 1)
      /\ (BurstOf(m + 1) # 0 /\ Hit \notin BurstOf(m + 1) .. m) =>
            w = AddrOf(packets[BurstOf(m + 1)]) + Place(m + 1)
  BY <1>1, <1>3, WordFollowed
<1>5. Noted(t, m + 1)
  BY <1>3, <1>4, AcceptStep
<1>8. Collected(t, m + 1) /\ Dispatched(t, m + 1)
  BY <1>3, SameCollected, SameDispatched
<1>9. ~ Completed(BurstOf(m + 1), m + 1)
  <2>1. ASSUME Completed(BurstOf(m + 1), m + 1) PROVE FALSE
    <3>1. BurstOf(m + 1) # 0
      BY <2>1, BurstTypes DEF Completed
    <3>2. m + 1 \in BurstWords(BurstOf(m + 1))
      BY <3>1 DEF BurstWords
    <3> QED BY <2>1, <3>2 DEF Completed
  <2> QED BY <2>1
<1>10. NoneMissed(t, m + 1)
  BY <1>3, <1>9, NoneCompleted
<1> QED BY <1>1, <1>3, <1>4, <1>5, <1>8, <1>10 DEF Parsed

\* What CollectHook changes: the buffer, or nothing past its end; a burst is
\* dispatched at the last word of the buffer.
LEMMA CollectIs ==
    ASSUME ChoicesOK, NEW st \in ParserStates, NEW q \in 1 .. Len(packets)
    PROVE  LET h == CollectHook(st, q)
               buf == [st.buf EXCEPT ![st.burstIndex] = q]
               last == HookLen - 1 IN
           /\ h \in ParserStates /\ h.accepted = st.accepted /\ h.where = st.where
           /\ h.lastAddr = st.lastAddr /\ h.burstIndex = st.burstIndex
           /\ buf \in [0 .. HookLen - 1 -> 0 .. Len(packets)]
           /\ st.burstIndex > last => h.buf = st.buf /\ h.dispatched = st.dispatched /\ ~ h.ok
           /\ st.burstIndex <= last => h.buf = buf /\ h.overrun = st.overrun /\ (h.ok => st.ok)
           /\ (st.burstIndex < last \/ (st.burstIndex = last /\ ~ IsHookBurst(buf))) =>
                 h.dispatched = st.dispatched
           /\ (st.burstIndex = last /\ ~ IsHookBurst(buf)) => ~ h.ok
           /\ (st.burstIndex = last /\ IsHookBurst(buf)) =>
                 h.dispatched = Append(st.dispatched, BurstOf(q))
<1>1. PICK h, buf : h = CollectHook(st, q) /\ buf = [st.buf EXCEPT ![st.burstIndex] = q]
  OBVIOUS
<1>2. /\ buf \in [0 .. HookLen - 1 -> 0 .. Len(packets)] /\ st.burstIndex \in Nat
      /\ HookLen \in Nat /\ HookLen # 0
  <2>1. q \in 0 .. Len(packets)
    BY ChoicesTypes
  <2>2. st.buf \in [0 .. HookLen - 1 -> 0 .. Len(packets)] /\ st.burstIndex \in Nat
    BY DEF ParserStates
  <2>3. buf \in [0 .. HookLen - 1 -> 0 .. Len(packets)]
    BY <1>1, <2>1, <2>2
  <2> QED BY <2>2, <2>3, HostTraceAssumption
<1>3. q \in Places /\ BurstOf(q) \in Nat
  <2>1. q \in Places
    BY BurstTypes DEF Places
  <2> QED BY <2>1, BurstIs
<1>4. CASE st.burstIndex > HookLen - 1
  <2>1. st.burstIndex >= HookLen
    BY <1>2, <1>4
  <2>2. h = [st EXCEPT !.overrun = TRUE, !.ok = FALSE]
    BY <1>1, <2>1 DEF CollectHook
  <2>3. /\ h \in ParserStates /\ h.accepted = st.accepted /\ h.where = st.where
        /\ h.lastAddr = st.lastAddr /\ h.burstIndex = st.burstIndex
        /\ h.buf = st.buf /\ h.dispatched = st.dispatched /\ ~ h.ok
    BY <2>2 DEF ParserStates
  <2>4. ~ (st.burstIndex <= HookLen - 1) /\ ~ (st.burstIndex < HookLen - 1)
        /\ ~ (st.burstIndex = HookLen - 1)
    BY <1>2, <1>4
  <2> QED BY <1>1, <1>2, <2>3, <2>4, Zenon
<1>5. CASE st.burstIndex < HookLen - 1
  <2>1. ~ (st.burstIndex >= HookLen) /\ st.burstIndex < HookLen - 1
    BY <1>2, <1>5
  <2>2. h = [st EXCEPT !.buf = buf]
    BY <1>1, <2>1 DEF CollectHook
  <2>3. /\ h \in ParserStates /\ h.accepted = st.accepted /\ h.where = st.where
        /\ h.lastAddr = st.lastAddr /\ h.burstIndex = st.burstIndex
        /\ h.buf = buf /\ h.dispatched = st.dispatched /\ h.ok = st.ok /\ h.overrun = st.overrun
    BY <1>2, <2>2 DEF ParserStates
  <2>4. ~ (st.burstIndex > HookLen - 1) /\ ~ (st.burstIndex = HookLen - 1)
    BY <1>2, <1>5
  <2> QED BY <1>1, <1>2, <2>3, <2>4, Zenon
<1>6. CASE st.burstIndex = HookLen - 1
  <2>1. ~ (st.burstIndex >= HookLen) /\ ~ (st.burstIndex < HookLen - 1)
    BY <1>2, <1>6
  <2>2. ~ (st.burstIndex > HookLen - 1) /\ st.burstIndex <= HookLen - 1
    BY <1>2, <1>6
  <2>3. CASE IsHookBurst(buf)
    <3>1. h = [st EXCEPT !.buf = buf, !.dispatched = Append(@, BurstOf(q))]
      BY <1>1, <2>1, <2>3 DEF CollectHook
    <3>2. Append(st.dispatched, BurstOf(q)) \in Seq(Nat)
      BY <1>3 DEF ParserStates
    <3>3. /\ h \in ParserStates /\ h.accepted = st.accepted /\ h.where = st.where
          /\ h.lastAddr = st.lastAddr /\ h.burstIndex = st.burstIndex
          /\ h.buf = buf /\ h.dispatched = Append(st.dispatched, BurstOf(q))
          /\ h.ok = st.ok /\ h.overrun = st.overrun
      <4>1. PICK g : g = [st EXCEPT !.buf = buf]
        OBVIOUS
      <4>2. /\ g \in ParserStates /\ g.accepted = st.accepted /\ g.where = st.where
            /\ g.lastAddr = st.lastAddr /\ g.burstIndex = st.burstIndex
            /\ g.buf = buf /\ g.dispatched = st.dispatched
            /\ g.ok = st.ok /\ g.overrun = st.overrun
        BY <1>2, <4>1 DEF ParserStates
      <4>3. PICK d : d = Append(st.dispatched, BurstOf(q))
        OBVIOUS
      <4>4. h = [g EXCEPT !.dispatched = d]
        BY <3>1, <4>1, <4>3 DEF ParserStates
      <4>5. d \in Seq(Nat)
        BY <3>2, <4>3
      <4>6. /\ h \in ParserStates /\ h.accepted = g.accepted /\ h.where = g.where
            /\ h.lastAddr = g.lastAddr /\ h.burstIndex = g.burstIndex
            /\ h.buf = g.buf /\ h.dispatched = d
            /\ h.ok = g.ok /\ h.overrun = g.overrun
        BY <4>2, <4>4, <4>5 DEF ParserStates
      <4> QED BY <4>2, <4>3, <4>6
    <3> QED BY <1>1, <1>2, <1>6, <2>1, <2>2, <2>3, <3>3, Zenon
  <2>4. CASE ~ IsHookBurst(buf)
    <3>1. h = [st EXCEPT !.buf = buf, !.ok = FALSE]
      BY <1>1, <2>1, <2>4 DEF CollectHook
    <3>2. /\ h \in ParserStates /\ h.accepted = st.accepted /\ h.where = st.where
          /\ h.lastAddr = st.lastAddr /\ h.burstIndex = st.burstIndex
          /\ h.buf = buf /\ h.dispatched = st.dispatched /\ ~ h.ok /\ h.overrun = st.overrun
      BY <1>2, <3>1 DEF ParserStates
    <3> QED BY <1>1, <1>2, <1>6, <2>1, <2>2, <2>4, <3>2, Zenon
  <2> QED BY <2>3, <2>4
<1> QED BY <1>2, <1>4, <1>5, <1>6

\* A burst that was completed before.
LEMMA CompletedBefore ==
    ASSUME ChoicesOK, NEW m \in Nat, m + 1 <= Len(packets),
           NEW a \in Took(m + 1), Completed(a, m + 1), m + 1 \notin BurstWords(a)
    PROVE  Completed(a, m) /\ a \in Took(m)
<1>3. Completed(a, m)
  BY NextCompleted
<1>4. a # m + 1
  <2>1. PICK p \in BurstWords(a) : p \in Took(m)
    BY <1>3, NextCompleted
  <2>2. p \in Words /\ BurstOf(p) = a /\ p \in Places /\ p \in 1 .. m
    BY <2>1, BurstTypes DEF BurstWords, Took, Places
  <2>3. a \in 0 .. p - 1
    BY <2>2, BurstIs
  <2> QED BY <2>2, <2>3
<1>5. Took(m + 1) \subseteq Took(m) \cup {m + 1}
  BY NextTook
<1> QED BY <1>3, <1>4, <1>5

\* The bursts dispatched are ascending, and this one is the next.
LEMMA DispatchStep ==
    ASSUME ChoicesOK, NEW st, NEW m, Parsed(st, m), Passed(m + 1), m + 1 \in Words,
           Completed(BurstOf(m + 1), m + 1),
           NEW t, t.dispatched = Append(st.dispatched, BurstOf(m + 1)), t.ok => st.ok
    PROVE  Dispatched(t, m + 1) /\ NoneMissed(t, m + 1)
<1>1. PICK a, d, n : a = BurstOf(m + 1) /\ d = st.dispatched /\ n = Len(st.dispatched)
  OBVIOUS
<1>2. m \in Nat /\ m + 1 \in Nat /\ m + 1 <= Len(packets) /\ m + 1 \in Places
  BY PassedTypes, BurstTypes DEF Parsed
<1>3. a \in Nat /\ a # 0
  <2>1. a \in Addresses
    BY <1>1 DEF Completed
  <2> QED BY <2>1, BurstTypes
<1>4. m + 1 \in BurstWords(a)
  BY <1>1, <1>3 DEF BurstWords
<1>5. d \in Seq(Nat) /\ Len(d) = n /\ n \in Nat
  BY <1>1 DEF Parsed, ParserStates
<1>6. /\ Len(t.dispatched) = n + 1 /\ t.dispatched[n + 1] = a
      /\ \A i \in 1 .. n : t.dispatched[i] = d[i] /\ d[i] \in Nat
  <2>1. t.dispatched = Append(d, a)
    BY <1>1
  <2>2. \A i \in 1 .. n : d[i] \in Nat
    BY <1>5
  <2>3. Len(Append(d, a)) = n + 1 /\ Append(d, a)[n + 1] = a
    BY <1>5
  <2>4. \A i \in 1 .. n : Append(d, a)[i] = d[i]
    BY <1>5
  <2> QED BY <2>1, <2>2, <2>3, <2>4
<1>7. /\ \A i, j \in 1 .. n : i < j => d[i] < d[j]
      /\ \A i \in 1 .. n : Completed(d[i], m)
  BY <1>1 DEF Parsed, Dispatched
<1>8. ASSUME NEW i \in 1 .. n PROVE d[i] < a
  <2>1. PICK x : x = d[i]
    OBVIOUS
  <2>2. x \in Nat /\ Completed(x, m)
    BY <1>6, <1>7, <2>1
  <2>3. m + 1 \notin BurstWords(x)
    BY <1>2, <2>2, NextCompleted
  <2>4. PICK p \in BurstWords(x) : p \in Took(m)
    BY <1>2, <2>2, NextCompleted
  <2>5. BurstOf(p) = x /\ p \in Places /\ p <= m + 1
    BY <1>2, <2>4, BurstTypes DEF BurstWords, Took, Places
  <2>6. x <= a
    BY <1>1, <1>2, <2>5, BurstMonotone
  <2>7. x # a
    BY <1>4, <2>3
  <2> QED BY <1>3, <2>1, <2>2, <2>6, <2>7
<1>9. ASSUME NEW i \in 1 .. n + 1, NEW j \in 1 .. n + 1, i < j
      PROVE  t.dispatched[i] < t.dispatched[j]
  <2>1. i \in 1 .. n
    BY <1>5, <1>9
  <2>2. CASE j = n + 1
    BY <1>6, <1>8, <2>1, <2>2
  <2>3. CASE j # n + 1
    <3>1. j \in 1 .. n
      BY <1>5, <2>3
    <3> QED BY <1>6, <1>7, <1>9, <2>1, <3>1
  <2> QED BY <2>2, <2>3
<1>10. ASSUME NEW i \in 1 .. n + 1 PROVE Completed(t.dispatched[i], m + 1)
  <2>1. CASE i = n + 1
    BY <1>1, <1>6, <2>1
  <2>2. CASE i # n + 1
    <3>1. i \in 1 .. n
      BY <1>5, <2>2
    <3>2. Completed(d[i], m)
      BY <1>7, <3>1
    <3>3. Completed(d[i], m + 1)
      BY <1>2, <3>2, NextCompleted
    <3> QED BY <1>6, <3>1, <3>3
  <2> QED BY <2>1, <2>2
<1>11. Dispatched(t, m + 1)
  BY <1>6, <1>9, <1>10 DEF Dispatched
<1>12. ASSUME t.ok, NEW b \in Took(m + 1), Completed(b, m + 1)
       PROVE  \E i \in 1 .. Len(t.dispatched) : t.dispatched[i] = b
  <2>1. CASE m + 1 \in BurstWords(b)
    <3>1. b = a
      BY <1>1, <2>1 DEF BurstWords
    <3>2. n + 1 \in 1 .. Len(t.dispatched)
      BY <1>5, <1>6
    <3> QED BY <1>6, <3>1, <3>2
  <2>2. CASE m + 1 \notin BurstWords(b)
    <3>1. Completed(b, m) /\ b \in Took(m)
      BY <1>2, <1>12, <2>2, CompletedBefore
    <3>2. PICK i \in 1 .. n : d[i] = b
      BY <1>1, <1>12, <3>1 DEF Parsed, NoneMissed
    <3>3. i \in 1 .. Len(t.dispatched) /\ t.dispatched[i] = b
      BY <1>5, <1>6, <3>2
    <3> QED BY <3>3
  <2> QED BY <2>1, <2>2
<1>13. NoneMissed(t, m + 1)
  BY <1>12 DEF NoneMissed
<1> QED BY <1>11, <1>13

\* What a write adds to the collected state.
LEMMA WriteIs ==
    ASSUME ChoicesOK, NEW st \in ParserStates, NEW q \in 1 .. Len(packets)
    PROVE  LET t == ParseWrite(st, q)
               h == IF st.lastAddr = HookAddr THEN CollectHook(st, q) ELSE st IN
           /\ t \in ParserStates /\ t.accepted = Append(st.accepted, q)
           /\ t.where = Append(st.where, st.lastAddr + st.burstIndex)
           /\ t.lastAddr = st.lastAddr /\ t.burstIndex = st.burstIndex + 1
           /\ t.buf = h.buf /\ t.overrun = h.overrun /\ t.dispatched = h.dispatched
           /\ t.ok => h.ok
<1>1. PICK t, h, w : /\ t = ParseWrite(st, q) /\ w = st.lastAddr + st.burstIndex
                     /\ h = IF st.lastAddr = HookAddr THEN CollectHook(st, q) ELSE st
  OBVIOUS
<1>2. w \in Nat /\ q \in Nat
  BY <1>1, ChoicesTypes DEF ParserStates
<1>3. /\ h \in ParserStates /\ h.accepted = st.accepted /\ h.where = st.where
      /\ h.lastAddr = st.lastAddr /\ h.burstIndex = st.burstIndex
  BY <1>1, CollectIs
<1>4. PICK s, v, n : /\ s = Accept(h, q, w) /\ v = (h.ok /\ st.lastReadAddr # StopAddr)
                     /\ n = st.burstIndex + 1
  OBVIOUS
<1>5. /\ s.accepted = Append(h.accepted, q) /\ s.where = Append(h.where, w)
      /\ s.dispatched = h.dispatched /\ s.buf = h.buf /\ s.overrun = h.overrun
      /\ s.lastAddr = h.lastAddr /\ s.burstIndex = h.burstIndex
      /\ s.ok = h.ok /\ s \in ParserStates
  BY <1>2, <1>3, <1>4, AcceptIs, Zenon
<1>6. v \in BOOLEAN /\ n \in Nat
  <2>1. v \in BOOLEAN
    BY <1>4, Zenon
  <2>2. n \in Nat
    BY <1>4 DEF ParserStates
  <2> QED BY <2>1, <2>2
<1>7. t = [s EXCEPT !.lastWriteAddr = w, !.burstIndex = @ + 1,
                    !.ok = @ /\ st.lastReadAddr # StopAddr]
  BY <1>1, <1>4 DEF ParseWrite
<1>8. PICK r : r = [s EXCEPT !.lastWriteAddr = w]
  OBVIOUS
<1>9. /\ r \in ParserStates /\ r.accepted = s.accepted /\ r.where = s.where
      /\ r.dispatched = s.dispatched /\ r.buf = s.buf /\ r.overrun = s.overrun
      /\ r.lastAddr = s.lastAddr /\ r.burstIndex = s.burstIndex /\ r.ok = s.ok
  BY <1>2, <1>5, <1>8 DEF ParserStates
<1>10. t = [r EXCEPT !.burstIndex = n, !.ok = v]
  <2>1. r.burstIndex + 1 = n
    BY <1>3, <1>4, <1>5, <1>9
  <2>2. (r.ok /\ st.lastReadAddr # StopAddr) = v
    BY <1>4, <1>5, <1>9, Zenon
  <2>3. PICK x : x = [r EXCEPT !.burstIndex = @ + 1]
    OBVIOUS
  <2>4. x = [r EXCEPT !.burstIndex = n] /\ x.ok = r.ok
    BY <1>9, <2>1, <2>3 DEF ParserStates
  <2>5. t = [x EXCEPT !.ok = @ /\ st.lastReadAddr # StopAddr]
    BY <1>5, <1>7, <1>8, <2>3 DEF ParserStates
  <2>6. [x EXCEPT !.ok = @ /\ st.lastReadAddr # StopAddr]
          = [x EXCEPT !.ok = (x.ok /\ st.lastReadAddr # StopAddr)]
    OBVIOUS
  <2>7. (x.ok /\ st.lastReadAddr # StopAddr) = v
    BY <2>2, <2>4, Zenon
  <2>8. t = [x EXCEPT !.ok = v]
    BY <2>5, <2>6, <2>7
  <2> QED BY <1>9, <2>4, <2>8 DEF ParserStates
<1>11. PICK x : x = [r EXCEPT !.burstIndex = n]
  OBVIOUS
<1>12. /\ x \in ParserStates /\ x.accepted = r.accepted /\ x.where = r.where
       /\ x.dispatched = r.dispatched /\ x.buf = r.buf /\ x.overrun = r.overrun
       /\ x.lastAddr = r.lastAddr /\ x.burstIndex = n
  BY <1>6, <1>9, <1>11 DEF ParserStates
<1>13. t = [x EXCEPT !.ok = v]
  BY <1>9, <1>10, <1>11 DEF ParserStates
<1>14. /\ t \in ParserStates /\ t.accepted = x.accepted /\ t.where = x.where
       /\ t.dispatched = x.dispatched /\ t.buf = x.buf /\ t.overrun = x.overrun
       /\ t.lastAddr = x.lastAddr /\ t.burstIndex = x.burstIndex /\ t.ok = v
  BY <1>6, <1>12, <1>13 DEF ParserStates
<1>15. t.ok => h.ok
  BY <1>4, <1>14, Zenon
<1>16. /\ t.accepted = Append(st.accepted, q) /\ t.where = Append(st.where, w)
       /\ t.lastAddr = st.lastAddr /\ t.burstIndex = n
       /\ t.buf = h.buf /\ t.overrun = h.overrun /\ t.dispatched = h.dispatched
  BY <1>3, <1>5, <1>9, <1>12, <1>14
<1>17. LET hh == IF st.lastAddr = HookAddr THEN CollectHook(st, q) ELSE st IN
       t.buf = hh.buf /\ t.overrun = hh.overrun /\ t.dispatched = hh.dispatched
       /\ (t.ok => hh.ok)
  BY <1>1, <1>15, <1>16, Zenon
<1> QED BY <1>1, <1>4, <1>14, <1>16, <1>17, Zenon

\* A hook burst is dispatched when, and only when, its last word is accepted.
LEMMA WriteStep ==
    ASSUME ChoicesOK, NEW st, NEW m, Parsed(st, m), st.ok, m + 1 # Hit, Passed(m + 1),
           m + 1 \in Words, packets[m + 1] = "write"
    PROVE  Parsed(ParseWrite(st, m + 1), m + 1)
<1>1. PICK t, a, last, buf, h :
         /\ t = ParseWrite(st, m + 1) /\ a = BurstOf(m + 1) /\ last = HookLen - 1
         /\ buf = [st.buf EXCEPT ![st.burstIndex] = m + 1] /\ h = CollectHook(st, m + 1)
  OBVIOUS
<1>2. Passed(m) /\ st \in ParserStates /\ st.burstIndex \in Nat /\ last \in Nat /\ HookLen \in Nat
  BY <1>1, HostTraceAssumption DEF Parsed, ParserStates
<1>3. /\ m \in Nat /\ m + 1 \in Nat /\ m + 1 \in 1 .. Len(packets)
      /\ a \in 0 .. m /\ Place(m + 1) \in Nat
  BY <1>1, <1>2, NextInBurst
<1>4. /\ t \in ParserStates /\ t.accepted = Append(st.accepted, m + 1)
      /\ t.where = Append(st.where, st.lastAddr + st.burstIndex)
      /\ t.lastAddr = st.lastAddr /\ t.burstIndex = st.burstIndex + 1
  BY <1>1, <1>2, <1>3, WriteIs
<1>5. /\ st.lastAddr = HookAddr => /\ t.buf = h.buf /\ t.overrun = h.overrun
                                   /\ t.dispatched = h.dispatched /\ (t.ok => h.ok)
      /\ st.lastAddr # HookAddr => /\ t.buf = st.buf /\ t.overrun = st.overrun
                                   /\ t.dispatched = st.dispatched /\ (t.ok => st.ok)
  BY <1>1, <1>2, <1>3, WriteIs
<1>6. /\ buf \in [0 .. last -> 0 .. Len(packets)]
      /\ st.burstIndex > last => h.buf = st.buf /\ h.dispatched = st.dispatched /\ ~ h.ok
      /\ st.burstIndex <= last => h.buf = buf /\ h.overrun = st.overrun /\ (h.ok => st.ok)
      /\ (st.burstIndex < last \/ (st.burstIndex = last /\ ~ IsHookBurst(buf))) =>
            h.dispatched = st.dispatched
      /\ (st.burstIndex = last /\ ~ IsHookBurst(buf)) => ~ h.ok
      /\ (st.burstIndex = last /\ IsHookBurst(buf)) => h.dispatched = Append(st.dispatched, a)
  BY <1>1, <1>2, <1>3, CollectIs
<1>7. st.lastAddr + st.burstIndex \in Nat
  BY <1>2 DEF ParserStates
<1>8. /\ Following(t, m + 1) /\ AtTheHook(t, m + 1)
      /\ (a # 0 /\ Hit \notin a .. m) =>
            st.lastAddr + st.burstIndex = AddrOf(packets[a]) + Place(m + 1)
  BY <1>1, <1>4, WordFollowed
<1>9. Noted(t, m + 1)
  BY <1>1, <1>4, <1>7, <1>8, AcceptStep
\* A burst that is complete with this word has been followed from its address on.
<1>10. ASSUME Completed(a, m + 1), a \in Took(m + 1)
       PROVE  st.lastAddr = HookAddr /\ st.burstIndex = last
  <2>1. a # Hit
    BY <1>10 DEF Took
  <2>2. a # 0 /\ Unbroken(a, m) /\ Place(m + 1) = last
    BY <1>1, <1>3, <1>10, <2>1, CompletedUnbroken
  <2>3. st.lastAddr = AddrOf(packets[a]) /\ st.burstIndex = Place(m + 1)
    BY <1>1, <2>2 DEF Parsed, Following
  <2>4. packets[a] = "hookaddr"
    BY <1>10 DEF Completed
  <2> QED BY <2>2, <2>3, <2>4 DEF AddrOf
<1>11. CASE st.lastAddr # HookAddr
  <2>1. Collected(t, m + 1) /\ Dispatched(t, m + 1)
    BY <1>5, <1>11, SameCollected, SameDispatched
  <2>2. NoneMissed(t, m + 1)
    BY <1>1, <1>5, <1>10, <1>11, NoneCompleted
  <2> QED BY <1>1, <1>4, <1>8, <1>9, <2>1, <2>2 DEF Parsed
<1>12. CASE st.lastAddr = HookAddr /\ st.burstIndex > last
  <2>1. AddressLost
    <3>1. ASSUME ~ AddressLost PROVE FALSE
      <4>1. a # 0 /\ packets[a] = "hookaddr" /\ st.burstIndex <= Place(m + 1)
        BY <1>1, <1>12, <3>1 DEF Parsed, AtTheHook
      <4>2. a \in Addresses
        BY <1>3, <4>1 DEF Addresses
      <4>3. Cardinality(BurstWords(a)) <= HookLen
        BY <4>1, <4>2, HookBurstSize
      <4>4. Place(m + 1) < Cardinality(BurstWords(a))
        BY <1>1, <4>1, PlaceInBurst
      <4>5. Cardinality(BurstWords(a)) \in Nat
        BY BurstWordsFinite
      <4> QED BY <1>1, <1>2, <1>3, <1>12, <4>1, <4>3, <4>4, <4>5
    <3> QED BY <3>1
  <2>2. t.buf = st.buf /\ t.dispatched = st.dispatched /\ ~ t.ok
    BY <1>5, <1>6, <1>12
  <2>3. Collected(t, m + 1)
    BY <1>3, <2>1, <2>2, NextTook DEF Parsed, Collected
  <2>4. Dispatched(t, m + 1)
    BY <2>2, SameDispatched
  <2>5. NoneMissed(t, m + 1)
    BY <2>2 DEF NoneMissed
  <2> QED BY <1>1, <1>4, <1>8, <1>9, <2>3, <2>4, <2>5 DEF Parsed
<1>13. CASE st.lastAddr = HookAddr /\ st.burstIndex <= last
  <2>1. t.buf = buf /\ t.overrun = st.overrun /\ (t.ok => st.ok)
    BY <1>5, <1>6, <1>13
  <2>2. \A i \in 0 .. last : buf[i] # 0 => buf[i] \in Took(m + 1)
    <3> SUFFICES ASSUME NEW i \in 0 .. last, buf[i] # 0 PROVE buf[i] \in Took(m + 1)
      OBVIOUS
    <3>1. m + 1 \in Took(m + 1)
      BY <1>3 DEF Took
    <3>2. st.buf \in [0 .. last -> 0 .. Len(packets)]
      BY <1>1, <1>2 DEF ParserStates
    <3>3. CASE i = st.burstIndex
      BY <1>1, <1>2, <1>13, <3>1, <3>2, <3>3
    <3>4. CASE i # st.burstIndex
      <4>1. buf[i] = st.buf[i]
        BY <1>1, <3>2, <3>4
      <4>2. st.buf[i] \in Took(m)
        BY <1>1, <4>1 DEF Parsed, Collected
      <4> QED BY <1>3, <4>1, <4>2, NextTook
    <3> QED BY <3>3, <3>4
  <2>3. Collected(t, m + 1)
    BY <1>1, <2>1, <2>2 DEF Parsed, Collected
  <2>4. CASE st.burstIndex < last
    <3>1. t.dispatched = st.dispatched
      BY <1>5, <1>6, <1>13, <2>4
    <3>2. ~ (Completed(a, m + 1) /\ a \in Took(m + 1))
      BY <1>2, <1>10, <2>4
    <3>3. NoneMissed(t, m + 1)
      BY <1>1, <2>1, <3>1, <3>2, NoneCompleted
    <3> QED BY <1>1, <1>4, <1>8, <1>9, <2>3, <3>1, <3>3, SameDispatched DEF Parsed
  <2>5. CASE st.burstIndex = last /\ ~ IsHookBurst(buf)
    <3>1. t.dispatched = st.dispatched /\ ~ t.ok
      BY <1>5, <1>6, <1>13, <2>5
    <3>2. NoneMissed(t, m + 1)
      BY <3>1 DEF NoneMissed
    <3> QED BY <1>1, <1>4, <1>8, <1>9, <2>3, <3>1, <3>2, SameDispatched DEF Parsed
  <2>6. CASE st.burstIndex = last /\ IsHookBurst(buf)
    <3>1. t.dispatched = Append(st.dispatched, a)
      BY <1>5, <1>6, <1>13, <2>6
    <3>2. PICK b : b = BurstOf(buf[0])
      OBVIOUS
    <3>3. /\ b \in Addresses /\ packets[b] = "hookaddr"
          /\ Cardinality(BurstWords(b)) = HookLen
          /\ \A p \in BurstWords(b) : /\ packets[p] = "write"
                                      /\ \E i \in 0 .. last : buf[i] = p
          /\ \A i \in 0 .. last : buf[i] \in BurstWords(b)
      <4>1. buf \in [0 .. HookLen - 1 -> 0 .. Len(packets)] /\ IsHookBurst(buf)
        BY <1>1, <1>6, <2>6
      <4>2. LET x == BurstOf(buf[0]) IN
            /\ x \in Addresses /\ packets[x] = "hookaddr"
            /\ Cardinality(BurstWords(x)) = HookLen
            /\ \A p \in BurstWords(x) : /\ packets[p] = "write"
                                        /\ \E i \in 0 .. HookLen - 1 : buf[i] = p
            /\ \A i \in 0 .. HookLen - 1 : buf[i] \in BurstWords(x)
        BY <4>1, HookBurstIs, Zenon
      <4>3. last = HookLen - 1
        BY <1>1
      <4> QED BY <3>2, <4>2, <4>3, Zenon
    <3>4. buf[last] = m + 1 /\ last \in 0 .. last
      <4>1. st.buf \in [0 .. last -> 0 .. Len(packets)]
        BY <1>1, <1>2 DEF ParserStates
      <4> QED BY <1>1, <1>2, <2>6, <4>1
    <3>5. b = a
      BY <1>1, <3>3, <3>4 DEF BurstWords
    <3>6. \A p \in BurstWords(a) : packets[p] = "write" /\ p \in Took(m + 1)
      <4> SUFFICES ASSUME NEW p \in BurstWords(a) PROVE packets[p] = "write" /\ p \in Took(m + 1)
        OBVIOUS
      <4>1. PICK i \in 0 .. last : buf[i] = p
        BY <3>3, <3>5
      <4>2. p # 0
        <5>1. p \in Words
          BY DEF BurstWords
        <5> QED BY <5>1, BurstTypes
      <4> QED BY <2>2, <3>3, <3>5, <4>1, <4>2
    <3>7. Completed(a, m + 1)
      BY <3>3, <3>5, <3>6 DEF Completed
    <3>8. Dispatched(t, m + 1) /\ NoneMissed(t, m + 1)
      BY <1>1, <2>1, <3>1, <3>7, DispatchStep
    <3> QED BY <1>1, <1>4, <1>8, <1>9, <2>3, <3>8 DEF Parsed
  <2> QED BY <1>2, <1>13, <2>4, <2>5, <2>6
<1> QED BY <1>2, <1>11, <1>12, <1>13

-----------------------------------------------------------------------------
(* One group more, and all of a block *)

\* The parser after the first k groups of the stream.
Good(st, k) ==
    \E m \in Nat :
        /\ Parsed(st, m)
        /\ st.ok => /\ k + Shift <= Len(packets)
                    /\ m = IF OutOfStep /\ k >= Hit THEN Hit - 1 ELSE k + Shift

\* An overflow report only stops the parser.
LEMMA StopStep ==
    ASSUME ChoicesOK, NEW st, NEW m, Parsed(st, m)
    PROVE  LET t == [st EXCEPT !.ok = FALSE] IN Parsed(t, m) /\ ~ t.ok
<1>1. PICK t : t = [st EXCEPT !.ok = FALSE]
  OBVIOUS
<1>2. /\ t \in ParserStates /\ ~ t.ok
      /\ t.accepted = st.accepted /\ t.where = st.where /\ t.lastAddr = st.lastAddr
      /\ t.burstIndex = st.burstIndex /\ t.buf = st.buf /\ t.overrun = st.overrun
      /\ t.dispatched = st.dispatched
  BY <1>1 DEF Parsed, ParserStates
<1>3. Noted(t, m)
  BY <1>2 DEF Parsed, Noted
<1>4. Following(t, m) /\ AtTheHook(t, m)
  BY <1>2 DEF Parsed, Following, AtTheHook
<1>5. Collected(t, m) /\ Dispatched(t, m) /\ NoneMissed(t, m)
  BY <1>2 DEF Parsed, Collected, Dispatched, NoneMissed
<1> QED BY <1>1, <1>2, <1>3, <1>4, <1>5 DEF Parsed

\* The next packet that came through.
LEMMA PacketStep ==
    ASSUME ChoicesOK, NEW st, NEW m, Parsed(st, m), st.ok, Passed(m + 1),
           m + 1 = Hit => damage.what = "packet", NEW g, \A i \in 1 .. 4 : g[i] = Byte(m + 1, i - 1)
    PROVE  Parsed(ParsePacket(st, g), m + 1)
<1>1. Passed(m)
  BY DEF Parsed
<1>2. m \in Nat /\ m + 1 \in 1 .. Len(packets) /\ m + 1 # 0
  BY <1>1, NextInBurst
<1>3. /\ g[1] = Byte(m + 1, 0) /\ g[2] = Byte(m + 1, 1)
      /\ g[3] = Byte(m + 1, 2) /\ g[4] = Byte(m + 1, 3) /\ g[1].pkt = m + 1
  <2>1. g[1] = Byte(m + 1, 1 - 1) /\ g[2] = Byte(m + 1, 2 - 1)
        /\ g[3] = Byte(m + 1, 3 - 1) /\ g[4] = Byte(m + 1, 4 - 1)
    OBVIOUS
  <2> QED BY <2>1 DEF Byte
<1>4. ~ IsOverflow(g) /\ IsAligned(g)
  <2>1. g[1] # FF
    BY <1>2, <1>3 DEF FF
  <2>2. Flag(g[1]) /\ ~ Flag(g[2]) /\ ~ Flag(g[3]) /\ ~ Flag(g[4])
    BY <1>3 DEF Flag, Byte
  <2> QED BY <2>1, <2>2 DEF IsOverflow, IsAligned
<1>5. IsChecksumCorrect(g) <=> m + 1 # Hit
  <2>1. CASE damage.what = "packet"
    BY <1>3, <2>1, HitIs DEF IsChecksumCorrect
  <2>2. CASE damage.what # "packet"
    BY <2>2 DEF IsChecksumCorrect
  <2> QED BY <2>1, <2>2
<1>6. CASE m + 1 = Hit
  <2>1. ParsePacket(st, g) = st
    BY <1>4, <1>5, <1>6 DEF ParsePacket
  <2> QED BY <1>6, <2>1, SkipStep
<1>7. CASE m + 1 # Hit
  <2>1. ParsePacket(st, g) =
          CASE packets[m + 1] \in {"hookaddr", "addr"} -> ParseAddr(st, m + 1)
            [] packets[m + 1] = "read" -> ParseRead(st, m + 1)
            [] packets[m + 1] = "write" -> ParseWrite(st, m + 1)
            [] packets[m + 1] = "timestamp" -> Accept(st, m + 1, 0)
    BY <1>3, <1>4, <1>5, <1>7 DEF ParsePacket
  <2>2. packets[m + 1] \in Kinds
    BY <1>2, ChoicesTypes
  <2>3. CASE packets[m + 1] \in {"hookaddr", "addr"}
    <3>1. m + 1 \in Addresses
      BY <1>2, <2>3 DEF Addresses
    <3>2. ParsePacket(st, g) = ParseAddr(st, m + 1)
      BY <2>1, <2>3
    <3> QED BY <1>7, <3>1, <3>2, AddressStep
  <2>4. CASE packets[m + 1] = "read"
    <3>1. m + 1 \in Words
      BY <1>2, <2>4 DEF Words
    <3>2. ParsePacket(st, g) = ParseRead(st, m + 1)
      BY <2>1, <2>4
    <3> QED BY <1>7, <2>4, <3>1, <3>2, ReadStep
  <2>5. CASE packets[m + 1] = "write"
    <3>1. m + 1 \in Words
      BY <1>2, <2>5 DEF Words
    <3>2. ParsePacket(st, g) = ParseWrite(st, m + 1)
      BY <2>1, <2>5
    <3> QED BY <1>7, <2>5, <3>1, <3>2, WriteStep
  <2>6. CASE packets[m + 1] = "timestamp"
    <3>1. m + 1 \notin Words /\ m + 1 \notin Addresses
      BY <2>6 DEF Words, Addresses
    <3>2. ParsePacket(st, g) = Accept(st, m + 1, 0)
      BY <2>1, <2>6
    <3> QED BY <1>7, <3>1, <3>2, TimestampStep
  <2> QED BY <2>2, <2>3, <2>4, <2>5, <2>6 DEF Kinds
<1> QED BY <1>6, <1>7

\* One group more.
LEMMA GroupStep ==
    ASSUME ChoicesOK, NEW k \in Nat, Within(k + 1), NEW st, Good(st, k)
    PROVE  Good(ParsePacket(st, GroupAt(k + 1)), k + 1)
<1>1. PICK m \in Nat : /\ Parsed(st, m)
                       /\ st.ok => /\ k + Shift <= Len(packets)
                                   /\ m = IF OutOfStep /\ k >= Hit THEN Hit - 1 ELSE k + Shift
  BY DEF Good
<1>2. PICK g, n : g = GroupAt(k + 1) /\ n = k + 1
  OBVIOUS
<1>3. n \in Nat \ {0} /\ Shift \in {0, 1} /\ Hit \in Nat /\ Len(packets) \in Nat
      /\ (OutOfStep => Shift = 0) /\ Within(n) /\ (Shift = 1 => Hit = 1)
  BY <1>2, HitIs, ChoicesTypes DEF Shift, OutOfStep
<1>4. CASE ~ st.ok
  <2>1. ParsePacket(st, g) = st
    BY <1>4 DEF ParsePacket
  <2> QED BY <1>1, <1>2, <1>4, <2>1 DEF Good
<1>5. ASSUME st.ok, IsOverflow(g) PROVE Good(ParsePacket(st, g), n)
  <2>1. PICK t : t = [st EXCEPT !.ok = FALSE]
    OBVIOUS
  <2>2. ParsePacket(st, g) = t
    BY <1>5, <2>1 DEF ParsePacket
  <2>3. Parsed(t, m) /\ ~ t.ok
    BY <1>1, <2>1, StopStep
  <2> QED BY <2>2, <2>3 DEF Good
<1>6. CASE st.ok /\ n + Shift > Len(packets)
  <2>1. IsOverflow(GroupAt(n))
    BY <1>3, <1>6, GroupIsOverflow
  <2> QED BY <1>2, <1>5, <1>6, <2>1
<1>7. CASE st.ok /\ OutOfStep /\ n >= Hit /\ ~ (n + Shift > Len(packets))
  <2>1. ~ IsAligned(GroupAt(n))
    BY <1>3, <1>7, GroupIsOutOfStep
  <2>2. CASE IsOverflow(g)
    BY <1>2, <1>5, <1>7, <2>2
  <2>3. CASE ~ IsOverflow(g)
    <3>1. ParsePacket(st, g) = st
      BY <1>2, <1>7, <2>1, <2>3 DEF ParsePacket
    <3>2. m = Hit - 1
      BY <1>1, <1>2, <1>3, <1>7
    <3>3. n + Shift <= Len(packets)
      BY <1>3, <1>7
    <3> QED BY <1>1, <1>2, <1>7, <3>1, <3>2, <3>3 DEF Good
  <2> QED BY <2>2, <2>3
<1>8. CASE st.ok /\ ~ (OutOfStep /\ n >= Hit) /\ ~ (n + Shift > Len(packets))
  <2>1. m = k + Shift /\ m + 1 = n + Shift
    BY <1>1, <1>2, <1>3, <1>8
  <2>2. Intact(n + Shift) /\ Passed(m + 1)
    BY <1>3, <1>8, <2>1 DEF Intact, Passed
  <2>3. \A i \in 1 .. 4 : g[i] = Byte(m + 1, i - 1)
    BY <1>2, <1>3, <2>1, <2>2, GroupIsPacket
  <2>4. m + 1 = Hit => damage.what = "packet"
    <3>1. CASE damage.what = "none"
      BY <2>1, <3>1, HitIs
    <3>2. CASE damage.what = "byte"
      BY <1>2, <1>3, <1>8, <2>1, <3>2 DEF OutOfStep
    <3> QED BY <3>1, <3>2 DEF ChoicesOK
  <2>5. Parsed(ParsePacket(st, g), m + 1)
    BY <1>1, <1>8, <2>2, <2>3, <2>4, PacketStep
  <2>6. m + 1 \in Nat /\ n + Shift <= Len(packets)
        /\ m + 1 = IF OutOfStep /\ n >= Hit THEN Hit - 1 ELSE n + Shift
    BY <1>3, <1>8, <2>1
  <2> QED BY <1>2, <2>5, <2>6 DEF Good
<1> QED BY <1>2, <1>4, <1>6, <1>7, <1>8

\* Groups parsed one after the other.
LEMMA ParseGood ==
    ASSUME ChoicesOK, NEW j \in Nat, NEW n \in Nat, NEW st, Good(st, j),
           NEW groups, Len(groups) = n,
           \A i \in 1 .. n : groups[i] = GroupAt(j + i) /\ Within(j + i)
    PROVE  Good(ParseAll(st, groups), j + n)
<1>1. PICK f : /\ f = [i \in 0 .. n |-> IF i = 0 THEN st ELSE ParsePacket(f[i - 1], groups[i])]
               /\ ParseAll(st, groups) = f[n]
  <2>1. \E f : /\ f = [i \in 0 .. Len(groups) |->
                            IF i = 0 THEN st ELSE ParsePacket(f[i - 1], groups[i])]
             /\ ParseAll(st, groups) = f[Len(groups)]
    <3>1. Len(groups) \in Nat
      OBVIOUS
    <3> QED BY <3>1, ParseAllRecursion, Zenon
  <2>2. Len(groups) = n
    OBVIOUS
  <2> QED BY <2>1, <2>2, Zenon
<1>2. /\ f[0] = st
      /\ \A i \in 0 .. n : i # 0 => f[i] = ParsePacket(f[i - 1], groups[i])
  <2>1. \A i \in 0 .. n : f[i] = IF i = 0 THEN st ELSE ParsePacket(f[i - 1], groups[i])
    BY <1>1
  <2>2. 0 \in 0 .. n
    OBVIOUS
  <2> QED BY <2>1, <2>2
<1> DEFINE T == {i \in Nat : i <= n => Good(f[i], j + i)}
<1>3. 0 \in T
  BY <1>2
<1>4. ASSUME NEW i \in T PROVE i + 1 \in T
  <2>1. i \in Nat /\ i + 1 \in Nat
    OBVIOUS
  <2>2. ASSUME i + 1 <= n PROVE Good(f[i + 1], j + (i + 1))
    <3>1. PICK x, y : x = i + 1 /\ y = j + i
      OBVIOUS
    <3>2. /\ x \in 1 .. n /\ x \in 0 .. n /\ x # 0 /\ x - 1 = i /\ y \in Nat
          /\ j + x = y + 1 /\ i <= n
      BY <2>1, <2>2, <3>1
    <3>3. Good(f[i], y)
      BY <3>1, <3>2
    <3>4. groups[x] = GroupAt(y + 1) /\ Within(y + 1)
      BY <3>2
    <3>5. f[x] = ParsePacket(f[i], GroupAt(y + 1))
      BY <1>2, <3>2, <3>4
    <3>6. Good(f[x], y + 1)
      BY <3>2, <3>3, <3>4, <3>5, GroupStep
    <3> QED BY <3>1, <3>2, <3>6
  <2> QED BY <2>1, <2>2
<1>5. n \in T
  <2>1. T \subseteq Nat
    OBVIOUS
  <2> HIDE DEF T
  <2> QED BY <1>3, <1>4, <2>1, SetInduction
<1> QED BY <1>1, <1>5

-----------------------------------------------------------------------------
(* The choices are made once *)

\* What is said of the choices stays true.
LEMMA ChoicesStay ==
    ASSUME UNCHANGED choices
    PROVE  /\ ChoicesOK' <=> ChoicesOK
           /\ Bytes' = Bytes /\ Start' = Start
           /\ \A st, k : (Good(st, k))' <=> Good(st, k)
<1>1. packets' = packets /\ junk' = junk /\ overflow' = overflow /\ damage' = damage
  BY DEF choices
<1>2. ChoicesOK' <=> ChoicesOK
  BY <1>1 DEF ChoicesOK
<1>3. Bytes' = Bytes
  <2>1. JunkBytes' = JunkBytes
    BY <1>1 DEF JunkBytes
  <2>2. PacketBytes' = PacketBytes
    BY <1>1 DEF PacketBytes
  <2>3. OverflowBytes' = OverflowBytes
    BY <1>1 DEF OverflowBytes
  <2>4. Whole' = Whole
    BY <2>1, <2>2, <2>3 DEF Whole
  <2> QED BY <1>1, <2>4 DEF Bytes
<1>4. Shift' = Shift
  BY <1>1 DEF Shift
<1>5. Start' = Start
  BY <1>1, <1>4 DEF Start
<1>6. Hit' = Hit
  BY <1>1 DEF Hit
<1>7. OutOfStep' <=> OutOfStep
  BY <1>1, <1>4 DEF OutOfStep
<1>8. Addresses' = Addresses /\ Words' = Words
  BY <1>1 DEF Addresses, Words
<1>9. \A p : (BurstOf(p))' = BurstOf(p)
  BY <1>8 DEF BurstOf
<1>10. \A p : (Place(p))' = Place(p)
  BY <1>8, <1>9 DEF Place
<1>11. \A p : (BurstWords(p))' = BurstWords(p)
  BY <1>8, <1>9 DEF BurstWords
<1>12. \A m : (Undamaged(m))' = Undamaged(m)
  BY <1>6 DEF Undamaged
<1>13. ParserStates' = ParserStates
  BY <1>1 DEF ParserStates
<1>14. \A m : (Took(m))' = Took(m)
  BY <1>6 DEF Took
<1>15. AddressLost' <=> AddressLost
  BY <1>1, <1>8 DEF AddressLost
<1>16. \A a, m : (Unbroken(a, m))' <=> Unbroken(a, m)
  BY <1>1, <1>6 DEF Unbroken
<1>17. \A a, m : (Completed(a, m))' <=> Completed(a, m)
  BY <1>1, <1>8, <1>11, <1>14 DEF Completed
<1>18. \A st, m : (Noted(st, m))' <=> Noted(st, m)
  BY <1>1, <1>6, <1>8, <1>9, <1>10, <1>12 DEF Noted
<1>19. \A st, m : (Following(st, m))' <=> Following(st, m)
  BY <1>1, <1>9, <1>10, <1>16 DEF Following
<1>20. \A st, m : (AtTheHook(st, m))' <=> AtTheHook(st, m)
  BY <1>1, <1>9, <1>10, <1>15 DEF AtTheHook
<1>21. \A st, m : (Collected(st, m))' <=> Collected(st, m)
  BY <1>14, <1>15 DEF Collected
<1>22. \A st, m : (Dispatched(st, m))' <=> Dispatched(st, m)
  BY <1>17 DEF Dispatched
<1>23. \A st, m : (NoneMissed(st, m))' <=> NoneMissed(st, m)
  BY <1>14, <1>17 DEF NoneMissed
<1>24. \A m : (Passed(m))' <=> Passed(m)
  BY <1>1, <1>4, <1>6, <1>7 DEF Passed
<1>25. \A st, m : (Parsed(st, m))' <=> Parsed(st, m)
  BY <1>13, <1>18, <1>19, <1>20, <1>21, <1>22, <1>23, <1>24 DEF Parsed
<1>26. \A st, k : (Good(st, k))' <=> Good(st, k)
  BY <1>1, <1>4, <1>6, <1>7, <1>25 DEF Good
<1> QED BY <1>2, <1>3, <1>5, <1>26

-----------------------------------------------------------------------------
(* The inductive invariant *)

\* How far the stream has been looked at, and the groups parsed by then.
Seen == IF taken < Start THEN Start - 1 ELSE taken
Parsing == (Seen - Start + 1) \div 4

Inv ==
    /\ ChoicesOK /\ taken \in 0 .. Len(Bytes)
    /\ Good(parser, Parsing)
    /\ packetBuf = SubSeq(Bytes, Start + 4 * Parsing, Seen)
    /\ outputFile = IF HasFile THEN SubSeq(Bytes, Start, Seen) ELSE <<>>
    /\ status = "run" => parser.ok /\ (streamStartFound <=> Start <= taken)
    /\ status = "undefined" => parser.overrun

\* The choices made at the start are among those assumed.
LEMMA InitChoices == Init => ChoicesOK
<1> SUFFICES ASSUME Init PROVE ChoicesOK
  OBVIOUS
<1>1. junk \in Nat /\ junk \in 0 .. MaxJunk /\ Len(packets) \in Nat
  <2>1. packets \in Seq(Kinds)
    BY StreamsAssumption DEF Init
  <2> QED BY <2>1, HostTraceAssumption DEF Init
<1>2. \/ damage = [what |-> "none", at |-> 0]
      \/ \E i \in junk + 1 .. junk + 4 * Len(packets) : damage = [what |-> "byte", at |-> i]
      \/ \E i \in 1 .. Len(packets) : damage = [what |-> "packet", at |-> i]
  BY DEF Init
<1>3. junk + 1 .. junk + 4 * Len(packets) \subseteq Nat
  BY <1>1
<1>4. /\ damage \in [what : {"none", "byte", "packet"}, at : Nat]
      /\ damage.what = "byte" => damage.at \in junk + 1 .. junk + 4 * Len(packets)
      /\ damage.what = "packet" => damage.at \in 1 .. Len(packets)
  BY <1>2, <1>3
<1> QED BY <1>1, <1>4 DEF Init, ChoicesOK

\* No packet has been parsed at the start.
LEMMA InitParsed == Init => Parsed(parser, Shift) /\ parser.ok
<1> SUFFICES ASSUME Init PROVE Parsed(parser, Shift) /\ parser.ok
  OBVIOUS
<1>0. ChoicesOK
  BY InitChoices
<1>1. PICK st, m : st = parser /\ m = Shift
  OBVIOUS
<1>2. /\ m \in 0 .. 1 /\ (m = 1 => Hit = 1) /\ Hit \in 0 .. Len(packets) /\ Len(packets) \in Nat
      /\ (m = 0 => ~ OutOfStep \/ Hit > 0)
  BY <1>0, <1>1, HitIs, ChoicesTypes DEF Shift, OutOfStep
<1>3. Passed(m)
  BY <1>1, <1>2 DEF Passed, OutOfStep
<1>4. /\ st.lastAddr = 0 /\ st.burstIndex = 0 /\ st.lastReadAddr = 0 /\ st.lastWriteAddr = 0
      /\ st.buf = [i \in 0 .. HookLen - 1 |-> 0] /\ st.ok = TRUE /\ st.overrun = FALSE
      /\ st.dispatched = <<>> /\ st.accepted = <<>> /\ st.where = <<>>
  BY <1>1 DEF Init
<1>5. st \in ParserStates
  <2>1. [i \in 0 .. HookLen - 1 |-> 0] \in [0 .. HookLen - 1 -> 0 .. Len(packets)]
    BY <1>2
  <2>2. <<>> \in Seq(Nat)
    OBVIOUS
  <2>3. parser \in ParserStates
    BY <2>1, <2>2 DEF Init, ParserStates
  <2> QED BY <1>1, <2>3
<1>6. Noted(st, m)
  <2>1. Undamaged(m) \in Seq(Nat) /\ Len(Undamaged(m)) = 0
    <3>1. m \in 0 .. Len(packets)
      BY <1>2
    <3> QED BY <1>0, <1>2, <3>1, UndamagedType
  <2>2. Undamaged(m) = <<>>
    BY <2>1
  <2> QED BY <1>4, <2>2 DEF Noted
<1>7. Following(st, m)
  <2>1. m + 1 \in Places /\ m + 1 \in Nat
    BY <1>2 DEF Places
  <2>2. /\ BurstOf(m + 1) \in 0 .. m /\ (BurstOf(m + 1) # 0 => BurstOf(m + 1) \in Addresses)
    BY <1>0, <1>2, <2>1, BurstIs
  <2>3. ASSUME BurstOf(m + 1) # 0, Unbroken(BurstOf(m + 1), m) PROVE FALSE
    <3>1. m = 1 /\ BurstOf(m + 1) = 1 /\ Hit = 1 /\ 1 \in Addresses
      BY <1>2, <2>2, <2>3
    <3>2. packets[1] # "timestamp"
      BY <3>1 DEF Addresses
    <3>3. 1 \in 1 .. 1
      OBVIOUS
    <3> QED BY <2>3, <3>1, <3>2, <3>3 DEF Unbroken
  <2> QED BY <2>3 DEF Following
<1>8. AtTheHook(st, m)
  BY <1>4 DEF AtTheHook, HookAddr
<1>9. Collected(st, m) /\ Dispatched(st, m)
  BY <1>4 DEF Collected, Dispatched
<1>10. NoneMissed(st, m)
  <2>1. Took(m) = {}
    BY <1>2 DEF Took
  <2> QED BY <2>1 DEF NoneMissed
<1> QED BY <1>1, <1>3, <1>4, <1>5, <1>6, <1>7, <1>8, <1>9, <1>10 DEF Parsed

\* The invariant holds at the start.
LEMMA InitInv == Init => Inv
<1> SUFFICES ASSUME Init PROVE Inv
  OBVIOUS
<1>1. ChoicesOK
  BY InitChoices
<1>2. taken = 0 /\ Start \in 1 .. Len(Bytes) + 1 /\ Len(Bytes) \in Nat /\ Bytes \in Seq(ByteSet)
  BY <1>1, StartIs, StreamOnTheWay DEF Init
<1>3. Seen = Start - 1 /\ Parsing = 0
  BY <1>2 DEF Seen, Parsing
<1>4. PICK b, s : b = Bytes /\ s = Start
  OBVIOUS
<1>5. SubSeq(b, s, s - 1) = <<>>
  <2>1. s \in Nat /\ s - 1 \in Int /\ 1 <= s /\ s <= (s - 1) + 1 /\ s - 1 <= Len(b)
        /\ b \in Seq(ByteSet) /\ s = (s - 1) + 1
    BY <1>2, <1>4
  <2> QED BY <2>1, Part
<1>6. packetBuf = SubSeq(Bytes, Start + 4 * Parsing, Seen)
  <2>1. Start + 4 * Parsing = Start
    BY <1>2, <1>3
  <2> QED BY <1>3, <1>4, <1>5, <2>1 DEF Init
<1>7. outputFile = IF HasFile THEN SubSeq(Bytes, Start, Seen) ELSE <<>>
  BY <1>3, <1>4, <1>5 DEF Init
<1>8. Good(parser, 0)
  <2>1. Parsed(parser, Shift)
    BY InitParsed
  <2>2. Shift \in Nat /\ 0 + Shift = Shift /\ Shift <= Len(packets)
    BY <2>1 DEF Shift, Parsed, Passed
  <2>3. ~ (OutOfStep /\ 0 >= Hit)
    BY <1>1, HitIs DEF OutOfStep
  <2> QED BY <2>1, <2>2, <2>3 DEF Good
<1>9. /\ status = "run" /\ parser.ok /\ streamStartFound = FALSE /\ ~ (Start <= taken)
      /\ status # "undefined"
  BY <1>2, InitParsed DEF Init
<1> QED BY <1>1, <1>2, <1>3, <1>6, <1>7, <1>8, <1>9 DEF Inv

\* The block that is left of what was received, wherever the stream starts.
LEMMA BlockIs ==
    ASSUME ChoicesOK, NEW x \in Nat, NEW n \in Nat \ {0}, x + n <= Len(Bytes),
           streamStartFound <=> Start <= x
    PROVE  LET y == x + n
               a == IF x < Start THEN Start - 1 ELSE x
               b == IF y < Start THEN Start - 1 ELSE y
               received == SubSeq(Bytes, x + 1, y)
               start == SyncStart(received) IN
           /\ SubSeq(received, start, n) = SubSeq(Bytes, a + 1, b)
           /\ start <= n <=> Start <= y
<1>1. PICK B, f, y : B = Bytes /\ f = Start /\ y = x + n
  OBVIOUS
<1>2. /\ B \in Seq(ByteSet) /\ Len(B) \in Nat /\ f \in 1 .. Len(B) + 1 /\ f \in Nat
      /\ x \in Nat /\ x + 1 \in Nat /\ y \in Nat /\ n \in Nat /\ n > 0 /\ y <= Len(B) /\ x < y
      /\ \A i \in 1 .. f - 1 : ~ Flag(B[i])
      /\ f <= Len(B) => Flag(B[f])
  BY <1>1, StartIs, StreamOnTheWay
<1>3. PICK r, s : r = SubSeq(B, x + 1, y) /\ s = SyncStart(r)
  OBVIOUS
<1>4. r \in Seq(ByteSet) /\ Len(r) = n /\ \A i \in 1 .. n : r[i] = B[x + i]
  <2>1. 1 <= x + 1 /\ x + 1 <= y + 1 /\ y \in Int /\ y - (x + 1) + 1 = n
    BY <1>1, <1>2
  <2>2. PICK c : c = x + 1
    OBVIOUS
  <2>3. r = SubSeq(B, c, y) /\ c \in Nat /\ 1 <= c /\ c <= y + 1
    BY <1>2, <1>3, <2>1, <2>2
  <2>4. /\ r \in Seq(ByteSet) /\ Len(r) = y - c + 1
        /\ \A i \in 1 .. y - c + 1 : r[i] = B[c + i - 1]
    BY <1>2, <2>1, <2>3, Part
  <2>5. /\ y - c + 1 = n
        /\ \A i \in 1 .. n : c + i - 1 = x + i
    BY <1>1, <1>2, <2>1, <2>2
  <2> QED BY <2>4, <2>5
<1>5. s = IF f <= x THEN 1 ELSE IF y < f THEN n + 1 ELSE f - x
  <2>1. CASE f <= x
    BY <1>1, <1>3, <2>1 DEF SyncStart
  <2>2. CASE ~ (f <= x)
    <3>1. s = FirstFlag(r)
      BY <1>1, <1>3, <2>2 DEF SyncStart
    <3>2. PICK g : g = IF y < f THEN n + 1 ELSE f - x
      OBVIOUS
    <3>3. g \in 1 .. Len(r) + 1
      BY <1>1, <1>2, <1>4, <2>2, <3>2
    <3>4. \A i \in 1 .. g - 1 : ~ Flag(r[i])
      <4> SUFFICES ASSUME NEW i \in 1 .. g - 1 PROVE ~ Flag(r[i])
        OBVIOUS
      <4>1. i \in 1 .. n /\ x + i \in 1 .. f - 1
        BY <1>1, <1>2, <1>4, <2>2, <3>2, <3>3
      <4> QED BY <1>2, <1>4, <4>1
    <3>5. g <= Len(r) => Flag(r[g])
      <4> SUFFICES ASSUME g <= Len(r) PROVE Flag(r[g])
        OBVIOUS
      <4>1. g = f - x /\ g \in 1 .. n /\ x + g = f /\ f <= Len(B)
        BY <1>1, <1>2, <1>4, <2>2, <3>2, <3>3
      <4> QED BY <1>2, <1>4, <4>1
    <3>6. FirstFlag(r) = g
      BY <1>4, <3>3, <3>4, <3>5, FirstFlagIs
    <3> QED BY <2>2, <3>1, <3>2, <3>6
  <2> QED BY <2>1, <2>2
<1>6. s <= n <=> f <= y
  BY <1>1, <1>2, <1>5
<1>7. PICK a, b : a = (IF x < f THEN f - 1 ELSE x) /\ b = (IF y < f THEN f - 1 ELSE y)
  OBVIOUS
<1>8. SubSeq(r, s, n) = SubSeq(B, a + 1, b)
  <2>1. s \in Nat /\ 1 <= s /\ s <= n + 1
    BY <1>1, <1>2, <1>5
  <2>2. SubSeq(r, s, n) = SubSeq(B, x + s, y)
    <3>1. x + 1 \in Nat /\ y \in Int /\ 1 <= x + 1 /\ x + 1 <= y + 1 /\ n \in Int
          /\ n <= y - (x + 1) + 1
      BY <1>1, <1>2
    <3>2. SubSeq(SubSeq(B, x + 1, y), s, n) = SubSeq(B, (x + 1) + s - 1, (x + 1) + n - 1)
      BY <1>2, <2>1, <3>1, PartOfPart
    <3>3. (x + 1) + s - 1 = x + s /\ (x + 1) + n - 1 = y
      BY <1>1, <1>2, <2>1
    <3> QED BY <1>3, <3>2, <3>3
  <2>3. CASE f <= y
    <3>1. x + s = a + 1 /\ b = y
      BY <1>1, <1>2, <1>5, <1>7, <2>3
    <3> QED BY <2>2, <3>1
  <2>4. CASE y < f
    <3>1. /\ x + s = y + 1 /\ a + 1 = f /\ b = f - 1 /\ y + 1 \in Nat
          /\ f - 1 \in Int /\ f - 1 <= Len(B)
      BY <1>1, <1>2, <1>5, <1>7, <2>4
    <3>2. SubSeq(B, y + 1, y) = <<>>
      <4>1. 1 <= y + 1 /\ y + 1 <= y + 1 /\ y \in Int
        BY <1>2
      <4> QED BY <1>2, <3>1, <4>1, Part
    <3>3. SubSeq(B, f, f - 1) = <<>>
      <4>1. 1 <= f /\ f <= (f - 1) + 1 /\ f = (f - 1) + 1
        BY <1>2
      <4> QED BY <1>2, <3>1, <4>1, Part
    <3> QED BY <2>2, <3>1, <3>2, <3>3
  <2>5. f <= y \/ y < f
    BY <1>2
  <2> QED BY <2>3, <2>4, <2>5
<1> QED BY <1>1, <1>3, <1>6, <1>7, <1>8

\* When a part is empty.
LEMMA EmptyPart ==
    ASSUME NEW B \in Seq(ByteSet), NEW c \in Nat, NEW d \in Int, 1 <= c, c <= d + 1, d <= Len(B)
    PROVE  SubSeq(B, c, d) = <<>> <=> c = d + 1
  BY Part

\* Every call of readCallback keeps the invariant.
LEMMA StepInv == ASSUME Inv, NEW n \in 1 .. MaxBlock, ReadCallback(n) PROVE Inv'
<1>1. PICK B, f, x, y, a, b, j, k :
         /\ B = Bytes /\ f = Start /\ x = taken /\ y = taken + n
         /\ a = Seen /\ b = (IF y < f THEN f - 1 ELSE y)
         /\ j = Parsing /\ k = (b - f + 1) \div 4
  OBVIOUS
<1>2. PICK received, start, block, buf, st, groups :
         /\ received = SubSeq(Bytes, taken + 1, taken + n)
         /\ start = SyncStart(received) /\ block = SubSeq(received, start, n)
         /\ buf = packetBuf /\ st = parser /\ groups = Groups(packetBuf, block)
  OBVIOUS
<1>3. /\ ChoicesOK /\ x \in 0 .. Len(B) /\ x \in Nat /\ n \in Nat \ {0} /\ y \in Nat /\ y <= Len(B)
      /\ B \in Seq(ByteSet) /\ Len(B) \in Nat /\ f \in 1 .. Len(B) + 1 /\ f \in Nat /\ y = x + n
  <2>1. ChoicesOK /\ taken \in 0 .. Len(Bytes) /\ n <= Len(Bytes) - taken
    BY DEF Inv, ReadCallback
  <2>2. Bytes \in Seq(ByteSet) /\ Len(Bytes) \in Nat /\ Start \in 1 .. Len(Bytes) + 1
    BY <2>1, StartIs, StreamOnTheWay
  <2>3. n \in Nat \ {0}
    BY HostTraceAssumption
  <2> QED BY <1>1, <2>1, <2>2, <2>3
<1>4. /\ a = (IF x < f THEN f - 1 ELSE x) /\ a \in Nat /\ b \in Nat
      /\ 1 <= f /\ f <= a + 1 /\ a <= b /\ b <= Len(B) /\ (f <= y <=> a # b) /\ (y < f => a = b)
      /\ j = (a - f + 1) \div 4 /\ j \in Nat /\ k \in Nat
  BY <1>1, <1>3 DEF Seen, Parsing
<1>5. status = "run" /\ st.ok /\ (streamStartFound <=> f <= x)
  BY <1>1, <1>2 DEF Inv, ReadCallback
<1>6. block = SubSeq(B, a + 1, b) /\ (start <= n <=> f <= y)
  <2>1. x + n <= Len(Bytes) /\ (streamStartFound <=> Start <= x)
    BY <1>1, <1>3, <1>5
  <2>2. LET yy == x + n
            aa == IF x < Start THEN Start - 1 ELSE x
            bb == IF yy < Start THEN Start - 1 ELSE yy
            rr == SubSeq(Bytes, x + 1, yy)
            ss == SyncStart(rr) IN
        /\ SubSeq(rr, ss, n) = SubSeq(Bytes, aa + 1, bb)
        /\ ss <= n <=> Start <= yy
    BY <1>3, <2>1, BlockIs, Zenon
  <2>3. received = SubSeq(Bytes, x + 1, x + n)
    BY <1>1, <1>2
  <2>4. b = IF x + n < f THEN f - 1 ELSE x + n
    BY <1>1
  <2> QED BY <1>1, <1>2, <1>4, <2>2, <2>3, <2>4
<1>7. block = <<>> <=> y < f
  <2>0. PICK c : c = a + 1
    OBVIOUS
  <2>1. c \in Nat /\ b \in Int /\ 1 <= c /\ c <= b + 1 /\ b <= Len(B) /\ block = SubSeq(B, c, b)
    BY <1>4, <1>6, <2>0
  <2>2. block = <<>> <=> c = b + 1
    <3>1. SubSeq(B, c, b) = <<>> <=> c = b + 1
      <4>1. B \in Seq(ByteSet)
        BY <1>3
      <4> QED BY <2>1, <4>1, EmptyPart
    <3> QED BY <2>1, <3>1
  <2> QED BY <1>3, <1>4, <2>0, <2>2
<1>8. /\ ChoicesOK' /\ Bytes' = B /\ Start' = f
      /\ \A s, i : (Good(s, i))' <=> Good(s, i)
  BY <1>1, <1>3, ChoicesStay DEF ReadCallback
<1>9. taken' = y /\ taken' \in 0 .. Len(Bytes') /\ Seen' = b /\ Parsing' = k
  <2>1. taken' = y
    BY <1>1 DEF ReadCallback
  <2>2. Seen' = b
    BY <1>1, <1>8, <2>1 DEF Seen
  <2> QED BY <1>1, <1>3, <1>8, <2>1, <2>2 DEF Parsing
<1>10. streamStartFound' <=> Start' <= taken'
  <2>1. streamStartFound' = (start <= n)
    BY <1>2 DEF ReadCallback
  <2> QED BY <1>6, <1>8, <1>9, <2>1
<1>11. /\ Good(st, j) /\ buf = SubSeq(B, f + 4 * j, a)
       /\ outputFile = IF HasFile THEN SubSeq(B, f, a) ELSE <<>>
  BY <1>1, <1>2 DEF Inv
<1>12. CASE HasFile /\ block = <<>>
  <2>1. /\ status' = "writeError" /\ parser' = st /\ packetBuf' = buf
        /\ outputFile' = outputFile
    BY <1>2, <1>12 DEF ReadCallback
  <2>2. a = b /\ j = k
    BY <1>1, <1>4, <1>7, <1>12
  <2>3. Good(parser, Parsing)'
    BY <1>8, <1>9, <1>11, <2>1, <2>2
  <2>4. packetBuf' = SubSeq(Bytes', Start' + 4 * Parsing', Seen')
        /\ outputFile' = IF HasFile THEN SubSeq(Bytes', Start', Seen') ELSE <<>>
    BY <1>8, <1>9, <1>11, <2>1, <2>2
  <2>5. (status # "run" /\ status # "undefined")'
    BY <2>1
  <2> QED BY <1>8, <1>9, <2>3, <2>4, <2>5 DEF Inv
<1>13. CASE ~ (HasFile /\ block = <<>>)
  <2>1. /\ outputFile' = IF HasFile THEN Save(received, block) ELSE <<>>
        /\ parser' = ParseAll(st, groups) /\ packetBuf' = Held(buf, block)
        /\ status' = IF parser'.ok THEN "run"
                     ELSE IF parser'.overrun THEN "undefined" ELSE "stopped"
    BY <1>2, <1>13 DEF ReadCallback, ParseBlock
  <2>2. /\ j <= k /\ Len(groups) = k - j
        /\ \A i \in 1 .. k - j :
             groups[i] = SubSeq(B, f + 4 * (j + i) - 4, f + 4 * (j + i) - 1)
        /\ Held(buf, block) = SubSeq(B, f + 4 * k, b)
    <3>1. groups = Groups(buf, block)
      BY <1>2
    <3>2. /\ j <= k /\ Len(Groups(buf, block)) = k - j
          /\ \A i \in 1 .. k - j :
               Groups(buf, block)[i] = SubSeq(B, f + 4 * (j + i) - 4, f + 4 * (j + i) - 1)
          /\ Held(buf, block) = SubSeq(B, f + 4 * k, b)
      <4>1. /\ j = (a - f + 1) \div 4 /\ k = (b - f + 1) \div 4
            /\ buf = SubSeq(B, f + 4 * j, a) /\ block = SubSeq(B, a + 1, b)
        BY <1>1, <1>4, <1>6, <1>11
      <4>2. /\ B \in Seq(ByteSet) /\ f \in Nat /\ a \in Nat /\ b \in Nat /\ 1 <= f
            /\ f <= a + 1 /\ a <= b /\ b <= Len(B) /\ j \in Nat /\ k \in Nat
        BY <1>3, <1>4
      <4>3. Regrouped(B, f, a, b, j, k, buf, block)
        BY <4>2, Regroup
      <4> QED BY <4>1, <4>3, Zenon DEF Regrouped
    <3> QED BY <3>1, <3>2
  <2>3. \A i \in 1 .. k - j : groups[i] = GroupAt(j + i) /\ Within(j + i)
    <3> SUFFICES ASSUME NEW i \in 1 .. k - j
                 PROVE  groups[i] = GroupAt(j + i) /\ Within(j + i)
      OBVIOUS
    <3>1. groups[i] = GroupAt(j + i)
      BY <1>1, <2>2 DEF GroupAt
    <3>2. f + 4 * (j + i) - 1 <= Len(B)
      BY <1>1, <1>3, <1>4
    <3> QED BY <1>1, <3>1, <3>2 DEF Within
  <2>4. Good(parser', k)
    <3>1. PICK d : d = k - j
      OBVIOUS
    <3>2. d \in Nat /\ j + d = k /\ Len(groups) = d
      BY <1>4, <2>2, <3>1
    <3>3. \A i \in 1 .. d : groups[i] = GroupAt(j + i) /\ Within(j + i)
      BY <2>3, <3>1
    <3>4. Good(ParseAll(st, groups), j + d)
      BY <1>3, <1>4, <1>11, <3>2, <3>3, ParseGood
    <3> QED BY <2>1, <3>2, <3>4
  <2>5. Good(parser, Parsing)'
    <3>1. PICK t : t = parser'
      OBVIOUS
    <3>2. (Good(t, k))'
      BY <1>8, <2>4, <3>1
    <3> QED BY <1>9, <3>1, <3>2
  <2>6. packetBuf' = SubSeq(Bytes', Start' + 4 * Parsing', Seen')
    BY <1>8, <1>9, <2>1, <2>2
  <2>7. outputFile' = IF HasFile THEN SubSeq(Bytes', Start', Seen') ELSE <<>>
    <3>1. CASE ~ HasFile
      BY <2>1, <3>1
    <3>2. CASE HasFile
      <4>1. outputFile' = SubSeq(B, f, a) \o SubSeq(B, a + 1, b)
        BY <1>6, <1>11, <2>1, <3>2 DEF Save
      <4>2. SubSeq(B, f, a) \o SubSeq(B, a + 1, b) = SubSeq(B, f, b)
        <5>1. a \in Int /\ b \in Int
          BY <1>4
        <5> QED BY <1>3, <1>4, <5>1, TwoParts
      <4> QED BY <1>8, <1>9, <3>2, <4>1, <4>2
    <3> QED BY <3>1, <3>2
  <2>8. (status = "run" => parser.ok)' /\ (status = "undefined" => parser.overrun)'
    BY <2>1
  <2> QED BY <1>8, <1>9, <1>10, <2>5, <2>6, <2>7, <2>8 DEF Inv
<1> QED BY <1>12, <1>13

\* So does a step that changes nothing.
LEMMA StutterInv == ASSUME Inv, UNCHANGED vars PROVE Inv'
<1>1. /\ ChoicesOK' /\ Bytes' = Bytes /\ Start' = Start
      /\ \A s, i : (Good(s, i))' <=> Good(s, i)
  BY ChoicesStay DEF Inv, vars
<1>2. /\ taken' = taken /\ parser' = parser /\ packetBuf' = packetBuf
      /\ outputFile' = outputFile /\ status' = status /\ streamStartFound' = streamStartFound
  BY DEF vars
<1>3. Seen' = Seen
  BY <1>1, <1>2 DEF Seen
<1>4. Parsing' = Parsing
  BY <1>1, <1>3 DEF Parsing
<1>5. PICK t, k : t = parser /\ k = Parsing
  OBVIOUS
<1>6. (Good(t, k))'
  BY <1>1, <1>5 DEF Inv
<1>7. Good(parser, Parsing)'
  BY <1>2, <1>4, <1>5, <1>6
<1> QED BY <1>1, <1>2, <1>3, <1>4, <1>7 DEF Inv

\* The inductive invariant holds in every state.
THEOREM ParsingInvariant == Spec => []Inv
<1>1. Inv /\ [Next]_vars => Inv'
  BY StepInv, StutterInv DEF Next
<1> QED BY InitInv, <1>1, PTL DEF Spec

-----------------------------------------------------------------------------
(* What follows from the invariant *)

\* What has been looked at begins where the stream is synchronised.
LEMMA SeenIs ==
    ASSUME Inv
    PROVE  /\ ChoicesOK /\ Start \in 1 .. Len(Bytes) + 1 /\ Len(Bytes) \in Nat /\ Start \in Nat
           /\ taken \in 0 .. Len(Bytes) /\ Seen \in Nat /\ Seen >= Start - 1 /\ Parsing \in Nat
           /\ Parsing = (Seen - Start + 1) \div 4
<1>1. PICK B, f, x : B = Len(Bytes) /\ f = Start /\ x = taken
  OBVIOUS
<1>2. ChoicesOK /\ x \in 0 .. B
  BY <1>1 DEF Inv
<1>3. f \in 1 .. B + 1 /\ B \in Nat
  BY <1>1, <1>2, StartIs
<1>4. PICK s : s = Seen
  OBVIOUS
<1>5. s = IF x < f THEN f - 1 ELSE x
  BY <1>1, <1>4 DEF Seen
<1>6. s \in Nat /\ s >= f - 1 /\ (s - f + 1) \div 4 \in Nat
  BY <1>2, <1>3, <1>5
<1>7. Parsing = (s - f + 1) \div 4
  BY <1>1, <1>4 DEF Parsing
<1> QED BY <1>1, <1>2, <1>3, <1>4, <1>6, <1>7

\* The file is the part of the stream that was looked at.
LEMMA FileHolds == Inv => FileIsStream
<1> SUFFICES ASSUME Inv, HasFile
             PROVE  LET flags == {i \in 1 .. taken : Flag(Bytes[i])} IN
                    outputFile = IF flags = {} THEN <<>> ELSE SubSeq(Bytes, Min(flags), taken)
  BY DEF FileIsStream
<1>1. PICK B, f, x, flags : /\ B = Bytes /\ f = Start /\ x = taken
                            /\ flags = {i \in 1 .. taken : Flag(Bytes[i])}
  OBVIOUS
<1>2. /\ f \in 1 .. Len(B) + 1 /\ f \in Nat /\ x \in 0 .. Len(B) /\ Len(B) \in Nat
      /\ \A i \in 1 .. f - 1 : ~ Flag(B[i])
      /\ f <= Len(B) => Flag(B[f])
      /\ B \in Seq(ByteSet)
  BY <1>1, SeenIs, StartIs, StreamOnTheWay
<1>3. outputFile = SubSeq(B, f, IF x < f THEN f - 1 ELSE x)
  BY <1>1 DEF Inv, Seen
<1>4. CASE x < f
  <2>1. flags = {}
    BY <1>1, <1>2, <1>4
  <2>2. PICK e : e = f - 1
    OBVIOUS
  <2>3. e \in Int /\ f <= e + 1 /\ e <= Len(B) /\ f = e + 1 /\ 1 <= f
    BY <1>2, <2>2
  <2>4. SubSeq(B, f, e) = <<>>
    BY <1>2, <2>3, EmptyPart
  <2> QED BY <1>1, <1>3, <1>4, <2>1, <2>2, <2>4
<1>5. CASE ~ (x < f)
  <2>1. f \in flags /\ flags \subseteq Nat
    BY <1>1, <1>2, <1>5
  <2>2. \A i \in flags : f <= i
    BY <1>1, <1>2
  <2>3. Min(flags) = f
    BY <2>1, <2>2, MinIs
  <2> QED BY <1>1, <1>3, <1>5, <2>1, <2>3
<1> QED BY <1>4, <1>5

\* The packets accepted are those the groups stand for.
LEMMA AcceptedIs ==
    ASSUME ChoicesOK, NEW m \in 0 .. Len(packets)
    PROVE  {Undamaged(m)[i] : i \in 1 .. Len(Undamaged(m))} = Took(m)
<1>1. m \in Nat /\ Hit \in Nat
  BY HitIs, ChoicesTypes
<1>2. PICK u, n, h : u = Undamaged(m) /\ n = Len(Undamaged(m)) /\ h = Hit
  OBVIOUS
<1>3. /\ n = IF h \in 1 .. m THEN m - 1 ELSE m
      /\ \A i \in 1 .. n : u[i] = IF h \in 1 .. i THEN i + 1 ELSE i
  BY <1>2, UndamagedType
<1>4. ASSUME NEW p \in 1 .. m, p # h PROVE \E i \in 1 .. n : u[i] = p
  <2>1. CASE h \in 1 .. p
    <3>1. p - 1 \in 1 .. n /\ h \in 1 .. p - 1
      BY <1>1, <1>2, <1>3, <1>4, <2>1
    <3>2. u[p - 1] = (p - 1) + 1
      BY <1>3, <3>1
    <3>3. u[p - 1] = p
      BY <3>2
    <3> QED BY <3>1, <3>3
  <2>2. CASE h \notin 1 .. p
    <3>1. p \in 1 .. n
      BY <1>1, <1>2, <1>3, <1>4, <2>2
    <3> QED BY <1>3, <2>2, <3>1
  <2> QED BY <2>1, <2>2
<1>5. \A i \in 1 .. n : u[i] \in Took(m)
  BY <1>2, UndamagedElements
<1>6. Took(m) \subseteq {u[i] : i \in 1 .. n}
  BY <1>2, <1>4 DEF Took
<1> QED BY <1>2, <1>5, <1>6

\* While the host runs, the packets parsed are those received whole.
LEMMA OthersHold == Inv => NothingElseLost
<1> SUFFICES ASSUME Inv, damage.what # "byte", status = "run"
             PROVE  parser.accepted = Undamaged(WholeReceived)
  BY DEF NothingElseLost
<1>1. PICK m \in Nat : /\ Parsed(parser, m)
                       /\ parser.ok => /\ Parsing + Shift <= Len(packets)
                                       /\ m = IF OutOfStep /\ Parsing >= Hit
                                              THEN Hit - 1 ELSE Parsing + Shift
  BY DEF Inv, Good
<1>2. parser.ok /\ ~ OutOfStep /\ Shift = 0 /\ Start = junk + 1
  BY DEF Inv, OutOfStep, Shift, Start
<1>3. m = Parsing /\ m <= Len(packets) /\ m \in Nat /\ Len(packets) \in Nat
      /\ junk \in Nat /\ taken \in Nat
  <2>1. ChoicesOK /\ Parsing \in Nat /\ taken \in Nat
    BY SeenIs
  <2>2. Len(packets) \in Nat /\ junk \in Nat
    BY <2>1, ChoicesTypes
  <2> QED BY <1>1, <1>2, <2>1, <2>2
<1>4. PICK y : y = (IF taken < junk THEN 0 ELSE taken - junk) \div 4
  OBVIOUS
<1>5. Seen - Start + 1 = IF taken < junk THEN 0 ELSE taken - junk
  BY <1>2, <1>3 DEF Seen
<1>6. y = m
  BY <1>3, <1>4, <1>5, SeenIs
<1>7. WholeReceived = m
  <2>1. {Len(packets), y} \subseteq Nat /\ m \in {Len(packets), y}
        /\ \A z \in {Len(packets), y} : m <= z
    BY <1>3, <1>6
  <2>2. Min({Len(packets), y}) = m
    BY <2>1, MinIs
  <2> QED BY <1>4, <2>2 DEF WholeReceived
<1> QED BY <1>1, <1>7 DEF Parsed, Noted

\* No packet is accepted from the one on that lost the byte.
LEMMA LossHolds == Inv => LostByteDetected
<1> SUFFICES ASSUME Inv, damage.what = "byte"
             PROVE  IF damage.at = junk + 1
                    THEN \A i \in DOMAIN parser.accepted : parser.accepted[i] = i + 1
                    ELSE \A i \in DOMAIN parser.accepted : parser.accepted[i] = i /\ i < Hit
  BY DEF LostByteDetected
<1>1. ChoicesOK
  BY DEF Inv
<1>2. PICK m \in Nat : Parsed(parser, m)
  BY DEF Inv, Good
<1>3. PICK u, n : u = Undamaged(m) /\ n = Len(Undamaged(m))
  OBVIOUS
<1>4. /\ m \in 0 .. Len(packets) /\ Hit \in Nat /\ Hit > 0 /\ (OutOfStep => m < Hit)
      /\ (Shift = 1 => Hit = 1)
  BY <1>1, <1>2, PassedTypes, HitIs DEF Parsed, Passed
<1>5. /\ u \in Seq(Nat) /\ DOMAIN u = 1 .. n /\ n \in Nat
      /\ n = IF Hit \in 1 .. m THEN m - 1 ELSE m
      /\ \A i \in 1 .. n : u[i] = IF Hit \in 1 .. i THEN i + 1 ELSE i
  BY <1>1, <1>3, <1>4, UndamagedType
<1>6. parser.accepted = u
  BY <1>2, <1>3 DEF Parsed, Noted
<1>7. CASE damage.at = junk + 1
  <2>1. Hit = 1
    BY <1>4, <1>7 DEF Shift
  <2>2. \A i \in 1 .. n : u[i] = i + 1
    BY <1>5, <2>1
  <2> QED BY <1>5, <1>6, <1>7, <2>2
<1>8. CASE damage.at # junk + 1
  <2>1. m < Hit
    BY <1>4, <1>8 DEF OutOfStep, Shift
  <2>2. n = m
    BY <1>4, <1>5, <2>1
  <2>3. \A i \in 1 .. n : u[i] = i /\ i < Hit
    BY <1>4, <1>5, <2>1, <2>2
  <2> QED BY <1>5, <1>6, <1>8, <2>3
<1> QED BY <1>7, <1>8

\* The parser notes the address the bus had.
LEMMA AttributionHolds == Inv => Attribution
<1> SUFFICES ASSUME Inv PROVE Attribution
  OBVIOUS
<1>1. PICK m \in Nat : Parsed(parser, m)
  BY DEF Inv, Good
<1>2. DOMAIN parser.accepted = 1 .. Len(parser.accepted)
  BY <1>1 DEF Parsed, ParserStates
<1>3. \A i \in 1 .. Len(parser.accepted) :
         LET p == parser.accepted[i]
             a == BurstOf(p) IN
         (p \in Words /\ a # 0 /\ Hit \notin a .. p - 1) =>
             parser.where[i] = AddrOf(packets[a]) + Place(p)
  BY <1>1 DEF Parsed, Noted
<1> QED BY <1>2, <1>3, Zenon DEF Attribution

\* The bursts dispatched are those accepted whole.
LEMMA DispatchHolds == Inv => HookDispatch
<1> SUFFICES ASSUME Inv PROVE HookDispatch
  OBVIOUS
<1>0. ChoicesOK
  BY DEF Inv
<1>1. PICK m \in Nat : Parsed(parser, m)
  BY DEF Inv, Good
<1>2. PICK d, n : d = parser.dispatched /\ n = Len(parser.dispatched)
  OBVIOUS
<1>3. d \in Seq(Nat) /\ n \in Nat /\ DOMAIN d = 1 .. n
  BY <1>1, <1>2 DEF Parsed, ParserStates
<1>4. /\ \A i, j \in 1 .. n : i < j => d[i] < d[j]
      /\ \A i \in 1 .. n : Completed(d[i], m)
  BY <1>1, <1>2 DEF Parsed, Dispatched
<1>5. Accepted = Took(m)
  <2>1. m \in 0 .. Len(packets)
    BY <1>0, <1>1, PassedTypes DEF Parsed
  <2>2. {Undamaged(m)[i] : i \in 1 .. Len(Undamaged(m))} = Took(m)
    BY <1>0, <2>1, AcceptedIs
  <2>3. parser.accepted = Undamaged(m) /\ DOMAIN Undamaged(m) = 1 .. Len(Undamaged(m))
    BY <1>0, <1>1, <2>1, UndamagedType DEF Parsed, Noted
  <2> QED BY <2>2, <2>3 DEF Accepted, Range
<1>6. \A a : Completed(a, m) => a \in WholeHooks
  <2> SUFFICES ASSUME NEW a, Completed(a, m) PROVE a \in WholeHooks
    OBVIOUS
  <2>1. BurstWords(a) \cap Accepted = BurstWords(a)
    BY <1>5 DEF Completed
  <2> QED BY <2>1 DEF Completed, WholeHooks
<1>7. \A a \in WholeHooks : Completed(a, m)
  <2> SUFFICES ASSUME NEW a \in WholeHooks PROVE Completed(a, m)
    OBVIOUS
  <2>1. PICK W, C : W = BurstWords(a) /\ C = BurstWords(a) \cap Accepted
    OBVIOUS
  <2>2. a \in Addresses /\ packets[a] = "hookaddr" /\ Cardinality(C) = HookLen
        /\ \A p \in W : packets[p] = "write"
    BY <2>1 DEF WholeHooks
  <2>3. Cardinality(W) <= HookLen /\ IsFiniteSet(W) /\ Cardinality(W) \in Nat
    BY <1>0, <2>1, <2>2, HookBurstSize, BurstWordsFinite
  <2>4. C \subseteq W
    BY <2>1
  <2>5. /\ IsFiniteSet(C) /\ Cardinality(C) <= Cardinality(W)
        /\ (Cardinality(C) = Cardinality(W) => C = W)
    BY <2>3, <2>4, FS_Subset
  <2>6. Cardinality(W) = HookLen
    BY <2>2, <2>3, <2>5, HostTraceAssumption
  <2>7. C = W
    BY <2>2, <2>5, <2>6
  <2> QED BY <1>5, <2>1, <2>2, <2>6, <2>7 DEF Completed
<1>8. Range(d) \subseteq WholeHooks
  BY <1>3, <1>4, <1>6 DEF Range
<1>9. ASSUME status = "run" PROVE WholeHooks \cap Accepted \subseteq Range(d)
  <2> SUFFICES ASSUME NEW a \in WholeHooks \cap Accepted PROVE a \in Range(d)
    OBVIOUS
  <2>1. parser.ok /\ a \in Took(m) /\ Completed(a, m)
    BY <1>5, <1>7, <1>9 DEF Inv
  <2>2. PICK i \in 1 .. n : d[i] = a
    BY <1>1, <1>2, <2>1 DEF Parsed, NoneMissed
  <2> QED BY <1>3, <2>2 DEF Range
<1>10. ASSUME status = "undefined" PROVE damage.what = "packet" /\ damage.at \in Addresses
  <2>1. parser.overrun
    BY <1>10 DEF Inv
  <2> QED BY <1>1, <2>1 DEF Parsed, Collected, AddressLost
<1>11. \A i, j \in DOMAIN d : i < j => d[i] < d[j]
  BY <1>3, <1>4
<1> QED BY <1>2, <1>8, <1>9, <1>10, <1>11 DEF HookDispatch

\* The groups of a whole stream with a report include the report.
LEMMA OverflowHolds == Inv => OverflowIsFatal
<1> SUFFICES ASSUME Inv, overflow, taken = Len(Bytes), status = "run" PROVE FALSE
  BY DEF OverflowIsFatal
<1>1. ChoicesOK /\ parser.ok
  BY DEF Inv
<1>2. Parsing + Shift <= Len(packets)
  BY <1>1 DEF Inv, Good
<1>3. PICK L, J, T : L = Len(packets) /\ J = junk /\ T = Len(Bytes)
  OBVIOUS
<1>4. /\ L \in Nat /\ J \in 0 .. 3 /\ J \in Nat /\ T \in Nat
      /\ T = IF damage.what = "byte" THEN J + 4 * L + 8 - 1 ELSE J + 4 * L + 8
  <2>1. OverflowLen = 8
    BY DEF OverflowLen
  <2>2. L \in Nat /\ J \in 0 .. 3 /\ J \in Nat
    BY <1>1, <1>3, ChoicesTypes
  <2>3. Len(Whole) = J + 4 * L + 8
    BY <1>1, <1>3, <2>1, WholeStream
  <2>4. Len(Bytes) = IF damage.what = "byte" THEN Len(Whole) - 1 ELSE Len(Whole)
    BY <1>1, StreamOnTheWay
  <2> QED BY <1>3, <2>2, <2>3, <2>4
<1>5. /\ Shift \in {0, 1} /\ (Shift = 1 => damage.what = "byte")
      /\ Start = IF Shift = 1 THEN J + 4 ELSE J + 1
  BY <1>3 DEF Shift, Start
<1>6. Seen = T
  BY <1>3, <1>4, <1>5 DEF Seen
<1>7. Parsing = (T - Start + 1) \div 4
  BY <1>6 DEF Parsing
<1>8. CASE Shift = 1
  <2>1. T - Start + 1 = 4 * (L + 1)
    BY <1>4, <1>5, <1>8
  <2>2. Parsing = L + 1
    BY <1>4, <1>7, <2>1
  <2> QED BY <1>2, <1>3, <1>4, <1>8, <2>2
<1>9. CASE Shift = 0
  <2>1. T - Start + 1 >= 4 * L + 7 /\ T - Start + 1 \in Int
    BY <1>4, <1>5, <1>9
  <2>2. PICK z : z = T - Start + 1
    OBVIOUS
  <2>3. z \div 4 >= L + 1
    BY <1>4, <2>1, <2>2
  <2>4. Parsing >= L + 1 /\ Parsing \in Int
    BY <1>7, <2>1, <2>2, <2>3
  <2> QED BY <1>2, <1>3, <1>4, <1>9, <2>4
<1> QED BY <1>5, <1>8, <1>9

\* The saved file holds the stream from its first flag byte on, whatever blocks it
\* came in (readCallback synchronises once and writes before it parses).
THEOREM StreamInFile == Spec => []FileIsStream
  BY ParsingInvariant, FileHolds, PTL

\* Without a lost byte every packet received whole is accepted once and in order but
\* a damaged one, wherever the blocks are cut (readCallback, parseBlock).
THEOREM OthersAccepted == Spec => []NothingElseLost
  BY ParsingInvariant, OthersHold, PTL

\* After a lost byte no packet is accepted any more; when the byte lost was the first
\* flag byte of the stream, the first packet alone is missing (parsePacket's flag bits).
THEOREM LossDetected == Spec => []LostByteDetected
  BY ParsingInvariant, LossHolds, PTL

\* A word accepted in a burst of which nothing before it was damaged is given the
\* address the bus had (lastAddr and burstIndex in parsePacket).
THEOREM Attributed == Spec => []Attribution
  BY ParsingInvariant, AttributionHolds, PTL

\* A hook burst is dispatched when all its words have been accepted, once and in
\* order, and buf.words is overrun only after the loss of an address (ioHookTrace).
THEOREM BurstsDispatched == Spec => []HookDispatch
  BY ParsingInvariant, DispatchHolds, PTL

\* A host that has received the whole of a stream that ends in an overflow report has
\* stopped, even if a byte was lost before it (parsePacket's fatal error).
THEOREM OverflowStops == Spec => []OverflowIsFatal
  BY ParsingInvariant, OverflowHolds, PTL
=============================================================================
