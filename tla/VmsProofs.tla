------------------------------- MODULE VmsProofs -------------------------------
(***************************************************************************)
(* Theorems about Vms, for every size of the pool, every set of table      *)
(* indexes and every client: the pool, the page tables and the forks.      *)
(***************************************************************************)
EXTENDS Vms, LeastElement, SequenceTheorems, FiniteSetTheorems, TLAPS

--------------------------------------------------------------------------------
(* Positions: index sequences of at most three indexes.                    *)

\* A position is a sequence of at most three indexes.
LEMMA PositionIsSequence ==
    ASSUME NEW pos
    PROVE  pos \in Positions <=> pos \in Seq(Index) /\ Len(pos) \in 0 .. 3
<1>1. ASSUME pos \in Positions PROVE pos \in Seq(Index) /\ Len(pos) \in 0 .. 3
  <2>1. PICK n \in 0 .. 3 : pos \in [1 .. n -> Index]
    BY <1>1 DEF Positions
  <2>2. pos \in Seq(Index)
    BY <2>1, SeqDef
  <2>3. Len(pos) = n
    BY <2>1, <2>2, LenProperties
  <2> QED BY <2>2, <2>3
<1>2. ASSUME pos \in Seq(Index), Len(pos) \in 0 .. 3 PROVE pos \in Positions
  BY <1>2, LenProperties DEF Positions
<1> QED BY <1>1, <1>2

\* A position of length three is a path, any other is a table's.
LEMMA PositionLength ==
    \A p \in Positions : (Len(p) = 3 /\ ~(Len(p) < 3)) \/ (Len(p) # 3 /\ Len(p) < 3)
<1>1. ASSUME NEW p \in Positions
      PROVE  (Len(p) = 3 /\ ~(Len(p) < 3)) \/ (Len(p) # 3 /\ Len(p) < 3)
  <2>1. PICK l \in 0 .. 3 : l = Len(p)
    BY PositionIsSequence
  <2>2. (l = 3 /\ ~(l < 3)) \/ (l # 3 /\ l < 3)
    OBVIOUS
  <2> QED BY <2>1, <2>2
<1> QED BY <1>1

\* An entry of a table's position is a position.
LEMMA PositionExtends ==
    ASSUME NEW pos \in Positions, Len(pos) < 3, NEW i \in Index
    PROVE  /\ Extend(pos, i) \in Positions
           /\ Len(Extend(pos, i)) = Len(pos) + 1
           /\ \A n \in 1 .. Len(pos) : Extend(pos, i)[n] = pos[n]
           /\ Extend(pos, i)[Len(pos) + 1] = i
           /\ Extend(pos, i) # <<>>
<1>1. pos \in Seq(Index) /\ Len(pos) \in 0 .. 2
  BY PositionIsSequence
<1> DEFINE e == Append(pos, i)
<1>2. /\ e \in Seq(Index) /\ e # <<>> /\ Len(e) = Len(pos) + 1
      /\ \A n \in 1 .. Len(pos) : e[n] = pos[n]
      /\ e[Len(pos) + 1] = i
  BY <1>1, AppendProperties
<1>3. Extend(pos, i) = e
  BY DEF Extend
<1> HIDE DEF e
<1>4. Len(e) \in 0 .. 3
  BY <1>1, <1>2
<1>5. e \in Positions
  BY <1>2, <1>4, PositionIsSequence
<1> QED BY <1>2, <1>3, <1>5

\* A position is below one entry of one position.
LEMMA ExtendIsInjective ==
    ASSUME NEW p \in Positions, NEW q \in Positions, NEW i \in Index, NEW j \in Index,
           Extend(p, i) = Extend(q, j)
    PROVE  p = q /\ i = j
BY PositionIsSequence, AppendInjective DEF Extend

\* Every position but the root's is below an entry.
LEMMA PositionShrinks ==
    ASSUME NEW pos \in Positions, pos # <<>>
    PROVE  \E p \in Positions, i \in Index : pos = Extend(p, i) /\ Len(p) < 3
<1>1. pos \in Seq(Index) /\ Len(pos) \in 0 .. 3
  BY PositionIsSequence
<1>2. PICK p \in Seq(Index), i \in Index : pos = Append(p, i)
  BY <1>1, SequenceEmptyOrAppend
<1>3. Len(pos) = Len(p) + 1 /\ Len(p) \in Nat
  BY <1>2, AppendProperties, LenProperties
<1>4. Len(p) \in 0 .. 2
  <2>1. PICK m \in 0 .. 3, n \in Nat : m = Len(pos) /\ n = Len(p)
    BY <1>1, <1>3
  <2>2. m = n + 1
    BY <2>1, <1>3
  <2>3. n \in 0 .. 2
    BY <2>2
  <2> QED BY <2>1, <2>3
<1>5. Len(p) \in 0 .. 3
  BY <1>4
<1>6. p \in Positions
  BY <1>5, PositionIsSequence
<1> QED BY <1>2, <1>6, <1>4 DEF Extend

\* The root's position is the only one of length 0.
LEMMA RootPosition ==
    <<>> \in Positions /\ Len(<<>>) = 0 /\ \A p \in Positions : Len(p) = 0 <=> p = <<>>
<1>1. <<>> \in Seq(Index) /\ Len(<<>>) = 0
  BY EmptySeq
<1>2. ASSUME NEW p \in Positions PROVE Len(p) = 0 <=> p = <<>>
  BY <1>1, PositionIsSequence, EmptySeq
<1>3. Len(<<>>) \in 0 .. 3
  BY <1>1
<1>4. <<>> \in Positions
  BY <1>1, <1>3, PositionIsSequence
<1> QED BY <1>1, <1>2, <1>4

\* What holds of the root and of every extension of a position it holds of, holds of all.
LEMMA Descent ==
    ASSUME NEW S, <<>> \in S,
           \A p \in S \cap Positions : Len(p) < 3 => \A i \in Index : Extend(p, i) \in S
    PROVE  Positions \subseteq S
<1>1. \A p \in Positions : Len(p) = 0 => p \in S
  BY RootPosition
<1>2. ASSUME NEW n \in 0 .. 2, \A p \in Positions : Len(p) = n => p \in S,
             NEW q \in Positions, Len(q) = n + 1
      PROVE  q \in S
  <2>1. q # <<>>
    BY <1>2, RootPosition
  <2>2. PICK p \in Positions, i \in Index : q = Extend(p, i) /\ Len(p) < 3
    BY <2>1, PositionShrinks
  <2>3. Len(q) = Len(p) + 1 /\ Len(p) \in 0 .. 3
    BY <2>2, PositionExtends, PositionIsSequence
  <2> QED BY <1>2, <2>2, <2>3
<1>3. \A p \in Positions : Len(p) = 1 => p \in S
  BY <1>1, <1>2
<1>4. \A p \in Positions : Len(p) = 2 => p \in S
  BY <1>3, <1>2
<1>5. \A p \in Positions : Len(p) = 3 => p \in S
  BY <1>4, <1>2
<1> QED BY <1>1, <1>3, <1>4, <1>5, PositionIsSequence

\* The parent of an entry's position is the table's.
LEMMA ParentExtend ==
    ASSUME NEW p \in Positions, Len(p) < 3, NEW i \in Index
    PROVE  Parent(Extend(p, i)) = p
<1>1. p \in Seq(Index) /\ Len(p) \in 0 .. 3
  BY PositionIsSequence
<1> DEFINE e == Extend(p, i)
<1>2. e \in Positions /\ Len(e) = Len(p) + 1 /\ \A n \in 1 .. Len(p) : e[n] = p[n]
  BY PositionExtends
<1>3. e \in Seq(Index)
  BY <1>2, PositionIsSequence
<1> HIDE DEF e
<1>4. \A n \in 1 .. Len(p) : e[n] \in Index
  BY <1>1, <1>2, ElementOfSeq
<1>5. /\ SubSeq(e, 1, Len(p)) \in Seq(Index)
      /\ Len(SubSeq(e, 1, Len(p))) = Len(p)
      /\ \A n \in 1 .. Len(p) : SubSeq(e, 1, Len(p))[n] = e[n]
  BY <1>1, <1>2, <1>4, SubSeqProperties, Z3
<1>6. SubSeq(e, 1, Len(p)) = p
  BY <1>1, <1>2, <1>5, SeqEqual
<1> QED BY <1>1, <1>2, <1>6 DEF e, Parent

--------------------------------------------------------------------------------
(* Positions and the order of the loops, coded as numbers in base 513.     *)

\* A table has at most 512 entries.
LEMMA IndexIsNat == \A i \in Index : i \in Nat /\ i \in 0 .. 511
BY VmsAssumption

DigitAt(p, n) == IF n <= Len(p) THEN p[n] + 1 ELSE 0
Code(p) == 513 * (513 * DigitAt(p, 1) + DigitAt(p, 2)) + DigitAt(p, 3)
Top == 513 * (513 * 512 + 512) + 512

\* The largest code.
LEMMA TopIsNat == Top \in Nat /\ IsFiniteSet(0 .. Top)
<1>1. Top \in Nat
  BY DEF Top
<1>2. 0 \in Int /\ Top \in Int
  BY <1>1
<1> QED BY <1>1, <1>2, FS_Interval

\* The digits of a position: 0 past its end, more within it.
LEMMA Digits ==
    ASSUME NEW p \in Positions
    PROVE  /\ DigitAt(p, 1) \in 0 .. 512 /\ DigitAt(p, 2) \in 0 .. 512 /\ DigitAt(p, 3) \in 0 .. 512
           /\ \A n \in 1 .. 3 : DigitAt(p, n) = 0 <=> Len(p) < n
           /\ \A n \in 1 .. 3 : DigitAt(p, n) # 0 => DigitAt(p, n) = p[n] + 1
<1>1. p \in Seq(Index) /\ Len(p) \in 0 .. 3
  BY PositionIsSequence
<1>2. \A n \in 1 .. Len(p) : p[n] \in 0 .. 511
  BY <1>1, ElementOfSeq, VmsAssumption
<1>3. PICK l \in 0 .. 3 : l = Len(p)
  BY <1>1
<1>4. \A n \in 1 .. l : p[n] \in 0 .. 511
  BY <1>2, <1>3
<1>5. ASSUME NEW n \in 1 .. 3
      PROVE  /\ DigitAt(p, n) \in 0 .. 512
             /\ DigitAt(p, n) = 0 <=> l < n
             /\ DigitAt(p, n) # 0 => DigitAt(p, n) = p[n] + 1
  <2>1. CASE n <= l
    <3>1. p[n] \in 0 .. 511 /\ DigitAt(p, n) = p[n] + 1
      BY <2>1, <1>3, <1>4 DEF DigitAt
    <3> QED BY <3>1, <2>1
  <2>2. CASE ~(n <= l)
    BY <2>2, <1>3 DEF DigitAt
  <2> QED BY <2>1, <2>2
<1> QED BY <1>3, <1>5

\* A code is a number up to the largest.
LEMMA CodeType ==
    ASSUME NEW p \in Positions
    PROVE  Code(p) \in 0 .. Top
<1>1. PICK a \in 0 .. 512, b \in 0 .. 512, c \in 0 .. 512 :
          a = DigitAt(p, 1) /\ b = DigitAt(p, 2) /\ c = DigitAt(p, 3)
  <2>1. DigitAt(p, 1) \in 0 .. 512 /\ DigitAt(p, 2) \in 0 .. 512 /\ DigitAt(p, 3) \in 0 .. 512
    BY Digits
  <2> QED BY <2>1, ZenonT(30)
<1>2. PICK x \in Nat : x = 513 * a + b
  OBVIOUS
<1>3. x <= 513 * 512 + 512
  BY <1>2
<1>4. 513 * x + c \in Nat /\ 513 * x + c <= Top
  BY <1>3 DEF Top
<1> QED BY <1>1, <1>2, <1>4, TopIsNat DEF Code

\* Two positions have two codes.
LEMMA CodeIsInjective ==
    ASSUME NEW p \in Positions, NEW q \in Positions, Code(p) = Code(q)
    PROVE  p = q
<1>1. PICK a \in 0 .. 512, b \in 0 .. 512, c \in 0 .. 512 :
          a = DigitAt(p, 1) /\ b = DigitAt(p, 2) /\ c = DigitAt(p, 3)
  <2>1. DigitAt(p, 1) \in 0 .. 512 /\ DigitAt(p, 2) \in 0 .. 512 /\ DigitAt(p, 3) \in 0 .. 512
    BY Digits
  <2> QED BY <2>1, ZenonT(30)
<1>2. PICK d \in 0 .. 512, e \in 0 .. 512, f \in 0 .. 512 :
          d = DigitAt(q, 1) /\ e = DigitAt(q, 2) /\ f = DigitAt(q, 3)
  <2>1. DigitAt(q, 1) \in 0 .. 512 /\ DigitAt(q, 2) \in 0 .. 512 /\ DigitAt(q, 3) \in 0 .. 512
    BY Digits
  <2> QED BY <2>1, ZenonT(30)
<1>3. 513 * (513 * a + b) + c = 513 * (513 * d + e) + f
  BY <1>1, <1>2, SMT DEF Code
<1>4. a = d /\ b = e /\ c = f
  BY <1>3, SMTT(30)
<1>5. \A n \in 1 .. 3 : DigitAt(p, n) = DigitAt(q, n)
  BY <1>1, <1>2, <1>4
<1>6. p \in Seq(Index) /\ Len(p) \in 0 .. 3 /\ q \in Seq(Index) /\ Len(q) \in 0 .. 3
  BY PositionIsSequence
<1>7. PICK l \in 0 .. 3, m \in 0 .. 3 : l = Len(p) /\ m = Len(q)
  BY <1>6
<1>8. \A n \in 1 .. 3 : l < n <=> m < n
  BY <1>5, <1>7, Digits
<1>9. l = m
  BY <1>8
<1>10. ASSUME NEW n \in 1 .. l PROVE p[n] = q[n]
  <2>1. n \in 1 .. 3 /\ ~(l < n)
    OBVIOUS
  <2>2. DigitAt(p, n) # 0 /\ DigitAt(p, n) = p[n] + 1 /\ DigitAt(q, n) = q[n] + 1
    BY <2>1, <1>5, <1>7, Digits
  <2>3. p[n] \in Index /\ q[n] \in Index
    BY <1>6, <1>7, <1>9, ElementOfSeq
  <2>4. p[n] \in Nat /\ q[n] \in Nat
    BY <2>3, IndexIsNat
  <2> QED BY <2>2, <2>4, <1>5, <2>1
<1> QED BY <1>6, <1>7, <1>9, <1>10, SeqEqual

\* So the positions are finitely many.
LEMMA PositionsAreFinite == IsFiniteSet(Positions)
<1> DEFINE f == [p \in Positions |-> Code(p)]
<1>1. f \in Injection(Positions, 0 .. Top)
  <2>1. f \in [Positions -> 0 .. Top]
    BY CodeType
  <2>2. \A p, q \in Positions : f[p] = f[q] => p = q
    BY CodeIsInjective
  <2> HIDE DEF f
  <2> QED BY <2>1, <2>2 DEF Injection, IsInjective
<1> HIDE DEF f
<1> QED BY <1>1, TopIsNat, FS_Injection

\* The loops meet the positions in the order of their codes.
LEMMA PrecedesIsLess ==
    ASSUME NEW p \in Positions, NEW q \in Positions
    PROVE  Precedes(p, q) <=> Code(p) < Code(q)
<1>1. PICK a \in 0 .. 512, b \in 0 .. 512, c \in 0 .. 512 :
          a = DigitAt(p, 1) /\ b = DigitAt(p, 2) /\ c = DigitAt(p, 3)
  <2>1. DigitAt(p, 1) \in 0 .. 512 /\ DigitAt(p, 2) \in 0 .. 512 /\ DigitAt(p, 3) \in 0 .. 512
    BY Digits
  <2> QED BY <2>1, ZenonT(30)
<1>2. PICK d \in 0 .. 512, e \in 0 .. 512, f \in 0 .. 512 :
          d = DigitAt(q, 1) /\ e = DigitAt(q, 2) /\ f = DigitAt(q, 3)
  <2>1. DigitAt(q, 1) \in 0 .. 512 /\ DigitAt(q, 2) \in 0 .. 512 /\ DigitAt(q, 3) \in 0 .. 512
    BY Digits
  <2> QED BY <2>1, ZenonT(30)
<1>3. p \in Seq(Index) /\ Len(p) \in 0 .. 3 /\ q \in Seq(Index) /\ Len(q) \in 0 .. 3
  BY PositionIsSequence
<1>4. PICK l \in 0 .. 3, m \in 0 .. 3 : l = Len(p) /\ m = Len(q)
  BY <1>3
<1>5. Code(p) < Code(q) <=> a < d \/ (a = d /\ (b < e \/ (b = e /\ c < f)))
  <2>1. Code(p) = 513 * (513 * a + b) + c /\ Code(q) = 513 * (513 * d + e) + f
    BY <1>1, <1>2, SMT DEF Code
  <2> QED BY <2>1, SMTT(30)
<1>6. /\ a = 0 <=> l < 1
      /\ b = 0 <=> l < 2
      /\ c = 0 <=> l < 3
      /\ d = 0 <=> m < 1
      /\ e = 0 <=> m < 2
      /\ f = 0 <=> m < 3
  BY <1>1, <1>2, <1>4, Digits
<1>7. /\ a # 0 => a = p[1] + 1
      /\ b # 0 => b = p[2] + 1
      /\ c # 0 => c = p[3] + 1
      /\ d # 0 => d = q[1] + 1
      /\ e # 0 => e = q[2] + 1
      /\ f # 0 => f = q[3] + 1
  BY <1>1, <1>2, Digits
<1>8. (\A n \in 1 .. l : p[n] \in Nat) /\ (\A n \in 1 .. m : q[n] \in Nat)
  <2>1. (\A n \in 1 .. l : p[n] \in Index) /\ (\A n \in 1 .. m : q[n] \in Index)
    BY <1>3, <1>4, ElementOfSeq
  <2> QED BY <2>1, IndexIsNat
<1>9. ASSUME l < m PROVE p = SubSeq(q, 1, l) <=> \A n \in 1 .. l : p[n] = q[n]
  <2>1. /\ SubSeq(q, 1, l) \in Seq(Index)
        /\ Len(SubSeq(q, 1, l)) = l
        /\ \A n \in 1 .. l : SubSeq(q, 1, l)[n] = q[n]
    <3>1. \A n \in 1 .. l : q[n] \in Index
      BY <1>3, <1>4, <1>9, ElementOfSeq
    <3>2. /\ SubSeq(q, 1, l) \in Seq(Index)
          /\ Len(SubSeq(q, 1, l)) = IF 1 <= l THEN l - 1 + 1 ELSE 0
          /\ \A n \in 1 .. l - 1 + 1 : SubSeq(q, 1, l)[n] = q[1 + n - 1]
      BY <3>1, SubSeqProperties
    <3> QED BY <3>2
  <2> QED BY <2>1, <1>3, <1>4, SeqEqual
<1>10. Precedes(p, q) <=> \/ l < m /\ \A n \in 1 .. l : p[n] = q[n]
                          \/ \E n \in 1 .. l : /\ n <= m /\ p[n] < q[n]
                                               /\ \A k \in 1 .. n - 1 : p[k] = q[k]
  BY <1>4, <1>9 DEF Precedes
<1>11. (l >= 1 => p[1] = a - 1 /\ p[1] \in Nat) /\ (m >= 1 => q[1] = d - 1 /\ q[1] \in Nat)
  BY <1>6, <1>7, <1>8
<1>12. (l >= 2 => p[2] = b - 1 /\ p[2] \in Nat) /\ (m >= 2 => q[2] = e - 1 /\ q[2] \in Nat)
  BY <1>6, <1>7, <1>8
<1>13. (l >= 3 => p[3] = c - 1 /\ p[3] \in Nat) /\ (m >= 3 => q[3] = f - 1 /\ q[3] \in Nat)
  BY <1>6, <1>7, <1>8
<1>14. ASSUME l < m, \A n \in 1 .. l : p[n] = q[n] PROVE Code(p) < Code(q)
  <2>1. (l >= 1 => a = d) /\ (l >= 2 => b = e)
    BY <1>14, <1>11, <1>12
  <2>2. a < d \/ (a = d /\ (b < e \/ (b = e /\ c < f)))
    <3>1. CASE l = 0
      BY <3>1, <1>14, <1>6
    <3>2. CASE l = 1
      BY <3>2, <2>1, <1>14, <1>6
    <3>3. CASE l = 2
      BY <3>3, <2>1, <1>14, <1>6
    <3> QED BY <3>1, <3>2, <3>3, <1>14
  <2> QED BY <2>2, <1>5
<1>15. ASSUME NEW n \in 1 .. l, n <= m, p[n] < q[n], \A k \in 1 .. n - 1 : p[k] = q[k]
       PROVE  Code(p) < Code(q)
  <2>1. CASE n = 1
    BY <2>1, <1>15, <1>5, <1>11
  <2>2. CASE n = 2
    <3>1. p[1] = q[1]
      BY <2>2, <1>15
    <3>2. a = d /\ b < e
      BY <2>2, <3>1, <1>15, <1>11, <1>12
    <3> QED BY <3>2, <1>5
  <2>3. CASE n = 3
    <3>1. p[1] = q[1] /\ p[2] = q[2]
      BY <2>3, <1>15
    <3>2. a = d /\ b = e /\ c < f
      BY <2>3, <3>1, <1>15, <1>11, <1>12, <1>13
    <3> QED BY <3>2, <1>5
  <2> QED BY <2>1, <2>2, <2>3
<1>16. ASSUME Code(p) < Code(q) PROVE Precedes(p, q)
  <2>1. CASE a < d
    <3>1. CASE l = 0
      BY <3>1, <2>1, <1>6, <1>10
    <3>2. CASE l > 0
      <4>1. 1 \in 1 .. l /\ 1 <= m /\ p[1] < q[1] /\ \A k \in 1 .. 1 - 1 : p[k] = q[k]
        BY <3>2, <2>1, <1>6, <1>11
      <4> QED BY <4>1, <1>10
    <3> QED BY <3>1, <3>2
  <2>2. CASE a = d /\ b < e
    <3>1. CASE l = 1
      BY <3>1, <2>2, <1>6, <1>10, <1>11
    <3>2. CASE l > 1
      <4>1. 2 \in 1 .. l /\ 2 <= m /\ p[2] < q[2] /\ \A k \in 1 .. 2 - 1 : p[k] = q[k]
        BY <3>2, <2>2, <1>6, <1>11, <1>12
      <4> QED BY <4>1, <1>10
    <3>3. l # 0
      BY <2>2, <1>6
    <3> QED BY <3>1, <3>2, <3>3
  <2>3. CASE a = d /\ b = e /\ c < f
    <3>1. CASE l = 2
      BY <3>1, <2>3, <1>6, <1>10, <1>11, <1>12
    <3>2. CASE l = 3
      <4>1. 3 \in 1 .. l /\ 3 <= m /\ p[3] < q[3] /\ \A k \in 1 .. 3 - 1 : p[k] = q[k]
        BY <3>2, <2>3, <1>6, <1>11, <1>12, <1>13
      <4> QED BY <4>1, <1>10
    <3>3. l # 0 /\ l # 1
      BY <2>3, <1>6
    <3> QED BY <3>1, <3>2, <3>3
  <2> QED BY <1>16, <1>5, <2>1, <2>2, <2>3
<1> QED BY <1>10, <1>14, <1>15, <1>16

\* A finite set whose elements are told apart by numbers: counting the smaller ones
\* numbers them from 0.
Rank(S, c, x) == Cardinality({y \in S : c[y] < c[x]})

\* In a finite set of numbers, the ranks are 0 up to the size less one.
LEMMA Ranks ==
    ASSUME NEW S, IsFiniteSet(S), NEW c \in [S -> Nat],
           \A x, y \in S : c[x] = c[y] => x = y
    PROVE  /\ \A x \in S : Rank(S, c, x) \in 0 .. Cardinality(S) - 1
           /\ \A x, y \in S : Rank(S, c, x) = Rank(S, c, y) => x = y
           /\ \A n \in 0 .. Cardinality(S) - 1 : \E x \in S : Rank(S, c, x) = n
<1> DEFINE B(x) == {y \in S : c[y] < c[x]}
           r == [x \in S |-> Cardinality(B(x))]
           n == Cardinality(S)
<1>1. n \in Nat
  BY FS_CardinalityType
<1>2. ASSUME NEW x \in S PROVE IsFiniteSet(B(x)) /\ Cardinality(B(x)) \in 0 .. n - 1
  <2>1. B(x) \in SUBSET S /\ x \notin B(x)
    OBVIOUS
  <2>2. IsFiniteSet(B(x)) /\ Cardinality(B(x)) <= n /\ (n = Cardinality(B(x)) => S = B(x))
    BY <2>1, FS_Subset
  <2>3. Cardinality(B(x)) \in Nat
    BY <2>2, FS_CardinalityType
  <2>4. n # Cardinality(B(x))
    BY <2>1, <2>2
  <2> HIDE DEF B, n
  <2> QED BY <2>2, <2>3, <2>4, <1>1
<1>3. ASSUME NEW x \in S, NEW y \in S, c[x] < c[y] PROVE Cardinality(B(x)) < Cardinality(B(y))
  <2>1. B(x) \in SUBSET B(y) /\ x \in B(y) /\ x \notin B(x)
    BY <1>3
  <2>2. /\ Cardinality(B(x)) <= Cardinality(B(y))
        /\ Cardinality(B(y)) = Cardinality(B(x)) => B(y) = B(x)
    BY <2>1, <1>2, FS_Subset
  <2>3. Cardinality(B(x)) \in Nat /\ Cardinality(B(y)) \in Nat
    BY <1>2, FS_CardinalityType
  <2>4. Cardinality(B(y)) # Cardinality(B(x))
    BY <2>1, <2>2
  <2> HIDE DEF B
  <2> QED BY <2>2, <2>3, <2>4
<1>4. ASSUME NEW x \in S, NEW y \in S, Cardinality(B(x)) = Cardinality(B(y)) PROVE x = y
  <2>1. c[x] \in Nat /\ c[y] \in Nat
    OBVIOUS
  <2>2. ~(c[x] < c[y]) /\ ~(c[y] < c[x])
    <3>1. Cardinality(B(x)) \in Nat /\ Cardinality(B(y)) \in Nat
      BY <1>2, FS_CardinalityType
    <3> HIDE DEF B
    <3> QED BY <1>3, <1>4, <3>1
  <2>3. c[x] = c[y]
    BY <2>1, <2>2
  <2> QED BY <2>3
<1>5. r \in Injection(S, 0 .. n - 1)
  <2>1. \A x \in S : r[x] = Cardinality(B(x))
    OBVIOUS
  <2>2. r \in [S -> 0 .. n - 1]
    BY <1>2
  <2> HIDE DEF r, B, n
  <2> QED BY <1>4, <2>1, <2>2 DEF Injection, IsInjective
<1>6. IsFiniteSet(0 .. n - 1) /\ Cardinality(0 .. n - 1) = n
  BY <1>1, FS_Interval
<1>7. r \in Surjection(S, 0 .. n - 1)
  BY <1>5, <1>6, FS_Injection
<1>8. ASSUME NEW m \in 0 .. n - 1 PROVE \E x \in S : Cardinality(B(x)) = m
  <2>1. \E x \in S : r[x] = m
    BY <1>7 DEF Surjection
  <2> QED BY <2>1
<1> QED BY <1>2, <1>4, <1>8 DEF Rank

--------------------------------------------------------------------------------
(* Finite sets of pages and positions; the pages of successive allocations.*)

\* A set of pages is finite, and no larger than the pool.
LEMMA SomePagesAreFinite ==
    ASSUME NEW S, S \subseteq Page
    PROVE  /\ IsFiniteSet(S) /\ S \subseteq Nat
           /\ Cardinality(S) \in Nat /\ Cardinality(S) <= MaxPages
<1>1. IsFiniteSet(Page) /\ Cardinality(Page) = MaxPages /\ Page \subseteq Nat
  BY FS_Interval, VmsAssumption DEF Page
<1>2. IsFiniteSet(S) /\ Cardinality(S) <= Cardinality(Page)
  BY <1>1, FS_Subset
<1>3. Cardinality(S) \in Nat
  BY <1>2, FS_CardinalityType
<1> QED BY <1>1, <1>2, <1>3

\* The free pages are finitely many.
LEMMA FreeIsFinite ==
    /\ IsFiniteSet(Free) /\ Free \subseteq Nat /\ Free \subseteq Page
    /\ Cardinality(Free) \in Nat
<1>1. Free \subseteq Page
  BY DEF Free
<1> QED BY <1>1, SomePagesAreFinite

\* A set of positions is finite.
LEMMA SubsetsAreFinite ==
    ASSUME NEW S, S \subseteq Positions
    PROVE  IsFiniteSet(S) /\ Cardinality(S) \in Nat
BY PositionsAreFinite, FS_Subset, FS_CardinalityType

\* The numbers of the positions of a set in the order of the loops.
LEMMA Numbering ==
    ASSUME NEW S, S \subseteq Positions
    PROVE  /\ \A pos \in S : Cardinality({p \in S : Precedes(p, pos)}) \in 0 .. Cardinality(S) - 1
           /\ \A pos, other \in S :
                  Cardinality({p \in S : Precedes(p, pos)})
                      = Cardinality({p \in S : Precedes(p, other)}) => pos = other
           /\ \A n \in 0 .. Cardinality(S) - 1 :
                  \E pos \in S : Cardinality({p \in S : Precedes(p, pos)}) = n
<1> DEFINE c == [pos \in S |-> Code(pos)]
<1>1. c \in [S -> Nat]
  BY CodeType, TopIsNat
<1>2. \A x, y \in S : c[x] = c[y] => x = y
  BY CodeIsInjective
<1>3. ASSUME NEW pos \in S
      PROVE  Cardinality({p \in S : Precedes(p, pos)}) = Rank(S, c, pos)
  <2>1. {p \in S : Precedes(p, pos)} = {p \in S : c[p] < c[pos]}
    BY PrecedesIsLess
  <2> QED BY <2>1 DEF Rank
<1>4. IsFiniteSet(S)
  BY SubsetsAreFinite
<1> HIDE DEF c
<1>5. /\ \A x \in S : Rank(S, c, x) \in 0 .. Cardinality(S) - 1
      /\ \A x, y \in S : Rank(S, c, x) = Rank(S, c, y) => x = y
      /\ \A n \in 0 .. Cardinality(S) - 1 : \E x \in S : Rank(S, c, x) = n
  BY <1>1, <1>2, <1>4, Ranks
<1> QED BY <1>3, <1>5

\* The calls of vms_new_page that find a page find different ones.
LEMMA NthFreeIsFree ==
    /\ \A n \in 1 .. Cardinality(Free) : NthFree(n) \in Free
    /\ \A m, n \in 1 .. Cardinality(Free) : NthFree(m) = NthFree(n) => m = n
<1> DEFINE c == [i \in Free |-> i]
<1>1. IsFiniteSet(Free) /\ Cardinality(Free) \in Nat /\ Free \subseteq Nat
  BY FreeIsFinite
<1>2. c \in [Free -> Nat] /\ \A x, y \in Free : c[x] = c[y] => x = y
  BY <1>1
<1>3. ASSUME NEW i \in Free
      PROVE  Cardinality({j \in Free : j < i}) = Rank(Free, c, i)
  <2>1. {j \in Free : j < i} = {j \in Free : c[j] < c[i]}
    OBVIOUS
  <2> QED BY <2>1 DEF Rank
<1> HIDE DEF c
<1>4. \A n \in 0 .. Cardinality(Free) - 1 : \E x \in Free : Rank(Free, c, x) = n
  <2>1. IsFiniteSet(Free)
    BY FreeIsFinite
  <2> QED BY <1>2, <2>1, Ranks, SMTT(30)
<1>5. ASSUME NEW n \in 1 .. Cardinality(Free)
      PROVE  /\ NthFree(n) \in Free
             /\ Cardinality({j \in Free : j < NthFree(n)}) = n - 1
  <2>1. n - 1 \in 0 .. Cardinality(Free) - 1
    BY <1>1
  <2>2. \E i \in Free : Cardinality({j \in Free : j < i}) = n - 1
    BY <2>1, <1>3, <1>4
  <2> QED BY <2>2 DEF NthFree
<1>6. ASSUME NEW m \in 1 .. Cardinality(Free), NEW n \in 1 .. Cardinality(Free),
             NthFree(m) = NthFree(n)
      PROVE  m = n
  <2>1. m - 1 = n - 1
    BY <1>5, <1>6
  <2> QED BY <2>1, <1>1
<1> QED BY <1>5, <1>6

\* The pages handed out for a set of positions are free and differ.
LEMMA NewPagesAreApart ==
    ASSUME NEW S, S \subseteq Positions, Cardinality(S) <= Cardinality(Free)
    PROVE  /\ DOMAIN NewPages(S) = S
           /\ NewPages(S) \in [S -> Free]
           /\ \A p, q \in S : NewPages(S)[p] = NewPages(S)[q] => p = q
<1> DEFINE n(pos) == Cardinality({p \in S : Precedes(p, pos)})
<1>1. Cardinality(S) \in Nat /\ Cardinality(Free) \in Nat
  BY SubsetsAreFinite, FreeIsFinite
<1>2. \A pos \in S : n(pos) \in 0 .. Cardinality(S) - 1
  BY Numbering
<1>3. \A p, q \in S : n(p) = n(q) => p = q
  BY Numbering
<1>4. \A pos \in S : NewPages(S)[pos] = NthFree(1 + n(pos))
  BY DEF NewPages
<1> HIDE DEF n
<1>5. \A pos \in S : 1 + n(pos) \in 1 .. Cardinality(Free)
  BY <1>1, <1>2
<1>6. ASSUME NEW p \in S, NEW q \in S, NewPages(S)[p] = NewPages(S)[q] PROVE p = q
  <2>1. 1 + n(p) = 1 + n(q)
    BY <1>4, <1>5, <1>6, NthFreeIsFree
  <2>2. n(p) \in Int /\ n(q) \in Int
    BY <1>2
  <2> QED BY <1>3, <2>1, <2>2
<1>7. \A pos \in S : NewPages(S)[pos] \in Free
  BY <1>4, <1>5, NthFreeIsFree
<1> QED BY <1>6, <1>7 DEF NewPages

\* An image of a function that tells the elements of its domain apart is as large.
LEMMA ImageSize ==
    ASSUME NEW S, IsFiniteSet(S), NEW f, DOMAIN f = S,
           \A x, y \in S : f[x] = f[y] => x = y
    PROVE  /\ IsFiniteSet({f[x] : x \in S})
           /\ Cardinality({f[x] : x \in S}) = Cardinality(S)
<1> DEFINE T == {f[x] : x \in S}
           g == [x \in S |-> f[x]]
<1>1. g \in Surjection(S, T) /\ g \in Injection(S, T)
  BY DEF Surjection, Injection, IsInjective
<1> QED BY <1>1, FS_Surjection

\* A new page has one position.
LEMMA PageOfNew ==
    ASSUME NEW new, NEW pos \in DOMAIN new,
           \A p, q \in DOMAIN new : new[p] = new[q] => p = q
    PROVE  PositionOf(new, new[pos]) = pos
BY DEF PositionOf

--------------------------------------------------------------------------------
(* Following page numbers from a root.                                     *)

Walk(root, pos) ==
    CHOOSE at : at = [n \in 0 .. Len(pos) |-> IF n = 0 THEN root
                                              ELSE memory[at[n - 1]][pos[n]].ppn]

\* The function that PageAt follows exists: PageAt is its last value.
LEMMA WalkSteps ==
    ASSUME NEW root, NEW pos \in Positions
    PROVE  /\ PageAt(root, pos) = Walk(root, pos)[Len(pos)]
           /\ Walk(root, pos)[0] = root
           /\ \A n \in 1 .. Len(pos) :
                  Walk(root, pos)[n] = memory[Walk(root, pos)[n - 1]][pos[n]].ppn
<1>1. PICK l \in 0 .. 3 : l = Len(pos)
  BY PositionIsSequence
<1> DEFINE p1 == memory[root][pos[1]].ppn
           p2 == memory[p1][pos[2]].ppn
           p3 == memory[p2][pos[3]].ppn
           g == [n \in 0 .. l |-> IF n = 0 THEN root ELSE IF n = 1 THEN p1
                                  ELSE IF n = 2 THEN p2 ELSE p3]
           F(at) == [n \in 0 .. l |-> IF n = 0 THEN root ELSE memory[at[n - 1]][pos[n]].ppn]
<1>2. p2 = memory[p1][pos[2]].ppn /\ p3 = memory[p2][pos[3]].ppn
  OBVIOUS
<1>3. p1 = memory[root][pos[1]].ppn
  OBVIOUS
<1> HIDE DEF p1, p2, p3
<1>4. \A n \in 0 .. l : g[n] = IF n = 0 THEN root ELSE IF n = 1 THEN p1
                                ELSE IF n = 2 THEN p2 ELSE p3
  OBVIOUS
<1>5. \A n \in 0 .. l : F(g)[n] = IF n = 0 THEN root ELSE memory[g[n - 1]][pos[n]].ppn
  OBVIOUS
<1>6. g = [n \in 0 .. l |-> g[n]] /\ F(g) = [n \in 0 .. l |-> F(g)[n]]
  OBVIOUS
<1>7. \A n \in 0 .. l : F(g)[n] = g[n]
  <2> HIDE DEF g, F
  <2>1. ASSUME NEW n \in 0 .. l PROVE F(g)[n] = g[n]
    <3>1. CASE n = 0
      BY <1>4, <1>5, <3>1
    <3>2. CASE n = 1
      <4>1. 0 \in 0 .. l /\ n - 1 = 0 /\ n # 0
        BY <3>2
      <4>2. g[0] = root /\ g[n] = p1
        BY <1>4, <3>2, <4>1
      <4>3. F(g)[n] = memory[g[n - 1]][pos[n]].ppn
        BY <1>5, <4>1
      <4> QED BY <1>2, <1>3, <3>2, <4>1, <4>2, <4>3
    <3>3. CASE n = 2
      <4>1. 1 \in 0 .. l /\ n - 1 = 1 /\ n # 0
        BY <3>3
      <4>2. g[1] = p1 /\ g[n] = p2
        BY <1>4, <3>3, <4>1
      <4>3. F(g)[n] = memory[g[n - 1]][pos[n]].ppn
        BY <1>5, <4>1
      <4> QED BY <1>2, <1>3, <3>3, <4>1, <4>2, <4>3
    <3>4. CASE n = 3
      <4>1. 2 \in 0 .. l /\ n - 1 = 2 /\ n # 0
        BY <3>4
      <4>2. g[2] = p2 /\ g[n] = p3
        BY <1>4, <3>4, <4>1
      <4>3. F(g)[n] = memory[g[n - 1]][pos[n]].ppn
        BY <1>5, <4>1
      <4> QED BY <1>2, <1>3, <3>4, <4>1, <4>2, <4>3
    <3> QED BY <3>1, <3>2, <3>3, <3>4
  <2> QED BY <2>1
<1>8. F(g) = g
  <2> HIDE DEF g, F
  <2> QED BY <1>7, <1>6
<1>9. \E at : at = F(at)
  BY <1>8
<1>10. Walk(root, pos) = CHOOSE at : at = F(at)
  BY <1>1 DEF Walk
<1>11. Walk(root, pos) = F(Walk(root, pos))
  <2> HIDE DEF F
  <2> QED BY <1>9, <1>10
<1>12. PageAt(root, pos) = Walk(root, pos)[Len(pos)]
  BY DEF PageAt, Walk
<1>13. \A n \in 0 .. l : Walk(root, pos)[n] =
          IF n = 0 THEN root ELSE memory[Walk(root, pos)[n - 1]][pos[n]].ppn
  BY <1>11
<1> QED BY <1>1, <1>12, <1>13

\* One step of the walk.
LEMMA WalkExtends ==
    ASSUME NEW root, NEW pos \in Positions, Len(pos) < 3, NEW i \in Index
    PROVE  PageAt(root, Extend(pos, i)) = memory[PageAt(root, pos)][i].ppn
<1> DEFINE e == Extend(pos, i)
<1>1. PICK l \in 0 .. 2 : l = Len(pos)
  BY PositionIsSequence
<1>2. e \in Positions /\ Len(e) = l + 1 /\ (\A n \in 1 .. l : e[n] = pos[n]) /\ e[l + 1] = i
  BY <1>1, PositionExtends
<1> HIDE DEF e
<1>3. /\ PageAt(root, e) = Walk(root, e)[l + 1]
      /\ Walk(root, e)[0] = root
      /\ \A n \in 1 .. l + 1 : Walk(root, e)[n] = memory[Walk(root, e)[n - 1]][e[n]].ppn
  BY <1>2, WalkSteps
<1>4. /\ PageAt(root, pos) = Walk(root, pos)[l]
      /\ Walk(root, pos)[0] = root
      /\ \A n \in 1 .. l : Walk(root, pos)[n] = memory[Walk(root, pos)[n - 1]][pos[n]].ppn
  BY <1>1, WalkSteps
<1>5. Walk(root, e)[l] = Walk(root, pos)[l]
  <2>1. l >= 1 => Walk(root, e)[1] = Walk(root, pos)[1]
    BY <1>2, <1>3, <1>4
  <2>2. l >= 2 => Walk(root, e)[2] = Walk(root, pos)[2]
    BY <2>1, <1>2, <1>3, <1>4
  <2>3. l = 0 \/ l = 1 \/ l = 2
    OBVIOUS
  <2> QED BY <2>1, <2>2, <2>3, <1>3, <1>4
<1>6. Walk(root, e)[l + 1] = memory[Walk(root, e)[l]][e[l + 1]].ppn
  BY <1>3
<1> QED BY <1>2, <1>3, <1>4, <1>5, <1>6 DEF e

\* The last index of an entry's position.
LEMMA LastExtend ==
    ASSUME NEW pos \in Positions, Len(pos) < 3, NEW i \in Index
    PROVE  Extend(pos, i)[Len(Extend(pos, i))] = i
BY PositionExtends

\* The word that an entry's position is entered by.
LEMMA EntryExtends ==
    ASSUME NEW root, NEW pos \in Positions, Len(pos) < 3, NEW i \in Index
    PROVE  EntryAt(root, Extend(pos, i)) = memory[PageAt(root, pos)][i]
BY ParentExtend, LastExtend DEF EntryAt

\* The root is in its tree, at the root table.
LEMMA RootOfTree ==
    ASSUME NEW root
    PROVE  <<>> \in Tree(root) /\ PageAt(root, <<>>) = root
<1>1. PageAt(root, <<>>) = root
  BY RootPosition, WalkSteps
<1>2. ValidAt(root, <<>>)
  BY RootPosition DEF ValidAt
<1> QED BY <1>1, <1>2, RootPosition DEF Tree

\* A position below a valid entry of a tree is in the tree.
LEMMA TreeExtends ==
    ASSUME NEW root, NEW pos \in Positions, Len(pos) < 3, NEW i \in Index
    PROVE  Extend(pos, i) \in Tree(root)
               <=> pos \in Tree(root) /\ memory[PageAt(root, pos)][i].valid
<1> DEFINE e == Extend(pos, i)
<1>1. PICK l \in 0 .. 2 : l = Len(pos)
  BY PositionIsSequence
<1>2. e \in Positions /\ Len(e) = l + 1
  BY <1>1, PositionExtends
<1>3. EntryAt(root, SubSeq(e, 1, l + 1)) = memory[PageAt(root, pos)][i]
  <2>1. SubSeq(e, 1, l + 1) = e
    BY <1>2, PositionIsSequence, SubSeqFull
  <2> QED BY <2>1, EntryExtends
<1>4. ASSUME NEW n \in 1 .. l PROVE SubSeq(e, 1, n) = SubSeq(pos, 1, n)
  <2>1. pos \in Seq(Index) /\ Len(pos) = l /\ n \in 1 .. Len(pos)
    BY <1>1, PositionIsSequence
  <2>2. /\ SubSeq(pos, 1, n) \in Seq(Index) /\ Len(SubSeq(pos, 1, n)) = n
        /\ \A k \in 1 .. n : SubSeq(pos, 1, n)[k] = pos[k]
    <3>1. \A k \in 1 .. n : pos[k] \in Index
      BY <2>1, ElementOfSeq
    <3>2. /\ SubSeq(pos, 1, n) \in Seq(Index)
          /\ Len(SubSeq(pos, 1, n)) = IF 1 <= n THEN n - 1 + 1 ELSE 0
          /\ \A k \in 1 .. n - 1 + 1 : SubSeq(pos, 1, n)[k] = pos[1 + k - 1]
      BY <3>1, SubSeqProperties
    <3> QED BY <3>2
  <2>3. e \in Seq(Index) /\ \A k \in 1 .. l : e[k] = pos[k]
    BY <1>1, <1>2, PositionIsSequence, PositionExtends
  <2> HIDE DEF e
  <2>4. /\ SubSeq(e, 1, n) \in Seq(Index) /\ Len(SubSeq(e, 1, n)) = n
        /\ \A k \in 1 .. n : SubSeq(e, 1, n)[k] = e[k]
    <3>1. \A k \in 1 .. n : e[k] \in Index
      BY <2>1, <2>3, ElementOfSeq
    <3>2. /\ SubSeq(e, 1, n) \in Seq(Index)
          /\ Len(SubSeq(e, 1, n)) = IF 1 <= n THEN n - 1 + 1 ELSE 0
          /\ \A k \in 1 .. n - 1 + 1 : SubSeq(e, 1, n)[k] = e[1 + k - 1]
      BY <3>1, SubSeqProperties
    <3> QED BY <3>2
  <2>5. \A k \in 1 .. n : SubSeq(e, 1, n)[k] = SubSeq(pos, 1, n)[k]
    BY <2>2, <2>3, <2>4
  <2> QED BY <2>2, <2>4, <2>5, SeqEqual
<1>5. e \in Tree(root) <=> \A n \in 1 .. l + 1 : EntryAt(root, SubSeq(e, 1, n)).valid
  BY <1>2 DEF Tree, ValidAt
<1>6. pos \in Tree(root) <=> \A n \in 1 .. l : EntryAt(root, SubSeq(pos, 1, n)).valid
  BY <1>1 DEF Tree, ValidAt
<1> HIDE DEF e
<1>7. (\A n \in 1 .. l + 1 : EntryAt(root, SubSeq(e, 1, n)).valid)
         <=> /\ \A n \in 1 .. l : EntryAt(root, SubSeq(pos, 1, n)).valid
             /\ EntryAt(root, SubSeq(e, 1, l + 1)).valid
  <2>1. \A n \in 1 .. l + 1 : n \in 1 .. l \/ n = l + 1
    OBVIOUS
  <2>2. l + 1 \in 1 .. l + 1 /\ \A n \in 1 .. l : n \in 1 .. l + 1
    OBVIOUS
  <2> QED BY <2>1, <2>2, <1>4
<1> QED BY <1>3, <1>5, <1>6, <1>7 DEF e

--------------------------------------------------------------------------------
(* A tree is determined from its root down.                                *)

\* What a tree is, from the root down.
TreeFacts ==
    /\ \A root : <<>> \in Tree(root) /\ PageAt(root, <<>>) = root
    /\ \A root : \A pos \in Positions : \A i \in Index : Len(pos) < 3 =>
           /\ PageAt(root, Extend(pos, i)) = memory[PageAt(root, pos)][i].ppn
           /\ EntryAt(root, Extend(pos, i)) = memory[PageAt(root, pos)][i]
           /\ Extend(pos, i) \in Tree(root)
                  <=> pos \in Tree(root) /\ memory[PageAt(root, pos)][i].valid

\* These facts hold in each state.
LEMMA TreeLaws == TreeFacts /\ TreeFacts'
<1>1. TreeFacts
  BY RootOfTree, WalkExtends, EntryExtends, TreeExtends DEF TreeFacts
<1> QED BY <1>1, PTL

\* f leads from root to the positions of S.
Leads(mem, root, S, f) ==
    /\ S \subseteq Positions /\ <<>> \in S /\ f[<<>>] = root
    /\ \A pos \in Positions : \A i \in Index : Len(pos) < 3 =>
           /\ Extend(pos, i) \in S <=> pos \in S /\ mem[f[pos]][i].valid
           /\ Extend(pos, i) \in S => f[Extend(pos, i)] = mem[f[pos]][i].ppn

TreeIs == \A root, S, f : Leads(memory, root, S, f) =>
              Tree(root) = S /\ \A pos \in S : PageAt(root, pos) = f[pos]

\* What leads like a tree is the tree, in each state.
LEMMA TreesAreAsLed == TreeIs /\ TreeIs'
<1>1. ASSUME NEW root, NEW S, NEW f, Leads(memory, root, S, f)
      PROVE  Tree(root) = S /\ \A pos \in S : PageAt(root, pos) = f[pos]
  <2> DEFINE X == {pos \in Positions : /\ pos \in S <=> pos \in Tree(root)
                                       /\ pos \in S => PageAt(root, pos) = f[pos]}
  <2>1. <<>> \in X
    BY <1>1, TreeLaws, RootPosition DEF TreeFacts, Leads
  <2>2. ASSUME NEW p \in X \cap Positions, Len(p) < 3, NEW i \in Index
        PROVE  Extend(p, i) \in X
    <3>1. Extend(p, i) \in Positions
      BY <2>2, PositionExtends
    <3>2. /\ PageAt(root, Extend(p, i)) = memory[PageAt(root, p)][i].ppn
          /\ Extend(p, i) \in Tree(root) <=> p \in Tree(root) /\ memory[PageAt(root, p)][i].valid
      BY <2>2, TreeLaws DEF TreeFacts
    <3>3. /\ Extend(p, i) \in S <=> p \in S /\ memory[f[p]][i].valid
          /\ Extend(p, i) \in S => f[Extend(p, i)] = memory[f[p]][i].ppn
      BY <1>1, <2>2 DEF Leads
    <3>4. (p \in S <=> p \in Tree(root)) /\ (p \in S => PageAt(root, p) = f[p])
      BY <2>2
    <3> QED BY <3>1, <3>2, <3>3, <3>4
  <2>3. Positions \subseteq X
    <3> HIDE DEF X
    <3> QED BY <2>1, <2>2, Descent
  <2>4. Tree(root) \subseteq Positions /\ S \subseteq Positions
    BY <1>1 DEF Tree, Leads
  <2> QED BY <2>3, <2>4
<1>2. TreeIs
  BY <1>1 DEF TreeIs
<1> QED BY <1>2, PTL

\* A tree leads to its own positions.
PlacesOf(root) == [pos \in Tree(root) |-> PageAt(root, pos)]
\* The tree leads, with its pages.
LEMMA TreeLeads ==
    ASSUME NEW root
    PROVE  Leads(memory, root, Tree(root), PlacesOf(root))
<1> DEFINE f == PlacesOf(root)
<1>1. Tree(root) \subseteq Positions
  BY DEF Tree
<1>2. \A pos \in Tree(root) : f[pos] = PageAt(root, pos)
  BY DEF PlacesOf
<1>3. <<>> \in Tree(root) /\ PageAt(root, <<>>) = root
  BY TreeLaws DEF TreeFacts
<1>4. ASSUME NEW pos \in Positions, NEW i \in Index, Len(pos) < 3
      PROVE  /\ Extend(pos, i) \in Tree(root) <=> pos \in Tree(root) /\ memory[f[pos]][i].valid
             /\ Extend(pos, i) \in Tree(root) => f[Extend(pos, i)] = memory[f[pos]][i].ppn
  <2>1. /\ PageAt(root, Extend(pos, i)) = memory[PageAt(root, pos)][i].ppn
        /\ Extend(pos, i) \in Tree(root)
               <=> pos \in Tree(root) /\ memory[PageAt(root, pos)][i].valid
    BY <1>4, TreeLaws DEF TreeFacts
  <2> HIDE DEF f
  <2> QED BY <2>1, <1>2
<1> HIDE DEF f
<1>5. Leads(memory, root, Tree(root), f)
  BY <1>1, <1>2, <1>3, <1>4 DEF Leads
<1> QED BY <1>5 DEF f

--------------------------------------------------------------------------------
(* The invariant, and the trees that a step leaves as they are.            *)

Types ==
    /\ allocated \in [Page -> BOOLEAN]
    /\ memory \in [Page -> [Index -> Words]]
    /\ process \in {"running", "refused", "EFAULT", "ENOMEM"}
    /\ ref_num \in [Page -> Nat]
    /\ roots \subseteq Page
    /\ root_page_table \in roots
    /\ client \in Clients

\* The pages of a space are handed out, and a page has one place, or one place
\* per space if it is a data page: the same place in each.
Held == \A r \in roots : \A p \in Tree(r) : allocated[PageAt(r, p)]
Apart ==
    \A r \in roots : \A s \in roots : \A p \in Tree(r) : \A q \in Tree(s) :
        PageAt(r, p) = PageAt(s, q) => p = q /\ (r = s \/ Len(p) = 3)

SpaceInv == Types /\ UsedPagesIsExact /\ FreePagesAreZero /\ Held /\ Apart

\* The fields of a word.
LEMMA WordFields ==
    ASSUME NEW w \in Words
    PROVE  /\ w.valid \in BOOLEAN /\ w.read \in BOOLEAN /\ w.write \in BOOLEAN
           /\ w.custom \in BOOLEAN /\ w.ppn \in Page /\ w.value \in Values
BY DEF Words, Page

\* The words of the memory.
LEMMA WordAt ==
    ASSUME Types, NEW page \in Page, NEW i \in Index
    PROVE  memory[page][i] \in Words
BY DEF Types

\* Every position stands for a page, valid or not.
LEMMA PlacesArePages ==
    ASSUME Types, NEW r \in Page, NEW p \in Positions
    PROVE  PageAt(r, p) \in Page
<1> DEFINE X == {q \in Positions : PageAt(r, q) \in Page}
<1>1. <<>> \in X
  BY TreeLaws, RootPosition DEF TreeFacts
<1>2. ASSUME NEW q \in X \cap Positions, Len(q) < 3, NEW i \in Index
      PROVE  Extend(q, i) \in X
  <2>1. PageAt(r, Extend(q, i)) = memory[PageAt(r, q)][i].ppn
    BY <1>2, TreeLaws DEF TreeFacts
  <2>2. PageAt(r, q) \in Page
    OBVIOUS
  <2>3. memory[PageAt(r, q)][i].ppn \in Page
    BY <2>2, WordAt, WordFields
  <2> QED BY <1>2, <2>1, <2>3, PositionExtends
<1>3. Positions \subseteq X
  <2> HIDE DEF X
  <2> QED BY <1>1, <1>2, Descent
<1> QED BY <1>3

\* A tree consists of positions, in each state.
LEMMA TreeIsPositions ==
    ASSUME NEW r
    PROVE  Tree(r) \subseteq Positions /\ Tree(r)' \subseteq Positions
BY DEF Tree

\* A position of a tree below the root is below a table of the tree.
LEMMA TreeParent ==
    ASSUME NEW r, NEW pos \in Tree(r), pos # <<>>
    PROVE  \E p \in Tree(r), i \in Index :
               /\ pos = Extend(p, i) /\ Len(p) < 3
               /\ memory[PageAt(r, p)][i].valid
               /\ PageAt(r, pos) = memory[PageAt(r, p)][i].ppn
               /\ EntryAt(r, pos) = memory[PageAt(r, p)][i]
<1>1. PICK p \in Positions, i \in Index : pos = Extend(p, i) /\ Len(p) < 3
  BY PositionShrinks, TreeIsPositions
<1> QED BY <1>1, TreeLaws DEF TreeFacts

\* A tree whose tables keep their entries stays as it is.
LEMMA SameTree ==
    ASSUME NEW r,
           \A p \in Tree(r) : \A i \in Index : Len(p) < 3 =>
               LET page == PageAt(r, p)
               IN  /\ memory'[page][i].valid <=> memory[page][i].valid
                   /\ memory[page][i].valid => memory'[page][i].ppn = memory[page][i].ppn
    PROVE  Tree(r)' = Tree(r) /\ \A p \in Tree(r) : PageAt(r, p)' = PageAt(r, p)
<1> DEFINE f == PlacesOf(r)
<1>1. \A p \in Tree(r) : f[p] = PageAt(r, p)
  BY DEF PlacesOf
<1>2. Leads(memory, r, Tree(r), f)
  BY TreeLeads
<1> HIDE DEF f
<1>3. ASSUME NEW p \in Positions, NEW i \in Index, Len(p) < 3
      PROVE  /\ Extend(p, i) \in Tree(r) <=> p \in Tree(r) /\ memory'[f[p]][i].valid
             /\ Extend(p, i) \in Tree(r) => f[Extend(p, i)] = memory'[f[p]][i].ppn
  <2>1. /\ Extend(p, i) \in Tree(r) <=> p \in Tree(r) /\ memory[f[p]][i].valid
        /\ Extend(p, i) \in Tree(r) => f[Extend(p, i)] = memory[f[p]][i].ppn
    BY <1>2, <1>3 DEF Leads
  <2>2. p \in Tree(r) => /\ memory'[f[p]][i].valid <=> memory[f[p]][i].valid
                         /\ memory[f[p]][i].valid => memory'[f[p]][i].ppn = memory[f[p]][i].ppn
    BY <1>1, <1>3
  <2> QED BY <2>1, <2>2
<1>4. Leads(memory', r, Tree(r), f)
  BY <1>2, <1>3 DEF Leads
<1>5. Tree(r)' = Tree(r) /\ \A p \in Tree(r) : PageAt(r, p)' = f[p]
  BY <1>4, TreesAreAsLed DEF TreeIs
<1> QED BY <1>1, <1>5

\* A step that leaves the memory leaves the trees.
LEMMA UnchangedTrees ==
    ASSUME UNCHANGED memory, NEW r
    PROVE  Tree(r)' = Tree(r) /\ \A p \in Tree(r) : PageAt(r, p)' = PageAt(r, p)
<1>1. \A p \in Tree(r) : \A i \in Index : Len(p) < 3 =>
          LET page == PageAt(r, p)
          IN  /\ memory'[page][i].valid <=> memory[page][i].valid
              /\ memory[page][i].valid => memory'[page][i].ppn = memory[page][i].ppn
  OBVIOUS
<1> QED BY <1>1, SameTree

--------------------------------------------------------------------------------
(* What a fork of either kind does to the spaces.                          *)

\* An allocation of free pages keeps the counter exact.
LEMMA AllocateCounts ==
    ASSUME Types, UsedPagesIsExact, NEW N, N \subseteq Free, Allocate(N)
    PROVE  /\ UsedPagesIsExact' /\ allocated' \in [Page -> BOOLEAN]
           /\ Free' = Free \ N
           /\ \A i \in Page : allocated'[i] <=> allocated[i] \/ i \in N
<1> DEFINE A == {i \in Page : allocated[i]}
<1>1. allocated' = [i \in Page |-> allocated[i] \/ i \in N]
  BY DEF Allocate
<1>2. \A i \in Page : allocated[i] \in BOOLEAN
  BY DEF Types
<1>3. \A i \in Page : allocated'[i] <=> allocated[i] \/ i \in N
  BY <1>1
<1>4. A' = A \cup N /\ A \cap N = {} /\ N \subseteq Page
  BY <1>3 DEF Free
<1>5. IsFiniteSet(A) /\ IsFiniteSet(N) /\ Cardinality(A) \in Nat /\ Cardinality(N) \in Nat
  BY <1>4, SomePagesAreFinite
<1>6. Cardinality(A \cup N) = Cardinality(A) + Cardinality(N) - Cardinality(A \cap N)
  BY <1>5, FS_Union
<1>7. Cardinality(A \cap N) = 0
  BY <1>4, FS_EmptySet
<1>8. Cardinality(A \cup N) = Cardinality(A) + Cardinality(N)
  BY <1>5, <1>6, <1>7
<1>9. used_pages' = used_pages + Cardinality(N)
  BY DEF Allocate
<1>10. UsedPagesIsExact'
  <2>1. used_pages = Cardinality(A)
    BY DEF UsedPagesIsExact
  <2>2. used_pages' = Cardinality(A')
    BY <1>4, <1>8, <1>9, <2>1
  <2> QED BY <2>2 DEF UsedPagesIsExact
<1>11. Free' = Free \ N
  BY <1>3 DEF Free
<1> QED BY <1>1, <1>2, <1>3, <1>10, <1>11

\* A root table is an allocated page.
LEMMA RootsAreHeld ==
    ASSUME SpaceInv
    PROVE  \A r \in roots : r \in Page /\ allocated[r] /\ r \notin Free
<1>1. \A r \in roots : <<>> \in Tree(r) /\ PageAt(r, <<>>) = r
  BY TreeLaws DEF TreeFacts
<1> QED BY <1>1 DEF SpaceInv, Held, Types, Free

\* A fork gives the current tree anew to a root: places in N, for the data pages
\* possibly the places of the current tree.
ForkedAs(cur, N, f) ==
    /\ N \subseteq Free /\ Allocate(N)
    /\ f[<<>>] \in N
    /\ roots' = roots \cup {f[<<>>]}
    /\ \A r \in roots : Tree(r)' = Tree(r) /\ \A p \in Tree(r) : PageAt(r, p)' = PageAt(r, p)
    /\ Tree(f[<<>>])' = Tree(cur)
    /\ \A p \in Tree(cur) : PageAt(f[<<>>], p)' = f[p]
    /\ \A p \in Tree(cur) : f[p] \in N \/ (Len(p) = 3 /\ f[p] = PageAt(cur, p))
    /\ \A p \in Tree(cur) : \A q \in Tree(cur) : f[p] = f[q] /\ f[p] \in N => p = q
    /\ \A page \in Free \ N : memory'[page] = memory[page]

\* A fork to new pages keeps the spaces apart.
LEMMA ForkKeepsSpaces ==
    ASSUME SpaceInv, NEW cur \in roots, NEW N, NEW f, ForkedAs(cur, N, f)
    PROVE  UsedPagesIsExact' /\ FreePagesAreZero' /\ Held' /\ Apart'
<1> DEFINE n == f[<<>>]
<1>1. /\ UsedPagesIsExact' /\ Free' = Free \ N
      /\ \A i \in Page : allocated'[i] <=> allocated[i] \/ i \in N
  BY AllocateCounts DEF SpaceInv, ForkedAs
<1>2. FreePagesAreZero'
  <2>1. \A i \in Free : memory[i] = [j \in Index |-> ZeroWord]
    BY DEF SpaceInv, FreePagesAreZero
  <2>2. \A i \in Free' : memory'[i] = [j \in Index |-> ZeroWord]
    BY <1>1, <2>1 DEF ForkedAs
  <2> QED BY <2>2 DEF FreePagesAreZero
<1>3. N \subseteq Free /\ Free \subseteq Page /\ \A i \in Free : ~allocated[i]
  BY DEF ForkedAs, Free
<1>4. n \notin roots
  BY <1>3, RootsAreHeld DEF ForkedAs
<1>5. \A r \in roots : \A p \in Tree(r) : PageAt(r, p) \in Page /\ allocated[PageAt(r, p)]
  <2>1. \A r \in roots : \A p \in Tree(r) : PageAt(r, p) \in Page
    BY PlacesArePages, TreeIsPositions DEF SpaceInv, Types
  <2> QED BY <2>1 DEF SpaceInv, Held
<1>6. Held'
  <2>1. ASSUME NEW r \in roots, NEW p \in Tree(r)' PROVE allocated'[PageAt(r, p)']
    <3>1. p \in Tree(r) /\ PageAt(r, p)' = PageAt(r, p)
      BY <2>1 DEF ForkedAs
    <3> QED BY <3>1, <1>1, <1>5
  <2>2. ASSUME NEW p \in Tree(n)' PROVE allocated'[PageAt(n, p)']
    <3>1. p \in Tree(cur) /\ PageAt(n, p)' = f[p]
      BY <2>2 DEF ForkedAs
    <3>2. f[p] \in N \/ f[p] = PageAt(cur, p)
      BY <3>1 DEF ForkedAs
    <3> QED BY <3>1, <3>2, <1>1, <1>3, <1>5
  <2>3. \A r \in roots' : r \in roots \/ r = n
    BY DEF ForkedAs
  <2> HIDE DEF n
  <2>4. \A r \in roots' : \A p \in Tree(r)' : allocated'[PageAt(r, p)']
    BY <2>1, <2>2, <2>3
  <2> QED BY <2>4 DEF Held
<1>7. ASSUME NEW r \in roots', NEW s \in roots', NEW p \in Tree(r)', NEW q \in Tree(s)',
             PageAt(r, p)' = PageAt(s, q)'
      PROVE  p = q /\ (r = s \/ Len(p) = 3)
  <2>1. (r \in roots \/ r = n) /\ (s \in roots \/ s = n)
    BY DEF ForkedAs
  <2>2. ASSUME NEW t \in roots, NEW o \in Tree(t)'
        PROVE  /\ o \in Tree(t) /\ PageAt(t, o)' = PageAt(t, o)
               /\ PageAt(t, o) \in Page /\ allocated[PageAt(t, o)] /\ PageAt(t, o) \notin N
    <3>1. o \in Tree(t) /\ PageAt(t, o)' = PageAt(t, o)
      BY <2>2 DEF ForkedAs
    <3> QED BY <3>1, <1>3, <1>5
  <2>3. ASSUME NEW o \in Tree(n)'
        PROVE  /\ o \in Tree(cur) /\ PageAt(n, o)' = f[o]
               /\ f[o] \in N \/ (Len(o) = 3 /\ f[o] = PageAt(cur, o))
    BY <2>3 DEF ForkedAs
  <2>4. \A t \in roots : \A o \in Tree(cur) : \A u \in Tree(t) :
            PageAt(cur, o) = PageAt(t, u) => o = u
    BY DEF SpaceInv, Apart
  <2>5. CASE r \in roots /\ s \in roots
    <3>1. PageAt(r, p) = PageAt(s, q) /\ p \in Tree(r) /\ q \in Tree(s)
      BY <1>7, <2>2, <2>5
    <3> QED BY <3>1, <2>5 DEF SpaceInv, Apart
  <2>6. CASE r = n /\ s = n
    <3>1. /\ p \in Tree(cur) /\ PageAt(r, p)' = f[p]
          /\ f[p] \in N \/ f[p] = PageAt(cur, p)
      BY <2>3, <2>6
    <3>2. /\ q \in Tree(cur) /\ PageAt(s, q)' = f[q]
          /\ f[q] \in N \/ f[q] = PageAt(cur, q)
      BY <2>3, <2>6
    <3>3. f[p] = f[q]
      BY <1>7, <3>1, <3>2
    <3>4. CASE f[p] \in N
      BY <3>1, <3>2, <3>3, <3>4, <2>6 DEF ForkedAs
    <3>5. CASE f[p] \notin N
      BY <3>1, <3>2, <3>3, <3>5, <2>4, <2>6
    <3> QED BY <3>4, <3>5
  <2>7. CASE r = n /\ s \in roots
    <3>1. /\ p \in Tree(cur) /\ PageAt(r, p)' = f[p]
          /\ f[p] \in N \/ (Len(p) = 3 /\ f[p] = PageAt(cur, p))
      BY <2>3, <2>7
    <3>2. /\ q \in Tree(s) /\ PageAt(s, q)' = PageAt(s, q) /\ PageAt(s, q) \notin N
      BY <2>2, <2>7
    <3> QED BY <1>7, <2>4, <2>7, <3>1, <3>2
  <2>8. CASE r \in roots /\ s = n
    <3>1. /\ q \in Tree(cur) /\ PageAt(s, q)' = f[q]
          /\ f[q] \in N \/ (Len(q) = 3 /\ f[q] = PageAt(cur, q))
      BY <2>3, <2>8
    <3>2. /\ p \in Tree(r) /\ PageAt(r, p)' = PageAt(r, p) /\ PageAt(r, p) \notin N
      BY <2>2, <2>8
    <3> QED BY <1>7, <2>4, <2>8, <3>1, <3>2
  <2> QED BY <2>1, <2>5, <2>6, <2>7, <2>8
<1>8. Apart'
  BY <1>7 DEF Apart
<1> QED BY <1>1, <1>2, <1>6, <1>8

--------------------------------------------------------------------------------
(* The fork that copies.                                                   *)

\* The pages that a fork of the positions S takes.
LEMMA NewOnes ==
    ASSUME NEW S, S \subseteq Positions, <<>> \in S, Cardinality(S) <= Cardinality(Free),
           NEW new, new = NewPages(S)
    PROVE  /\ DOMAIN new = S /\ NewPageSet(new) \subseteq Free
           /\ \A p \in S : new[p] \in NewPageSet(new) /\ new[p] \in Page
           /\ \A p \in S : \A q \in S : new[p] = new[q] => p = q
           /\ \A p \in S : PositionOf(new, new[p]) = p
           /\ \A page \in NewPageSet(new) : \E p \in S : page = new[p]
<1>1. /\ DOMAIN new = S /\ new \in [S -> Free]
      /\ \A p, q \in S : new[p] = new[q] => p = q
  BY NewPagesAreApart
<1>2. \A p \in S : PositionOf(new, new[p]) = p
  BY <1>1, PageOfNew
<1>3. NewPageSet(new) = {new[p] : p \in S}
  BY <1>1 DEF NewPageSet
<1>4. \A p \in S : new[p] \in Free /\ new[p] \in NewPageSet(new)
  BY <1>1, <1>3
<1>5. Free \subseteq Page
  BY DEF Free
<1>6. NewPageSet(new) \subseteq Free
  BY <1>3, <1>4
<1> QED BY <1>1, <1>2, <1>3, <1>4, <1>5, <1>6

\* A free page's words are zero.
LEMMA FreeWordsAreZero ==
    ASSUME SpaceInv, NEW page \in Free, NEW i \in Index
    PROVE  memory[page][i] = ZeroWord
BY DEF SpaceInv, FreePagesAreZero

\* A zero word is an invalid entry.
LEMMA ZeroWordIsWord == ZeroWord \in Words /\ ~ZeroWord.valid /\ ~ZeroWord.write /\ ~ZeroWord.custom
BY VmsAssumption DEF ZeroWord, Words

\* A copied entry differs in its page only.
LEMMA EntryCopy ==
    ASSUME NEW w \in Words, NEW page \in Page
    PROVE  /\ entry_copy(w, page) \in Words
           /\ entry_copy(w, page).valid = w.valid /\ entry_copy(w, page).read = w.read
           /\ entry_copy(w, page).write = w.write /\ entry_copy(w, page).custom = w.custom
           /\ entry_copy(w, page).ppn = page /\ entry_copy(w, page).value = w.value
BY DEF entry_copy, Words, Page

\* The pages that the copying fork writes, and what it writes there.
LEMMA CopiedWords ==
    ASSUME SpaceInv, NEW S, S \subseteq Positions, <<>> \in S,
           Cardinality(S) <= Cardinality(Free), NEW new, new = NewPages(S)
    PROVE  /\ \A page \in Page : page \notin NewPageSet(new)
                                     => CopiedMemory(new)[page] = memory[page]
           /\ \A pos \in S :
                  LET src == memory[PageAt(root_page_table, pos)]
                  IN  CopiedMemory(new)[new[pos]]
                        = IF Len(pos) = 3 THEN src
                          ELSE [i \in Index |-> IF src[i].valid
                                                THEN entry_copy(src[i], new[Extend(pos, i)])
                                                ELSE ZeroWord]
<1>1. \A page \in Page : page \notin NewPageSet(new) => CopiedMemory(new)[page] = memory[page]
  BY DEF CopiedMemory
<1>2. ASSUME NEW pos \in S
      PROVE  LET src == memory[PageAt(root_page_table, pos)]
             IN  CopiedMemory(new)[new[pos]]
                   = IF Len(pos) = 3 THEN src
                     ELSE [i \in Index |-> IF src[i].valid
                                           THEN entry_copy(src[i], new[Extend(pos, i)])
                                           ELSE ZeroWord]
  <2> DEFINE page == new[pos]
             src == memory[PageAt(root_page_table, pos)]
  <2>1. page \in NewPageSet(new) /\ page \in Page /\ page \in Free /\ PositionOf(new, page) = pos
    BY <1>2, NewOnes
  <2>2. \A i \in Index : memory[page][i] = ZeroWord
    BY <2>1, FreeWordsAreZero
  <2>3. CopiedMemory(new)[page]
            = IF Len(pos) = 3 THEN src
              ELSE [i \in Index |-> IF src[i].valid
                                    THEN entry_copy(src[i], new[Extend(pos, i)])
                                    ELSE memory[page][i]]
    BY <2>1 DEF CopiedMemory
  <2> QED BY <2>2, <2>3
<1> QED BY <1>1, <1>2

\* The new root leads to the new pages as the old one led to the old pages.
LEMMA CopyLeads ==
    ASSUME SpaceInv, NEW new, NEW cur \in roots, cur = root_page_table, new = NewPages(Tree(cur)),
           Cardinality(Tree(cur)) <= Cardinality(Free),
           memory' = CopiedMemory(new)
    PROVE  /\ Tree(new[<<>>])' = Tree(cur)
           /\ \A p \in Tree(cur) : PageAt(new[<<>>], p)' = new[p]
           /\ memory' \in [Page -> [Index -> Words]]
<1> DEFINE T == Tree(cur)
           src(p) == memory[PageAt(cur, p)]
<1>1. T \subseteq Positions /\ <<>> \in T
  BY TreeIsPositions, TreeLaws DEF TreeFacts
<1>2. /\ \A page \in Page : page \notin NewPageSet(new) => memory'[page] = memory[page]
      /\ \A p \in T : memory'[new[p]] = IF Len(p) = 3 THEN src(p)
             ELSE [i \in Index |-> IF src(p)[i].valid
                                   THEN entry_copy(src(p)[i], new[Extend(p, i)])
                                   ELSE ZeroWord]
  BY <1>1, CopiedWords
<1>3. /\ DOMAIN new = T /\ NewPageSet(new) \subseteq Free
      /\ \A p \in T : new[p] \in NewPageSet(new) /\ new[p] \in Page
      /\ \A page \in NewPageSet(new) : \E p \in T : page = new[p]
  BY <1>1, NewOnes
<1>4. \A p \in T : src(p) \in [Index -> Words] /\ \A i \in Index : src(p)[i] \in Words
  <2>1. \A p \in T : PageAt(cur, p) \in Page
    BY <1>1, PlacesArePages DEF SpaceInv, Types
  <2> QED BY <2>1 DEF SpaceInv, Types
<1>5. \A p \in Positions, i \in Index : Len(p) < 3 =>
          /\ Extend(p, i) \in T <=> p \in T /\ src(p)[i].valid
  BY TreeLaws DEF TreeFacts
<1> HIDE DEF T, src
<1>6. ASSUME NEW p \in T, NEW i \in Index, Len(p) < 3
      PROVE  /\ memory'[new[p]][i] \in Words
             /\ memory'[new[p]][i].valid <=> src(p)[i].valid
             /\ memory'[new[p]][i].valid => memory'[new[p]][i].ppn = new[Extend(p, i)]
  <2>1. memory'[new[p]][i] = IF src(p)[i].valid THEN entry_copy(src(p)[i], new[Extend(p, i)])
                             ELSE ZeroWord
    <3>1. Len(p) # 3
      BY <1>6, <1>1, PositionIsSequence
    <3> QED BY <3>1, <1>2
  <2>2. CASE src(p)[i].valid
    <3>1. Extend(p, i) \in T
      BY <2>2, <1>1, <1>5, <1>6
    <3>2. new[Extend(p, i)] \in Page
      BY <3>1, <1>3
    <3> QED BY <2>1, <2>2, <3>2, <1>4, EntryCopy, WordFields
  <2>3. CASE ~src(p)[i].valid
    BY <2>1, <2>3, ZeroWordIsWord
  <2> QED BY <2>2, <2>3
<1>7. Leads(memory', new[<<>>], T, new)
  <2>1. ASSUME NEW p \in Positions, NEW i \in Index, Len(p) < 3
        PROVE  /\ Extend(p, i) \in T <=> p \in T /\ memory'[new[p]][i].valid
               /\ Extend(p, i) \in T => new[Extend(p, i)] = memory'[new[p]][i].ppn
    BY <1>5, <1>6, <2>1
  <2> QED BY <1>1, <2>1 DEF Leads
<1>8. Tree(new[<<>>])' = T /\ \A p \in T : PageAt(new[<<>>], p)' = new[p]
  BY <1>7, TreesAreAsLed DEF TreeIs
<1>9. memory' \in [Page -> [Index -> Words]]
  <2>1. ASSUME NEW page \in Page PROVE memory'[page] \in [Index -> Words]
    <3>1. CASE page \notin NewPageSet(new)
      BY <3>1, <1>2 DEF SpaceInv, Types
    <3>2. CASE page \in NewPageSet(new)
      <4>1. PICK p \in T : page = new[p]
        BY <3>2, <1>3
      <4>2. CASE Len(p) = 3
        BY <4>1, <4>2, <1>2, <1>4
      <4>3. CASE Len(p) # 3
        <5>1. Len(p) < 3
          BY <4>3, <1>1, PositionLength
        <5>2. \A i \in Index : memory'[page][i] \in Words
          BY <5>1, <4>1, <1>6
        <5>3. memory'[page] = [i \in Index |-> IF src(p)[i].valid
                                   THEN entry_copy(src(p)[i], new[Extend(p, i)])
                                   ELSE ZeroWord]
          BY <4>1, <4>3, <1>2
        <5> QED BY <5>2, <5>3
      <4> QED BY <4>2, <4>3
    <3> QED BY <3>1, <3>2
  <2>2. memory' = [page \in Page |-> memory'[page]]
    BY DEF CopiedMemory
  <2> QED BY <2>1, <2>2
<1> QED BY <1>8, <1>9 DEF T

\* The copying fork is a fork all of whose pages are new.
LEMMA CopyIsFork ==
    ASSUME SpaceInv, NEW new, NEW cur \in roots, cur = root_page_table, new = NewPages(Tree(cur)),
           Cardinality(Tree(cur)) <= Cardinality(Free),
           Allocate(NewPageSet(new)),
           memory' = CopiedMemory(new), roots' = roots \cup {new[<<>>]}
    PROVE  ForkedAs(cur, NewPageSet(new), new)
<1> DEFINE N == NewPageSet(new)
<1>1. Tree(cur) \subseteq Positions /\ <<>> \in Tree(cur)
  BY TreeIsPositions, TreeLaws DEF TreeFacts
<1>2. /\ N \subseteq Free
      /\ \A p \in Tree(cur) : new[p] \in N /\ new[p] \in Page
      /\ \A p \in Tree(cur) : \A q \in Tree(cur) : new[p] = new[q] => p = q
  BY <1>1, NewOnes
<1>3. \A page \in Page : page \notin N => memory'[page] = memory[page]
  BY <1>1, CopiedWords
<1>4. ASSUME NEW r \in roots
      PROVE  Tree(r)' = Tree(r) /\ \A p \in Tree(r) : PageAt(r, p)' = PageAt(r, p)
  <2>1. \A p \in Tree(r) : PageAt(r, p) \in Page /\ PageAt(r, p) \notin N
    <3>1. \A p \in Tree(r) : PageAt(r, p) \in Page
      BY PlacesArePages, TreeIsPositions DEF SpaceInv, Types
    <3> QED BY <3>1, <1>2 DEF SpaceInv, Held, Free
  <2>2. \A p \in Tree(r) : memory'[PageAt(r, p)] = memory[PageAt(r, p)]
    BY <2>1, <1>3
  <2> QED BY <2>2, SameTree
<1>5. Free \subseteq Page
  BY DEF Free
<1>6. /\ Tree(new[<<>>])' = Tree(cur)
      /\ \A p \in Tree(cur) : PageAt(new[<<>>], p)' = new[p]
  BY CopyLeads
<1> HIDE DEF N
<1>7. ForkedAs(cur, N, new)
  BY <1>1, <1>2, <1>3, <1>4, <1>5, <1>6 DEF ForkedAs, N
<1> QED BY <1>7 DEF N

--------------------------------------------------------------------------------
(* The fork that copies on write.                                          *)

\* A protected entry is not writable, and names the same page.
LEMMA ProtectedWord ==
    ASSUME NEW w \in Words
    PROVE  /\ Protect(w) \in Words
           /\ Protect(w).valid = w.valid /\ Protect(w).ppn = w.ppn
           /\ Protect(w).read = w.read /\ Protect(w).value = w.value
           /\ w.valid => ~Protect(w).write
           /\ Protect(w).custom <=> w.custom \/ (w.valid /\ w.write)
           /\ entry_copy(w, w.ppn) = w
BY DEF Protect, Words, entry_copy

\* The positions of a tree's tables.
LEMMA TablesAreLevels ==
    ASSUME NEW r
    PROVE  TablePositions(r) = {p \in Tree(r) : Len(p) < 3}
BY DEF TablePositions

\* The new tables are free pages, and so no L0 table of the parent.
LEMMA SharedTables ==
    ASSUME SpaceInv, NEW cur \in roots, cur = root_page_table,
           Cardinality(TablePositions(cur)) <= Cardinality(Free),
           NEW new, new = NewPages(TablePositions(cur))
    PROVE  /\ \A page \in L0Tables(cur) : page \in Page /\ page \notin NewPageSet(new)
           /\ \A pos \in TablePositions(cur) :
                  /\ pos \in Positions
                  /\ new[pos] \in Free /\ new[pos] \in Page
                  /\ new[pos] \in NewPageSet(new) /\ new[pos] \notin L0Tables(cur)
                  /\ PositionOf(new, new[pos]) = pos
<1> DEFINE S == TablePositions(cur)
<1>1. S \subseteq Positions /\ <<>> \in S /\ S \subseteq Tree(cur)
  BY TablesAreLevels, TreeIsPositions, TreeLaws, RootPosition DEF TreeFacts
<1>2. \A page \in L0Tables(cur) : page \in Page /\ allocated[page]
  <2>1. \A p \in Tree(cur) : PageAt(cur, p) \in Page /\ allocated[PageAt(cur, p)]
    BY PlacesArePages, TreeIsPositions DEF SpaceInv, Types, Held
  <2> QED BY <2>1 DEF L0Tables
<1>3. /\ NewPageSet(new) \subseteq Free
      /\ \A pos \in S : new[pos] \in NewPageSet(new) /\ new[pos] \in Page
                       /\ new[pos] \in Free /\ PositionOf(new, new[pos]) = pos
  BY <1>1, NewOnes
<1>4. \A page \in L0Tables(cur) : page \notin Free
  BY <1>2 DEF Free
<1> HIDE DEF S
<1>5. /\ \A page \in L0Tables(cur) : page \in Page /\ page \notin NewPageSet(new)
      /\ \A pos \in S :
             /\ pos \in Positions
             /\ new[pos] \in Free /\ new[pos] \in Page
             /\ new[pos] \in NewPageSet(new) /\ new[pos] \notin L0Tables(cur)
             /\ PositionOf(new, new[pos]) = pos
  BY <1>1, <1>2, <1>3, <1>4
<1> QED BY <1>5 DEF S

\* The pages that the sharing fork leaves, and the L0 tables it protects.
LEMMA SharedPages ==
    ASSUME SpaceInv, NEW cur \in roots, cur = root_page_table,
           Cardinality(TablePositions(cur)) <= Cardinality(Free),
           NEW new, new = NewPages(TablePositions(cur))
    PROVE  /\ \A page \in Page : page \notin NewPageSet(new) /\ page \notin L0Tables(cur)
                                     => SharedMemory(new)[page] = memory[page]
           /\ \A page \in L0Tables(cur) :
                  SharedMemory(new)[page] = [i \in Index |-> Protect(memory[page][i])]
<1>1. \A page \in L0Tables(cur) : page \in Page
  BY SharedTables
<1> QED BY <1>1 DEF SharedMemory

\* The new tables.
LEMMA SharedTable ==
    ASSUME SpaceInv, NEW cur \in roots, cur = root_page_table,
           Cardinality(TablePositions(cur)) <= Cardinality(Free),
           NEW new, new = NewPages(TablePositions(cur)),
           NEW pos \in TablePositions(cur),
           NEW src, src = memory[PageAt(cur, pos)]
    PROVE  SharedMemory(new)[new[pos]]
             = [i \in Index |->
                   IF ~src[i].valid THEN ZeroWord
                   ELSE IF Len(pos) = 2 THEN Protect(entry_copy(src[i], src[i].ppn))
                   ELSE entry_copy(src[i], new[Extend(pos, i)])]
<1>1. PICK page : page = new[pos]
  OBVIOUS
<1>2. /\ page \in Free /\ page \in Page /\ page \in NewPageSet(new)
      /\ page \notin L0Tables(cur) /\ PositionOf(new, page) = pos
  BY <1>1, SharedTables
<1>3. \A i \in Index : memory[page][i] = ZeroWord
  BY <1>2, FreeWordsAreZero
<1>4. SharedMemory(new)[page]
          = [i \in Index |->
                IF ~src[i].valid THEN memory[page][i]
                ELSE IF Len(pos) = 2 THEN Protect(entry_copy(src[i], src[i].ppn))
                ELSE entry_copy(src[i], new[Extend(pos, i)])]
  BY <1>2 DEF SharedMemory
<1> QED BY <1>1, <1>3, <1>4

\* The words of the new tables.
LEMMA SharedWord ==
    ASSUME SpaceInv, NEW cur \in roots, cur = root_page_table,
           Cardinality(TablePositions(cur)) <= Cardinality(Free),
           NEW new, new = NewPages(TablePositions(cur)),
           NEW pos \in TablePositions(cur), NEW i \in Index,
           NEW word, word = memory[PageAt(cur, pos)][i]
    PROVE  SharedMemory(new)[new[pos]][i]
             = IF ~word.valid THEN ZeroWord
               ELSE IF Len(pos) = 2 THEN Protect(entry_copy(word, word.ppn))
               ELSE entry_copy(word, new[Extend(pos, i)])
<1>1. PICK src : src = memory[PageAt(cur, pos)]
  OBVIOUS
<1>2. SharedMemory(new)[new[pos]]
          = [j \in Index |->
                IF ~src[j].valid THEN ZeroWord
                ELSE IF Len(pos) = 2 THEN Protect(entry_copy(src[j], src[j].ppn))
                ELSE entry_copy(src[j], new[Extend(pos, j)])]
  BY <1>1, SharedTable
<1>3. word = src[i]
  BY <1>1
<1> QED BY <1>2, <1>3

\* Where the tree of a copy-on-write fork has its pages.
SharedPlaces(cur, new) ==
    [p \in Tree(cur) |-> IF Len(p) = 3 THEN PageAt(cur, p) ELSE new[p]]

\* The new root leads to new tables and to the old data pages.
LEMMA ShareLeads ==
    ASSUME SpaceInv, NEW cur \in roots, cur = root_page_table,
           Cardinality(TablePositions(cur)) <= Cardinality(Free),
           NEW new, new = NewPages(TablePositions(cur)),
           memory' = SharedMemory(new)
    PROVE  /\ Tree(new[<<>>])' = Tree(cur)
           /\ \A p \in Tree(cur) : PageAt(new[<<>>], p)' = SharedPlaces(cur, new)[p]
           /\ memory' \in [Page -> [Index -> Words]]
<1> DEFINE T == Tree(cur)
           S == TablePositions(cur)
           src(p) == memory[PageAt(cur, p)]
           f == SharedPlaces(cur, new)
<1>1. T \subseteq Positions /\ <<>> \in T
  BY TreeIsPositions, TreeLaws DEF TreeFacts
<1>2. S \subseteq T /\ <<>> \in S /\ \A p \in T : p \in S <=> Len(p) < 3
  BY <1>1, TablesAreLevels, RootPosition
<1>3. /\ \A page \in Page : page \notin NewPageSet(new) /\ page \notin L0Tables(cur)
                                => memory'[page] = memory[page]
      /\ \A page \in L0Tables(cur) :
             memory'[page] = [i \in Index |-> Protect(memory[page][i])]
      /\ \A p \in S : memory'[new[p]] = [i \in Index |-> memory'[new[p]][i]]
  <2>1. ASSUME NEW p \in S PROVE memory'[new[p]] = [i \in Index |-> memory'[new[p]][i]]
    <3>1. PICK word : word = memory[PageAt(cur, p)]
      OBVIOUS
    <3>2. SharedMemory(new)[new[p]]
              = [i \in Index |->
                    IF ~word[i].valid THEN ZeroWord
                    ELSE IF Len(p) = 2 THEN Protect(entry_copy(word[i], word[i].ppn))
                    ELSE entry_copy(word[i], new[Extend(p, i)])]
      BY <3>1, SharedTable
    <3> QED BY <3>2
  <2> QED BY <2>1, SharedPages
<1>4. ASSUME NEW p \in S, NEW i \in Index
      PROVE  memory'[new[p]][i]
                 = IF ~src(p)[i].valid THEN ZeroWord
                   ELSE IF Len(p) = 2 THEN Protect(entry_copy(src(p)[i], src(p)[i].ppn))
                   ELSE entry_copy(src(p)[i], new[Extend(p, i)])
  <2>1. p \in TablePositions(cur)
    BY DEF S
  <2> HIDE DEF T, S, f, src
  <2>2. PICK word : word = memory[PageAt(cur, p)][i]
    OBVIOUS
  <2>3. SharedMemory(new)[new[p]][i]
            = IF ~word.valid THEN ZeroWord
              ELSE IF Len(p) = 2 THEN Protect(entry_copy(word, word.ppn))
              ELSE entry_copy(word, new[Extend(p, i)])
    BY <2>1, <2>2, SharedWord
  <2>4. src(p)[i] = word
    BY <2>2 DEF src
  <2> QED BY <2>3, <2>4
<1>5. /\ DOMAIN new = S /\ NewPageSet(new) \subseteq Free
      /\ \A p \in S : new[p] \in NewPageSet(new) /\ new[p] \in Page
      /\ \A page \in NewPageSet(new) : \E p \in S : page = new[p]
  <2>1. S \subseteq Positions
    BY <1>1, <1>2
  <2> QED BY <1>2, <2>1, NewOnes
<1>6. \A p \in T : src(p) \in [Index -> Words] /\ \A i \in Index : src(p)[i] \in Words
  <2>1. \A p \in T : PageAt(cur, p) \in Page
    BY <1>1, PlacesArePages DEF SpaceInv, Types
  <2> QED BY <2>1 DEF SpaceInv, Types
<1>7. \A p \in Positions, i \in Index : Len(p) < 3 =>
          /\ Extend(p, i) \in T <=> p \in T /\ src(p)[i].valid
          /\ PageAt(cur, Extend(p, i)) = src(p)[i].ppn
  BY TreeLaws DEF TreeFacts
<1>8. \A p \in T : f[p] = IF Len(p) = 3 THEN PageAt(cur, p) ELSE new[p]
  BY DEF SharedPlaces
<1> HIDE DEF T, S, src, f
<1>9. ASSUME NEW p \in S, NEW i \in Index
      PROVE  /\ memory'[new[p]][i] \in Words
             /\ memory'[new[p]][i].valid <=> src(p)[i].valid
             /\ memory'[new[p]][i].valid => memory'[new[p]][i].ppn = f[Extend(p, i)]
  <2>1. p \in T /\ p \in Positions /\ Len(p) < 3 /\ src(p)[i] \in Words
    BY <1>1, <1>2, <1>6
  <2>2. memory'[new[p]][i]
            = IF ~src(p)[i].valid THEN ZeroWord
              ELSE IF Len(p) = 2 THEN Protect(entry_copy(src(p)[i], src(p)[i].ppn))
              ELSE entry_copy(src(p)[i], new[Extend(p, i)])
    BY <1>4
  <2>3. CASE ~src(p)[i].valid
    BY <2>2, <2>3, ZeroWordIsWord
  <2>4. CASE src(p)[i].valid
    <3>1. Extend(p, i) \in T /\ Len(Extend(p, i)) = Len(p) + 1
      BY <2>1, <2>4, <1>7, PositionExtends
    <3>2. CASE Len(p) = 2
      <4>1. Len(Extend(p, i)) = 3
        BY <3>1, <3>2
      <4>2. f[Extend(p, i)] = src(p)[i].ppn
        BY <3>1, <4>1, <1>7, <1>8, <2>1
      <4>3. memory'[new[p]][i] = Protect(src(p)[i])
        BY <2>1, <2>2, <2>4, <3>2, ProtectedWord
      <4> QED BY <2>1, <2>4, <4>2, <4>3, ProtectedWord
    <3>3. CASE Len(p) # 2
      <4>1. Len(p) \in 0 .. 3 /\ Len(p) < 3
        BY <2>1, PositionIsSequence
      <4>2. PICK l \in 0 .. 2 : l = Len(p)
        BY <4>1
      <4>3. Len(Extend(p, i)) = l + 1 /\ l + 1 < 3 /\ l + 1 # 3
        BY <3>1, <3>3, <4>2
      <4>4. f[Extend(p, i)] = new[Extend(p, i)] /\ Extend(p, i) \in S
        BY <3>1, <4>3, <1>2, <1>8
      <4>5. new[Extend(p, i)] \in Page
        BY <4>4, <1>5
      <4> QED BY <2>1, <2>2, <2>4, <3>3, <4>4, <4>5, EntryCopy
    <3> QED BY <3>2, <3>3
  <2> QED BY <2>3, <2>4
<1>10. f[<<>>] = new[<<>>]
  BY <1>1, <1>8, RootPosition
<1>11. Leads(memory', new[<<>>], T, f)
  <2>1. ASSUME NEW p \in Positions, NEW i \in Index, Len(p) < 3
        PROVE  /\ Extend(p, i) \in T <=> p \in T /\ memory'[f[p]][i].valid
               /\ Extend(p, i) \in T => f[Extend(p, i)] = memory'[f[p]][i].ppn
    <3>1. p \in T => p \in S /\ f[p] = new[p]
      BY <2>1, <1>2, <1>8, PositionLength
    <3> QED BY <3>1, <1>7, <1>9, <2>1
  <2> QED BY <1>1, <1>10, <2>1 DEF Leads
<1>12. Tree(new[<<>>])' = T /\ \A p \in T : PageAt(new[<<>>], p)' = f[p]
  BY <1>11, TreesAreAsLed DEF TreeIs
<1>13. memory' \in [Page -> [Index -> Words]]
  <2>1. ASSUME NEW page \in Page PROVE memory'[page] \in [Index -> Words]
    <3>1. CASE page \in NewPageSet(new)
      <4>1. PICK p \in S : page = new[p]
        BY <3>1, <1>5
      <4>2. \A i \in Index : memory'[page][i] \in Words
        BY <4>1, <1>9
      <4>3. memory'[page] = [i \in Index |-> memory'[page][i]]
        BY <4>1, <1>3
      <4> QED BY <4>2, <4>3
    <3>2. CASE page \in L0Tables(cur)
      <4>1. \A i \in Index : Protect(memory[page][i]) \in Words
        BY ProtectedWord, WordAt DEF SpaceInv
      <4>2. memory'[page] = [i \in Index |-> Protect(memory[page][i])]
        BY <3>2, <1>3
      <4> QED BY <4>1, <4>2
    <3>3. CASE page \notin NewPageSet(new) /\ page \notin L0Tables(cur)
      BY <3>3, <1>3 DEF SpaceInv, Types
    <3> QED BY <3>1, <3>2, <3>3
  <2>2. memory' = [page \in Page |-> memory'[page]]
    BY DEF SharedMemory
  <2> QED BY <2>1, <2>2
<1> QED BY <1>12, <1>13 DEF T, f

\* The fork that copies on write is a fork whose tables are new.
LEMMA ShareIsFork ==
    ASSUME SpaceInv, NEW cur \in roots, cur = root_page_table,
           Cardinality(TablePositions(cur)) <= Cardinality(Free),
           NEW new, new = NewPages(TablePositions(cur)),
           Allocate(NewPageSet(new)),
           memory' = SharedMemory(new), roots' = roots \cup {new[<<>>]},
           NEW f, f = SharedPlaces(cur, new)
    PROVE  ForkedAs(cur, NewPageSet(new), f)
<1> DEFINE N == NewPageSet(new)
           S == TablePositions(cur)
<1>1. Tree(cur) \subseteq Positions /\ <<>> \in Tree(cur)
  BY TreeIsPositions, TreeLaws DEF TreeFacts
<1>2. S \subseteq Positions /\ <<>> \in S /\ \A p \in Tree(cur) : p \in S <=> Len(p) < 3
  BY <1>1, TablesAreLevels, RootPosition
<1>3. /\ N \subseteq Free
      /\ \A p \in S : new[p] \in N /\ new[p] \in Page
      /\ \A p \in S : \A q \in S : new[p] = new[q] => p = q
  BY <1>2, NewOnes
<1>4. /\ \A page \in Page : page \notin N /\ page \notin L0Tables(cur)
                               => memory'[page] = memory[page]
      /\ \A page \in L0Tables(cur) : memory'[page] = [i \in Index |-> Protect(memory[page][i])]
  BY SharedPages
<1>5. \A r \in roots : \A p \in Tree(r) :
          PageAt(r, p) \in Page /\ PageAt(r, p) \notin N /\ allocated[PageAt(r, p)]
  <2>1. \A r \in roots : \A p \in Tree(r) : PageAt(r, p) \in Page
    BY PlacesArePages, TreeIsPositions DEF SpaceInv, Types
  <2> QED BY <2>1, <1>3 DEF SpaceInv, Held, Free
<1>6. ASSUME NEW r \in roots
      PROVE  Tree(r)' = Tree(r) /\ \A p \in Tree(r) : PageAt(r, p)' = PageAt(r, p)
  <2>1. ASSUME NEW p \in Tree(r), NEW i \in Index
        PROVE  LET page == PageAt(r, p)
               IN  /\ memory'[page][i].valid <=> memory[page][i].valid
                   /\ memory[page][i].valid => memory'[page][i].ppn = memory[page][i].ppn
    <3>1. CASE PageAt(r, p) \in L0Tables(cur)
      <4>1. memory'[PageAt(r, p)][i] = Protect(memory[PageAt(r, p)][i])
        <5>1. PICK page \in L0Tables(cur) : page = PageAt(r, p)
          BY <3>1
        <5>2. memory'[page] = [j \in Index |-> Protect(memory[page][j])]
          BY <1>4
        <5> QED BY <5>1, <5>2
      <4>2. memory[PageAt(r, p)][i] \in Words
        BY <1>5, WordAt DEF SpaceInv
      <4> QED BY <4>1, <4>2, ProtectedWord
    <3>2. CASE PageAt(r, p) \notin L0Tables(cur)
      BY <3>2, <1>4, <1>5
    <3> QED BY <3>1, <3>2
  <2> QED BY <2>1, SameTree
<1>7. \A page \in L0Tables(cur) : page \notin Free
  BY <1>5 DEF L0Tables, Free
<1>8. Free \subseteq Page
  BY DEF Free
<1>9. /\ Tree(new[<<>>])' = Tree(cur)
      /\ \A p \in Tree(cur) : PageAt(new[<<>>], p)' = f[p]
  BY ShareLeads
<1>10. \A p \in Tree(cur) : f[p] = IF Len(p) = 3 THEN PageAt(cur, p) ELSE new[p]
  BY DEF SharedPlaces
<1> HIDE DEF N, S
<1>11. \A p \in Tree(cur) : \/ Len(p) = 3 /\ f[p] = PageAt(cur, p) /\ f[p] \notin N
                            \/ p \in S /\ f[p] = new[p] /\ f[p] \in N
  BY <1>1, <1>2, <1>3, <1>5, <1>10, PositionLength
<1>12. f[<<>>] = new[<<>>] /\ f[<<>>] \in N
  BY <1>1, <1>2, <1>3, <1>10, PositionLength
<1>13. \A p \in Tree(cur) : \A q \in Tree(cur) : f[p] = f[q] /\ f[p] \in N => p = q
  BY <1>3, <1>11
<1>14. \A page \in Free \ N : memory'[page] = memory[page]
  BY <1>4, <1>7, <1>8
<1>15. ForkedAs(cur, N, f)
  BY <1>3, <1>6, <1>9, <1>11, <1>12, <1>13, <1>14 DEF ForkedAs, N
<1> QED BY <1>15 DEF N

--------------------------------------------------------------------------------
(* The forks, the discard and the steps that leave the spaces alone.       *)

\* A step that leaves pages and roots leaves the spaces.
LEMMA StandingSpaces ==
    ASSUME SpaceInv, UNCHANGED <<allocated, used_pages, memory, roots>>
    PROVE  UsedPagesIsExact' /\ FreePagesAreZero' /\ Held' /\ Apart'
<1>1. \A r \in roots : Tree(r)' = Tree(r) /\ \A p \in Tree(r) : PageAt(r, p)' = PageAt(r, p)
  BY UnchangedTrees
<1>2. Held'
  <2>1. ASSUME NEW r \in roots, NEW p \in Tree(r)' PROVE allocated'[PageAt(r, p)']
    BY <2>1, <1>1 DEF SpaceInv, Held
  <2>2. \A r \in roots' : \A p \in Tree(r)' : allocated'[PageAt(r, p)']
    BY <2>1
  <2> QED BY <2>2 DEF Held
<1>3. Apart'
  <2>1. ASSUME NEW r \in roots, NEW s \in roots, NEW p \in Tree(r)', NEW q \in Tree(s)',
               PageAt(r, p)' = PageAt(s, q)'
        PROVE  p = q /\ (r = s \/ Len(p) = 3)
    <3>1. p \in Tree(r) /\ q \in Tree(s) /\ PageAt(r, p) = PageAt(s, q)
      BY <2>1, <1>1
    <3> QED BY <3>1 DEF SpaceInv, Apart
  <2>2. \A r \in roots' : \A s \in roots' : \A p \in Tree(r)' : \A q \in Tree(s)' :
            PageAt(r, p)' = PageAt(s, q)' => p = q /\ (r = s \/ Len(p) = 3)
    BY <2>1
  <2> QED BY <2>2 DEF Apart
<1>4. UsedPagesIsExact' /\ FreePagesAreZero'
  BY DEF SpaceInv, UsedPagesIsExact, FreePagesAreZero, Free
<1> QED BY <1>2, <1>3, <1>4

\* An exit with an error leaves the spaces.
LEMMA ExitsKeeps ==
    ASSUME SpaceInv, NEW status \in {"refused", "EFAULT", "ENOMEM"}, Exits(status),
           UNCHANGED client
    PROVE  SpaceInv'
<1>1. UsedPagesIsExact' /\ FreePagesAreZero' /\ Held' /\ Apart'
  BY StandingSpaces DEF Exits
<1>2. Types'
  BY DEF Exits, SpaceInv, Types
<1> QED BY <1>1, <1>2 DEF SpaceInv

\* So does setting the root table.
LEMMA SwitchKeeps ==
    ASSUME SpaceInv, NEW root, vms_set_root_page_table(root), UNCHANGED client
    PROVE  SpaceInv'
<1>1. UsedPagesIsExact' /\ FreePagesAreZero' /\ Held' /\ Apart'
  BY StandingSpaces DEF vms_set_root_page_table
<1>2. Types'
  BY DEF vms_set_root_page_table, SpaceInv, Types
<1> QED BY <1>1, <1>2 DEF SpaceInv

\* vms_fork_copy keeps the invariant.
LEMMA ForkCopyKeeps ==
    ASSUME SpaceInv, vms_fork_copy, UNCHANGED client
    PROVE  SpaceInv'
<1>1. PICK cur \in roots : cur = root_page_table
  BY DEF SpaceInv, Types
<1>2. PICK new : new = NewPages(Tree(cur))
  OBVIOUS
<1>3. CASE ForkRefused /\ Exits("refused")
  BY <1>3, ExitsKeeps
<1>4. CASE ~(ForkRefused /\ Exits("refused"))
  <2>1. /\ Cardinality(DOMAIN new) <= Cardinality(Free)
        /\ Allocate(NewPageSet(new))
        /\ memory' = CopiedMemory(new)
        /\ roots' = roots \cup {new[<<>>]}
        /\ UNCHANGED <<process, ref_num, root_page_table>>
    BY <1>1, <1>2, <1>4 DEF vms_fork_copy
  <2>2. DOMAIN new = Tree(cur)
    BY <1>2 DEF NewPages
  <2>3. Cardinality(Tree(cur)) <= Cardinality(Free)
    BY <2>1, <2>2
  <2>4. ForkedAs(cur, NewPageSet(new), new)
    BY <1>1, <1>2, <2>1, <2>3, CopyIsFork
  <2>5. UsedPagesIsExact' /\ FreePagesAreZero' /\ Held' /\ Apart'
    BY <2>4, ForkKeepsSpaces
  <2>6. memory' \in [Page -> [Index -> Words]]
    BY <1>1, <1>2, <2>1, <2>3, CopyLeads
  <2>7. new[<<>>] \in Page /\ NewPageSet(new) \subseteq Free
    BY <2>4 DEF ForkedAs, Free
  <2>8. allocated' \in [Page -> BOOLEAN]
    BY <2>1, <2>7, AllocateCounts DEF SpaceInv
  <2>9. Types'
    BY <2>1, <2>6, <2>7, <2>8 DEF SpaceInv, Types
  <2> QED BY <2>5, <2>9 DEF SpaceInv
<1> QED BY <1>3, <1>4

\* The counts after a fork are natural numbers.
LEMMA CountedIsNat ==
    ASSUME SpaceInv, NEW r
    PROVE  CountedShares(r) \in [Page -> Nat]
<1>1. ASSUME NEW page \in Page
      PROVE  ref_num[page] + 2 * Cardinality({path \in Paths(r) : PageAt(r, path) = page}) \in Nat
  <2> DEFINE M == {path \in Paths(r) : PageAt(r, path) = page}
  <2>1. M \subseteq Positions
    BY DEF Paths, Tree
  <2>2. Cardinality(M) \in Nat
    BY <2>1, SubsetsAreFinite
  <2>3. ref_num[page] \in Nat
    BY DEF SpaceInv, Types
  <2> QED BY <2>2, <2>3
<1> QED BY <1>1 DEF CountedShares

\* vms_fork_copy_on_write keeps the invariant.
LEMMA ForkOnWriteKeeps ==
    ASSUME SpaceInv, vms_fork_copy_on_write, UNCHANGED client
    PROVE  SpaceInv'
<1>1. PICK cur \in roots : cur = root_page_table
  BY DEF SpaceInv, Types
<1>2. PICK new : new = NewPages(TablePositions(cur))
  OBVIOUS
<1>3. CASE ForkRefused /\ Exits("refused")
  BY <1>3, ExitsKeeps
<1>4. CASE ~(ForkRefused /\ Exits("refused"))
  <2>1. /\ Cardinality(DOMAIN new) <= Cardinality(Free)
        /\ Allocate(NewPageSet(new))
        /\ memory' = SharedMemory(new)
        /\ ref_num' = CountedShares(cur)
        /\ roots' = roots \cup {new[<<>>]}
        /\ UNCHANGED <<process, root_page_table>>
    BY <1>1, <1>2, <1>4 DEF vms_fork_copy_on_write
  <2>2. DOMAIN new = TablePositions(cur)
    BY <1>2 DEF NewPages
  <2>3. Cardinality(TablePositions(cur)) <= Cardinality(Free)
    BY <2>1, <2>2
  <2>4. PICK f : f = SharedPlaces(cur, new)
    OBVIOUS
  <2>5. ForkedAs(cur, NewPageSet(new), f)
    BY <1>1, <1>2, <2>1, <2>3, <2>4, ShareIsFork
  <2>6. UsedPagesIsExact' /\ FreePagesAreZero' /\ Held' /\ Apart'
    BY <2>5, ForkKeepsSpaces
  <2>7. memory' \in [Page -> [Index -> Words]]
    BY <1>1, <1>2, <2>1, <2>3, ShareLeads
  <2>8. f[<<>>] \in Page /\ NewPageSet(new) \subseteq Free /\ roots' = roots \cup {f[<<>>]}
    BY <2>5 DEF ForkedAs, Free
  <2>9. allocated' \in [Page -> BOOLEAN]
    BY <2>1, <2>8, AllocateCounts DEF SpaceInv
  <2>10. ref_num' \in [Page -> Nat]
    BY <2>1, CountedIsNat
  <2>11. Types'
    BY <2>1, <2>7, <2>8, <2>9, <2>10 DEF SpaceInv, Types
  <2> QED BY <2>6, <2>11 DEF SpaceInv
<1> QED BY <1>3, <1>4

\* Freeing what no other space maps keeps the invariant.
LEMMA DiscardKeeps ==
    ASSUME SpaceInv, NEW root, Discard(root), UNCHANGED client
    PROVE  SpaceInv'
<1> DEFINE others == roots \ {root}
           freed == PagesOf(root) \ UNION {PagesOf(r) : r \in others}
<1>1. /\ root \in roots \ {root_page_table}
      /\ allocated' = [i \in Page |-> allocated[i] /\ i \notin freed]
      /\ memory' = [i \in Page |-> IF i \in freed THEN [j \in Index |-> ZeroWord] ELSE memory[i]]
      /\ used_pages' = used_pages - Cardinality(freed)
      /\ roots' = others
      /\ UNCHANGED <<process, ref_num, root_page_table>>
  BY DEF Discard
<1>2. \A r \in roots : \A p \in Tree(r) : PageAt(r, p) \in Page /\ allocated[PageAt(r, p)]
  <2>1. \A r \in roots : \A p \in Tree(r) : PageAt(r, p) \in Page
    BY PlacesArePages, TreeIsPositions DEF SpaceInv, Types
  <2> QED BY <2>1 DEF SpaceInv, Held
<1>3. freed \subseteq Page /\ \A i \in freed : allocated[i]
  BY <1>1, <1>2 DEF PagesOf
<1>4. \A r \in others : \A p \in Tree(r) : PageAt(r, p) \notin freed
  BY DEF PagesOf
<1> HIDE DEF freed
<1>5. \A r \in others : Tree(r)' = Tree(r) /\ \A p \in Tree(r) : PageAt(r, p)' = PageAt(r, p)
  <2>1. ASSUME NEW r \in others
        PROVE  Tree(r)' = Tree(r) /\ \A p \in Tree(r) : PageAt(r, p)' = PageAt(r, p)
    <3>1. \A p \in Tree(r) : memory'[PageAt(r, p)] = memory[PageAt(r, p)]
      BY <1>1, <1>2, <1>4
    <3>2. \A p \in Tree(r) : \A i \in Index : Len(p) < 3 =>
              LET page == PageAt(r, p)
              IN  /\ memory'[page][i].valid <=> memory[page][i].valid
                  /\ memory[page][i].valid => memory'[page][i].ppn = memory[page][i].ppn
      BY <3>1
    <3> QED BY <3>2, SameTree
  <2> QED BY <2>1
<1>6. \A i \in Page : allocated'[i] <=> allocated[i] /\ i \notin freed
  BY <1>1
<1>7. Held'
  <2>1. ASSUME NEW r \in others, NEW p \in Tree(r)' PROVE allocated'[PageAt(r, p)']
    BY <2>1, <1>2, <1>4, <1>5, <1>6
  <2>2. \A r \in roots' : \A p \in Tree(r)' : allocated'[PageAt(r, p)']
    BY <2>1, <1>1
  <2> QED BY <2>2 DEF Held
<1>8. Apart'
  <2>1. ASSUME NEW r \in others, NEW s \in others, NEW p \in Tree(r)', NEW q \in Tree(s)',
               PageAt(r, p)' = PageAt(s, q)'
        PROVE  p = q /\ (r = s \/ Len(p) = 3)
    <3>1. p \in Tree(r) /\ q \in Tree(s) /\ PageAt(r, p) = PageAt(s, q)
      BY <2>1, <1>5
    <3> QED BY <3>1 DEF SpaceInv, Apart
  <2>2. \A r \in roots' : \A s \in roots' : \A p \in Tree(r)' : \A q \in Tree(s)' :
            PageAt(r, p)' = PageAt(s, q)' => p = q /\ (r = s \/ Len(p) = 3)
    BY <2>1, <1>1
  <2> QED BY <2>2 DEF Apart
<1>9. FreePagesAreZero'
  <2>1. \A i \in Free : memory[i] = [j \in Index |-> ZeroWord]
    BY DEF SpaceInv, FreePagesAreZero
  <2>2. \A i \in Free' : i \in Page /\ (i \in Free \/ i \in freed)
    BY <1>6 DEF Free
  <2>3. \A i \in Free' : memory'[i] = [j \in Index |-> ZeroWord]
    BY <1>1, <2>1, <2>2
  <2> QED BY <2>3 DEF FreePagesAreZero
<1>10. UsedPagesIsExact'
  <2> DEFINE A == {i \in Page : allocated[i]}
  <2>1. A' = A \ freed /\ freed \subseteq A /\ A \cap freed = freed
    BY <1>3, <1>6
  <2>2. IsFiniteSet(A) /\ Cardinality(A) \in Nat /\ Cardinality(freed) \in Nat
    BY <1>3, SomePagesAreFinite
  <2>3. Cardinality(A \ freed) = Cardinality(A) - Cardinality(A \cap freed)
    BY <2>2, FS_Difference
  <2>4. used_pages' = Cardinality(A')
    BY <1>1, <2>1, <2>3 DEF SpaceInv, UsedPagesIsExact
  <2> QED BY <2>4 DEF UsedPagesIsExact
<1>11. Types'
  <2>1. memory' \in [Page -> [Index -> Words]]
    BY <1>1, ZeroWordIsWord DEF SpaceInv, Types
  <2>2. allocated' \in [Page -> BOOLEAN]
    <3>1. \A i \in Page : (allocated[i] /\ i \notin freed) \in BOOLEAN
      OBVIOUS
    <3> QED BY <1>1, <3>1
  <2>3. roots' \subseteq Page /\ root_page_table' \in roots'
    BY <1>1 DEF SpaceInv, Types
  <2> QED BY <1>1, <2>1, <2>2, <2>3 DEF SpaceInv, Types
<1> QED BY <1>7, <1>8, <1>9, <1>10, <1>11 DEF SpaceInv

--------------------------------------------------------------------------------
(* The entry of a virtual address.                                         *)

\* A virtual address is an entry of an L0 position.
LEMMA PathSplits ==
    ASSUME NEW path \in VirtualAddresses
    PROVE  /\ path \in Positions /\ Len(path) = 3 /\ path # <<>>
           /\ Parent(path) \in Positions /\ Len(Parent(path)) = 2
           /\ path[3] \in Index /\ path = Extend(Parent(path), path[3])
<1>1. PICK a \in Index, b \in Index, c \in Index : path = <<a, b, c>>
  BY DEF VirtualAddresses
<1>2. path \in Seq(Index) /\ Len(path) = 3
  BY <1>1
<1>3. path \in Positions
  BY <1>2, PositionIsSequence
<1>4. path # <<>>
  BY <1>2, RootPosition
<1>5. PICK p \in Positions, i \in Index : path = Extend(p, i) /\ Len(p) < 3
  BY <1>3, <1>4, PositionShrinks
<1>6. Parent(path) = p
  BY <1>5, ParentExtend
<1>7. PICK l \in 0 .. 3 : l = Len(p)
  BY <1>5, PositionIsSequence
<1>8. Len(path) = l + 1
  BY <1>5, <1>7, PositionExtends
<1>9. l = 2
  BY <1>2, <1>8
<1>10. path[3] = i
  <2>1. Extend(p, i)[Len(p) + 1] = i
    BY <1>5, PositionExtends
  <2> QED BY <1>5, <1>7, <1>9, <2>1
<1> QED BY <1>2, <1>3, <1>4, <1>5, <1>6, <1>7, <1>9, <1>10

\* A mapped address: its L0 table and its entry there.
LEMMA MappedEntry ==
    ASSUME SpaceInv, NEW path \in VirtualAddresses, ValidAt(root_page_table, path)
    PROVE  /\ root_page_table \in roots /\ path \in Tree(root_page_table)
           /\ Parent(path) \in Tree(root_page_table)
           /\ L0Of(path) \in Page /\ allocated[L0Of(path)]
           /\ L0Of(path) = PageAt(root_page_table, Parent(path))
           /\ memory[L0Of(path)][path[3]] \in Words
           /\ memory[L0Of(path)][path[3]].valid
           /\ PageAt(root_page_table, path) = memory[L0Of(path)][path[3]].ppn
           /\ EntryAt(root_page_table, path) = memory[L0Of(path)][path[3]]
           /\ memory[L0Of(path)][path[3]].ppn \in Page
           /\ allocated[memory[L0Of(path)][path[3]].ppn]
<1> DEFINE cur == root_page_table
<1>1. cur \in roots /\ cur \in Page
  BY DEF SpaceInv, Types
<1>2. path \in Tree(cur)
  BY PathSplits DEF Tree
<1>3. L0Of(path) = PageAt(cur, Parent(path))
  BY DEF L0Of
<1> HIDE DEF cur
<1>4. /\ Parent(path) \in Positions /\ path[3] \in Index /\ Len(Parent(path)) = 2
      /\ path = Extend(Parent(path), path[3])
  BY PathSplits
<1>5. /\ Extend(Parent(path), path[3]) \in Tree(cur)
      /\ Parent(path) \in Positions /\ path[3] \in Index /\ Len(Parent(path)) < 3
  <2>1. Extend(Parent(path), path[3]) \in Tree(cur)
    BY <1>2, <1>4, Zenon
  <2> QED BY <1>4, <2>1
<1>6. /\ Parent(path) \in Tree(cur) /\ memory[L0Of(path)][path[3]].valid
      /\ PageAt(cur, path) = memory[L0Of(path)][path[3]].ppn
      /\ EntryAt(cur, path) = memory[L0Of(path)][path[3]]
  <2>1. PICK p, i, e : p = Parent(path) /\ i = path[3] /\ e = Extend(p, i)
    OBVIOUS
  <2>2. path = e
    BY <1>4, <2>1, Zenon
  <2>3. /\ PageAt(cur, e) = memory[PageAt(cur, p)][i].ppn
        /\ EntryAt(cur, e) = memory[PageAt(cur, p)][i]
        /\ p \in Tree(cur) /\ memory[PageAt(cur, p)][i].valid
    BY <1>5, <2>1, TreeLaws DEF TreeFacts
  <2> QED BY <1>3, <2>1, <2>2, <2>3, Zenon
<1>7. /\ L0Of(path) \in Page /\ PageAt(cur, path) \in Page
  BY <1>1, <1>3, <1>5, PathSplits, PlacesArePages DEF SpaceInv
<1>8. /\ allocated[L0Of(path)] /\ allocated[PageAt(cur, path)]
  BY <1>1, <1>2, <1>3, <1>6 DEF SpaceInv, Held
<1>9. memory[L0Of(path)][path[3]] \in Words
  BY <1>5, <1>7, WordAt DEF SpaceInv
<1> QED BY <1>1, <1>2, <1>3, <1>6, <1>7, <1>8, <1>9 DEF cur

\* A restored entry is writable if it was marked.
LEMMA RestoredWord ==
    ASSUME NEW w \in Words
    PROVE  /\ Restored(w) \in Words
           /\ Restored(w).valid = w.valid /\ Restored(w).ppn = w.ppn
           /\ Restored(w).read = w.read /\ Restored(w).value = w.value
           /\ Restored(w).write <=> w.write \/ w.custom
           /\ ~Restored(w).custom
           /\ ~w.custom => Restored(w) = w
BY DEF Restored, Words

\* The page the handler takes is free.
LEMMA LowestFreePage ==
    ASSUME Types, \E p \in Page : ~allocated[p]
    PROVE  LowestIn(Machine) \in Free
<1>1. \E p \in Free : \A q \in Free : p <= q
  BY FreeIsFinite, LeastExists DEF Free
<1>2. \E p \in Page : ~allocated[p] /\ \A q \in Page : ~allocated[q] => p <= q
  BY <1>1 DEF Free
<1>3. LowestIn(Machine)
        = CHOOSE p \in Page : ~allocated[p] /\ \A q \in Page : ~allocated[q] => p <= q
  BY DEF LowestIn, Machine
<1> QED BY <1>2, <1>3 DEF Free

--------------------------------------------------------------------------------
(* What the page fault handler makes of a machine.                         *)

\* The machine before a fault.
LEMMA MachineFields ==
    /\ Machine.allocated = allocated /\ Machine.used_pages = used_pages
    /\ Machine.memory = memory /\ Machine.ref_num = ref_num /\ ~Machine.full
BY DEF Machine

\* The handler leaves the machine, gives the page, or copies it.
LEMMA HandlerCases ==
    ASSUME SpaceInv, NEW l0, NEW i, NEW word, word = memory[l0][i], word \in Words
    PROVE  \/ /\ page_fault_handler(Machine, l0, i) = Machine
              /\ ~word.valid \/ word.write \/ ref_num[word.ppn] = 0
           \/ /\ word.valid /\ ~word.write /\ ref_num[word.ppn] = 1
              /\ page_fault_handler(Machine, l0, i) = TakesOver(Machine, l0, i)
           \/ /\ word.valid /\ ~word.write /\ ref_num[word.ppn] >= 2
              /\ page_fault_handler(Machine, l0, i) = CopiesPage(Machine, l0, i)
<1>1. ref_num[word.ppn] \in Nat
  BY WordFields DEF SpaceInv, Types
<1>2. page_fault_handler(Machine, l0, i)
          = IF ~word.valid \/ word.write \/ ref_num[word.ppn] <= 0 THEN Machine
            ELSE IF ref_num[word.ppn] = 1 THEN TakesOver(Machine, l0, i)
            ELSE CopiesPage(Machine, l0, i)
  BY MachineFields DEF page_fault_handler
<1>3. CASE ~word.valid \/ word.write \/ ref_num[word.ppn] <= 0
  BY <1>1, <1>2, <1>3
<1>4. CASE ~(~word.valid \/ word.write \/ ref_num[word.ppn] <= 0) /\ ref_num[word.ppn] = 1
  BY <1>2, <1>4
<1>5. CASE ~(~word.valid \/ word.write \/ ref_num[word.ppn] <= 0) /\ ref_num[word.ppn] # 1
  <2>1. ref_num[word.ppn] >= 2
    BY <1>1, <1>5
  <2> QED BY <1>2, <1>5, <2>1
<1> QED BY <1>3, <1>4, <1>5

\* The entry of the page's copy.
Moved(word, page) == [Restored(word) EXCEPT !.ppn = page]

\* A restored entry that names another page.
LEMMA MovedWord ==
    ASSUME NEW w \in Words, NEW page \in Page
    PROVE  /\ Moved(w, page) \in Words
           /\ Moved(w, page).valid = w.valid /\ Moved(w, page).ppn = page
           /\ Moved(w, page).read = w.read /\ Moved(w, page).value = w.value
           /\ Moved(w, page).write <=> w.write \/ w.custom
           /\ ~Moved(w, page).custom
BY DEF Moved, Restored, Words, Page

\* The state that TakesOver and CopiesPage leave.
RestoredAt(l0, i) == [memory EXCEPT ![l0][i] = Restored(memory[l0][i])]
CopiedTo(l0, i, word, src, dst) ==
    [memory EXCEPT ![l0][i] = Moved(word, dst), ![dst] = memory[src]]
Recounted(src, dst) == [ref_num EXCEPT ![src] = @ - 1, ![dst] = @ + 1]
Taking(page) == [allocated EXCEPT ![page] = TRUE]

\* What giving the page does.
LEMMA Taken ==
    ASSUME SpaceInv, NEW l0 \in Page, NEW i \in Index, NEW m, m = TakesOver(Machine, l0, i)
    PROVE  /\ m.allocated = allocated /\ m.used_pages = used_pages
           /\ m.ref_num = ref_num /\ ~m.full
           /\ m.memory = RestoredAt(l0, i)
           /\ m.memory[l0][i] = Restored(memory[l0][i])
<1>1. m = [Machine EXCEPT !.memory = [memory EXCEPT ![l0][i] = Restored(memory[l0][i])]]
  BY MachineFields DEF TakesOver
<1>2. /\ m.allocated = allocated /\ m.used_pages = used_pages
      /\ m.ref_num = ref_num /\ ~m.full
      /\ m.memory = [memory EXCEPT ![l0][i] = Restored(memory[l0][i])]
  BY <1>1 DEF Machine
<1>3. memory \in [Page -> [Index -> Words]]
  BY DEF SpaceInv, Types
<1> QED BY <1>2, <1>3 DEF RestoredAt

\* A copy without a free page ends the process.
LEMMA CopyRunsOut ==
    ASSUME NEW l0, NEW i, \A p \in Page : allocated[p]
    PROVE  CopiesPage(Machine, l0, i).full
<1>1. CopiesPage(Machine, l0, i) = [Machine EXCEPT !.full = TRUE]
  BY MachineFields DEF CopiesPage
<1> QED BY <1>1 DEF Machine

\* What copying the page does.
LEMMA Copied ==
    ASSUME SpaceInv, NEW l0 \in Page, NEW i \in Index, allocated[l0],
           NEW word, word = memory[l0][i],
           NEW src, src = word.ppn, src \in Page, allocated[src],
           NEW dst, dst = LowestIn(Machine),
           \E p \in Page : ~allocated[p],
           NEW m, m = CopiesPage(Machine, l0, i)
    PROVE  /\ dst \in Free /\ dst \in Page /\ dst # l0 /\ dst # src
           /\ m.allocated = Taking(dst)
           /\ m.used_pages = used_pages + 1
           /\ ~m.full
           /\ m.ref_num = Recounted(src, dst)
           /\ m.memory = CopiedTo(l0, i, word, src, dst)
<1>1. dst \in Free
  BY LowestFreePage DEF SpaceInv
<1>2. dst \in Page /\ ~allocated[dst]
  BY <1>1 DEF Free
<1>3. m = [Machine EXCEPT !.allocated[dst] = TRUE,
                          !.used_pages = @ + 1,
                          !.memory[l0][i] = [Restored(@) EXCEPT !.ppn = dst],
                          !.memory[dst] = memory[src],
                          !.ref_num[src] = @ - 1,
                          !.ref_num[dst] = @ + 1]
  BY MachineFields DEF CopiesPage, Moved
<1>4. memory \in [Page -> [Index -> Words]]
  BY DEF SpaceInv, Types
<1>5. m.allocated = [allocated EXCEPT ![dst] = TRUE]
  BY <1>3 DEF Machine
<1>6. m.used_pages = used_pages + 1 /\ ~m.full
  BY <1>3 DEF Machine
<1>7. m.ref_num = [ref_num EXCEPT ![src] = @ - 1, ![dst] = @ + 1]
  BY <1>3, ZenonT(60) DEF Machine
<1>8. m.memory = [memory EXCEPT ![l0][i] = Moved(word, dst), ![dst] = memory[src]]
  BY <1>3, ZenonT(60) DEF Machine, Moved
<1> QED BY <1>1, <1>2, <1>5, <1>6, <1>7, <1>8 DEF CopiedTo, Recounted, Taking

\* The entry names the copy.
LEMMA CopiedEntry ==
    ASSUME SpaceInv, NEW l0 \in Page, NEW i \in Index, allocated[l0],
           NEW word, word = memory[l0][i],
           NEW src, src = word.ppn, src \in Page, allocated[src],
           NEW dst, dst = LowestIn(Machine),
           \E p \in Page : ~allocated[p],
           NEW m, m = CopiesPage(Machine, l0, i)
    PROVE  /\ dst \in Page /\ ~m.full
           /\ m.memory[l0][i] = Moved(word, dst)
<1>1. dst \in Free
  BY LowestFreePage DEF SpaceInv
<1>2. dst \in Page /\ dst # l0
  BY <1>1 DEF Free
<1>3. memory \in [Page -> [Index -> Words]]
  BY DEF SpaceInv, Types
<1>4. m.memory = CopiedTo(l0, i, word, src, dst)
  BY Copied
<1>5. ~m.full
  BY Copied
<1> QED BY <1>2, <1>3, <1>4, <1>5 DEF CopiedTo

--------------------------------------------------------------------------------
(* What an access makes of it.                                             *)

\* The three ways an access goes through: the entry allows it, or its page
\* waits for a copy on write and the writer is the last sharer, by the count, or
\* one of several.
Allows(word, kind) == (kind = "read" /\ word.read) \/ (kind = "write" /\ word.write)
Waits(word, kind) == kind = "write" /\ word.custom /\ ~word.write

\* The flag of a kind of access.
LEMMA KindOf ==
    ASSUME NEW kind \in {"read", "write"}, NEW word \in Words
    PROVE  word[kind] <=> Allows(word, kind)
<1>1. CASE kind = "read"
  BY <1>1 DEF Allows, Words
<1>2. CASE kind = "write"
  BY <1>2 DEF Allows, Words
<1> QED BY <1>1, <1>2

\* The handler on an entry of a machine that is writable already, or is not valid.
LEMMA HandlerIdles ==
    ASSUME NEW m, NEW l0, NEW i, ~m.memory[l0][i].valid \/ m.memory[l0][i].write
    PROVE  page_fault_handler(m, l0, i) = m
BY DEF page_fault_handler

\* An access, with its parts named.
LEMMA AccessIs ==
    ASSUME NEW path, NEW kind, NEW l0, l0 = L0Of(path), NEW i, i = path[3],
           NEW w, w = AfterWalk(path)
    PROVE  /\ w = IF Faults(memory[l0][i]) THEN page_fault_handler(Machine, l0, i) ELSE Machine
           /\ AfterAccess(path, kind)
                = IF w.full \/ Faults(w.memory[l0][i]) \/ w.memory[l0][i][kind]
                  THEN w ELSE page_fault_handler(w, l0, i)
           /\ Completes(path, kind)
                <=> LET m == AfterAccess(path, kind)
                    IN  /\ ValidAt(root_page_table, path) /\ ~m.full
                        /\ ~Faults(m.memory[l0][i]) /\ m.memory[l0][i][kind]
BY DEF AfterWalk, AfterAccess, Completes

\* What the handler gives, as a machine h with an entry e.
Handled(h, e, word, l0, i) ==
    \/ h = Machine /\ e = word
    \/ h.full
    \/ /\ word.valid /\ ~word.write /\ ~h.full
       /\ e \in Words /\ e.valid /\ e.read = word.read /\ e.write = word.custom
       /\ \/ ref_num[word.ppn] = 1 /\ h = TakesOver(Machine, l0, i)
          \/ /\ ref_num[word.ppn] >= 2 /\ h = CopiesPage(Machine, l0, i)
             /\ \E p \in Page : ~allocated[p]

\* The entry after giving the page.
LEMMA TakenEntry ==
    ASSUME SpaceInv, NEW l0 \in Page, NEW i \in Index, NEW m, m = TakesOver(Machine, l0, i),
           NEW word, word = memory[l0][i]
    PROVE  ~m.full /\ m.memory[l0][i] = Restored(word)
<1>1. ~m.full
  BY Taken
<1>2. m.memory[l0][i] = Restored(memory[l0][i])
  BY Taken
<1> QED BY <1>1, <1>2

\* What the handler makes of an entry, in each case.
LEMMA HandlerGives ==
    ASSUME SpaceInv, NEW l0 \in Page, allocated[l0], NEW i \in Index, NEW word,
           word = memory[l0][i], word \in Words, word.valid => allocated[word.ppn],
           NEW h, h = page_fault_handler(Machine, l0, i),
           NEW e, e = h.memory[l0][i]
    PROVE  Handled(h, e, word, l0, i)
<1>1. CASE h = Machine
  BY <1>1, MachineFields DEF Handled
<1>2. CASE /\ word.valid /\ ~word.write /\ ref_num[word.ppn] = 1
           /\ h = TakesOver(Machine, l0, i)
  <2>1. PICK g : g = TakesOver(Machine, l0, i)
    OBVIOUS
  <2>2. ~g.full /\ g.memory[l0][i] = Restored(word)
    BY <2>1, TakenEntry
  <2>3. ~h.full /\ e = Restored(word)
    BY <1>2, <2>1, <2>2
  <2>4. e \in Words /\ e.valid /\ e.read = word.read /\ e.write = word.custom
    BY <1>2, <2>3, RestoredWord, WordFields
  <2> QED BY <1>2, <2>3, <2>4 DEF Handled
<1>3. CASE /\ word.valid /\ ~word.write /\ ref_num[word.ppn] >= 2
           /\ h = CopiesPage(Machine, l0, i)
  <2>1. CASE \A p \in Page : allocated[p]
    BY <1>3, <2>1, CopyRunsOut DEF Handled
  <2>2. CASE \E p \in Page : ~allocated[p]
    <3>1. PICK src : src = word.ppn
      OBVIOUS
    <3>2. src \in Page /\ allocated[src]
      BY <1>3, <3>1, WordFields
    <3>3. PICK g : g = CopiesPage(Machine, l0, i)
      OBVIOUS
    <3>4. PICK dst : dst = LowestIn(Machine)
      OBVIOUS
    <3>5. dst \in Page /\ ~g.full /\ g.memory[l0][i] = Moved(word, dst)
      BY <2>2, <3>3, <3>4, <3>1, <3>2, CopiedEntry
    <3>6. dst \in Page /\ ~h.full /\ h.memory[l0][i] = Moved(word, dst)
      BY <1>3, <3>3, <3>4, <3>5
    <3>7. Moved(word, dst) \in Words /\ Moved(word, dst).valid = word.valid
          /\ Moved(word, dst).read = word.read
          /\ (Moved(word, dst).write <=> word.write \/ word.custom)
      BY <3>6, MovedWord
    <3>8. e \in Words /\ e.valid /\ e.read = word.read /\ e.write = word.custom
      <4>1. e \in Words /\ e.valid /\ e.read = word.read /\ (e.write <=> word.custom)
        BY <1>3, <3>6, <3>7
      <4> QED BY <4>1, WordFields
    <3> QED BY <1>3, <2>2, <3>6, <3>8 DEF Handled
  <2> QED BY <2>1, <2>2
<1> QED BY <1>1, <1>2, <1>3, HandlerCases

\* How an access goes through.
Through(m, word, kind, l0, i) ==
    \/ m = Machine /\ Allows(word, kind)
    \/ /\ Waits(word, kind) /\ ref_num[word.ppn] = 1 /\ m = TakesOver(Machine, l0, i)
    \/ /\ Waits(word, kind) /\ ref_num[word.ppn] >= 2 /\ m = CopiesPage(Machine, l0, i)
       /\ \E p \in Page : ~allocated[p]

\* An access that completes is allowed, or waited for a copy on write.
LEMMA CompletedAccess ==
    ASSUME SpaceInv, NEW path \in VirtualAddresses, NEW kind \in {"read", "write"},
           Completes(path, kind), NEW l0, l0 = L0Of(path), NEW i, i = path[3],
           NEW word, word = memory[l0][i], NEW m, m = AfterAccess(path, kind)
    PROVE  ValidAt(root_page_table, path) /\ Through(m, word, kind, l0, i)
<1>1. PICK w, h, e : /\ w = AfterWalk(path) /\ h = page_fault_handler(Machine, l0, i)
                     /\ e = h.memory[l0][i]
  OBVIOUS
<1>2. /\ ValidAt(root_page_table, path) /\ ~m.full
      /\ ~Faults(m.memory[l0][i]) /\ m.memory[l0][i][kind]
  BY AccessIs
<1>3. /\ w = IF Faults(word) THEN h ELSE Machine
      /\ m = IF w.full \/ Faults(w.memory[l0][i]) \/ w.memory[l0][i][kind]
             THEN w ELSE page_fault_handler(w, l0, i)
  BY <1>1, AccessIs
<1>4. /\ l0 \in Page /\ allocated[l0] /\ i \in Index /\ word \in Words /\ word.valid
      /\ allocated[word.ppn]
  BY <1>2, MappedEntry, PathSplits
<1>5. Handled(h, e, word, l0, i)
  BY <1>1, <1>4, HandlerGives
<1>6. Machine.memory[l0][i] = word /\ ~Machine.full
  BY MachineFields
<1>7. word.read \in BOOLEAN /\ word.write \in BOOLEAN /\ word.custom \in BOOLEAN
  BY <1>4, WordFields
<1>8. ASSUME ~h.full, word.valid, ~word.write,
             e \in Words, e.valid, e.read = word.read, e.write = word.custom,
             m = h, ~(kind = "read" /\ word.read)
      PROVE  Waits(word, kind)
  <2>1. e[kind]
    BY <1>1, <1>2, <1>8
  <2>2. Allows(e, kind)
    BY <2>1, <1>8, KindOf
  <2> QED BY <1>7, <1>8, <2>2 DEF Allows, Waits
<1>9. ASSUME m = h, ~(kind = "read" /\ word.read), ~Allows(word, kind)
      PROVE  Through(m, word, kind, l0, i)
  <2>1. ~(h = Machine /\ e = word)
    <3>1. SUFFICES ASSUME h = Machine, e = word PROVE FALSE
      OBVIOUS
    <3>2. word[kind]
      BY <1>1, <1>2, <1>9, <3>1
    <3> QED BY <1>4, <1>9, <3>2, KindOf
  <2>2. ~h.full
    BY <1>2, <1>9
  <2> QED BY <1>5, <1>8, <1>9, <2>1, <2>2 DEF Handled, Through
<1>10. CASE Faults(word)
  <2>1. w = h /\ ~word.read /\ ~word.write
    BY <1>3, <1>4, <1>10 DEF Faults
  <2>2. m = h
    <3>1. CASE w.full \/ Faults(w.memory[l0][i]) \/ w.memory[l0][i][kind]
      BY <1>3, <2>1, <3>1
    <3>2. CASE ~(w.full \/ Faults(w.memory[l0][i]) \/ w.memory[l0][i][kind])
      <4>1. m = page_fault_handler(h, l0, i) /\ ~h.full /\ ~Faults(e)
        BY <1>1, <1>3, <2>1, <3>2
      <4>2. e.write
        <5>1. e.read = word.read
          BY <1>5, <4>1 DEF Handled
        <5> QED BY <2>1, <4>1, <5>1 DEF Faults
      <4> QED BY <1>1, <4>1, <4>2, HandlerIdles
    <3> QED BY <3>1, <3>2
  <2>3. ~Allows(word, kind)
    BY <2>1 DEF Allows
  <2> QED BY <1>2, <1>9, <2>1, <2>2, <2>3
<1>11. CASE ~Faults(word)
  <2>1. w = Machine /\ m = IF word[kind] THEN Machine ELSE h
    BY <1>1, <1>3, <1>6, <1>11
  <2>2. CASE Allows(word, kind)
    BY <1>2, <1>4, <2>1, <2>2, KindOf DEF Through
  <2>3. CASE ~Allows(word, kind)
    <3>1. m = h
      BY <1>4, <2>1, <2>3, KindOf
    <3>2. ~(kind = "read" /\ word.read)
      BY <2>3 DEF Allows
    <3> QED BY <1>2, <1>9, <2>3, <3>1, <3>2
  <2> QED BY <2>2, <2>3
<1> QED BY <1>2, <1>10, <1>11

--------------------------------------------------------------------------------
(* Stores, in place and into a copy.                                       *)

Memories == [Page -> [Index -> Words]]
SameFlags(v, w) == /\ v.valid = w.valid /\ v.ppn = w.ppn /\ v.read = w.read
                   /\ v.write = w.write /\ v.custom = w.custom

\* A store changes the value of a word only.
LEMMA StoredWord ==
    ASSUME NEW w \in Words, NEW value \in Values
    PROVE  /\ [w EXCEPT !.value = value] \in Words
           /\ SameFlags([w EXCEPT !.value = value], w)
           /\ [w EXCEPT !.value = value].value = value
BY DEF Words, SameFlags

StoreAt(mem, page, value) == [mem EXCEPT ![page][0].value = value]

\* The words after a store.
LEMMA StoreInto ==
    ASSUME NEW mem \in Memories, NEW page \in Page, NEW value \in Values,
           NEW res, res = StoreAt(mem, page, value)
    PROVE  /\ res \in Memories
           /\ \A p \in Page : \A j \in Index :
                  /\ SameFlags(res[p][j], mem[p][j])
                  /\ res[p][j].value = IF p = page /\ j = 0 THEN value ELSE mem[p][j].value
<1>1. PICK old \in Words : old = mem[page][0]
  BY VmsAssumption DEF Memories
<1>2. PICK new \in Words : /\ new = [old EXCEPT !.value = value]
                           /\ SameFlags(new, old) /\ new.value = value
  BY StoredWord
<1>3. res = [mem EXCEPT ![page][0] = new]
  BY <1>1, <1>2 DEF StoreAt
<1>4. \A p \in Page : \A j \in Index :
          res[p][j] = IF p = page /\ j = 0 THEN new ELSE mem[p][j]
  BY <1>3 DEF Memories
<1>5. res \in Memories
  BY <1>2, <1>3, VmsAssumption DEF Memories
<1>6. ASSUME NEW p \in Page, NEW j \in Index
      PROVE  /\ SameFlags(res[p][j], mem[p][j])
             /\ res[p][j].value = IF p = page /\ j = 0 THEN value ELSE mem[p][j].value
  <2>1. CASE p = page /\ j = 0
    <3>1. res[p][j] = new /\ mem[p][j] = old
      BY <1>1, <1>4, <2>1
    <3> QED BY <1>2, <2>1, <3>1
  <2>2. CASE ~(p = page /\ j = 0)
    <3>1. res[p][j] = mem[p][j]
      BY <1>4, <2>2
    <3> QED BY <2>2, <3>1 DEF SameFlags
  <2> QED BY <2>1, <2>2
<1> QED BY <1>5, <1>6

\* A write leaves the table entries as they are, but for the one of its page: that
\* one becomes writable, and unmarked, if it is not writable already.
InPlace(l0, i, word, page, value) ==
    /\ UNCHANGED <<allocated, used_pages, ref_num>>
    /\ word.write \/ (word.custom /\ ref_num[page] = 1)
    /\ \A p \in Page : \A j \in Index :
           /\ memory'[p][j].valid = memory[p][j].valid
           /\ memory'[p][j].ppn = memory[p][j].ppn
           /\ memory'[p][j].read = memory[p][j].read
           /\ memory'[p][j].value = IF p = page /\ j = 0 THEN value ELSE memory[p][j].value
           /\ \/ /\ memory'[p][j].write = memory[p][j].write
                 /\ memory'[p][j].custom = memory[p][j].custom
              \/ /\ p = l0 /\ j = i /\ word.custom /\ ~word.write /\ ref_num[page] = 1
                 /\ memory'[p][j].write /\ ~memory'[p][j].custom

\* Or it goes to a copy of the page, at dst, whose entry is writable.
ToCopy(l0, i, word, src, dst, value) ==
    /\ allocated' = Taking(dst) /\ used_pages' = used_pages + 1
    /\ ref_num' = Recounted(src, dst)
    /\ dst \in Free /\ word.custom /\ ~word.write /\ ref_num[src] >= 2
    /\ \A p \in Page : \A j \in Index : p # dst =>
           /\ memory'[p][j].valid = memory[p][j].valid
           /\ memory'[p][j].read = memory[p][j].read
           /\ memory'[p][j].value = memory[p][j].value
           /\ p = l0 /\ j = i => /\ memory'[p][j].ppn = dst
                                 /\ memory'[p][j].write /\ ~memory'[p][j].custom
           /\ ~(p = l0 /\ j = i) => /\ memory'[p][j].ppn = memory[p][j].ppn
                                    /\ memory'[p][j].write = memory[p][j].write
                                    /\ memory'[p][j].custom = memory[p][j].custom
    /\ \A j \in Index :
           /\ SameFlags(memory'[dst][j], memory[src][j])
           /\ memory'[dst][j].value = IF j = 0 THEN value ELSE memory[src][j].value

\* The words after an entry is restored.
LEMMA RestoredEntry ==
    ASSUME SpaceInv, NEW l0 \in Page, NEW i \in Index, NEW word, word = memory[l0][i]
    PROVE  /\ RestoredAt(l0, i) \in Memories
           /\ \A p \in Page : \A j \in Index :
                  RestoredAt(l0, i)[p][j] = IF p = l0 /\ j = i THEN Restored(word) ELSE memory[p][j]
<1>1. memory \in Memories /\ word \in Words
  BY DEF SpaceInv, Types, Memories
<1>2. PICK r \in Words : r = Restored(word)
  BY <1>1, RestoredWord
<1>3. RestoredAt(l0, i) = [memory EXCEPT ![l0][i] = r]
  BY <1>2 DEF RestoredAt
<1> QED BY <1>1, <1>2, <1>3 DEF Memories

\* The words after a page is copied.
LEMMA CopiedEntries ==
    ASSUME SpaceInv, NEW l0 \in Page, NEW i \in Index, NEW word, word = memory[l0][i],
           NEW src \in Page, NEW dst \in Page, dst # l0
    PROVE  /\ CopiedTo(l0, i, word, src, dst) \in Memories
           /\ \A p \in Page : \A j \in Index :
                  CopiedTo(l0, i, word, src, dst)[p][j]
                      = IF p = dst THEN memory[src][j]
                        ELSE IF p = l0 /\ j = i THEN Moved(word, dst) ELSE memory[p][j]
<1>1. memory \in Memories /\ word \in Words
  BY DEF SpaceInv, Types, Memories
<1>2. PICK r \in Words : r = Moved(word, dst)
  BY <1>1, MovedWord
<1>3. CopiedTo(l0, i, word, src, dst) = [memory EXCEPT ![l0][i] = r, ![dst] = memory[src]]
  BY <1>2 DEF CopiedTo
<1>4. PICK table : table = [memory[l0] EXCEPT ![i] = r]
  OBVIOUS
<1>5. table \in [Index -> Words] /\ \A j \in Index : table[j] = IF j = i THEN r ELSE memory[l0][j]
  BY <1>1, <1>4 DEF Memories
<1>6. PICK res : res = CopiedTo(l0, i, word, src, dst)
  OBVIOUS
<1>7. res = [memory EXCEPT ![l0] = table, ![dst] = memory[src]]
  BY <1>3, <1>4, <1>6
<1> HIDE <1>3, <1>4
<1>8. /\ res \in Memories
      /\ \A p \in Page : res[p] = IF p = dst THEN memory[src]
                                  ELSE IF p = l0 THEN table ELSE memory[p]
  BY <1>1, <1>5, <1>7 DEF Memories
<1>9. ASSUME NEW p \in Page, NEW j \in Index
      PROVE  res[p][j] = IF p = dst THEN memory[src][j]
                         ELSE IF p = l0 /\ j = i THEN r ELSE memory[p][j]
  BY <1>5, <1>8
<1>10. \A p \in Page : \A j \in Index :
           CopiedTo(l0, i, word, src, dst)[p][j]
               = IF p = dst THEN memory[src][j]
                 ELSE IF p = l0 /\ j = i THEN Moved(word, dst) ELSE memory[p][j]
  BY <1>2, <1>6, <1>9
<1> QED BY <1>6, <1>8, <1>10

--------------------------------------------------------------------------------
(* What a write does.                                                      *)

\* What a write that goes through does: every case of it.
LEMMA WriteDoes ==
    ASSUME SpaceInv, NEW path \in VirtualAddresses, NEW value \in Values,
           vms_write(path, value), NEW l0, l0 = L0Of(path), NEW i, i = path[3],
           NEW word, word = memory[l0][i], NEW src, src = word.ppn
    PROVE  \/ Fails(path, "write")
           \/ /\ ValidAt(root_page_table, path) /\ (word.write \/ word.custom)
              /\ UNCHANGED <<process, root_page_table, roots>>
              /\ memory' \in Memories
              /\ \/ InPlace(l0, i, word, src, value)
                 \/ \E dst \in Page : ToCopy(l0, i, word, src, dst, value)
<1> SUFFICES ASSUME ~Fails(path, "write")
    PROVE  /\ ValidAt(root_page_table, path) /\ (word.write \/ word.custom)
           /\ UNCHANGED <<process, root_page_table, roots>>
           /\ memory' \in Memories
           /\ \/ InPlace(l0, i, word, src, value)
              \/ \E dst \in Page : ToCopy(l0, i, word, src, dst, value)
  OBVIOUS
<1>1. PICK m, page : m = AfterAccess(path, "write") /\ page = m.memory[l0][i].ppn
  OBVIOUS
<1>2. /\ Completes(path, "write") /\ BecomesMachine(m)
      /\ memory' = StoreAt(m.memory, page, value)
      /\ UNCHANGED <<process, root_page_table, roots>>
  BY <1>1 DEF vms_write, StoreAt
<1>3. ValidAt(root_page_table, path) /\ Through(m, word, "write", l0, i)
  BY <1>1, <1>2, CompletedAccess
<1>4. /\ l0 \in Page /\ allocated[l0] /\ i \in Index /\ word \in Words
      /\ src \in Page /\ allocated[src]
  BY <1>3, MappedEntry, PathSplits
<1>5. memory \in Memories
  BY DEF SpaceInv, Types, Memories
<1>6. word.write \/ word.custom
  BY <1>3 DEF Through, Allows, Waits
<1>7. CASE m = Machine /\ Allows(word, "write")
  <2>1. /\ m.memory = memory /\ page = src /\ UNCHANGED <<allocated, used_pages, ref_num>>
    BY <1>1, <1>2, <1>7, MachineFields DEF BecomesMachine
  <2>2. memory' = StoreAt(memory, src, value)
    BY <1>2, <2>1
  <2>3. /\ memory' \in Memories
        /\ \A p \in Page : \A j \in Index :
               /\ SameFlags(memory'[p][j], memory[p][j])
               /\ memory'[p][j].value = IF p = src /\ j = 0 THEN value ELSE memory[p][j].value
    BY <1>4, <1>5, <2>2, StoreInto
  <2>4. word.write
    BY <1>7 DEF Allows
  <2>5. InPlace(l0, i, word, src, value)
    BY <2>1, <2>3, <2>4 DEF InPlace, SameFlags
  <2> QED BY <1>2, <1>3, <1>6, <2>3, <2>5
<1>8. CASE Waits(word, "write") /\ ref_num[word.ppn] = 1 /\ m = TakesOver(Machine, l0, i)
  <2>1. word.custom /\ ~word.write /\ ref_num[src] = 1
    BY <1>8 DEF Waits
  <2>2. /\ m.memory = RestoredAt(l0, i) /\ m.memory[l0][i] = Restored(word)
        /\ m.allocated = allocated /\ m.used_pages = used_pages /\ m.ref_num = ref_num
    BY <1>4, <1>8, Taken
  <2>3. PICK r : /\ r = Restored(word) /\ r.valid = word.valid /\ r.ppn = word.ppn
                 /\ r.read = word.read /\ r.value = word.value /\ r.write /\ ~r.custom
    BY <1>4, <2>1, RestoredWord
  <2>4. page = src /\ UNCHANGED <<allocated, used_pages, ref_num>>
    BY <1>1, <1>2, <2>2, <2>3 DEF BecomesMachine
  <2>5. PICK mem \in Memories :
            /\ mem = RestoredAt(l0, i)
            /\ \A p \in Page : \A j \in Index :
                   mem[p][j] = IF p = l0 /\ j = i THEN Restored(word) ELSE memory[p][j]
    BY <1>4, RestoredEntry
  <2>6. memory' = StoreAt(mem, src, value)
    BY <1>2, <2>2, <2>4, <2>5
  <2>7. /\ memory' \in Memories
        /\ \A p \in Page : \A j \in Index :
               /\ SameFlags(memory'[p][j], mem[p][j])
               /\ memory'[p][j].value = IF p = src /\ j = 0 THEN value ELSE mem[p][j].value
    BY <1>4, <2>5, <2>6, StoreInto
  <2>8. ASSUME NEW p \in Page, NEW j \in Index
        PROVE  /\ memory'[p][j].valid = memory[p][j].valid
               /\ memory'[p][j].ppn = memory[p][j].ppn
               /\ memory'[p][j].read = memory[p][j].read
               /\ memory'[p][j].value = IF p = src /\ j = 0 THEN value ELSE memory[p][j].value
               /\ \/ /\ memory'[p][j].write = memory[p][j].write
                     /\ memory'[p][j].custom = memory[p][j].custom
                  \/ /\ p = l0 /\ j = i /\ word.custom /\ ~word.write /\ ref_num[src] = 1
                     /\ memory'[p][j].write /\ ~memory'[p][j].custom
    <3>1. CASE p = l0 /\ j = i
      <4>1. mem[p][j] = r /\ memory[p][j] = word
        BY <2>5, <2>3, <3>1
      <4> QED BY <2>1, <2>7, <2>3, <3>1, <4>1 DEF SameFlags
    <3>2. CASE ~(p = l0 /\ j = i)
      <4>1. mem[p][j] = memory[p][j]
        BY <2>5, <3>2
      <4> QED BY <2>7, <4>1 DEF SameFlags
    <3> QED BY <3>1, <3>2
  <2>9. InPlace(l0, i, word, src, value)
    BY <2>1, <2>4, <2>8 DEF InPlace
  <2> QED BY <1>2, <1>3, <1>6, <2>7, <2>9
<1>9. CASE /\ Waits(word, "write") /\ ref_num[word.ppn] >= 2 /\ m = CopiesPage(Machine, l0, i)
           /\ \E p \in Page : ~allocated[p]
  <2>1. word.custom /\ ~word.write /\ ref_num[src] >= 2
    BY <1>9 DEF Waits
  <2>2. PICK dst : dst = LowestIn(Machine)
    OBVIOUS
  <2>3. /\ m.memory = CopiedTo(l0, i, word, src, dst)
        /\ m.allocated = Taking(dst) /\ m.used_pages = used_pages + 1
        /\ m.ref_num = Recounted(src, dst)
        /\ dst \in Free /\ dst \in Page /\ dst # l0 /\ dst # src
    BY <1>4, <1>9, <2>2, Copied
  <2>4. m.memory[l0][i] = Moved(word, dst)
    BY <1>4, <1>9, <2>2, CopiedEntry
  <2>5. PICK r : /\ r = Moved(word, dst) /\ r.valid = word.valid /\ r.ppn = dst
                 /\ r.read = word.read /\ r.value = word.value /\ r.write /\ ~r.custom
    BY <1>4, <2>1, <2>3, MovedWord
  <2>6. /\ page = dst /\ allocated' = Taking(dst) /\ used_pages' = used_pages + 1
        /\ ref_num' = Recounted(src, dst)
    BY <1>1, <1>2, <2>3, <2>4, <2>5 DEF BecomesMachine
  <2>7. PICK mem \in Memories :
            /\ mem = CopiedTo(l0, i, word, src, dst)
            /\ \A p \in Page : \A j \in Index :
                   mem[p][j] = IF p = dst THEN memory[src][j]
                               ELSE IF p = l0 /\ j = i THEN Moved(word, dst) ELSE memory[p][j]
    BY <1>4, <2>3, CopiedEntries
  <2>8. memory' = StoreAt(mem, dst, value)
    BY <1>2, <2>3, <2>6, <2>7
  <2>9. /\ memory' \in Memories
        /\ \A p \in Page : \A j \in Index :
               /\ SameFlags(memory'[p][j], mem[p][j])
               /\ memory'[p][j].value = IF p = dst /\ j = 0 THEN value ELSE mem[p][j].value
    BY <2>3, <2>8, StoreInto
  <2>10. ASSUME NEW p \in Page, NEW j \in Index, p # dst
        PROVE  /\ memory'[p][j].valid = memory[p][j].valid
               /\ memory'[p][j].read = memory[p][j].read
               /\ memory'[p][j].value = memory[p][j].value
               /\ p = l0 /\ j = i => /\ memory'[p][j].ppn = dst
                                     /\ memory'[p][j].write /\ ~memory'[p][j].custom
               /\ ~(p = l0 /\ j = i) => /\ memory'[p][j].ppn = memory[p][j].ppn
                                        /\ memory'[p][j].write = memory[p][j].write
                                        /\ memory'[p][j].custom = memory[p][j].custom
    <3>1. CASE p = l0 /\ j = i
      <4>1. mem[p][j] = r /\ memory[p][j] = word
        BY <2>7, <2>5, <2>10, <3>1
      <4> QED BY <2>9, <2>5, <2>10, <3>1, <4>1 DEF SameFlags
    <3>2. CASE ~(p = l0 /\ j = i)
      <4>1. mem[p][j] = memory[p][j]
        BY <2>7, <2>10, <3>2
      <4> QED BY <2>9, <2>10, <3>2, <4>1 DEF SameFlags
    <3> QED BY <3>1, <3>2
  <2>11. ASSUME NEW j \in Index
        PROVE  /\ SameFlags(memory'[dst][j], memory[src][j])
               /\ memory'[dst][j].value = IF j = 0 THEN value ELSE memory[src][j].value
    <3>1. mem[dst][j] = memory[src][j]
      BY <2>3, <2>7
    <3> QED BY <2>3, <2>9, <3>1
  <2>12. ToCopy(l0, i, word, src, dst, value)
    BY <2>1, <2>3, <2>6, <2>10, <2>11 DEF ToCopy
  <2> QED BY <1>2, <1>3, <1>6, <2>3, <2>9, <2>12
<1> QED BY <1>3, <1>7, <1>8, <1>9 DEF Through

--------------------------------------------------------------------------------
(* What a read does, and the trees after a write.                          *)

\* A read fails or changes nothing: it never takes a mark off.
LEMMA ReadDoes ==
    ASSUME SpaceInv, NEW path \in VirtualAddresses, vms_read(path)
    PROVE  \/ Fails(path, "read")
           \/ UNCHANGED <<allocated, used_pages, memory, process, ref_num,
                          root_page_table, roots>>
<1> SUFFICES ASSUME ~Fails(path, "read")
    PROVE  UNCHANGED <<allocated, used_pages, memory, process, ref_num, root_page_table, roots>>
  OBVIOUS
<1>1. PICK m, l0, i, word : /\ m = AfterAccess(path, "read") /\ l0 = L0Of(path)
                            /\ i = path[3] /\ word = memory[l0][i]
  OBVIOUS
<1>2. /\ Completes(path, "read") /\ BecomesMachine(m) /\ memory' = m.memory
      /\ UNCHANGED <<process, root_page_table, roots>>
  BY <1>1 DEF vms_read
<1>3. Through(m, word, "read", l0, i)
  BY <1>1, <1>2, CompletedAccess
<1>4. m = Machine
  BY <1>3 DEF Through, Waits
<1> QED BY <1>2, <1>4, MachineFields DEF BecomesMachine

\* The places of a tree are allocated pages.
LEMMA HeldPlaces ==
    ASSUME SpaceInv
    PROVE  \A r \in roots : \A p \in Tree(r) :
               /\ PageAt(r, p) \in Page /\ allocated[PageAt(r, p)] /\ PageAt(r, p) \notin Free
               /\ p \in Positions
<1>1. \A r \in roots : \A p \in Tree(r) : PageAt(r, p) \in Page /\ p \in Positions
  BY PlacesArePages, TreeIsPositions DEF SpaceInv, Types
<1> QED BY <1>1 DEF SpaceInv, Held, Free

\* A write in place leaves every tree.
LEMMA InPlaceTrees ==
    ASSUME SpaceInv, NEW l0, NEW i, NEW word, NEW page, NEW value,
           InPlace(l0, i, word, page, value), NEW r \in roots
    PROVE  Tree(r)' = Tree(r) /\ \A p \in Tree(r) : PageAt(r, p)' = PageAt(r, p)
<1>1. ASSUME NEW p \in Tree(r), NEW j \in Index
      PROVE  LET q == PageAt(r, p)
             IN  /\ memory'[q][j].valid <=> memory[q][j].valid
                 /\ memory[q][j].valid => memory'[q][j].ppn = memory[q][j].ppn
  <2>1. PICK q \in Page : q = PageAt(r, p)
    BY HeldPlaces
  <2>2. memory'[q][j].valid = memory[q][j].valid /\ memory'[q][j].ppn = memory[q][j].ppn
    BY DEF InPlace
  <2> QED BY <2>1, <2>2
<1> QED BY <1>1, SameTree

\* The entry of an address in its L0 table.
Slot(path) == path[3]

CopyPlace(cur, path, dst, r, p) == IF r = cur /\ p = path THEN dst ELSE PageAt(r, p)

\* A write to a copy moves one path of one space.
LEMMA ToCopyTrees ==
    ASSUME SpaceInv, NEW path \in VirtualAddresses, ValidAt(root_page_table, path),
           NEW cur, cur = root_page_table,
           NEW l0, l0 = L0Of(path), NEW i, i = Slot(path), NEW word, NEW src, NEW dst, NEW value,
           ToCopy(l0, i, word, src, dst, value), NEW r \in roots
    PROVE  /\ Tree(r)' = Tree(r)
           /\ \A p \in Tree(r) : PageAt(r, p)' = CopyPlace(cur, path, dst, r, p)
<1>1. /\ cur \in roots /\ path \in Tree(cur) /\ Parent(path) \in Tree(cur)
      /\ l0 = PageAt(cur, Parent(path)) /\ l0 \in Page
  BY MappedEntry
<1>2. /\ path \in Positions /\ Len(path) = 3 /\ Parent(path) \in Positions
      /\ Len(Parent(path)) = 2 /\ i \in Index /\ path = Extend(Parent(path), i)
  BY PathSplits DEF Slot
<1>3. Len(path) = 3
  BY PathSplits
<1>4. PICK f : f = [p \in Tree(r) |-> IF r = cur /\ p = path THEN dst ELSE PageAt(r, p)]
  OBVIOUS
<1>5. \A p \in Tree(r) : f[p] = IF r = cur /\ p = path THEN dst ELSE PageAt(r, p)
  BY <1>4
<1>6. ASSUME NEW p \in Positions, NEW j \in Index, Len(p) < 3
      PROVE  /\ Extend(p, j) \in Tree(r) <=> p \in Tree(r) /\ memory'[f[p]][j].valid
             /\ Extend(p, j) \in Tree(r) => f[Extend(p, j)] = memory'[f[p]][j].ppn
  <2>1. /\ PageAt(r, Extend(p, j)) = memory[PageAt(r, p)][j].ppn
        /\ Extend(p, j) \in Tree(r) <=> p \in Tree(r) /\ memory[PageAt(r, p)][j].valid
    BY <1>6, TreeLaws DEF TreeFacts
  <2>2. CASE p \notin Tree(r)
    BY <2>1, <2>2
  <2>3. CASE p \in Tree(r)
    <3>1. PICK q \in Page : q = PageAt(r, p) /\ q \notin Free
      BY <2>3, HeldPlaces
    <3>2. f[p] = q /\ q # dst
      <4>1. p # path
        BY <1>3, <1>6, PositionLength
      <4>2. dst \in Free
        BY DEF ToCopy
      <4> QED BY <1>5, <2>3, <3>1, <4>1, <4>2
    <3>3. /\ memory'[q][j].valid = memory[q][j].valid
          /\ q = l0 /\ j = i => memory'[q][j].ppn = dst
          /\ ~(q = l0 /\ j = i) => memory'[q][j].ppn = memory[q][j].ppn
      BY <3>2 DEF ToCopy
    <3>4. CASE q = l0 /\ j = i
      <4>1. p = Parent(path) /\ r = cur
        <5>1. PageAt(r, p) = PageAt(cur, Parent(path))
          BY <1>1, <3>1, <3>4
        <5>2. p = Parent(path) /\ (r = cur \/ Len(p) = 3)
          BY <1>1, <2>3, <5>1 DEF SpaceInv, Apart
        <5> QED BY <1>2, <5>2
      <4>2. PICK e : e = Extend(p, j)
        OBVIOUS
      <4>3. e = path
        BY <1>2, <3>4, <4>1, <4>2, Zenon
      <4>4. e \in Tree(r) => f[e] = dst
        BY <1>5, <4>1, <4>3
      <4> QED BY <2>1, <2>3, <3>1, <3>2, <3>3, <3>4, <4>2, <4>4
    <3>5. CASE ~(q = l0 /\ j = i)
      <4>1. PICK e : e = Extend(p, j)
        OBVIOUS
      <4>2. ~(r = cur /\ e = path)
        <5>1. SUFFICES ASSUME r = cur, e = path PROVE FALSE
          OBVIOUS
        <5>2. Extend(p, j) = Extend(Parent(path), i)
          BY <1>2, <4>1, <5>1, Zenon
        <5>3. p = Parent(path) /\ j = i
          BY <1>2, <1>6, <5>2, ExtendIsInjective
        <5> QED BY <1>1, <3>1, <3>5, <5>1, <5>3
      <4>3. e \in Tree(r) => f[e] = PageAt(r, e)
        BY <1>5, <4>2
      <4> QED BY <2>1, <2>3, <3>1, <3>2, <3>3, <3>5, <4>1, <4>3
    <3> QED BY <3>4, <3>5
  <2> QED BY <2>2, <2>3
<1>7. /\ Tree(r) \subseteq Positions /\ <<>> \in Tree(r) /\ f[<<>>] = r
  <2>1. <<>> # path
    BY PathSplits
  <2> QED BY <1>5, <2>1, TreeIsPositions, TreeLaws DEF TreeFacts
<1>8. Leads(memory', r, Tree(r), f)
  BY <1>6, <1>7 DEF Leads
<1>9. Tree(r)' = Tree(r) /\ \A p \in Tree(r) : PageAt(r, p)' = f[p]
  BY <1>8, TreesAreAsLed DEF TreeIs
<1> QED BY <1>5, <1>9 DEF CopyPlace

--------------------------------------------------------------------------------
(* Every step keeps the invariant.                                         *)

\* A word is its fields.
LEMMA SameWord ==
    ASSUME NEW v \in Words, NEW w \in Words, SameFlags(v, w), v.value = w.value
    PROVE  v = w
BY DEF Words, SameFlags

\* A page whose words keep their fields keeps its contents.
\* A page is its words.
LEMMA SamePage ==
    ASSUME SpaceInv, memory' \in Memories, NEW p \in Page,
           \A j \in Index : /\ SameFlags(memory'[p][j], memory[p][j])
                            /\ memory'[p][j].value = memory[p][j].value
    PROVE  memory'[p] = memory[p]
<1>1. memory[p] \in [Index -> Words] /\ memory'[p] \in [Index -> Words]
  BY DEF SpaceInv, Types, Memories
<1>2. \A j \in Index : memory'[p][j] = memory[p][j]
  <2>1. ASSUME NEW j \in Index PROVE memory'[p][j] = memory[p][j]
    <3>1. memory[p][j] \in Words /\ memory'[p][j] \in Words
      BY <1>1
    <3> QED BY <3>1, SameWord
  <2> QED BY <2>1
<1> QED BY <1>1, <1>2

\* A write in place keeps the invariant.
LEMMA InPlaceKeeps ==
    ASSUME SpaceInv, NEW l0 \in Page, allocated[l0], NEW i, NEW word,
           NEW page \in Page, allocated[page], NEW value,
           InPlace(l0, i, word, page, value), memory' \in Memories,
           UNCHANGED <<process, root_page_table, roots, client>>
    PROVE  SpaceInv'
<1>1. \A r \in roots : Tree(r)' = Tree(r) /\ \A p \in Tree(r) : PageAt(r, p)' = PageAt(r, p)
  BY InPlaceTrees
<1>2. UNCHANGED <<allocated, used_pages, ref_num>>
  BY DEF InPlace
<1>3. Held'
  <2>1. \A r \in roots' : \A p \in Tree(r)' : allocated'[PageAt(r, p)']
    BY <1>1, <1>2 DEF SpaceInv, Held
  <2> QED BY <2>1 DEF Held
<1>4. Apart'
  <2>1. ASSUME NEW r \in roots, NEW s \in roots, NEW p \in Tree(r)', NEW q \in Tree(s)',
               PageAt(r, p)' = PageAt(s, q)'
        PROVE  p = q /\ (r = s \/ Len(p) = 3)
    <3>1. p \in Tree(r) /\ q \in Tree(s) /\ PageAt(r, p) = PageAt(s, q)
      BY <2>1, <1>1
    <3> QED BY <3>1 DEF SpaceInv, Apart
  <2>2. \A r \in roots' : \A s \in roots' : \A p \in Tree(r)' : \A q \in Tree(s)' :
            PageAt(r, p)' = PageAt(s, q)' => p = q /\ (r = s \/ Len(p) = 3)
    BY <2>1
  <2> QED BY <2>2 DEF Apart
<1>5. FreePagesAreZero'
  <2>1. ASSUME NEW p \in Free PROVE memory'[p] = memory[p]
    <3>1. p \in Page /\ p # page /\ p # l0
      BY DEF Free
    <3>2. \A j \in Index : /\ SameFlags(memory'[p][j], memory[p][j])
                           /\ memory'[p][j].value = memory[p][j].value
      BY <3>1 DEF InPlace, SameFlags
    <3> QED BY <3>1, <3>2, SamePage
  <2>2. Free' = Free
    BY <1>2 DEF Free
  <2>3. \A p \in Free : memory[p] = [j \in Index |-> ZeroWord]
    BY DEF SpaceInv, FreePagesAreZero
  <2>4. \A p \in Free' : memory'[p] = [j \in Index |-> ZeroWord]
    BY <2>1, <2>2, <2>3
  <2> QED BY <2>4 DEF FreePagesAreZero
<1>6. UsedPagesIsExact'
  BY <1>2 DEF SpaceInv, UsedPagesIsExact
<1>7. Types'
  BY <1>2 DEF SpaceInv, Types, Memories
<1> QED BY <1>3, <1>4, <1>5, <1>6, <1>7 DEF SpaceInv

\* The counts stay natural numbers: the handler copies from two sharers up.
LEMMA RecountedType ==
    ASSUME SpaceInv, NEW src \in Page, NEW dst \in Page, ref_num[src] >= 2, src # dst
    PROVE  /\ Recounted(src, dst) \in [Page -> Nat]
           /\ \A p \in Page : Recounted(src, dst)[p]
                  = IF p = src THEN ref_num[p] - 1
                    ELSE IF p = dst THEN ref_num[p] + 1 ELSE ref_num[p]
<1>1. ref_num \in [Page -> Nat]
  BY DEF SpaceInv, Types
<1>2. PICK a \in Nat, b \in Nat : a = ref_num[src] - 1 /\ b = ref_num[dst] + 1
  BY <1>1
<1>3. Recounted(src, dst) = [ref_num EXCEPT ![src] = a, ![dst] = b]
  BY <1>2 DEF Recounted
<1>4. /\ Recounted(src, dst) \in [Page -> Nat]
      /\ \A p \in Page : Recounted(src, dst)[p]
             = IF p = src THEN a ELSE IF p = dst THEN b ELSE ref_num[p]
  BY <1>1, <1>3
<1> QED BY <1>2, <1>4

\* A write to a copy keeps the invariant.
LEMMA ToCopyKeeps ==
    ASSUME SpaceInv, NEW path \in VirtualAddresses, ValidAt(root_page_table, path),
           NEW l0, l0 = L0Of(path), NEW i, i = Slot(path),
           NEW word, word = memory[l0][i], NEW src, src = word.ppn, NEW dst \in Page, NEW value,
           ToCopy(l0, i, word, src, dst, value), memory' \in Memories,
           UNCHANGED <<process, root_page_table, roots, client>>
    PROVE  SpaceInv'
<1>1. PICK cur \in roots : cur = root_page_table
  BY DEF SpaceInv, Types
<1>2. /\ path \in Tree(cur) /\ l0 \in Page /\ allocated[l0] /\ src \in Page /\ allocated[src]
  BY <1>1, MappedEntry DEF Slot
<1>3. Len(path) = 3
  BY PathSplits
<1>4. /\ allocated' = Taking(dst) /\ used_pages' = used_pages + 1 /\ ref_num' = Recounted(src, dst)
      /\ dst \in Free /\ ref_num[src] >= 2
  BY DEF ToCopy
<1>5. \A r \in roots : /\ Tree(r)' = Tree(r)
                       /\ \A p \in Tree(r) : PageAt(r, p)' = CopyPlace(cur, path, dst, r, p)
  <2>1. ASSUME NEW r \in roots
        PROVE  /\ Tree(r)' = Tree(r)
               /\ \A p \in Tree(r) : PageAt(r, p)' = CopyPlace(cur, path, dst, r, p)
    BY <1>1, ToCopyTrees
  <2> QED BY <2>1
<1>6. Allocate({dst})
  <2>1. Cardinality({dst}) = 1
    BY FS_Singleton
  <2>2. allocated' = [q \in Page |-> allocated[q] \/ q \in {dst}]
    <3>1. Taking(dst) = [q \in Page |-> allocated[q] \/ q \in {dst}]
      BY DEF Taking, SpaceInv, Types
    <3> QED BY <1>4, <3>1
  <2> QED BY <1>4, <2>1, <2>2 DEF Allocate
<1>7. /\ UsedPagesIsExact' /\ allocated' \in [Page -> BOOLEAN] /\ Free' = Free \ {dst}
      /\ \A q \in Page : allocated'[q] <=> allocated[q] \/ q = dst
  BY <1>4, <1>6, AllocateCounts DEF SpaceInv
<1>8. \A r \in roots : \A p \in Tree(r) :
          PageAt(r, p) \in Page /\ allocated[PageAt(r, p)] /\ PageAt(r, p) # dst
  BY <1>4, HeldPlaces
<1>9. Held'
  <2>1. ASSUME NEW r \in roots, NEW p \in Tree(r)' PROVE allocated'[PageAt(r, p)']
    BY <2>1, <1>5, <1>7, <1>8 DEF CopyPlace
  <2>2. \A r \in roots' : \A p \in Tree(r)' : allocated'[PageAt(r, p)']
    BY <2>1
  <2> QED BY <2>2 DEF Held
<1>10. Apart'
  <2>1. ASSUME NEW r \in roots, NEW s \in roots, NEW p \in Tree(r)', NEW q \in Tree(s)',
               PageAt(r, p)' = PageAt(s, q)'
        PROVE  p = q /\ (r = s \/ Len(p) = 3)
    <3>1. p \in Tree(r) /\ q \in Tree(s)
      BY <2>1, <1>5
    <3>2. /\ PageAt(r, p)' = (IF r = cur /\ p = path THEN dst ELSE PageAt(r, p))
          /\ PageAt(s, q)' = (IF s = cur /\ q = path THEN dst ELSE PageAt(s, q))
          /\ PageAt(r, p) # dst /\ PageAt(s, q) # dst
      BY <1>5, <1>8, <3>1 DEF CopyPlace
    <3>3. CASE r = cur /\ p = path
      BY <2>1, <3>2, <3>3
    <3>4. CASE ~(r = cur /\ p = path)
      <4>1. PageAt(r, p) = PageAt(s, q)
        BY <2>1, <3>2, <3>4
      <4> QED BY <3>1, <4>1 DEF SpaceInv, Apart
    <3> QED BY <3>3, <3>4
  <2>2. \A r \in roots' : \A s \in roots' : \A p \in Tree(r)' : \A q \in Tree(s)' :
            PageAt(r, p)' = PageAt(s, q)' => p = q /\ (r = s \/ Len(p) = 3)
    BY <2>1
  <2> QED BY <2>2 DEF Apart
<1>11. FreePagesAreZero'
  <2>1. ASSUME NEW p \in Free, p # dst PROVE memory'[p] = memory[p]
    <3>1. p \in Page /\ p # l0
      BY <1>2 DEF Free
    <3>2. \A j \in Index : /\ SameFlags(memory'[p][j], memory[p][j])
                           /\ memory'[p][j].value = memory[p][j].value
      BY <2>1, <3>1 DEF ToCopy, SameFlags
    <3> QED BY <3>1, <3>2, SamePage
  <2>2. \A p \in Free : memory[p] = [j \in Index |-> ZeroWord]
    BY DEF SpaceInv, FreePagesAreZero
  <2>3. \A p \in Free' : memory'[p] = [j \in Index |-> ZeroWord]
    BY <1>7, <2>1, <2>2
  <2> QED BY <2>3 DEF FreePagesAreZero
<1>12. ref_num' \in [Page -> Nat]
  <2>1. src # dst
    BY <1>2, <1>4 DEF Free
  <2> QED BY <1>2, <1>4, <2>1, RecountedType
<1>13. Types'
  BY <1>7, <1>12 DEF SpaceInv, Types, Memories
<1> QED BY <1>7, <1>9, <1>10, <1>11, <1>13 DEF SpaceInv

\* A failed access is an exit.
LEMMA FailsExits ==
    ASSUME NEW path, NEW kind, Fails(path, kind)
    PROVE  Exits("ENOMEM") \/ Exits("EFAULT")
BY DEF Fails

\* vms_write keeps the invariant.
LEMMA WriteKeeps ==
    ASSUME SpaceInv, NEW path \in VirtualAddresses, NEW value \in Values,
           vms_write(path, value), UNCHANGED client
    PROVE  SpaceInv'
<1>1. PICK l0, i, word, src : /\ l0 = L0Of(path) /\ i = path[3]
                              /\ word = memory[l0][i] /\ src = word.ppn
  OBVIOUS
<1>2. i = Slot(path)
  BY <1>1 DEF Slot
<1>3. CASE Fails(path, "write")
  BY <1>3, FailsExits, ExitsKeeps
<1>4. CASE ~Fails(path, "write")
  <2>1. /\ ValidAt(root_page_table, path)
        /\ UNCHANGED <<process, root_page_table, roots>>
        /\ memory' \in Memories
        /\ \/ InPlace(l0, i, word, src, value)
           \/ \E dst \in Page : ToCopy(l0, i, word, src, dst, value)
    BY <1>1, <1>4, WriteDoes
  <2>2. l0 \in Page /\ allocated[l0] /\ src \in Page /\ allocated[src]
    BY <1>1, <2>1, MappedEntry
  <2>3. CASE InPlace(l0, i, word, src, value)
    BY <2>1, <2>2, <2>3, InPlaceKeeps
  <2>4. CASE \E dst \in Page : ToCopy(l0, i, word, src, dst, value)
    <3>1. PICK dst \in Page : ToCopy(l0, i, word, src, dst, value)
      BY <2>4
    <3> QED BY <1>1, <1>2, <2>1, <3>1, ToCopyKeeps
  <2> QED BY <2>1, <2>3, <2>4
<1> QED BY <1>3, <1>4

\* vms_read keeps the invariant.
LEMMA ReadKeeps ==
    ASSUME SpaceInv, NEW path \in VirtualAddresses, vms_read(path), UNCHANGED client
    PROVE  SpaceInv'
<1>1. CASE Fails(path, "read")
  BY <1>1, FailsExits, ExitsKeeps
<1>2. CASE UNCHANGED <<allocated, used_pages, memory, process, ref_num, root_page_table, roots>>
  <2>1. UsedPagesIsExact' /\ FreePagesAreZero' /\ Held' /\ Apart'
    BY <1>2, StandingSpaces
  <2>2. Types'
    BY <1>2 DEF SpaceInv, Types
  <2> QED BY <2>1, <2>2 DEF SpaceInv
<1> QED BY <1>1, <1>2, ReadDoes

\* Every step keeps the invariant.
LEMMA SpacesStep ==
    ASSUME SpaceInv, [Next]_vars
    PROVE  SpaceInv'
<1>1. ASSUME UNCHANGED vars PROVE SpaceInv'
  <2>1. UsedPagesIsExact' /\ FreePagesAreZero' /\ Held' /\ Apart'
    BY <1>1, StandingSpaces DEF vars
  <2>2. Types'
    BY <1>1 DEF SpaceInv, Types, vars
  <2> QED BY <2>1, <2>2 DEF SpaceInv
<1>2. CASE vms_fork_copy /\ UNCHANGED client
  BY <1>2, ForkCopyKeeps
<1>3. CASE vms_fork_copy_on_write /\ UNCHANGED client
  BY <1>3, ForkOnWriteKeeps
<1>4. ASSUME NEW path \in VirtualAddresses, vms_read(path), UNCHANGED client PROVE SpaceInv'
  BY <1>4, ReadKeeps
<1>5. ASSUME NEW path \in VirtualAddresses, NEW value \in Values,
             vms_write(path, value), UNCHANGED client
      PROVE  SpaceInv'
  BY <1>5, WriteKeeps
<1>6. ASSUME NEW root \in Page, vms_set_root_page_table(root), UNCHANGED client PROVE SpaceInv'
  BY <1>6, SwitchKeeps
<1>7. ASSUME NEW root \in Page, Discard(root), UNCHANGED client PROVE SpaceInv'
  BY <1>7, DiscardKeeps
<1>8. CASE VmsEnded
  BY <1>1, <1>8 DEF VmsEnded
<1> QED BY <1>1, <1>2, <1>3, <1>4, <1>5, <1>6, <1>7, <1>8 DEF Next

--------------------------------------------------------------------------------
(* The prefixes of the client's paths.                                     *)

\* A prefix is the root's or a path's.
LEMMA PrefixesAre ==
    ASSUME NEW S, NEW x
    PROVE  x \in Prefixes(S) <=> x = <<>> \/ \E p \in S : \E n \in 1 .. 3 : x = SubSeq(p, 1, n)
<1> DEFINE R == {SubSeq(p, 1, n) : p \in S, n \in 1 .. 3}
<1>1. ASSUME NEW p \in S, NEW n \in 1 .. 3, x = SubSeq(p, 1, n) PROVE x \in R
  BY <1>1
<1>2. ASSUME x \in R PROVE \E p \in S : \E n \in 1 .. 3 : x = SubSeq(p, 1, n)
  BY <1>2
<1>3. Prefixes(S) = {<<>>} \cup R
  BY DEF Prefixes
<1> HIDE DEF R
<1>4. x \in Prefixes(S) <=> x = <<>> \/ x \in R
  BY <1>3
<1>5. x \in R <=> \E p \in S : \E n \in 1 .. 3 : x = SubSeq(p, 1, n)
  BY <1>1, <1>2
<1> QED BY <1>4, <1>5

\* The prefixes of a set of virtual addresses: positions, with their parents.
LEMMA PrefixesOfPaths ==
    ASSUME NEW paths, paths \subseteq VirtualAddresses
    PROVE  /\ Prefixes(paths) \subseteq Positions /\ <<>> \in Prefixes(paths)
           /\ \A p \in Positions : \A i \in Index :
                  Len(p) < 3 /\ Extend(p, i) \in Prefixes(paths) => p \in Prefixes(paths)
<1>1. \A p \in paths : p \in Seq(Index) /\ Len(p) = 3
  <2>1. ASSUME NEW p \in paths PROVE p \in Seq(Index) /\ Len(p) = 3
    <3>1. p \in VirtualAddresses
      OBVIOUS
    <3>2. p \in Positions /\ Len(p) = 3
      BY <3>1, PathSplits
    <3> QED BY <3>2, PositionIsSequence
  <2> QED BY <2>1
<1>2. \A p \in paths : \A n \in 1 .. 3 :
          /\ SubSeq(p, 1, n) \in Positions /\ Len(SubSeq(p, 1, n)) = n
          /\ \A m \in 1 .. n : SubSeq(p, 1, n)[m] = p[m]
  <2>1. ASSUME NEW p \in paths, NEW n \in 1 .. 3
        PROVE  /\ SubSeq(p, 1, n) \in Positions /\ Len(SubSeq(p, 1, n)) = n
               /\ \A m \in 1 .. n : SubSeq(p, 1, n)[m] = p[m]
    <3>1. p \in Seq(Index) /\ Len(p) = 3
      BY <1>1
    <3>2. PICK s : s = SubSeq(p, 1, n)
      OBVIOUS
    <3>3. s \in Seq(Index) /\ Len(s) = n /\ \A m \in 1 .. n : s[m] = p[m]
      BY <3>1, <3>2, SubSeqProperties
    <3>4. n \in 0 .. 3
      OBVIOUS
    <3>5. s \in Positions
      BY <3>3, <3>4, PositionIsSequence
    <3> QED BY <3>2, <3>3, <3>5
  <2> QED BY <2>1
<1>3. Prefixes(paths) \subseteq Positions /\ <<>> \in Prefixes(paths)
  <2>1. ASSUME NEW x \in Prefixes(paths) PROVE x \in Positions
    <3>1. CASE x = <<>>
      BY <3>1, RootPosition
    <3>2. CASE \E p \in paths : \E n \in 1 .. 3 : x = SubSeq(p, 1, n)
      BY <1>2, <3>2
    <3> QED BY <3>1, <3>2, PrefixesAre
  <2> QED BY <2>1, PrefixesAre
<1>4. ASSUME NEW p \in Positions, NEW i \in Index, Len(p) < 3, Extend(p, i) \in Prefixes(paths)
      PROVE  p \in Prefixes(paths)
  <2>1. PICK e : e = Extend(p, i)
    OBVIOUS
  <2>2. PICK l \in 0 .. 3 : l = Len(p)
    BY PositionIsSequence
  <2>3. e # <<>> /\ Len(e) = l + 1 /\ l < 3 /\ \A m \in 1 .. l : e[m] = p[m]
    BY <1>4, <2>1, <2>2, PositionExtends
  <2>4. e \in Prefixes(paths)
    BY <1>4, <2>1
  <2>5. PICK q \in paths : \E n \in 1 .. 3 : e = SubSeq(q, 1, n)
    <3>1. e # <<>>
      BY <2>3
    <3>2. \A x \in Prefixes(paths) : x # <<>> =>
              \E q \in paths : \E n \in 1 .. 3 : x = SubSeq(q, 1, n)
      <4>1. ASSUME NEW x \in Prefixes(paths), x # <<>>
            PROVE  \E q \in paths : \E n \in 1 .. 3 : x = SubSeq(q, 1, n)
        BY <4>1, PrefixesAre
      <4> QED BY <4>1
    <3> QED BY <2>4, <3>1, <3>2
  <2>6. PICK n \in 1 .. 3 : e = SubSeq(q, 1, n)
    BY <2>5
  <2>7. n = l + 1 /\ \A m \in 1 .. n : e[m] = q[m]
    BY <1>2, <2>3, <2>6
  <2>8. CASE l = 0
    BY <2>2, <2>8, RootPosition, PrefixesAre
  <2>9. CASE l # 0
    <3>1. l \in 1 .. 3 /\ l <= n
      BY <2>7, <2>9
    <3>2. PICK s : s = SubSeq(q, 1, l)
      OBVIOUS
    <3>3. s \in Positions /\ Len(s) = l /\ \A m \in 1 .. l : s[m] = q[m]
      BY <1>2, <3>1, <3>2
    <3>4. \A m \in 1 .. l : p[m] = s[m]
      BY <2>3, <2>7, <3>3
    <3>5. p = s
      <4>1. p \in Seq(Index) /\ s \in Seq(Index) /\ Len(p) = Len(s)
        BY <2>2, <3>3, PositionIsSequence
      <4>2. \A m \in 1 .. Len(p) : p[m] = s[m]
        BY <2>2, <3>4
      <4> QED BY <4>1, <4>2, SeqEqual
    <3> QED BY <3>1, <3>2, <3>5, PrefixesAre
  <2> QED BY <2>8, <2>9
<1> QED BY <1>3, <1>4

\* A word of the set-up is a valid entry without a mark.
LEMMA TableWordIs ==
    ASSUME NEW page \in Page, NEW perms
    PROVE  TableWord(page, perms) \in Words /\ TableWord(page, perms).valid
           /\ TableWord(page, perms).ppn = page /\ ~TableWord(page, perms).custom
           /\ TableWord(page, perms).value = 0
<1>1. PICK r, w : r = ("read" \in perms) /\ w = ("write" \in perms)
  OBVIOUS
<1>2. r \in BOOLEAN /\ w \in BOOLEAN
  BY <1>1
<1>3. TableWord(page, perms)
          = [ZeroWord EXCEPT !.valid = TRUE, !.ppn = page, !.read = r, !.write = w]
  BY <1>1, Zenon DEF TableWord
<1>4. TableWord(page, perms)
          = [valid |-> TRUE, read |-> r, write |-> w, custom |-> FALSE, ppn |-> page,
             value |-> 0]
  BY <1>3 DEF ZeroWord
<1>5. [valid |-> TRUE, read |-> r, write |-> w, custom |-> FALSE, ppn |-> page, value |-> 0]
          \in Words
  BY <1>2, VmsAssumption DEF Words, Page
<1> QED BY <1>4, <1>5

--------------------------------------------------------------------------------
(* The set-up is a space.                                                  *)

\* The first n pages are n.
LEMMA FirstPages ==
    ASSUME NEW n \in Nat, n <= MaxPages
    PROVE  Cardinality({i \in Page : i < n}) = n
<1>1. PICK A : A = {i \in Page : i < n}
  OBVIOUS
<1>2. A = 0 .. n - 1
  BY <1>1, VmsAssumption DEF Page
<1>3. Cardinality(0 .. n - 1) = IF 0 > n - 1 THEN 0 ELSE n - 1 - 0 + 1
  BY FS_Interval
<1>4. (IF 0 > n - 1 THEN 0 ELSE n - 1 - 0 + 1) = n
  OBVIOUS
<1> QED BY <1>1, <1>2, <1>3, <1>4

Number(S, pos) == Cardinality({p \in S : Precedes(p, pos)})

\* The set-up numbers its positions from 0.
LEMMA NumbersAreApart ==
    ASSUME NEW S, S \subseteq Positions
    PROVE  /\ \A pos \in S : Number(S, pos) \in 0 .. Cardinality(S) - 1
           /\ \A pos \in S : \A other \in S : Number(S, pos) = Number(S, other) => pos = other
           /\ \A n \in 0 .. Cardinality(S) - 1 : \E pos \in S : Number(S, pos) = n
BY Numbering DEF Number

\* The set-up, with its set of positions S and their page numbers new.
SetUp(paths, perm, S, new) ==
    /\ S = Prefixes(paths)
    /\ new = [pos \in S |-> Cardinality({p \in S : Precedes(p, pos)})]
    /\ Cardinality(S) <= MaxPages
    /\ allocated = [i \in Page |-> i < Cardinality(S)]
    /\ used_pages = Cardinality(S)
    /\ memory = [page \in Page |-> [i \in Index |->
            IF \E pos \in S : Len(pos) < 3 /\ new[pos] = page /\ Extend(pos, i) \in S
            THEN LET sub == Extend(PositionOf(new, page), i)
                 IN  TableWord(new[sub], IF Len(sub) = 3 THEN perm[sub] ELSE {})
            ELSE ZeroWord]]
    /\ ref_num = [i \in Page |-> 0]
    /\ root_page_table = new[<<>>]
    /\ roots = {new[<<>>]}
    /\ client \in Clients
    /\ process = "running"

\* Init, with its parts named.
LEMMA InitSetsUp ==
    ASSUME Init
    PROVE  \E paths \in SUBSET VirtualAddresses : \E perm, S, new : SetUp(paths, perm, S, new)
<1>1. PICK paths \in InitialPaths : \E perm \in [paths -> InitialPerms] :
          LET S == Prefixes(paths)
              new == [pos \in S |-> Cardinality({p \in S : Precedes(p, pos)})]
          IN  SetUp(paths, perm, S, new)
  BY DEF Init, SetUp
<1>2. PICK perm \in [paths -> InitialPerms] :
          LET S == Prefixes(paths)
              new == [pos \in S |-> Cardinality({p \in S : Precedes(p, pos)})]
          IN  SetUp(paths, perm, S, new)
  BY <1>1
<1>3. paths \in SUBSET VirtualAddresses
  BY VmsAssumption DEF VirtualAddresses
<1> QED BY <1>2, <1>3

\* The set-up is one space of the first pages, without a mark or a count.
LEMMA SetUpSpaces ==
    ASSUME NEW paths \in SUBSET VirtualAddresses, NEW perm, NEW S, NEW new,
           SetUp(paths, perm, S, new)
    PROVE  /\ SpaceInv
           /\ Tree(root_page_table) = S /\ roots = {root_page_table}
           /\ \A p \in S : PageAt(root_page_table, p) = new[p]
           /\ \A page \in Page : allocated[page] => \E p \in S : page = new[p]
           /\ \A page \in Page : ref_num[page] = 0
           /\ \A page \in Page : \A i \in Index :
                  ~memory[page][i].custom /\ memory[page][i].value = 0
<1>1. /\ S \subseteq Positions /\ <<>> \in S
      /\ \A p \in Positions : \A i \in Index : Len(p) < 3 /\ Extend(p, i) \in S => p \in S
  BY PrefixesOfPaths DEF SetUp
<1>2. PICK n : n = Cardinality(S)
  OBVIOUS
<1>3. n \in Nat /\ n <= MaxPages
  BY <1>1, <1>2, SubsetsAreFinite DEF SetUp
<1>4. /\ DOMAIN new = S
      /\ \A pos \in S : new[pos] = Number(S, pos)
  BY DEF SetUp, Number
<1>5. /\ \A pos \in S : new[pos] \in 0 .. n - 1 /\ new[pos] \in Page
      /\ \A pos \in S : \A other \in S : new[pos] = new[other] => pos = other
      /\ \A page \in 0 .. n - 1 : \E pos \in S : page = new[pos]
  <2>1. /\ \A pos \in S : new[pos] \in 0 .. n - 1
        /\ \A pos \in S : \A other \in S : new[pos] = new[other] => pos = other
        /\ \A page \in 0 .. n - 1 : \E pos \in S : new[pos] = page
    BY <1>1, <1>2, <1>4, NumbersAreApart
  <2>2. 0 .. n - 1 \subseteq Page
    BY <1>3, VmsAssumption DEF Page
  <2> QED BY <2>1, <2>2
<1>6. \A pos \in S : PositionOf(new, new[pos]) = pos
  BY <1>4, <1>5, PageOfNew
<1>7. PICK w : w = [page \in Page |-> [i \in Index |-> memory[page][i]]]
  OBVIOUS
<1>8. ASSUME NEW pos \in S, Len(pos) < 3, NEW i \in Index
      PROVE  /\ Extend(pos, i) \in S => \E perms :
                    memory[new[pos]][i] = TableWord(new[Extend(pos, i)], perms)
             /\ Extend(pos, i) \notin S => memory[new[pos]][i] = ZeroWord
  <2>1. PICK page \in Page : page = new[pos] /\ PositionOf(new, page) = pos
    BY <1>5, <1>6
  <2>2. memory[page][i]
          = IF \E p \in S : Len(p) < 3 /\ new[p] = page /\ Extend(p, i) \in S
            THEN LET sub == Extend(PositionOf(new, page), i)
                 IN  TableWord(new[sub], IF Len(sub) = 3 THEN perm[sub] ELSE {})
            ELSE ZeroWord
    BY DEF SetUp
  <2>3. (\E p \in S : Len(p) < 3 /\ new[p] = page /\ Extend(p, i) \in S) <=> Extend(pos, i) \in S
    BY <1>5, <1>8, <2>1
  <2>4. PICK sub : sub = Extend(pos, i)
    OBVIOUS
  <2>5. memory[page][i]
          = IF sub \in S
            THEN TableWord(new[sub], IF Len(sub) = 3 THEN perm[sub] ELSE {}) ELSE ZeroWord
    BY <2>1, <2>2, <2>3, <2>4
  <2> QED BY <2>1, <2>4, <2>5
<1>9. ASSUME NEW page \in Page, NEW i \in Index,
             ~\E pos \in S : Len(pos) < 3 /\ new[pos] = page /\ Extend(pos, i) \in S
      PROVE  memory[page][i] = ZeroWord
  BY <1>9 DEF SetUp
<1>10. ASSUME NEW page \in Page, NEW i \in Index
       PROVE  /\ memory[page][i] \in Words
              /\ ~memory[page][i].custom /\ memory[page][i].value = 0
  <2>1. CASE \E pos \in S : Len(pos) < 3 /\ new[pos] = page /\ Extend(pos, i) \in S
    <3>1. PICK pos \in S : Len(pos) < 3 /\ new[pos] = page /\ Extend(pos, i) \in S
      BY <2>1
    <3>2. PICK perms : memory[page][i] = TableWord(new[Extend(pos, i)], perms)
      BY <1>8, <3>1
    <3>3. new[Extend(pos, i)] \in Page
      BY <1>5, <3>1
    <3> QED BY <3>2, <3>3, TableWordIs
  <2>2. CASE ~\E pos \in S : Len(pos) < 3 /\ new[pos] = page /\ Extend(pos, i) \in S
    <3>1. memory[page][i] = ZeroWord
      BY <1>9, <2>2
    <3>2. ZeroWord.value = 0
      BY DEF ZeroWord
    <3> QED BY <3>1, <3>2, ZeroWordIsWord
  <2> QED BY <2>1, <2>2
<1>11. memory \in [Page -> [Index -> Words]]
  <2>1. memory = [page \in Page |-> [i \in Index |-> memory[page][i]]]
    BY DEF SetUp
  <2> QED BY <1>10, <2>1
<1>12. PICK root : root = new[<<>>]
  OBVIOUS
<1>13. roots = {root} /\ root_page_table = root /\ root \in Page
  BY <1>1, <1>5, <1>12 DEF SetUp
<1>14. ASSUME NEW p \in Positions, NEW i \in Index, Len(p) < 3
       PROVE  /\ Extend(p, i) \in S <=> p \in S /\ memory[new[p]][i].valid
              /\ Extend(p, i) \in S => new[Extend(p, i)] = memory[new[p]][i].ppn
  <2>1. CASE p \notin S
    BY <1>1, <1>14, <2>1
  <2>2. CASE p \in S /\ Extend(p, i) \in S
    <3>1. PICK perms : memory[new[p]][i] = TableWord(new[Extend(p, i)], perms)
      BY <1>8, <1>14, <2>2
    <3>2. new[Extend(p, i)] \in Page
      BY <1>5, <2>2
    <3> QED BY <2>2, <3>1, <3>2, TableWordIs
  <2>3. CASE p \in S /\ Extend(p, i) \notin S
    BY <1>8, <1>14, <2>3, ZeroWordIsWord
  <2> QED BY <2>1, <2>2, <2>3
<1>15. Leads(memory, root, S, new)
  BY <1>1, <1>12, <1>14 DEF Leads
<1>16. Tree(root) = S /\ \A p \in S : PageAt(root, p) = new[p]
  BY <1>15, TreesAreAsLed DEF TreeIs
<1>17. \A page \in Page : allocated[page] <=> page < n
  BY <1>2 DEF SetUp
<1>18. Held
  <2>1. \A p \in S : allocated[new[p]]
    BY <1>3, <1>5, <1>17
  <2> QED BY <1>13, <1>16, <2>1 DEF Held
<1>19. Apart
  BY <1>5, <1>13, <1>16 DEF Apart
<1>20. UsedPagesIsExact
  <2>1. {i \in Page : allocated[i]} = {i \in Page : i < n}
    BY <1>17
  <2>2. used_pages = n
    BY <1>2 DEF SetUp
  <2> QED BY <1>3, <2>1, <2>2, FirstPages DEF UsedPagesIsExact
<1>21. FreePagesAreZero
  <2>1. ASSUME NEW page \in Free PROVE memory[page] = [i \in Index |-> ZeroWord]
    <3>1. page \in Page /\ ~(page < n)
      BY <1>17 DEF Free
    <3>2. \A pos \in S : new[pos] # page
      BY <1>3, <1>5, <3>1
    <3>3. \A i \in Index : memory[page][i] = ZeroWord
      BY <1>9, <3>1, <3>2
    <3> QED BY <1>11, <3>1, <3>3
  <2> QED BY <2>1 DEF FreePagesAreZero
<1>22. Types
  <2>1. allocated \in [Page -> BOOLEAN] /\ ref_num \in [Page -> Nat]
    BY DEF SetUp
  <2>2. client \in Clients /\ process = "running"
    BY DEF SetUp
  <2> QED BY <1>11, <1>13, <2>1, <2>2 DEF Types
<1>23. \A page \in Page : allocated[page] => \E p \in S : page = new[p]
  <2>1. \A page \in Page : page < n => page \in 0 .. n - 1
    BY <1>3 DEF Page
  <2> QED BY <1>5, <1>17, <2>1
<1>24. \A page \in Page : ref_num[page] = 0
  BY DEF SetUp
<1> QED BY <1>10, <1>13, <1>16, <1>18, <1>19, <1>20, <1>21, <1>22, <1>23, <1>24 DEF SpaceInv

--------------------------------------------------------------------------------
(* Theorems.                                                               *)

\* The initial states satisfy the invariant.
LEMMA InitSpaces == Init => SpaceInv
<1>1. ASSUME Init PROVE SpaceInv
  <2>1. PICK paths \in SUBSET VirtualAddresses : \E perm, S, new : SetUp(paths, perm, S, new)
    BY <1>1, InitSetsUp
  <2>2. PICK perm, S, new : SetUp(paths, perm, S, new)
    BY <2>1
  <2> QED BY <2>2, SetUpSpaces
<1> QED BY <1>1

\* After any calls of the client, used_pages counts the allocated pages, free
\* pages are zero, every page of a space is allocated, and no two positions share
\* a page except two spaces' data pages at one path: what the forks, the page fault
\* handler and vms_free_page keep together.
THEOREM SpacesInvariant == Spec => []SpaceInv
<1>1. SpaceInv /\ [Next]_vars => SpaceInv'
  BY SpacesStep
<1> QED BY InitSpaces, <1>1, PTL DEF Spec

\* Every variable of the simulator has its type: used_pages never leaves
\* 0 .. MAX_PAGES, though vms_new_page and vms_free_page do not look.
THEOREM TypesHold == Spec => []TypeOK
<1>1. ASSUME SpaceInv PROVE TypeOK
  <2>1. Types /\ used_pages = Cardinality({i \in Page : allocated[i]})
    BY <1>1 DEF SpaceInv, UsedPagesIsExact
  <2>2. {i \in Page : allocated[i]} \subseteq Page
    OBVIOUS
  <2>3. used_pages \in Nat /\ used_pages <= MaxPages
    BY <2>1, <2>2, SomePagesAreFinite
  <2>4. used_pages \in 0 .. MaxPages
    BY <2>3, VmsAssumption
  <2> QED BY <2>1, <2>4 DEF Types, TypeOK
<1>2. SpaceInv => TypeOK
  BY <1>1
<1> QED BY SpacesInvariant, <1>2, PTL

\* vms_get_used_pages returns the number of allocated pages, after any forks,
\* faults and frees.
THEOREM UsedPagesAreCounted == Spec => []UsedPagesIsExact
<1>1. SpaceInv => UsedPagesIsExact
  BY DEF SpaceInv
<1> QED BY SpacesInvariant, <1>1, PTL

\* vms_new_page returns a page of zeroes, after any forks, faults and frees.
THEOREM NewPagesAreZero == Spec => []FreePagesAreZero
<1>1. SpaceInv => FreePagesAreZero
  BY DEF SpaceInv
<1> QED BY SpacesInvariant, <1>1, PTL

\* The forks give each space tables of its own: no table is part of two spaces
\* or mapped as a data page, and each is allocated.
THEOREM TablesStayPrivate == Spec => []TablesArePrivate
<1>1. ASSUME SpaceInv PROVE TablesArePrivate
  <2>1. Held /\ Apart
    BY <1>1 DEF SpaceInv
  <2>2. ASSUME NEW root \in roots, NEW page \in PagesOf(root) PROVE allocated[page]
    BY <2>1, <2>2 DEF Held, PagesOf
  <2>3. ASSUME NEW root \in roots, NEW page \in TablePages(root)
        PROVE  /\ page \notin DataPages
               /\ \A other \in roots \ {root} : page \notin TablePages(other)
    <3>1. PICK pos \in Tree(root) : Len(pos) < 3 /\ page = PageAt(root, pos)
      BY <2>3 DEF TablePages, TablePositions
    <3>2. pos \in Positions
      BY TreeIsPositions
    <3>3. ASSUME page \in DataPages PROVE FALSE
      <4>1. PICK other \in roots : page \in {PageAt(other, path) : path \in Paths(other)}
        BY <3>3 DEF DataPages
      <4>2. PICK path \in Tree(other) : Len(path) = 3 /\ page = PageAt(other, path)
        BY <4>1 DEF Paths
      <4>3. PageAt(root, pos) = PageAt(other, path)
        BY <3>1, <4>2
      <4>4. pos = path
        BY <2>1, <2>3, <3>1, <4>1, <4>2, <4>3 DEF Apart
      <4> QED BY <3>1, <3>2, <4>2, <4>4, PositionLength
    <3>4. ASSUME NEW other \in roots \ {root}, page \in TablePages(other) PROVE FALSE
      <4>1. PICK q \in Tree(other) : Len(q) < 3 /\ page = PageAt(other, q)
        BY <3>4 DEF TablePages, TablePositions
      <4>2. root = other \/ Len(pos) = 3
        BY <2>1, <2>3, <3>1, <3>4, <4>1 DEF Apart
      <4> QED BY <3>1, <3>2, <3>4, <4>2, PositionLength
    <3> QED BY <3>3, <3>4
  <2> QED BY <2>2, <2>3 DEF TablesArePrivate
<1>2. SpaceInv => TablesArePrivate
  BY <1>1
<1> QED BY SpacesInvariant, <1>2, PTL

\* A space has as many positions as pages.
LEMMA SpacesFit ==
    ASSUME SpaceInv, NEW root \in roots
    PROVE  Cardinality(Tree(root)) <= used_pages
<1>1. IsFiniteSet(Tree(root))
  BY TreeIsPositions, SubsetsAreFinite
<1> DEFINE f == [p \in Tree(root) |-> PageAt(root, p)]
           Image == {f[p] : p \in Tree(root)}
           Used == {i \in Page : allocated[i]}
<1>2. /\ DOMAIN f = Tree(root)
      /\ \A p \in Tree(root) : f[p] = PageAt(root, p)
  OBVIOUS
<1>3. \A p, q \in Tree(root) : f[p] = f[q] => p = q
  BY <1>2 DEF SpaceInv, Apart
<1>4. Image \subseteq Used
  <2>1. ASSUME NEW p \in Tree(root) PROVE f[p] \in Used
    <3>1. PageAt(root, p) \in Page
      BY TreeIsPositions, PlacesArePages DEF SpaceInv, Types
    <3>2. allocated[PageAt(root, p)]
      BY DEF SpaceInv, Held
    <3> QED BY <1>2, <3>1, <3>2
  <2> QED BY <2>1
<1>5. Used \subseteq Page /\ used_pages = Cardinality(Used)
  BY DEF SpaceInv, UsedPagesIsExact
<1> HIDE DEF f
<1>6. Cardinality(Image) = Cardinality(Tree(root))
  BY <1>1, <1>2, <1>3, ImageSize
<1> HIDE DEF Image, Used
<1>7. Cardinality(Image) <= Cardinality(Used)
  BY <1>4, <1>5, SomePagesAreFinite, FS_Subset
<1> QED BY <1>5, <1>6, <1>7

\* The free pages are the rest of the pool.
LEMMA FreeRest ==
    ASSUME SpaceInv
    PROVE  used_pages \in Nat /\ Cardinality(Free) = MaxPages - used_pages
<1> DEFINE Used == {i \in Page : allocated[i]}
<1>1. Used \subseteq Page /\ used_pages = Cardinality(Used)
  BY DEF SpaceInv, UsedPagesIsExact
<1>2. Free = Page \ Used
  BY DEF Free
<1>3. IsFiniteSet(Page) /\ Cardinality(Page) = MaxPages
  BY FS_Interval, VmsAssumption DEF Page
<1>4. Page \cap Used = Used
  BY <1>1
<1> HIDE DEF Used
<1>5. IsFiniteSet(Used) /\ Cardinality(Used) \in Nat
  BY <1>1, SomePagesAreFinite
<1>6. Cardinality(Page \ Used) = Cardinality(Page) - Cardinality(Page \cap Used)
  BY <1>3, <1>5, FS_Difference
<1> QED BY <1>1, <1>2, <1>3, <1>4, <1>5, <1>6

\* A fork that the check of half the pool lets through finds a page each time it
\* calls vms_new_page.
THEOREM ForksNeverRunOut == Spec => []ForksHaveRoom
<1>1. ASSUME SpaceInv, ~ForkRefused, NEW root \in roots
      PROVE  Cardinality(Tree(root)) <= Cardinality(Free)
  <2>1. PICK n : n = Cardinality(Tree(root))
    OBVIOUS
  <2>2. n \in Nat
    BY <2>1, TreeIsPositions, SubsetsAreFinite
  <2>3. n <= used_pages
    BY <1>1, <2>1, SpacesFit
  <2>4. used_pages \in Nat /\ Cardinality(Free) = MaxPages - used_pages
    BY <1>1, FreeRest
  <2>5. ~(used_pages > MaxPages \div 2)
    BY <1>1 DEF ForkRefused
  <2>6. PICK half \in Nat : half = MaxPages \div 2 /\ 2 * half <= MaxPages
    BY VmsAssumption
  <2>7. n <= MaxPages - used_pages
    BY <2>2, <2>3, <2>4, <2>5, <2>6, VmsAssumption
  <2> QED BY <2>1, <2>4, <2>7
<1>2. SpaceInv => ForksHaveRoom
  BY <1>1 DEF ForksHaveRoom
<1> QED BY SpacesInvariant, <1>2, PTL
================================================================================
