------------------------- MODULE SramFfCntrlrProofs -------------------------
(***************************************************************************)
(* Proofs about module SramFfCntrlr, for every address width: the Gray-    *)
(* code comparisons decide exactly what their flags are named for, and the *)
(* write pointer never laps the read pointer.                              *)
(***************************************************************************)
EXTENDS SramFfCntrlr, TLAPS, WellFoundedInduction

W == P_SRAM_ADDR_W

-----------------------------------------------------------------------------
(* Arithmetic                                                               *)

\* A nonempty set of naturals has a least member.
LEMMA NatMin ==
    ASSUME NEW T \in SUBSET Nat, T # {}
    PROVE  \E x \in T : \A y \in T : x <= y
<1>1. IsWellFoundedOn(OpToRel(<, Nat), Nat)
  BY NatLessThanWellFounded
<1>2. \E x \in T : \A y \in T : ~(<<y, x>> \in OpToRel(<, Nat))
  BY <1>1, WFMin
<1>3. PICK x \in T : \A y \in T : ~(<<y, x>> \in OpToRel(<, Nat))
  BY <1>2
<1>4. \A y \in T : ~(y < x)
  BY <1>3 DEF OpToRel
<1> QED
  BY <1>4

\* Reduction modulo n of a number within one period of 0 .. n - 1.
LEMMA ModPeriod ==
    ASSUME NEW n \in Nat \ {0}
    PROVE  /\ \A a \in 0 .. (n - 1) : a % n = a
           /\ \A a \in n .. (2 * n - 1) : a % n = a - n
           /\ \A a \in (-n) .. (-1) : a % n = a + n
  OBVIOUS

\* Half of a quotient is the quotient by twice the divisor.
LEMMA HalfQuotient ==
    ASSUME NEW a \in Nat, NEW m \in Nat \ {0}
    PROVE  /\ a \div m \in Nat
           /\ a \div (2 * m) = (a \div m) \div 2
  OBVIOUS

\* Halving: quotient and last bit; an even summand comes out whole.
LEMMA Halves ==
    ASSUME NEW q \in Nat
    PROVE  /\ q \div 2 \in Nat
           /\ q % 2 \in {0, 1}
           /\ q = 2 * (q \div 2) + (q % 2)
           /\ \A y \in Nat : (q + 2 * y) \div 2 = q \div 2 + y
           /\ \A y \in Nat : (q + 2 * y) % 2 = q % 2
  OBVIOUS

\* Widths and moduli: a pointer has no bit above the wrap bit.
LEMMA Sizes ==
    /\ W \in Nat /\ W >= 2
    /\ Depth = 2 ^ W /\ Depth \in Nat \ {0}
    /\ PtrMod = 2 ^ (W + 1) /\ PtrMod = 2 * Depth
    /\ Ptr \subseteq Nat
    /\ \A p \in Ptr : p \div 2 ^ (W + 1) = 0
  BY AddrWidth, PowersOfTwo DEF W, Depth, PtrMod, Ptr

-----------------------------------------------------------------------------
(* Gray codes                                                               *)

\* The quotient by 2^i follows from the quotient by 2^(i+1) and bit i.
LEMMA QuotientStep ==
    ASSUME NEW p \in Ptr, NEW i \in 0 .. W
    PROVE  /\ p \div 2 ^ i \in Nat
           /\ p \div 2 ^ (i + 1) \in Nat
           /\ Bit(p, i) \in {0, 1}
           /\ Bit(p, i + 1) \in {0, 1}
           /\ p \div 2 ^ i = 2 * (p \div 2 ^ (i + 1)) + Bit(p, i)
<1>1. /\ p \in Nat
      /\ 2 ^ i \in Nat \ {0}
      /\ 2 ^ (i + 1) = 2 * 2 ^ i
  BY Sizes, PowersOfTwo DEF W
<1>2. /\ p \div 2 ^ i \in Nat
      /\ p \div 2 ^ (i + 1) = (p \div 2 ^ i) \div 2
  BY <1>1, HalfQuotient
<1>3. /\ (p \div 2 ^ i) % 2 \in {0, 1}
      /\ (p \div 2 ^ i) \div 2 \in Nat
      /\ p \div 2 ^ i = 2 * ((p \div 2 ^ i) \div 2) + ((p \div 2 ^ i) % 2)
  BY <1>2, Halves
<1>4. (p \div 2 ^ (i + 1)) % 2 \in {0, 1}
  BY <1>2, <1>3, Halves
<1> QED
  BY <1>2, <1>3, <1>4 DEF Bit

\* Two pointers with the same Gray code are equal: from the top bit down, the
\* first quotient in which they differ would differ in its last bit.
LEMMA GrayInjective ==
    ASSUME NEW a \in Ptr, NEW b \in Ptr, Gray(a) = Gray(b)
    PROVE  a = b
<1> DEFINE T == {j \in 0 .. (W + 1) : a \div 2 ^ (W + 1 - j) # b \div 2 ^ (W + 1 - j)}
<1>1. T = {}
  <2>1. SUFFICES ASSUME T # {} PROVE FALSE
    OBVIOUS
  <2>2. T \in SUBSET Nat
    BY Sizes
  <2>3. PICK j \in T : \A k \in T : j <= k
    BY <2>1, <2>2, NatMin
  <2>4. j # 0
    BY <2>3, Sizes
  <2>5. j - 1 \in 0 .. (W + 1) /\ j - 1 \notin T
    <3>1. j \in 1 .. (W + 1) /\ ~(j <= j - 1)
      BY <2>3, <2>4, Sizes
    <3>2. j - 1 \notin T
      BY <2>3, <3>1
    <3> QED
      BY <3>1, <3>2, Sizes
  <2> DEFINE i == W + 1 - j
  <2>6. i \in 0 .. W /\ W + 1 - (j - 1) = i + 1
    BY <2>3, <2>4, Sizes
  <2>7. a \div 2 ^ (i + 1) = b \div 2 ^ (i + 1)
    BY <2>5, <2>6
  <2>8. Bit(a, i + 1) = Bit(b, i + 1)
    BY <2>7 DEF Bit
  <2>9. (Bit(a, i) + Bit(a, i + 1)) % 2 = (Bit(b, i) + Bit(b, i + 1)) % 2
    <3>1. Gray(a)[i] = Gray(b)[i]
      OBVIOUS
    <3> QED
      BY <3>1, <2>6 DEF Gray, W
  <2>10. Bit(a, i) = Bit(b, i)
    BY <2>6, <2>8, <2>9, QuotientStep
  <2>11. a \div 2 ^ i = b \div 2 ^ i
    BY <2>6, <2>7, <2>10, QuotientStep
  <2> QED
    BY <2>3, <2>11
<1>2. a \div 2 ^ 0 = b \div 2 ^ 0
  <2>1. W + 1 \in 0 .. (W + 1) /\ W + 1 - (W + 1) = 0
    BY Sizes
  <2> QED
    BY <1>1, <2>1
<1>3. a \in Nat /\ b \in Nat
  BY Sizes
<1> QED
  BY <1>2, <1>3, PowersOfTwo

\* Adding Depth to a pointer below Depth adds 2^(W-i) to its quotient by 2^i.
LEMMA ShiftedQuotient ==
    ASSUME NEW p \in 0 .. (Depth - 1), NEW i \in 0 .. W
    PROVE  /\ p \div 2 ^ i \in Nat
           /\ (p + Depth) \div 2 ^ i = p \div 2 ^ i + 2 ^ (W - i)
<1> DEFINE Good(n) == (p + Depth) \div 2 ^ n = p \div 2 ^ n + 2 ^ (W - n)
           T == {n \in 0 .. W : ~Good(n)}
<1>1. p \in Nat /\ p + Depth \in Nat
  BY Sizes
<1>2. T = {}
  <2>1. SUFFICES ASSUME T # {} PROVE FALSE
    OBVIOUS
  <2>2. PICK n \in T : \A k \in T : n <= k
    <3>1. T \in SUBSET Nat
      BY Sizes
    <3> QED
      BY <2>1, <3>1, NatMin
  <2>3. n # 0
    <3>1. Good(0)
      BY <1>1, PowersOfTwo, Sizes
    <3> QED
      BY <2>2, <3>1
  <2> DEFINE m == n - 1
  <2>4. m \in 0 .. W /\ Good(m)
    BY <2>2, <2>3, Sizes
  <2>5. /\ 2 ^ m \in Nat \ {0}
        /\ 2 ^ n = 2 * 2 ^ m
    <3>1. n = m + 1
      BY <2>2
    <3> QED
      BY <2>4, <3>1, PowersOfTwo, Sizes DEF W
  <2>6. /\ 2 ^ (W - n) \in Nat
        /\ 2 ^ (W - m) = 2 * 2 ^ (W - n)
    <3>1. W - n \in 0 .. W /\ (W - n) + 1 = W - m
      BY <2>2, <2>3, Sizes
    <3> QED
      BY <3>1, PowersOfTwo, Sizes DEF W
  <2>7. /\ p \div 2 ^ m \in Nat
        /\ p \div 2 ^ n = (p \div 2 ^ m) \div 2
        /\ (p + Depth) \div 2 ^ n = ((p + Depth) \div 2 ^ m) \div 2
    BY <1>1, <2>5, HalfQuotient
  <2>8. Good(n)
    <3>1. ((p \div 2 ^ m) + 2 * 2 ^ (W - n)) \div 2
             = (p \div 2 ^ m) \div 2 + 2 ^ (W - n)
      BY <2>6, <2>7, Halves
    <3>2. (p + Depth) \div 2 ^ m = p \div 2 ^ m + 2 * 2 ^ (W - n)
      BY <2>4, <2>6
    <3> QED
      BY <2>7, <3>1, <3>2
  <2> QED
    BY <2>2, <2>8
<1>3. 2 ^ i \in Nat \ {0}
  BY PowersOfTwo, Sizes DEF W
<1>4. p \div 2 ^ i \in Nat
  BY <1>1, <1>3, HalfQuotient
<1> QED
  BY <1>2, <1>4

\* Adding Depth to a pointer below Depth changes its top bit alone.
LEMMA ShiftedBits ==
    ASSUME NEW p \in 0 .. (Depth - 1)
    PROVE  /\ \A i \in 0 .. (W - 1) : Bit(p + Depth, i) = Bit(p, i)
           /\ Bit(p, W) = 0 /\ Bit(p + Depth, W) = 1
           /\ Bit(p, W + 1) = 0 /\ Bit(p + Depth, W + 1) = 0
<1>1. ASSUME NEW i \in 0 .. (W - 1)
      PROVE  Bit(p + Depth, i) = Bit(p, i)
  <2>1. /\ i \in 0 .. W /\ W - i - 1 \in 0 .. W /\ (W - i - 1) + 1 = W - i
    BY Sizes
  <2>2. /\ 2 ^ (W - i - 1) \in Nat
        /\ 2 ^ (W - i) = 2 * 2 ^ (W - i - 1)
    BY <2>1, PowersOfTwo, Sizes DEF W
  <2>3. /\ p \div 2 ^ i \in Nat
        /\ (p + Depth) \div 2 ^ i = p \div 2 ^ i + 2 * 2 ^ (W - i - 1)
    BY <2>1, <2>2, ShiftedQuotient
  <2>4. ((p \div 2 ^ i) + 2 * 2 ^ (W - i - 1)) % 2 = (p \div 2 ^ i) % 2
    BY <2>2, <2>3, Halves
  <2> QED
    BY <2>3, <2>4 DEF Bit
<1>2. p \in Ptr /\ p + Depth \in Ptr
  BY Sizes DEF Ptr
<1>3. Bit(p, W + 1) = 0 /\ Bit(p + Depth, W + 1) = 0
  BY <1>2, Sizes DEF Bit
<1>4. p \div 2 ^ W = 0 /\ (p + Depth) \div 2 ^ W = 1
  <2>1. p \div 2 ^ W = 0
    BY Sizes
  <2>2. W \in 0 .. W /\ W - W = 0
    BY Sizes
  <2>3. (p + Depth) \div 2 ^ W = p \div 2 ^ W + 2 ^ (W - W)
    BY <2>2, ShiftedQuotient
  <2>4. 2 ^ (W - W) = 1
    BY <2>2, PowersOfTwo
  <2> QED
    BY <2>1, <2>3, <2>4
<1>5. Bit(p, W) = 0 /\ Bit(p + Depth, W) = 1
  BY <1>4 DEF Bit
<1> QED
  BY <1>1, <1>3, <1>5

\* The pointer Depth words away.
Opposite(p) == IF p < Depth THEN p + Depth ELSE p - Depth

\* The pointer half a ring away differs in the wrap bit alone.
LEMMA OppositeBits ==
    ASSUME NEW p \in Ptr
    PROVE  /\ Opposite(p) \in Ptr
           /\ \A i \in 0 .. (W - 1) : Bit(Opposite(p), i) = Bit(p, i)
           /\ Bit(Opposite(p), W) = 1 - Bit(p, W)
           /\ Bit(Opposite(p), W + 1) = 0
           /\ Bit(p, W + 1) = 0
<1>0. Depth \in Nat /\ p \in Nat /\ p < 2 * Depth
  BY Sizes DEF Ptr
<1>1. Opposite(p) \in Ptr
  BY <1>0, Sizes DEF Ptr, Opposite
<1>2. CASE p < Depth
  <2>1. p \in 0 .. (Depth - 1) /\ Opposite(p) = p + Depth
    BY <1>0, <1>2 DEF Opposite
  <2> QED
    BY <1>1, <2>1, ShiftedBits
<1>3. CASE ~(p < Depth)
  <2>1. p - Depth \in 0 .. (Depth - 1) /\ Opposite(p) = p - Depth
        /\ (p - Depth) + Depth = p
    BY <1>0, <1>3 DEF Opposite
  <2> DEFINE b == p - Depth
  <2>2. /\ \A i \in 0 .. (W - 1) : Bit(b + Depth, i) = Bit(b, i)
        /\ Bit(b, W) = 0 /\ Bit(b + Depth, W) = 1
        /\ Bit(b, W + 1) = 0 /\ Bit(b + Depth, W + 1) = 0
    BY <2>1, ShiftedBits
  <2>3. b + Depth = p /\ Opposite(p) = b
    BY <2>1
  <2> HIDE DEF b
  <2> QED
    BY <1>1, <2>2, <2>3
<1> QED
  BY <1>2, <1>3

\* Its Gray code has the two top bits inverted and the others equal.
LEMMA GrayOpposite ==
    ASSUME NEW p \in Ptr
    PROVE  Gray(Opposite(p)) =
             [i \in 0 .. P_SRAM_ADDR_W |->
                 IF i \in TopBits THEN 1 - Gray(p)[i] ELSE Gray(p)[i]]
<1> DEFINE c == Opposite(p)
<1>1. /\ \A i \in 0 .. (W - 1) : Bit(c, i) = Bit(p, i)
      /\ Bit(c, W) = 1 - Bit(p, W)
      /\ Bit(c, W + 1) = 0 /\ Bit(p, W + 1) = 0
  BY OppositeBits
<1>2. \A i \in 0 .. W : Bit(p, i) \in {0, 1} /\ Bit(p, i + 1) \in {0, 1}
  BY QuotientStep
<1> HIDE DEF c
<1>3. ASSUME NEW i \in 0 .. W
      PROVE  (Bit(c, i) + Bit(c, i + 1)) % 2 =
               IF i \in TopBits THEN 1 - ((Bit(p, i) + Bit(p, i + 1)) % 2)
                                ELSE (Bit(p, i) + Bit(p, i + 1)) % 2
  <2>1. CASE i = W
    <3>1. i \in TopBits
      BY <2>1 DEF TopBits, W
    <3>2. Bit(p, W) \in {0, 1}
      BY <1>2, Sizes
    <3> QED
      BY <1>1, <2>1, <3>1, <3>2
  <2>2. CASE i = W - 1
    <3>1. i \in TopBits /\ i + 1 = W /\ i \in 0 .. (W - 1)
      BY <2>2, Sizes DEF TopBits, W
    <3>2. Bit(p, i) \in {0, 1} /\ Bit(p, W) \in {0, 1}
      BY <1>2, <3>1
    <3>3. Bit(c, i) = Bit(p, i) /\ Bit(c, i + 1) = 1 - Bit(p, W)
          /\ Bit(p, i + 1) = Bit(p, W)
      BY <1>1, <3>1
    <3> QED
      BY <3>1, <3>2, <3>3
  <2>3. CASE i \notin {W - 1, W}
    <3>1. i \notin TopBits /\ i \in 0 .. (W - 1) /\ i + 1 \in 0 .. (W - 1)
      BY <2>3, Sizes DEF TopBits, W
    <3> QED
      BY <1>1, <3>1
  <2> QED
    BY <2>1, <2>2, <2>3
<1> QED
  BY <1>3 DEF Gray, W, c

-----------------------------------------------------------------------------
(* The three comparisons                                                    *)

\* The comparison for empty holds exactly for equal pointers.
LEMMA GrayEmptyExact ==
    ASSUME NEW rd \in Ptr, NEW wr \in Ptr
    PROVE  GrayEmpty(rd, wr) <=> wr = rd
  BY GrayInjective DEF GrayEmpty

\* The comparison for full holds exactly for pointers half a ring apart.
LEMMA GrayFullExact ==
    ASSUME NEW rd \in Ptr, NEW wr \in Ptr
    PROVE  GrayFull(rd, wr) <=> wr = Opposite(rd)
<1>1. GrayFull(rd, wr) <=> Gray(wr) = Gray(Opposite(rd))
  BY GrayOpposite DEF GrayFull
<1>2. Opposite(rd) \in Ptr
  BY OppositeBits
<1> QED
  BY <1>1, <1>2, GrayInjective

\* Equal top Gray bits: the pointers lie in the same quarter of the ring.
LEMMA GrayAemptyQuarter ==
    ASSUME NEW rd \in Ptr, NEW wr \in Ptr, GrayAempty(rd, wr)
    PROVE  2 * (wr - rd) < Depth /\ 2 * (rd - wr) < Depth
<1> DEFINE m == 2 ^ (W - 1)
<1>1. /\ W - 1 \in 0 .. W /\ W \in 0 .. W /\ (W - 1) + 1 = W
      /\ m \in Nat \ {0} /\ Depth = 2 * m
  BY Sizes, PowersOfTwo DEF W
<1>2. \A p \in Ptr : /\ Gray(p)[W] = (Bit(p, W) + Bit(p, W + 1)) % 2
                     /\ Gray(p)[W - 1] = (Bit(p, W - 1) + Bit(p, W)) % 2
                     /\ Bit(p, W + 1) = 0
                     /\ Bit(p, W) \in {0, 1}
                     /\ Bit(p, W - 1) \in {0, 1}
                     /\ p \div 2 ^ W = 2 * (p \div 2 ^ (W + 1)) + Bit(p, W)
                     /\ p \div m = 2 * (p \div 2 ^ W) + Bit(p, W - 1)
  <2> SUFFICES ASSUME NEW p \in Ptr
               PROVE  /\ Gray(p)[W] = (Bit(p, W) + Bit(p, W + 1)) % 2
                      /\ Gray(p)[W - 1] = (Bit(p, W - 1) + Bit(p, W)) % 2
                      /\ Bit(p, W + 1) = 0
                      /\ Bit(p, W) \in {0, 1}
                      /\ Bit(p, W - 1) \in {0, 1}
                      /\ p \div 2 ^ W = 2 * (p \div 2 ^ (W + 1)) + Bit(p, W)
                      /\ p \div m = 2 * (p \div 2 ^ W) + Bit(p, W - 1)
    OBVIOUS
  <2>1. /\ Gray(p)[W] = (Bit(p, W) + Bit(p, W + 1)) % 2
        /\ Gray(p)[W - 1] = (Bit(p, W - 1) + Bit(p, (W - 1) + 1)) % 2
    BY <1>1 DEF Gray, W
  <2>2. Bit(p, W + 1) = 0
    BY OppositeBits
  <2>3. /\ Bit(p, W) \in {0, 1}
        /\ p \div 2 ^ W = 2 * (p \div 2 ^ (W + 1)) + Bit(p, W)
    BY <1>1, QuotientStep
  <2>4. /\ Bit(p, W - 1) \in {0, 1}
        /\ p \div 2 ^ (W - 1) = 2 * (p \div 2 ^ ((W - 1) + 1)) + Bit(p, W - 1)
    BY <1>1, QuotientStep
  <2> QED
    BY <1>1, <2>1, <2>2, <2>3, <2>4
<1>3. Gray(wr)[W] = Gray(rd)[W] /\ Gray(wr)[W - 1] = Gray(rd)[W - 1]
  BY DEF GrayAempty, TopBits, W
<1>4. Bit(wr, W) = Bit(rd, W)
  BY <1>2, <1>3
<1>5. Bit(wr, W - 1) = Bit(rd, W - 1)
  BY <1>2, <1>3, <1>4
<1>6. wr \div 2 ^ (W + 1) = 0 /\ rd \div 2 ^ (W + 1) = 0
  BY Sizes
<1>7. wr \div m = rd \div m
  BY <1>2, <1>4, <1>5, <1>6
<1>8. wr \in Nat /\ rd \in Nat
  BY Sizes
<1> HIDE DEF m
<1>9. wr - rd < m /\ rd - wr < m
  <2>1. \A a \in Nat : /\ a = m * (a \div m) + (a % m)
                       /\ a % m \in 0 .. (m - 1)
                       /\ a \div m \in Nat
    BY <1>1
  <2>2. /\ wr = m * (rd \div m) + (wr % m)
        /\ rd = m * (rd \div m) + (rd % m)
    BY <1>7, <1>8, <2>1
  <2>3. wr - rd = (wr % m) - (rd % m)
    BY <1>1, <1>8, <2>1, <2>2
  <2> QED
    BY <1>1, <1>8, <2>1, <2>3
<1> QED
  BY <1>1, <1>8, <1>9

-----------------------------------------------------------------------------
(* The controller                                                           *)

\* Words between two pointers; Occupancy is this of the two registers.
Dist(rd, wr) == (wr - rd) % PtrMod

\* The distance between two pointers is found without a remainder.
LEMMA DistValue ==
    ASSUME NEW rd \in Ptr, NEW wr \in Ptr
    PROVE  /\ Dist(rd, wr) = IF wr >= rd THEN wr - rd ELSE wr - rd + PtrMod
           /\ Dist(rd, wr) \in Ptr
           /\ Dist(rd, wr) = 0 <=> wr = rd
           /\ Dist(rd, wr) = Depth <=> wr = Opposite(rd)
<1>1. /\ PtrMod \in Nat \ {0} /\ Depth \in Nat \ {0} /\ PtrMod = 2 * Depth
      /\ rd \in Nat /\ wr \in Nat /\ rd < PtrMod /\ wr < PtrMod
  BY Sizes DEF Ptr
<1>2. CASE wr >= rd
  <2>1. wr - rd \in 0 .. (PtrMod - 1)
    BY <1>1, <1>2
  <2>2. Dist(rd, wr) = wr - rd
    BY <1>1, <2>1, ModPeriod DEF Dist
  <2> QED
    BY <1>1, <1>2, <2>2 DEF Ptr, Opposite
<1>3. CASE ~(wr >= rd)
  <2>1. wr - rd \in (-PtrMod) .. (-1)
    BY <1>1, <1>3
  <2>2. Dist(rd, wr) = wr - rd + PtrMod
    BY <1>1, <2>1, ModPeriod DEF Dist
  <2> QED
    BY <1>1, <1>3, <2>2 DEF Ptr, Opposite
<1> QED
  BY <1>2, <1>3

\* Moving one pointer by one moves the distance by one.
LEMMA DistStep ==
    ASSUME NEW rd \in Ptr, NEW wr \in Ptr
    PROVE  /\ (rd + 1) % PtrMod \in Ptr
           /\ (wr + 1) % PtrMod \in Ptr
           /\ Dist(rd, wr) # 0 => Dist((rd + 1) % PtrMod, wr) = Dist(rd, wr) - 1
           /\ Dist(rd, wr) < Depth => Dist(rd, (wr + 1) % PtrMod) = Dist(rd, wr) + 1
<1>1. /\ PtrMod \in Nat \ {0} /\ Depth \in Nat \ {0} /\ PtrMod = 2 * Depth
      /\ rd \in Nat /\ wr \in Nat /\ rd < PtrMod /\ wr < PtrMod
  BY Sizes DEF Ptr
<1>2. \A p \in Ptr : (p + 1) % PtrMod = IF p + 1 = PtrMod THEN 0 ELSE p + 1
  <2>1. ASSUME NEW p \in Ptr
        PROVE  (p + 1) % PtrMod = IF p + 1 = PtrMod THEN 0 ELSE p + 1
    <3>1. CASE p + 1 = PtrMod
      <4>1. p + 1 \in PtrMod .. (2 * PtrMod - 1)
        BY <1>1, <3>1
      <4> QED
        BY <1>1, <3>1, <4>1, ModPeriod
    <3>2. CASE p + 1 # PtrMod
      <4>1. p + 1 \in 0 .. (PtrMod - 1)
        BY <1>1, <3>2 DEF Ptr
      <4> QED
        BY <1>1, <3>2, <4>1, ModPeriod
    <3> QED
      BY <3>1, <3>2
  <2> QED
    BY <2>1
<1> DEFINE rn == (rd + 1) % PtrMod
           wn == (wr + 1) % PtrMod
<1>3. rn = IF rd + 1 = PtrMod THEN 0 ELSE rd + 1
  BY <1>2
<1>4. wn = IF wr + 1 = PtrMod THEN 0 ELSE wr + 1
  BY <1>2
<1>5. rn \in Ptr /\ wn \in Ptr
  BY <1>1, <1>3, <1>4 DEF Ptr
<1> HIDE DEF rn, wn
<1>6. /\ Dist(rd, wr) = IF wr >= rd THEN wr - rd ELSE wr - rd + PtrMod
      /\ Dist(rn, wr) = IF wr >= rn THEN wr - rn ELSE wr - rn + PtrMod
      /\ Dist(rd, wn) = IF wn >= rd THEN wn - rd ELSE wn - rd + PtrMod
  BY <1>5, DistValue
<1>7. Dist(rd, wr) # 0 => Dist(rn, wr) = Dist(rd, wr) - 1
  BY <1>1, <1>3, <1>6
<1>8. Dist(rd, wr) < Depth => Dist(rd, wn) = Dist(rd, wr) + 1
  BY <1>1, <1>4, <1>6
<1> QED
  BY <1>5, <1>7, <1>8 DEF rn, wn

\* The flags written with pointers rd and wr, no more than Depth apart, are
\* exact for them.
LEMMA FlagsOfPointers ==
    ASSUME NEW rd \in Ptr, NEW wr \in Ptr, Dist(rd, wr) <= Depth
    PROVE  /\ GrayEmpty(rd, wr) <=> Dist(rd, wr) = 0
           /\ GrayFull(rd, wr) <=> Dist(rd, wr) = Depth
           /\ GrayAempty(rd, wr) => 2 * Dist(rd, wr) < Depth
<1>1. GrayEmpty(rd, wr) <=> Dist(rd, wr) = 0
  BY GrayEmptyExact, DistValue
<1>2. GrayFull(rd, wr) <=> Dist(rd, wr) = Depth
  BY GrayFullExact, DistValue
<1>3. ASSUME GrayAempty(rd, wr) PROVE 2 * Dist(rd, wr) < Depth
  <2>1. 2 * (wr - rd) < Depth /\ 2 * (rd - wr) < Depth
    BY <1>3, GrayAemptyQuarter
  <2>2. Dist(rd, wr) = IF wr >= rd THEN wr - rd ELSE wr - rd + PtrMod
    BY DistValue
  <2>3. rd \in Nat /\ wr \in Nat /\ Depth \in Nat \ {0} /\ PtrMod = 2 * Depth
    BY Sizes
  <2> QED
    BY <2>1, <2>2, <2>3
<1> QED
  BY <1>1, <1>2, <1>3

\* The inductive invariant: exact flags are what keeps the pointers in order,
\* and ordered pointers are what makes the flags computed from them exact.
FfInv == FfTypeOK /\ NoOverrun /\ FlagsExact /\ AemptyBound

\* The reset values satisfy the invariant.
LEMMA FfInitInv == FfInit => FfInv
<1> SUFFICES ASSUME FfInit PROVE FfInv
  OBVIOUS
<1>1. 0 \in Ptr /\ Dist(0, 0) = 0
  BY Sizes, DistValue DEF Ptr
<1>2. 0 <= Depth /\ 0 # Depth /\ 2 * 0 < Depth
  BY Sizes
<1>3. FfTypeOK
  BY <1>1 DEF FfInit, FfTypeOK
<1>4. Occupancy = 0
  BY <1>1 DEF FfInit, Occupancy, Dist
<1>5. NoOverrun
  BY <1>2, <1>4 DEF NoOverrun
<1>6. FlagsExact
  BY <1>2, <1>4, Zenon DEF FlagsExact, FfInit
<1>7. AemptyBound
  BY <1>2, <1>4 DEF AemptyBound
<1> QED
  BY <1>3, <1>5, <1>6, <1>7 DEF FfInv

\* One clock: the guards move the pointers by at most one, within the bound.
LEMMA FfClkInv ==
    ASSUME FfInv, NEW rd_en \in BOOLEAN, NEW wr_en \in BOOLEAN, FfClk(rd_en, wr_en)
    PROVE  FfInv'
<1> DEFINE rd == NextRd(rd_en)
           wr == NextWr(wr_en)
           a  == sram_rd_ptr_f
           b  == sram_wr_ptr_f
<1>1. a \in Ptr /\ b \in Ptr /\ Dist(a, b) <= Depth /\ Dist(a, b) \in Nat
  BY DistValue, Sizes DEF FfInv, FfTypeOK, NoOverrun, Occupancy, Dist
<1>2. /\ rd = a \/ (rd = (a + 1) % PtrMod /\ Dist(a, b) # 0)
      /\ wr = b \/ (wr = (b + 1) % PtrMod /\ Dist(a, b) # Depth)
  BY Zenon DEF FfInv, FlagsExact, Occupancy, Dist, NextRd, NextWr
<1> HIDE DEF rd, wr
<1>3. rd \in Ptr /\ wr \in Ptr /\ Dist(rd, wr) <= Depth
  <2>1. Depth \in Nat
    BY Sizes
  <2>2. wr \in Ptr /\ (wr = b \/ (Dist(a, b) < Depth /\ Dist(a, wr) = Dist(a, b) + 1))
    BY <1>1, <1>2, <2>1, DistStep
  <2>3. Dist(a, wr) <= Depth /\ Dist(a, wr) \in Nat
        /\ (Dist(a, b) # 0 => Dist(a, wr) # 0)
    BY <1>1, <2>1, <2>2
  <2>4. rd \in Ptr /\ (rd = a \/ Dist(rd, wr) = Dist(a, wr) - 1)
    BY <1>1, <1>2, <2>2, <2>3, DistStep
  <2> QED
    BY <2>1, <2>2, <2>3, <2>4
<1>4. /\ sram_rd_ptr_f' = rd
      /\ sram_wr_ptr_f' = wr
      /\ sram_empty_oh' = GrayEmpty(rd, wr)
      /\ sram_full_oh' = GrayFull(rd, wr)
      /\ sram_aempty_oh' = GrayAempty(rd, wr)
  BY DEF FfClk, rd, wr
<1>5. Occupancy' = Dist(rd, wr)
  BY <1>4 DEF Occupancy, Dist, PtrMod, Depth
<1>6. /\ GrayEmpty(rd, wr) <=> Dist(rd, wr) = 0
      /\ GrayFull(rd, wr) <=> Dist(rd, wr) = Depth
      /\ GrayAempty(rd, wr) => 2 * Dist(rd, wr) < Depth
  BY <1>3, FlagsOfPointers
<1>7. FfTypeOK'
  BY <1>3, <1>4 DEF FfTypeOK, GrayEmpty, GrayFull, GrayAempty
<1>8. NoOverrun'
  BY <1>3, <1>5 DEF NoOverrun
<1>9. FlagsExact'
  BY <1>4, <1>5, <1>6, Zenon DEF FlagsExact
<1>10. AemptyBound'
  BY <1>4, <1>5, <1>6, Zenon DEF AemptyBound
<1> QED
  BY <1>7, <1>8, <1>9, <1>10 DEF FfInv

\* A reset brings back the initial values.
LEMMA FfResetInv == FfReset => FfInv'
<1> SUFFICES ASSUME FfReset PROVE FfInv'
  OBVIOUS
<1>1. 0 \in Ptr /\ Dist(0, 0) = 0
  BY Sizes, DistValue DEF Ptr
<1>2. 0 <= Depth /\ 0 # Depth /\ 2 * 0 < Depth
  BY Sizes
<1>3. FfTypeOK'
  BY <1>1 DEF FfReset, FfTypeOK
<1>4. Occupancy' = 0
  BY <1>1 DEF FfReset, Occupancy, Dist
<1>5. NoOverrun'
  BY <1>2, <1>4 DEF NoOverrun
<1>6. FlagsExact'
  BY <1>2, <1>4, Zenon DEF FlagsExact, FfReset
<1>7. AemptyBound'
  BY <1>2, <1>4 DEF AemptyBound
<1> QED
  BY <1>3, <1>5, <1>6, <1>7 DEF FfInv

\* A step that leaves the controller alone keeps the invariant.
LEMMA FfStutterInv == FfInv /\ UNCHANGED ffVars => FfInv'
  BY DEF FfInv, FfTypeOK, NoOverrun, FlagsExact, AemptyBound, Occupancy, ffVars

\* The conjunction of the four invariants is inductive (sram_ff_cntrlr): the
\* guards need exact flags, and the flags need pointers within the bound.
THEOREM FfInvariance == FfSpec => []FfInv
<1>1. FfInv /\ [FfNext]_ffVars => FfInv'
  BY FfClkInv, FfResetInv, FfStutterInv DEF FfNext
<1> QED
  BY <1>1, FfInitInv, PTL DEF FfSpec

\* Type correctness of the FIFO controller for every address width.
THEOREM FfTypeCorrect == FfSpec => []FfTypeOK
<1>1. FfInv => FfTypeOK
  BY DEF FfInv
<1> QED
  BY <1>1, FfInvariance, PTL

\* The write pointer never laps the read pointer, for every address width and
\* every sequence of enables and resets (sram_ff_cntrlr, inc_rd_addr_c and
\* inc_wr_addr_c).
THEOREM FfNeverOverruns == FfSpec => []NoOverrun
<1>1. FfInv => NoOverrun
  BY DEF FfInv
<1> QED
  BY <1>1, FfInvariance, PTL

\* The registered Gray-code flags are exact for every address width
\* (sram_ff_cntrlr, Full/Empty logic).
THEOREM FfFlagsExact == FfSpec => []FlagsExact
<1>1. FfInv => FlagsExact
  BY DEF FfInv
<1> QED
  BY <1>1, FfInvariance, PTL

\* The almost-empty flag bounds the occupancy by half of the SRAM, for every
\* address width (sram_ff_cntrlr, comparison of the two top Gray bits).
THEOREM FfAemptyBound == FfSpec => []AemptyBound
<1>1. FfInv => AemptyBound
  BY DEF FfInv
<1> QED
  BY <1>1, FfInvariance, PTL
=============================================================================
