--------------------------- MODULE EvmU256Proofs ---------------------------
(***************************************************************************)
(* The limb arithmetic of the EVM JIT, for every limb width: the runs of   *)
(* EvmArith check it with limbs of a few bits, the code has 64.  The first *)
(* part, on sums, differences, comparisons and divisions, uses of the      *)
(* widths only that a limb has at least two values (LimbAssumption); the   *)
(* second, that every opcode keeps the builder's claims true, that the     *)
(* widths are those of bits and bytes.                                     *)
(***************************************************************************)
EXTENDS EvmArith, WellFoundedInduction, TLAPS

(* Quotient and remainder by the limb base. *)
LEMMA LimbDivMod ==
    ASSUME NEW s \in Nat
    PROVE  /\ s \div LimbBase \in Nat
           /\ s % LimbBase \in Limb
           /\ s = (s % LimbBase) + LimbBase * (s \div LimbBase)
BY LimbAssumption DEF Limb

(* A sum of two limbs and a carry leaves a carry of at most one. *)
LEMMA CarryIsBit ==
    ASSUME NEW s \in Nat, s < 2 * LimbBase
    PROVE  s \div LimbBase \in {0, 1}
BY LimbAssumption

(* One ADD or ADC: the limb stored and the carry flag are the sum's         *)
(* remainder and quotient, and the flag is a bit.                           *)
LEMMA AddStep ==
    ASSUME NEW x \in Limb, NEW y \in Limb, NEW c \in {0, 1}
    PROVE  /\ (x + y + c) \div LimbBase \in {0, 1}
           /\ (x + y + c) % LimbBase \in Limb
           /\ x + y + c = ((x + y + c) % LimbBase) + LimbBase * ((x + y + c) \div LimbBase)
<1>1. x + y + c \in Nat /\ x + y + c < 2 * LimbBase
  BY LimbAssumption DEF Limb
<1>. QED BY <1>1, LimbDivMod, CarryIsBit

(* A word is the tuple of its four limbs.                                   *)
LEMMA WordTuple ==
    ASSUME NEW w \in Word
    PROVE  /\ w = <<w[1], w[2], w[3], w[4]>>
           /\ w[1] \in Limb /\ w[2] \in Limb /\ w[3] \in Limb /\ w[4] \in Limb
BY DEF Word

(* Four limbs make a word.                                                  *)
LEMMA TupleWord ==
    ASSUME NEW a \in Limb, NEW b \in Limb, NEW c \in Limb, NEW d \in Limb
    PROVE  <<a, b, c, d>> \in Word
BY DEF Word

(* The identity behind a carry chain: four column sums with their carries   *)
(* taken out weigh what the two words weigh.                                *)
LEMMA RingSums ==
    ASSUME NEW x1 \in Int, NEW x2 \in Int, NEW x3 \in Int, NEW x4 \in Int,
           NEW y1 \in Int, NEW y2 \in Int, NEW y3 \in Int, NEW y4 \in Int,
           NEW c1 \in Int, NEW c2 \in Int, NEW c3 \in Int, NEW c4 \in Int
    PROVE  (x1 + LimbBase * (x2 + LimbBase * (x3 + LimbBase * x4)))
             + (y1 + LimbBase * (y2 + LimbBase * (y3 + LimbBase * y4)))
           = ((x1 + y1 - LimbBase * c1)
              + LimbBase * ((x2 + y2 + c1 - LimbBase * c2)
                            + LimbBase * ((x3 + y3 + c2 - LimbBase * c3)
                                          + LimbBase * (x4 + y4 + c3 - LimbBase * c4))))
             + c4 * WordBase
BY LimbAssumption DEF WordBase

(* Four limb equations, each passing its carry to the next, give the        *)
(* equation between the words.                                              *)
LEMMA FourSums ==
    ASSUME NEW a \in Word, NEW b \in Word, NEW r \in Word,
           NEW c1 \in Int, NEW c2 \in Int, NEW c3 \in Int, NEW c4 \in Int,
           a[1] + b[1] = r[1] + LimbBase * c1,
           a[2] + b[2] + c1 = r[2] + LimbBase * c2,
           a[3] + b[3] + c2 = r[3] + LimbBase * c3,
           a[4] + b[4] + c3 = r[4] + LimbBase * c4
    PROVE  Val(a) + Val(b) = Val(r) + c4 * WordBase
<1>1. /\ a[1] \in Int /\ a[2] \in Int /\ a[3] \in Int /\ a[4] \in Int
      /\ b[1] \in Int /\ b[2] \in Int /\ b[3] \in Int /\ b[4] \in Int
      /\ r[1] \in Int /\ r[2] \in Int /\ r[3] \in Int /\ r[4] \in Int
  BY WordTuple DEF Limb
<1>2. /\ LimbBase * c1 \in Int /\ LimbBase * c2 \in Int
      /\ LimbBase * c3 \in Int /\ LimbBase * c4 \in Int
  BY LimbAssumption
<1>3. r[1] = a[1] + b[1] - LimbBase * c1
  BY ONLY <1>1, <1>2, a[1] + b[1] = r[1] + LimbBase * c1
<1>4. r[2] = a[2] + b[2] + c1 - LimbBase * c2
  BY ONLY <1>1, <1>2, c1 \in Int, a[2] + b[2] + c1 = r[2] + LimbBase * c2
<1>5. r[3] = a[3] + b[3] + c2 - LimbBase * c3
  BY ONLY <1>1, <1>2, c2 \in Int, a[3] + b[3] + c2 = r[3] + LimbBase * c3
<1>6. r[4] = a[4] + b[4] + c3 - LimbBase * c4
  BY ONLY <1>1, <1>2, c3 \in Int, a[4] + b[4] + c3 = r[4] + LimbBase * c4
<1>. QED BY <1>1, <1>3, <1>4, <1>5, <1>6, RingSums DEF Val

(* ADD then three ADCs (handleBinaryArithmetic) add two words: the limbs    *)
(* are the sum less 2^256 times the carry that leaves the top limb. No      *)
(* limb sequence of any width loses a carry.                                *)
THEOREM AddChainExact ==
    ASSUME NEW a \in Word, NEW b \in Word
    PROVE  /\ AddChain(a, b) \in Word
           /\ \E c \in {0, 1} : Val(a) + Val(b) = Val(AddChain(a, b)) + c * WordBase
<1>. DEFINE s1 == a[1] + b[1]
            c1 == s1 \div LimbBase
            s2 == a[2] + b[2] + c1
            c2 == s2 \div LimbBase
            s3 == a[3] + b[3] + c2
            c3 == s3 \div LimbBase
            s4 == a[4] + b[4] + c3
            c4 == s4 \div LimbBase
<1>0. a[1] \in Limb /\ a[2] \in Limb /\ a[3] \in Limb /\ a[4] \in Limb
  BY WordTuple
<1>00. b[1] \in Limb /\ b[2] \in Limb /\ b[3] \in Limb /\ b[4] \in Limb
  BY WordTuple
<1>1. c1 \in {0, 1} /\ s1 % LimbBase \in Limb /\ s1 = (s1 % LimbBase) + LimbBase * c1
  <2>1. s1 = a[1] + b[1] + 0 
    BY <1>0, <1>00 DEF Limb
  <2>. QED BY <1>0, <1>00, <2>1, AddStep
<1>. HIDE DEF c1
<1>2. c2 \in {0, 1} /\ s2 % LimbBase \in Limb /\ s2 = (s2 % LimbBase) + LimbBase * c2
  BY <1>0, <1>00, <1>1, AddStep
<1>. HIDE DEF c2
<1>3. c3 \in {0, 1} /\ s3 % LimbBase \in Limb /\ s3 = (s3 % LimbBase) + LimbBase * c3
  BY <1>0, <1>00, <1>2, AddStep
<1>. HIDE DEF c3
<1>4. c4 \in {0, 1} /\ s4 % LimbBase \in Limb /\ s4 = (s4 % LimbBase) + LimbBase * c4
  BY <1>0, <1>00, <1>3, AddStep
<1>. HIDE DEF c4
<1>5. AddChain(a, b) = <<s1 % LimbBase, s2 % LimbBase, s3 % LimbBase, s4 % LimbBase>>
  BY DEF AddChain, c1, c2, c3
<1>6. AddChain(a, b) \in Word
  BY <1>1, <1>2, <1>3, <1>4, <1>5, TupleWord
<1>7. PICK r \in Word : r = AddChain(a, b)
  BY <1>6
<1>8. r[1] = s1 % LimbBase /\ r[2] = s2 % LimbBase /\ r[3] = s3 % LimbBase /\ r[4] = s4 % LimbBase
  BY <1>5, <1>7
<1>9. /\ a[1] + b[1] = r[1] + LimbBase * c1
      /\ a[2] + b[2] + c1 = r[2] + LimbBase * c2
      /\ a[3] + b[3] + c2 = r[3] + LimbBase * c3
      /\ a[4] + b[4] + c3 = r[4] + LimbBase * c4
  BY <1>1, <1>2, <1>3, <1>4, <1>8
<1>10. c1 \in Int /\ c2 \in Int /\ c3 \in Int /\ c4 \in Int
  BY <1>1, <1>2, <1>3, <1>4
<1>11. Val(a) + Val(b) = Val(r) + c4 * WordBase
  BY ONLY a \in Word, b \in Word, r \in Word, <1>9, <1>10, FourSums
<1>. QED BY <1>4, <1>6, <1>7, <1>11

(* SUB then three SBBs subtract two words, the borrow that leaves the top   *)
(* limb being 2^256.                                                        *)
THEOREM SubChainExact ==
    ASSUME NEW a \in Word, NEW b \in Word
    PROVE  /\ SubChain(a, b) \in Word
           /\ \E c \in {0, 1} : Val(b) + Val(SubChain(a, b)) = Val(a) + c * WordBase
<1>. DEFINE c1 == Borrow(a[1], b[1])
            c2 == Borrow(a[2], b[2] + c1)
            c3 == Borrow(a[3], b[3] + c2)
            c4 == Borrow(a[4], b[4] + c3)
            r1 == a[1] - b[1] + c1 * LimbBase
            r2 == a[2] - b[2] - c1 + c2 * LimbBase
            r3 == a[3] - b[3] - c2 + c3 * LimbBase
            r4 == a[4] - b[4] - c3 + c4 * LimbBase
<1>0. a[1] \in Limb /\ a[2] \in Limb /\ a[3] \in Limb /\ a[4] \in Limb
  BY WordTuple
<1>00. b[1] \in Limb /\ b[2] \in Limb /\ b[3] \in Limb /\ b[4] \in Limb
  BY WordTuple
<1>1. c1 \in {0, 1} /\ r1 \in Limb /\ b[1] + r1 = a[1] + LimbBase * c1
  BY <1>0, <1>00, LimbAssumption DEF Limb, Borrow
<1>5. SubChain(a, b) = <<r1, r2, r3, r4>>
  BY DEF SubChain
<1>. HIDE DEF c1
<1>2. c2 \in {0, 1} /\ r2 \in Limb /\ b[2] + r2 + c1 = a[2] + LimbBase * c2
  BY <1>0, <1>00, <1>1, LimbAssumption DEF Limb, Borrow
<1>. HIDE DEF c2
<1>3. c3 \in {0, 1} /\ r3 \in Limb /\ b[3] + r3 + c2 = a[3] + LimbBase * c3
  BY <1>0, <1>00, <1>2, LimbAssumption DEF Limb, Borrow
<1>. HIDE DEF c3
<1>4. c4 \in {0, 1} /\ r4 \in Limb /\ b[4] + r4 + c3 = a[4] + LimbBase * c4
  BY <1>0, <1>00, <1>3, LimbAssumption DEF Limb, Borrow
<1>. HIDE DEF c4, r1, r2, r3, r4
<1>6. SubChain(a, b) \in Word
  BY <1>1, <1>2, <1>3, <1>4, <1>5, TupleWord
<1>7. PICK r \in Word : r = SubChain(a, b)
  BY <1>6
<1>8. r[1] = r1 /\ r[2] = r2 /\ r[3] = r3 /\ r[4] = r4
  BY <1>5, <1>7
<1>9. /\ b[1] + r[1] = a[1] + LimbBase * c1
      /\ b[2] + r[2] + c1 = a[2] + LimbBase * c2
      /\ b[3] + r[3] + c2 = a[3] + LimbBase * c3
      /\ b[4] + r[4] + c3 = a[4] + LimbBase * c4
  BY <1>1, <1>2, <1>3, <1>4, <1>8
<1>10. c1 \in Int /\ c2 \in Int /\ c3 \in Int /\ c4 \in Int
  BY <1>1, <1>2, <1>3, <1>4
<1>11. Val(b) + Val(r) = Val(a) + c4 * WordBase
  BY ONLY a \in Word, b \in Word, r \in Word, <1>9, <1>10, FourSums
<1>. QED BY <1>4, <1>6, <1>7, <1>11

----------------------------------------------------------------------------
(* The value of a word.                                                    *)

(* Multiplying by the limb base keeps order.                                *)
LEMMA Monotone ==
    ASSUME NEW u \in Int, NEW v \in Int, u <= v
    PROVE  LimbBase * u <= LimbBase * v
BY LimbAssumption

(* Two numbers of one limb and a rest compare by the rest first, by the     *)
(* limb when the rests are equal.                                           *)
LEMMA LexStep ==
    ASSUME NEW x \in Limb, NEW y \in Limb, NEW u \in Int, NEW v \in Int
    PROVE  /\ u < v => x + LimbBase * u < y + LimbBase * v
           /\ u = v => (x + LimbBase * u < y + LimbBase * v <=> x < y)
<1>1. CASE u < v
  <2>1. LimbBase * (u + 1) <= LimbBase * v
    BY <1>1, Monotone
  <2>2. LimbBase * (u + 1) = LimbBase * u + LimbBase
    BY LimbAssumption
  <2>3. LimbBase * u \in Int /\ LimbBase * v \in Int
    BY LimbAssumption
  <2>. QED BY <1>1, <2>1, <2>2, <2>3, LimbAssumption DEF Limb
<1>2. CASE u = v
  <2>1. LimbBase * u \in Int
    BY LimbAssumption
  <2>. QED BY <1>2, <2>1 DEF Limb
<1>3. CASE ~(u < v) /\ u # v
  BY <1>3
<1>. QED BY <1>1, <1>2, <1>3

(* One limb more multiplies the bound of a number by the limb base.         *)
LEMMA HornerBound ==
    ASSUME NEW x \in Limb, NEW u \in Nat, NEW B \in Nat, u < B
    PROVE  x + LimbBase * u \in Nat /\ x + LimbBase * u < LimbBase * B
<1>1. LimbBase * (u + 1) <= LimbBase * B
  BY Monotone
<1>2. LimbBase * (u + 1) = LimbBase * u + LimbBase
  BY LimbAssumption
<1>3. LimbBase * u \in Nat /\ LimbBase * B \in Nat
  BY LimbAssumption
<1>. QED BY <1>1, <1>2, <1>3, LimbAssumption DEF Limb

(* A word stands for a number below 2^256.                                  *)
THEOREM ValBounds ==
    ASSUME NEW w \in Word
    PROVE  Val(w) \in Nat /\ Val(w) < WordBase
<1>1. w[1] \in Limb /\ w[2] \in Limb /\ w[3] \in Limb /\ w[4] \in Limb
  BY WordTuple
<1>2. w[4] \in Nat /\ w[4] < LimbBase
  BY <1>1, LimbAssumption DEF Limb
<1>b. LimbBase \in Nat /\ LimbBase * LimbBase \in Nat /\ LimbBase * (LimbBase * LimbBase) \in Nat
  BY LimbAssumption
<1>3. w[3] + LimbBase * w[4] \in Nat /\ w[3] + LimbBase * w[4] < LimbBase * LimbBase
  BY <1>1, <1>2, <1>b, HornerBound, Zenon
<1>4. /\ w[2] + LimbBase * (w[3] + LimbBase * w[4]) \in Nat
      /\ w[2] + LimbBase * (w[3] + LimbBase * w[4]) < LimbBase * (LimbBase * LimbBase)
  BY <1>1, <1>3, <1>b, HornerBound, Zenon
<1>. QED BY <1>1, <1>4, <1>b, HornerBound, Zenon DEF Val, WordBase

(* Comparing from the high limb down while the limbs are equal              *)
(* (handleCompareGT_LT) compares the numbers, and words are equal when      *)
(* their numbers are.                                                       *)
THEOREM UnsignedLTExact ==
    ASSUME NEW a \in Word, NEW b \in Word
    PROVE  /\ UnsignedLT(a, b) <=> Val(a) < Val(b)
           /\ a = b <=> Val(a) = Val(b)
<1>. DEFINE a3 == a[3] + LimbBase * a[4]
            b3 == b[3] + LimbBase * b[4]
            a2 == a[2] + LimbBase * a3
            b2 == b[2] + LimbBase * b3
<1>1. a[1] \in Limb /\ a[2] \in Limb /\ a[3] \in Limb /\ a[4] \in Limb
  BY WordTuple
<1>2. b[1] \in Limb /\ b[2] \in Limb /\ b[3] \in Limb /\ b[4] \in Limb
  BY WordTuple
<1>3. a[4] \in Int /\ b[4] \in Int /\ a[1] \in Int /\ b[1] \in Int
      /\ a[2] \in Int /\ b[2] \in Int /\ a[3] \in Int /\ b[3] \in Int
  BY <1>1, <1>2 DEF Limb
<1>4. a3 \in Int /\ b3 \in Int
  BY <1>3, LimbAssumption
<1>5. /\ a[4] < b[4] => a3 < b3
      /\ b[4] < a[4] => b3 < a3
      /\ a[4] = b[4] => (a3 < b3 <=> a[3] < b[3])
      /\ a[4] = b[4] => (b3 < a3 <=> b[3] < a[3])
  BY <1>1, <1>2, <1>3, LexStep
<1>. HIDE DEF a3, b3
<1>6. a2 \in Int /\ b2 \in Int
  BY <1>3, <1>4, LimbAssumption
<1>7. /\ a3 < b3 => a2 < b2
      /\ b3 < a3 => b2 < a2
      /\ a3 = b3 => (a2 < b2 <=> a[2] < b[2])
      /\ a3 = b3 => (b2 < a2 <=> b[2] < a[2])
  BY <1>1, <1>2, <1>4, LexStep
<1>. HIDE DEF a2, b2
<1>8. Val(a) = a[1] + LimbBase * a2 /\ Val(b) = b[1] + LimbBase * b2
  BY DEF Val, a2, b2, a3, b3
<1>9. /\ a2 < b2 => Val(a) < Val(b)
      /\ b2 < a2 => Val(b) < Val(a)
      /\ a2 = b2 => (Val(a) < Val(b) <=> a[1] < b[1])
      /\ a2 = b2 => (Val(b) < Val(a) <=> b[1] < a[1])
  BY <1>1, <1>2, <1>6, <1>8, LexStep
<1>10. Val(a) \in Int /\ Val(b) \in Int
  BY ValBounds
<1>11. UnsignedLT(a, b) <=> Val(a) < Val(b)
  BY ONLY <1>3, <1>4, <1>5, <1>6, <1>7, <1>9, <1>10 DEF UnsignedLT
<1>12. Val(a) = Val(b) => a[1] = b[1] /\ a[2] = b[2] /\ a[3] = b[3] /\ a[4] = b[4]
  BY ONLY <1>3, <1>4, <1>5, <1>6, <1>7, <1>9, <1>10
<1>13. Val(a) = Val(b) => a = b
  BY <1>12, WordTuple
<1>. QED BY <1>11, <1>13

----------------------------------------------------------------------------
(* ADDMOD.                                                                 *)

(* Quotient and remainder of naturals.                                      *)
LEMMA DivModAny ==
    ASSUME NEW n \in Nat, NEW m \in Nat, m > 0
    PROVE  /\ n \div m \in Nat /\ n % m \in Nat /\ n % m < m
           /\ n = (n % m) + m * (n \div m)
OBVIOUS

(* Quotient and remainder are the only pair with a remainder in range;      *)
(* the dividend may be negative.                                            *)
LEMMA DivModUniqueInt ==
    ASSUME NEW n \in Int, NEW m \in Nat, m > 0, NEW q \in Int, NEW r \in Int,
           0 <= r, r < m, n = r + m * q
    PROVE  n % m = r /\ n \div m = q
<1>. DEFINE q2 == n \div m
            r2 == n % m
<1>1. q2 \in Int /\ r2 \in Int /\ 0 <= r2 /\ r2 < m /\ n = r2 + m * q2
  OBVIOUS
<1>. HIDE DEF q2, r2
<1>2. r2 - r = m * (q - q2)
  BY <1>1
<1>3. PICK d \in Int : d = q - q2
  BY <1>1
<1>4. d = 0
  <2>1. CASE d >= 1
    <3>1. m * d >= m
      BY <2>1
    <3>. QED BY <3>1, <1>1, <1>2, <1>3
  <2>2. CASE d <= -1
    <3>1. m * d <= -m
      BY <2>2
    <3>. QED BY <3>1, <1>1, <1>2, <1>3
  <2>. QED BY <2>1, <2>2
<1>5. q2 = q
  BY <1>1, <1>3, <1>4
<1>6. r2 = r
  BY <1>1, <1>2, <1>3, <1>4
<1>. QED BY <1>5, <1>6 DEF q2, r2

(* The same for a natural dividend.                                         *)
LEMMA DivModUnique ==
    ASSUME NEW n \in Nat, NEW m \in Nat, m > 0, NEW q \in Int, NEW r \in Int,
           0 <= r, r < m, n = r + m * q
    PROVE  n % m = r /\ n \div m = q
<1>1. n \in Int
  OBVIOUS
<1>. QED BY <1>1, DivModUniqueInt

(* The proof the comment in handleAddMod gives: the bound on the high limbs *)
(* makes both operands smaller than twice the modulus.                      *)
THEOREM FastEligibleBound ==
    ASSUME NEW x \in Word, NEW y \in Word, NEW m \in Word, FastEligible(x, y, m)
    PROVE  /\ Val(x) < 2 * Val(m)
           /\ Val(y) < 2 * Val(m)
           /\ Val(m) > 0
<1>. DEFINE C == LimbBase * (LimbBase * LimbBase)
            Low(w) == w[1] + LimbBase * (w[2] + LimbBase * w[3])
<1>1. LimbBase \in Nat /\ LimbBase * LimbBase \in Nat /\ C \in Nat /\ C > 0
  BY LimbAssumption
<1>2. ASSUME NEW w \in Word
      PROVE  /\ Low(w) \in Nat /\ Low(w) < C
             /\ w[4] \in Nat
             /\ Val(w) = Low(w) + C * w[4]
  <2>1. w[1] \in Limb /\ w[2] \in Limb /\ w[3] \in Limb /\ w[4] \in Limb
    BY WordTuple
  <2>2. w[3] \in Nat /\ w[3] < LimbBase
    BY <2>1, LimbAssumption DEF Limb
  <2>3. w[2] + LimbBase * w[3] \in Nat /\ w[2] + LimbBase * w[3] < LimbBase * LimbBase
    BY <2>1, <2>2, <1>1, HornerBound, Zenon
  <2>4. Low(w) \in Nat /\ Low(w) < C
    BY <2>1, <2>3, <1>1, HornerBound, Zenon
  <2>5. w[1] \in Int /\ w[2] \in Int /\ w[3] \in Int /\ w[4] \in Int
    BY <2>1 DEF Limb
  <2>6. Val(w) = Low(w) + C * w[4]
    BY <2>5, LimbAssumption DEF Val
  <2>. QED BY <2>1, <2>4, <2>6 DEF Limb
<1>3. x[4] <= m[4] /\ y[4] <= m[4] /\ m[4] >= 1
  BY <1>2 DEF FastEligible
<1>. HIDE DEF C, Low
<1>4. ASSUME NEW w \in Word, w[4] <= m[4]
      PROVE  Val(w) < 2 * Val(m)
  <2>1. C * w[4] <= C * m[4] /\ C <= C * m[4]
    BY <1>1, <1>2, <1>3, <1>4
  <2>2. C * w[4] \in Int /\ C * m[4] \in Int
    BY <1>1, <1>2
  <2>. QED BY <1>1, <1>2, <2>1, <2>2
<1>5. Val(m) > 0
  <2>1. C <= C * m[4] /\ C * m[4] \in Int
    BY <1>1, <1>2, <1>3
  <2>. QED BY <1>1, <1>2, <2>1
<1>. QED BY <1>3, <1>4, <1>5

(* A subtraction that does not borrow is exact.                             *)
LEMMA SubWhenLarger ==
    ASSUME NEW x \in Word, NEW m \in Word, Val(m) <= Val(x)
    PROVE  SubChain(x, m) \in Word /\ Val(SubChain(x, m)) = Val(x) - Val(m)
<1>1. PICK c \in {0, 1} : Val(m) + Val(SubChain(x, m)) = Val(x) + c * WordBase
  BY SubChainExact
<1>2. SubChain(x, m) \in Word
  BY SubChainExact
<1>3. /\ Val(x) \in Nat /\ Val(x) < WordBase
      /\ Val(m) \in Nat /\ Val(m) < WordBase
      /\ Val(SubChain(x, m)) \in Nat /\ Val(SubChain(x, m)) < WordBase
  BY <1>2, ValBounds
<1>4. WordBase \in Nat
  BY LimbAssumption DEF WordBase
<1>. QED BY <1>1, <1>2, <1>3, <1>4

(* One conditional subtraction brings an operand below twice the modulus    *)
(* under the modulus (the normalisation of handleAddMod).                   *)
LEMMA NormalizeExact ==
    ASSUME NEW x \in Word, NEW m \in Word, Val(x) < 2 * Val(m)
    PROVE  /\ Normalize(x, m) \in Word
           /\ Val(Normalize(x, m)) < Val(m)
           /\ \E k \in {0, 1} : Val(x) = Val(Normalize(x, m)) + k * Val(m)
<1>1. Val(x) \in Nat /\ Val(m) \in Nat
  BY ValBounds
<1>2. CASE UnsignedLT(x, m)
  BY <1>1, <1>2, UnsignedLTExact DEF Normalize
<1>3. CASE ~UnsignedLT(x, m)
  <2>1. Val(m) <= Val(x)
    BY <1>1, <1>3, UnsignedLTExact
  <2>2. SubChain(x, m) \in Word /\ Val(SubChain(x, m)) = Val(x) - Val(m)
    BY <2>1, SubWhenLarger
  <2>3. Normalize(x, m) = SubChain(x, m)
    BY <1>3 DEF Normalize
  <2>. QED BY <1>1, <2>2, <2>3
<1>. QED BY <1>2, <1>3

(* The ADDMOD fast path: whenever its guard on the top limbs holds, two     *)
(* conditional subtractions, an addition whose carry may leave the word     *)
(* and one more subtraction give (x + y) mod m.                             *)
THEOREM AddModFastExact ==
    ASSUME NEW x \in Word, NEW y \in Word, NEW m \in Word, FastEligible(x, y, m)
    PROVE  /\ AddModFast(x, y, m) \in Word
           /\ Val(AddModFast(x, y, m)) = (Val(x) + Val(y)) % Val(m)
<1>1. Val(x) < 2 * Val(m) /\ Val(y) < 2 * Val(m) /\ Val(m) > 0
  BY FastEligibleBound
<1>2. PICK nx \in Word : nx = Normalize(x, m)
  BY <1>1, NormalizeExact
<1>3. PICK ny \in Word : ny = Normalize(y, m)
  BY <1>1, NormalizeExact
<1>4. Val(nx) < Val(m) /\ Val(ny) < Val(m)
  BY <1>1, <1>2, <1>3, NormalizeExact
<1>5. PICK kx \in {0, 1} : Val(x) = Val(nx) + kx * Val(m)
  BY <1>1, <1>2, NormalizeExact
<1>6. PICK ky \in {0, 1} : Val(y) = Val(ny) + ky * Val(m)
  BY <1>1, <1>3, NormalizeExact
<1>7. PICK sum \in Word : sum = AddChain(nx, ny)
  BY AddChainExact
<1>8. PICK c \in {0, 1} : Val(nx) + Val(ny) = Val(sum) + c * WordBase
  BY <1>7, AddChainExact
<1>9. PICK d \in Word : d = SubChain(sum, m)
  BY SubChainExact
<1>10. PICK e \in {0, 1} : Val(m) + Val(d) = Val(sum) + e * WordBase
  BY <1>9, SubChainExact
<1>11. /\ Val(x) \in Nat /\ Val(y) \in Nat /\ Val(m) \in Nat /\ Val(m) < WordBase
       /\ Val(nx) \in Nat /\ Val(ny) \in Nat /\ Val(sum) \in Nat /\ Val(sum) < WordBase
       /\ Val(d) \in Nat /\ Val(d) < WordBase
  BY ValBounds
<1>12. WordBase \in Nat
  BY LimbAssumption DEF WordBase
<1>13. AddModFast(x, y, m) = IF UnsignedLT(sum, nx) \/ ~UnsignedLT(sum, m) THEN d ELSE sum
  BY <1>2, <1>3, <1>7, <1>9 DEF AddModFast
<1>14. /\ UnsignedLT(sum, nx) <=> Val(sum) < Val(nx)
       /\ UnsignedLT(sum, m) <=> Val(sum) < Val(m)
  BY UnsignedLTExact
<1>15. PICK r \in Word : r = AddModFast(x, y, m)
  BY <1>13
<1>16. /\ Val(r) < Val(m)
       /\ \/ Val(nx) + Val(ny) = Val(r)
          \/ Val(nx) + Val(ny) = Val(r) + Val(m)
  BY <1>4, <1>8, <1>10, <1>11, <1>12, <1>13, <1>14, <1>15
<1>17. \E q \in 0 .. 3 : Val(x) + Val(y) = Val(r) + Val(m) * q
  <2>1. Val(r) \in Nat
    BY ValBounds
  <2>2. PICK k \in {0, 1} : Val(nx) + Val(ny) = Val(r) + k * Val(m)
    BY <1>11, <1>16, <2>1
  <2>3. PICK M \in Nat : M = Val(m)
    BY <1>11
  <2>4. M * (kx + ky + k) = kx * M + ky * M + k * M /\ kx * M \in Int /\ ky * M \in Int /\ k * M \in Int
    BY ONLY M \in Nat, kx \in {0, 1}, ky \in {0, 1}, k \in {0, 1}
  <2>5. Val(x) + Val(y) = Val(r) + M * (kx + ky + k)
    BY ONLY <1>5, <1>6, <1>11, <2>1, <2>2, <2>3, <2>4
  <2>6. kx + ky + k \in 0 .. 3
    OBVIOUS
  <2>. QED BY <2>3, <2>5, <2>6
<1>18. PICK q \in 0 .. 3 : Val(x) + Val(y) = Val(r) + Val(m) * q
  BY <1>17
<1>19. /\ Val(x) + Val(y) \in Nat /\ Val(m) \in Nat /\ Val(m) > 0
       /\ q \in Int /\ Val(r) \in Int /\ 0 <= Val(r) /\ Val(r) < Val(m)
  BY <1>1, <1>11, <1>16, ValBounds
<1>20. (Val(x) + Val(y)) % Val(m) = Val(r)
  BY ONLY <1>18, <1>19, DivModUnique, Zenon
<1>. QED BY <1>15, <1>20

----------------------------------------------------------------------------
(* Division by one limb.                                                   *)

(* The hardware division of hi:lo by d does not fault when hi < d, and      *)
(* leaves a remainder below d.                                              *)
LEMMA UdivExact ==
    ASSUME NEW hi \in Nat, NEW lo \in Limb, NEW d \in Limb, hi < d
    PROVE  /\ ~Udiv(hi, lo, d).trap
           /\ Udiv(hi, lo, d).q \in Limb
           /\ Udiv(hi, lo, d).r \in Nat
           /\ Udiv(hi, lo, d).r < d
           /\ lo + LimbBase * hi = Udiv(hi, lo, d).r + d * Udiv(hi, lo, d).q
<1>. DEFINE n == hi * LimbBase + lo
<1>1. n \in Nat /\ n = lo + LimbBase * hi /\ d \in Nat /\ d > 0 /\ lo \in Nat
  BY LimbAssumption DEF Limb
<1>2. n < d * LimbBase
  <2>1. (hi + 1) * LimbBase <= d * LimbBase
    BY <1>1, LimbAssumption
  <2>2. (hi + 1) * LimbBase = hi * LimbBase + LimbBase /\ hi * LimbBase \in Nat
    BY LimbAssumption
  <2>. QED BY <1>1, <2>1, <2>2, LimbAssumption DEF Limb
<1>. HIDE DEF n
<1>3. /\ n \div d \in Nat /\ n % d \in Nat /\ n % d < d
      /\ n = (n % d) + d * (n \div d)
  BY ONLY <1>1, DivModAny, Zenon
<1>4. n \div d < LimbBase
  <2>1. PICK q \in Nat : q = n \div d
    BY <1>3
  <2>2. SUFFICES ASSUME q >= LimbBase PROVE FALSE
    BY <2>1, LimbAssumption
  <2>3. d * q >= d * LimbBase
    BY <1>1, <2>2, LimbAssumption
  <2>4. d * q \in Int /\ d * LimbBase \in Int
    BY <1>1, LimbAssumption
  <2>. QED BY <1>1, <1>2, <1>3, <2>1, <2>3, <2>4
<1>5. Udiv(hi, lo, d) = [q |-> n \div d, r |-> n % d, trap |-> FALSE]
  BY DEF Udiv, n
<1>6. Udiv(hi, lo, d).trap = FALSE /\ Udiv(hi, lo, d).q = n \div d /\ Udiv(hi, lo, d).r = n % d
  BY <1>5
<1>. QED BY <1>1, <1>3, <1>4, <1>6, LimbAssumption DEF Limb

(* The four chained divisions of a 256-bit dividend by a limb               *)
(* (handleDivU64Divisor, handleModU64Divisor, handleDivModGeneral) never    *)
(* fault and give quotient and remainder.                                   *)
THEOREM DivCascadeExact ==
    ASSUME NEW a \in Word, NEW d \in Limb, d # 0
    PROVE  /\ ~DivCascade(a, d).trap
           /\ DivCascade(a, d).q \in Word
           /\ Val(DivCascade(a, d).q) = Val(a) \div d
           /\ DivCascade(a, d).r = Val(a) % d
           /\ DivCascade(a, d).r \in Limb
<1>1. a[1] \in Limb /\ a[2] \in Limb /\ a[3] \in Limb /\ a[4] \in Limb
  BY WordTuple
<1>2. d \in Nat /\ 0 < d /\ 0 \in Nat
  BY DEF Limb
<1>3. PICK d3 : d3 = Udiv(0, a[4], d)
  OBVIOUS
<1>4. /\ ~d3.trap /\ d3.q \in Limb /\ d3.r \in Nat /\ d3.r < d
      /\ a[4] + LimbBase * 0 = d3.r + d * d3.q
  BY <1>1, <1>2, <1>3, UdivExact, Zenon
<1>5. PICK d2 : d2 = Udiv(d3.r, a[3], d)
  OBVIOUS
<1>6. /\ ~d2.trap /\ d2.q \in Limb /\ d2.r \in Nat /\ d2.r < d
      /\ a[3] + LimbBase * d3.r = d2.r + d * d2.q
  BY <1>1, <1>4, <1>5, UdivExact
<1>7. PICK d1 : d1 = Udiv(d2.r, a[2], d)
  OBVIOUS
<1>8. /\ ~d1.trap /\ d1.q \in Limb /\ d1.r \in Nat /\ d1.r < d
      /\ a[2] + LimbBase * d2.r = d1.r + d * d1.q
  BY <1>1, <1>6, <1>7, UdivExact
<1>9. PICK d0 : d0 = Udiv(d1.r, a[1], d)
  OBVIOUS
<1>10. /\ ~d0.trap /\ d0.q \in Limb /\ d0.r \in Nat /\ d0.r < d
       /\ a[1] + LimbBase * d1.r = d0.r + d * d0.q
  BY <1>1, <1>8, <1>9, UdivExact
<1>11. DivCascade(a, d) = [q |-> <<d0.q, d1.q, d2.q, d3.q>>, r |-> d0.r,
                           trap |-> d3.trap \/ d2.trap \/ d1.trap \/ d0.trap]
  BY <1>3, <1>5, <1>7, <1>9 DEF DivCascade
<1>12. PICK q \in Word : q = <<d0.q, d1.q, d2.q, d3.q>>
  BY <1>4, <1>6, <1>8, <1>10, TupleWord, Zenon
<1>13. /\ a[1] \in Int /\ a[2] \in Int /\ a[3] \in Int /\ a[4] \in Int
       /\ d0.q \in Int /\ d1.q \in Int /\ d2.q \in Int /\ d3.q \in Int
       /\ d0.r \in Int /\ d1.r \in Int /\ d2.r \in Int /\ d3.r \in Int
  BY <1>1, <1>4, <1>6, <1>8, <1>10 DEF Limb
<1>14. Val(a) = d0.r + d * Val(q)
  <2>1. /\ LimbBase * d1.r \in Int /\ LimbBase * d2.r \in Int /\ LimbBase * d3.r \in Int
        /\ d * d0.q \in Int /\ d * d1.q \in Int /\ d * d2.q \in Int /\ d * d3.q \in Int
        /\ LimbBase * 0 = 0
    BY <1>2, <1>13, LimbAssumption
  <2>2. a[4] = d3.r + d * d3.q
    BY ONLY <1>4, <1>13, <2>1
  <2>3. a[3] = d2.r + d * d2.q - LimbBase * d3.r
    BY ONLY <1>6, <1>13, <2>1
  <2>4. a[2] = d1.r + d * d1.q - LimbBase * d2.r
    BY ONLY <1>8, <1>13, <2>1
  <2>5. a[1] = d0.r + d * d0.q - LimbBase * d1.r
    BY ONLY <1>10, <1>13, <2>1
  <2>6. d \in Int
    BY <1>2
  <2>7. q[1] = d0.q /\ q[2] = d1.q /\ q[3] = d2.q /\ q[4] = d3.q
    BY <1>12
  <2>8. Val(q) = d0.q + LimbBase * (d1.q + LimbBase * (d2.q + LimbBase * d3.q))
    BY ONLY <2>7 DEF Val
  <2>9. Val(a) = (d0.r + d * d0.q - LimbBase * d1.r)
                 + LimbBase * ((d1.r + d * d1.q - LimbBase * d2.r)
                               + LimbBase * ((d2.r + d * d2.q - LimbBase * d3.r)
                                             + LimbBase * (d3.r + d * d3.q)))
    BY ONLY <2>2, <2>3, <2>4, <2>5 DEF Val
  <2>10. (d0.r + d * d0.q - LimbBase * d1.r)
                 + LimbBase * ((d1.r + d * d1.q - LimbBase * d2.r)
                               + LimbBase * ((d2.r + d * d2.q - LimbBase * d3.r)
                                             + LimbBase * (d3.r + d * d3.q)))
         = d0.r + d * (d0.q + LimbBase * (d1.q + LimbBase * (d2.q + LimbBase * d3.q)))
    <3>1. PICK q1 \in Int, q2 \in Int, q3 \in Int, q4 \in Int :
            q1 = d0.q /\ q2 = d1.q /\ q3 = d2.q /\ q4 = d3.q
      BY ONLY <1>13
    <3>2. PICK r1 \in Int, r2 \in Int, r3 \in Int, r4 \in Int :
            r1 = d0.r /\ r2 = d1.r /\ r3 = d2.r /\ r4 = d3.r
      BY ONLY <1>13
    <3>3. (r1 + d * q1 - LimbBase * r2)
             + LimbBase * ((r2 + d * q2 - LimbBase * r3)
                           + LimbBase * ((r3 + d * q3 - LimbBase * r4)
                                         + LimbBase * (r4 + d * q4)))
           = r1 + d * (q1 + LimbBase * (q2 + LimbBase * (q3 + LimbBase * q4)))
      BY ONLY <2>6, LimbAssumption
    <3>. QED BY ONLY <3>1, <3>2, <3>3
  <2>. QED BY ONLY <2>8, <2>9, <2>10
<1>15. Val(a) \in Nat /\ Val(q) \in Nat
  BY ValBounds
<1>16. Val(a) % d = d0.r /\ Val(a) \div d = Val(q)
  <2>1. Val(q) \in Int /\ d0.r \in Int /\ 0 <= d0.r
    BY <1>10, <1>15
  <2>. QED BY ONLY <1>2, <1>10, <1>14, <1>15, <2>1, DivModUnique, Zenon
<1>17. d0.r \in Limb
  BY <1>10, LimbAssumption DEF Limb
<1>18. DivCascade(a, d).q = q /\ DivCascade(a, d).r = d0.r
  BY <1>11, <1>12
<1>19. (d3.trap \/ d2.trap \/ d1.trap \/ d0.trap) = FALSE
  BY <1>4, <1>6, <1>8, <1>10, Zenon
<1>20. ~DivCascade(a, d).trap
  <2>1. DivCascade(a, d) = [q |-> <<d0.q, d1.q, d2.q, d3.q>>, r |-> d0.r, trap |-> FALSE]
    BY <1>11, <1>19, Zenon
  <2>. QED BY <2>1
<1>. QED BY <1>16, <1>17, <1>18, <1>20

----------------------------------------------------------------------------
(* Operands.                                                               *)

\* The number an operand stands for.
Denotes(o) == Val(extractU256Operand(o))

(* A comparison's word is 0 or 1 and fits one limb.                         *)
LEMMA FlagWord ==
    ASSUME NEW b \in BOOLEAN
    PROVE  Flag(b) \in Word /\ Val(Flag(b)) = (IF b THEN 1 ELSE 0) /\ RangeOf(Flag(b)) = U64
<1>1. 0 \in Limb /\ 1 \in Limb
  BY LimbAssumption DEF Limb
<1>2. Flag(b) \in Word
  BY <1>1, TupleWord DEF Flag
<1>. QED BY <1>1, <1>2, LimbAssumption DEF Flag, Val, RangeOf, HasUpper

(* Materialising an operand of any kind, a deferred NOT or ISZERO           *)
(* included, gives a word (extractU256Operand).                             *)
LEMMA OperandWord ==
    ASSUME NEW o \in Operands
    PROVE  /\ extractU256Operand(o) \in Word
           /\ o.limbs \in Word
           /\ o.kind \in {"const", "lit", "inst"} => extractU256Operand(o) = o.limbs
<1>1. o.limbs \in Word /\ o.kind \in {"const", "lit", "inst", "not", "zeq", "zne"}
  BY DEF Operands, Deferred
<1>2. o.limbs[1] \in Limb /\ o.limbs[2] \in Limb /\ o.limbs[3] \in Limb /\ o.limbs[4] \in Limb
  BY <1>1, WordTuple
<1>3. CASE o.kind = "not"
  <2>1. \A x \in Limb : LimbNot(x) \in Limb
    BY LimbAssumption DEF Limb, LimbNot, AllOnes
  <2>2. NotWord(o.limbs) \in Word
    BY <1>2, <2>1, TupleWord DEF NotWord
  <2>. QED BY <1>1, <1>3, <2>2 DEF extractU256Operand
<1>4. CASE o.kind = "zeq"
  <2>1. ((o.limbs = ZeroWord) # FALSE) \in BOOLEAN
    OBVIOUS
  <2>2. handleCompareEQZ(o.limbs, FALSE) \in Word
    BY <2>1, FlagWord, Zenon DEF handleCompareEQZ
  <2>. QED BY <1>1, <1>4, <2>2, Zenon DEF extractU256Operand
<1>5. CASE o.kind = "zne"
  <2>1. ((o.limbs = ZeroWord) # TRUE) \in BOOLEAN
    OBVIOUS
  <2>2. handleCompareEQZ(o.limbs, TRUE) \in Word
    BY <2>1, FlagWord, Zenon DEF handleCompareEQZ
  <2>. QED BY <1>1, <1>5, <2>2, Zenon DEF extractU256Operand
<1>6. CASE o.kind \in {"const", "lit", "inst"}
  BY <1>1, <1>6, Zenon DEF extractU256Operand
<1>. QED BY <1>1, <1>3, <1>4, <1>5, <1>6

(* An operand of emitted limbs whose claimed range covers them is sound.    *)
LEMMA InstSound ==
    ASSUME NEW w \in Word, NEW range \in {U64, U128, U256}, RangeOf(w) <= range
    PROVE  Sound(InstIn(w, range)) /\ Denotes(InstIn(w, range)) = Val(w)
<1>1. InstIn(w, range) \in Operands /\ InstIn(w, range).kind = "inst"
  BY DEF InstIn, Operands
<1>2. extractU256Operand(InstIn(w, range)) = w
  BY <1>1, OperandWord DEF InstIn
<1>. QED BY <1>1, <1>2 DEF Sound, Denotes, InstIn

(* An operand of emitted limbs that claims no range is sound.               *)
LEMMA WideSound ==
    ASSUME NEW w \in Word
    PROVE  Sound(Inst(w)) /\ Denotes(Inst(w)) = Val(w)
<1>1. RangeOf(w) <= U256 /\ U256 \in {U64, U128, U256}
  BY DEF RangeOf, U64, U128, U256
<1>. QED BY <1>1, InstSound DEF Inst

(* A constant operand is sound.                                             *)
LEMMA ConstSound ==
    ASSUME NEW w \in Word
    PROVE  Sound(Const(w)) /\ Denotes(Const(w)) = Val(w)
<1>1. RangeOf(w) \in {U64, U128, U256} /\ RangeOf(w) <= RangeOf(w)
  BY DEF RangeOf, U64, U128, U256
<1>2. Const(w) \in Operands /\ Const(w).kind = "const"
  BY <1>1 DEF Const, Operands
<1>3. extractU256Operand(Const(w)) = w
  BY <1>2, OperandWord DEF Const
<1>. QED BY <1>1, <1>2, <1>3 DEF Sound, Denotes, Const

(* The limbs the constant folder extracts (intxToU256Value) are those of    *)
(* the number modulo 2^256.                                                 *)
LEMMA DigitsExact ==
    ASSUME NEW n \in Nat
    PROVE  intxToU256Value(n) \in Word /\ Val(intxToU256Value(n)) = n % WordBase
<1>1. PICK n1 \in Limb, m1 \in Nat : n = n1 + LimbBase * m1 /\ n1 = n % LimbBase /\ m1 = n \div LimbBase
  BY LimbDivMod
<1>2. PICK n2 \in Limb, m2 \in Nat : m1 = n2 + LimbBase * m2 /\ n2 = m1 % LimbBase
  BY LimbDivMod
<1>3. PICK n3 \in Limb, m3 \in Nat : m2 = n3 + LimbBase * m3 /\ n3 = m2 % LimbBase
  BY LimbDivMod
<1>4. PICK n4 \in Limb, m4 \in Nat : m3 = n4 + LimbBase * m4 /\ n4 = m3 % LimbBase
  BY LimbDivMod
<1>5. /\ n1 \in Nat /\ n2 \in Nat /\ n3 \in Nat /\ n4 \in Nat
      /\ n1 \in Int /\ n2 \in Int /\ n3 \in Int /\ n4 \in Int
      /\ m1 \in Int /\ m2 \in Int /\ m3 \in Int /\ m4 \in Int
      /\ n1 < LimbBase /\ n2 < LimbBase /\ n3 < LimbBase /\ n4 < LimbBase
  BY LimbAssumption DEF Limb
<1>6. /\ LimbBase \in Nat /\ LimbBase * LimbBase \in Nat /\ LimbBase * LimbBase * LimbBase \in Nat
      /\ LimbBase * LimbBase > 0 /\ LimbBase * LimbBase * LimbBase > 0
      /\ LimbBase * LimbBase * LimbBase = LimbBase * (LimbBase * LimbBase)
      /\ WordBase \in Nat
  BY LimbAssumption DEF WordBase
<1>i. \A r \in Nat : r \in Int /\ 0 <= r
  OBVIOUS
<1>7. n \div (LimbBase * LimbBase) = m2
  <2>1. n = (n1 + LimbBase * n2) + LimbBase * LimbBase * m2
    <3>1. n1 + LimbBase * (n2 + LimbBase * m2) = (n1 + LimbBase * n2) + LimbBase * LimbBase * m2
      BY ONLY <1>5, LimbAssumption
    <3>. QED BY ONLY <1>1, <1>2, <3>1, Zenon
  <2>2. n1 + LimbBase * n2 \in Nat /\ n1 + LimbBase * n2 < LimbBase * LimbBase
    BY <1>5, <1>6, HornerBound
  <2>3. PICK r \in Nat, m \in Nat : r = n1 + LimbBase * n2 /\ m = LimbBase * LimbBase
    BY <1>6, <2>2, Zenon
  <2>4. n \in Nat /\ m2 \in Int /\ m > 0 /\ r < m /\ n = r + m * m2
    BY <1>5, <1>6, <2>1, <2>2, <2>3, Zenon
  <2>5. n \div m = m2
    BY ONLY r \in Nat, m \in Nat, <1>i, <2>4, DivModUnique, Zenon
  <2>. QED BY <2>3, <2>5, Zenon
<1>8. n \div (LimbBase * LimbBase * LimbBase) = m3
  <2>1. n = (n1 + LimbBase * (n2 + LimbBase * n3)) + LimbBase * LimbBase * LimbBase * m3
    <3>1. n1 + LimbBase * (n2 + LimbBase * (n3 + LimbBase * m3))
          = (n1 + LimbBase * (n2 + LimbBase * n3)) + LimbBase * LimbBase * LimbBase * m3
      BY ONLY <1>5, LimbAssumption
    <3>. QED BY ONLY <1>1, <1>2, <1>3, <3>1, Zenon
  <2>2. n2 + LimbBase * n3 \in Nat /\ n2 + LimbBase * n3 < LimbBase * LimbBase
    BY <1>5, <1>6, HornerBound
  <2>3. /\ n1 + LimbBase * (n2 + LimbBase * n3) \in Nat
        /\ n1 + LimbBase * (n2 + LimbBase * n3) < LimbBase * (LimbBase * LimbBase)
    BY <1>6, <2>2, HornerBound, Zenon
  <2>4. n = (n1 + LimbBase * (n2 + LimbBase * n3)) + (LimbBase * LimbBase * LimbBase) * m3
    BY ONLY <2>1
  <2>5. PICK r \in Nat, m \in Nat : /\ r = n1 + LimbBase * (n2 + LimbBase * n3)
                                     /\ m = LimbBase * LimbBase * LimbBase
    BY <1>6, <2>3, Zenon
  <2>6. n \in Nat /\ m3 \in Int /\ m > 0 /\ r < m /\ n = r + m * m3
    BY <1>5, <1>6, <2>3, <2>4, <2>5, Zenon
  <2>7. n \div m = m3
    BY ONLY r \in Nat, m \in Nat, <1>i, <2>6, DivModUnique, Zenon
  <2>. QED BY <2>5, <2>7, Zenon
<1>9. intxToU256Value(n) = <<n1, n2, n3, n4>>
  BY <1>1, <1>2, <1>3, <1>4, <1>7, <1>8, Zenon DEF intxToU256Value
<1>10. PICK w \in Word : w = intxToU256Value(n)
  BY <1>9, TupleWord
<1>11. n = Val(w) + WordBase * m4
  <2>1. Val(w) = n1 + LimbBase * (n2 + LimbBase * (n3 + LimbBase * n4))
    <3>1. w = <<n1, n2, n3, n4>>
      BY <1>9, <1>10, Zenon
    <3>2. w[1] = n1 /\ w[2] = n2 /\ w[3] = n3 /\ w[4] = n4
      BY ONLY <3>1
    <3>. QED BY ONLY <3>2, Zenon DEF Val
  <2>2. n = n1 + LimbBase * (n2 + LimbBase * (n3 + LimbBase * (n4 + LimbBase * m4)))
    BY ONLY <1>1, <1>2, <1>3, <1>4, Zenon
  <2>3. n1 + LimbBase * (n2 + LimbBase * (n3 + LimbBase * (n4 + LimbBase * m4)))
        = (n1 + LimbBase * (n2 + LimbBase * (n3 + LimbBase * n4))) + WordBase * m4
    BY ONLY <1>5, LimbAssumption DEF WordBase
  <2>. QED BY ONLY <2>1, <2>2, <2>3
<1>12. /\ Val(w) \in Nat /\ Val(w) < WordBase
       /\ Val(w) \in Int /\ 0 <= Val(w) /\ WordBase > 0
  BY <1>6, ValBounds
<1>13. n % WordBase = Val(w)
  BY ONLY n \in Nat, <1>5, <1>6, <1>11, <1>12, DivModUnique, Zenon
<1>. QED BY <1>10, <1>13

----------------------------------------------------------------------------
(* ADD and SUB, for every form of the operands.                            *)

(* 2^256 is a positive number.                                              *)
LEMMA WordBasePositive == WordBase \in Nat /\ WordBase > 0
BY LimbAssumption DEF WordBase

(* The carry chain adds modulo 2^256.                                       *)
LEMMA AddChainMod ==
    ASSUME NEW a \in Word, NEW b \in Word
    PROVE  AddChain(a, b) \in Word /\ Val(AddChain(a, b)) = (Val(a) + Val(b)) % WordBase
<1>1. PICK r \in Word : r = AddChain(a, b)
  BY AddChainExact
<1>2. PICK c \in {0, 1} : Val(a) + Val(b) = Val(r) + c * WordBase
  BY <1>1, AddChainExact
<1>3. /\ Val(a) + Val(b) \in Int /\ Val(r) \in Int /\ 0 <= Val(r) /\ Val(r) < WordBase
      /\ c \in Int /\ c * WordBase = WordBase * c
  BY ValBounds, WordBasePositive
<1>4. Val(a) + Val(b) = Val(r) + WordBase * c
  BY ONLY <1>2, <1>3
<1>. QED BY ONLY <1>1, <1>3, <1>4, WordBasePositive, DivModUniqueInt

(* The borrow chain subtracts modulo 2^256.                                 *)
LEMMA SubChainMod ==
    ASSUME NEW a \in Word, NEW b \in Word
    PROVE  SubChain(a, b) \in Word /\ Val(SubChain(a, b)) = (Val(a) - Val(b)) % WordBase
<1>1. PICK r \in Word : r = SubChain(a, b)
  BY SubChainExact
<1>2. PICK c \in {0, 1} : Val(b) + Val(r) = Val(a) + c * WordBase
  BY <1>1, SubChainExact
<1>3. /\ Val(a) \in Int /\ Val(b) \in Int /\ Val(a) - Val(b) \in Int
      /\ Val(r) \in Int /\ 0 <= Val(r) /\ Val(r) < WordBase
      /\ -c \in Int /\ WordBase * (-c) = -(c * WordBase) /\ c * WordBase \in Int
  BY ValBounds, WordBasePositive
<1>4. Val(a) - Val(b) = Val(r) + WordBase * (-c)
  BY ONLY <1>2, <1>3
<1>. QED BY ONLY <1>1, <1>3, <1>4, WordBasePositive, DivModUniqueInt

(* A word whose range is U64 is its low limb.                               *)
LEMMA LowWord ==
    ASSUME NEW w \in Word, RangeOf(w) <= U64
    PROVE  w[2] = 0 /\ w[3] = 0 /\ w[4] = 0 /\ Val(w) = w[1]
<1>1. w[2] = 0 /\ w[3] = 0 /\ w[4] = 0
  BY DEF RangeOf, HasUpper, U64, U128, U256
<1>2. w[1] \in Int
  BY WordTuple DEF Limb
<1>. QED BY <1>1, <1>2, LimbAssumption DEF Val

(* What a sound operand gives.                                              *)
LEMMA SoundFacts ==
    ASSUME NEW o, Sound(o)
    PROVE  /\ extractU256Operand(o) \in Word
           /\ Denotes(o) \in Nat
           /\ Denotes(o) < WordBase
           /\ Denotes(o) % WordBase = Denotes(o)
           /\ isConstant(o) => extractU256Operand(o) = o.limbs
<1>1. o \in Operands
  BY DEF Sound
<1>2. extractU256Operand(o) \in Word
  BY <1>1, OperandWord
<1>3. Denotes(o) \in Nat /\ Denotes(o) < WordBase
  BY <1>2, ValBounds DEF Denotes
<1>4. Denotes(o) % WordBase = Denotes(o)
  BY <1>3, WordBasePositive
<1>. QED BY <1>1, <1>2, <1>3, <1>4, OperandWord DEF isConstant

(* The constant 0 stands for 0.                                             *)
LEMMA ZeroDenotes ==
    ASSUME NEW o, Sound(o), isConstWord(o, ZeroWord)
    PROVE  Denotes(o) = 0
<1>1. extractU256Operand(o) = <<0, 0, 0, 0>>
  BY SoundFacts DEF isConstWord, ZeroWord
<1>. QED BY <1>1, LimbAssumption DEF Denotes, Val

(* The addition of two operands known to fit a limb: the carry is           *)
(* recovered by comparing the sum with an addend, and claiming two limbs    *)
(* for the result is sound.                                                 *)
LEMMA AddFitsU64Exact ==
    ASSUME NEW l, NEW r, Sound(l), Sound(r), bothFitU64(l, r)
    PROVE  /\ Sound(AddFitsU64(l, r))
           /\ Denotes(AddFitsU64(l, r)) = (Denotes(l) + Denotes(r)) % WordBase
<1>1. PICK a \in Word : a = extractU256Operand(l)
  BY SoundFacts
<1>2. PICK b \in Word : b = extractU256Operand(r)
  BY SoundFacts
<1>3. RangeOf(a) <= U64 /\ RangeOf(b) <= U64
  BY <1>1, <1>2 DEF Sound, bothFitU64
<1>4. Val(a) = a[1] /\ Val(b) = b[1]
  BY <1>3, LowWord
<1>5. a[1] \in Limb /\ b[1] \in Limb
  BY WordTuple
<1>6. PICK c \in {0, 1}, s \in Limb : /\ a[1] + b[1] = s + LimbBase * c
                                      /\ s = (a[1] + b[1]) % LimbBase
  <2>1. a[1] + b[1] + 0 = a[1] + b[1]
    BY <1>5 DEF Limb
  <2>2. 0 \in {0, 1}
    OBVIOUS
  <2>. QED BY ONLY <1>5, <2>1, <2>2, AddStep
<1>7. (IF s < a[1] THEN 1 ELSE 0) = c
  BY <1>5, <1>6, LimbAssumption DEF Limb
<1>8. AddFitsU64(l, r) = InstIn(<<s, c, 0, 0>>, U128)
  BY <1>1, <1>2, <1>6, <1>7 DEF AddFitsU64
<1>9. PICK w \in Word : w = <<s, c, 0, 0>>
  <2>1. 0 \in Limb /\ c \in Limb
    BY LimbAssumption DEF Limb
  <2>. QED BY <2>1, TupleWord, Zenon
<1>10. Val(w) = a[1] + b[1]
  <2>1. w[1] = s /\ w[2] = c /\ w[3] = 0 /\ w[4] = 0
    BY <1>9
  <2>2. s + LimbBase * (c + LimbBase * (0 + LimbBase * 0)) = s + LimbBase * c
    BY LimbAssumption DEF Limb
  <2>. QED BY ONLY <1>6, <2>1, <2>2 DEF Val
<1>11. RangeOf(w) <= U128 /\ U128 \in {U64, U128, U256}
  BY <1>9 DEF RangeOf, HasUpper, U64, U128, U256
<1>12. Sound(AddFitsU64(l, r)) /\ Denotes(AddFitsU64(l, r)) = Val(w)
  BY <1>8, <1>9, <1>11, InstSound
<1>13. Val(w) \in Nat /\ Val(w) < WordBase /\ Val(w) % WordBase = Val(w)
  BY ValBounds, WordBasePositive
<1>. QED BY <1>1, <1>2, <1>4, <1>10, <1>12, <1>13 DEF Denotes

(* handleAdd, on all its paths (folding, a zero operand, both operands in   *)
(* a limb, a one-limb constant, the carry chain) and for every kind of      *)
(* operand, emits limbs for the sum modulo 2^256, claims a true range and   *)
(* divides nothing.                                                         *)
THEOREM HandleAddExact ==
    ASSUME NEW l, NEW r, Sound(l), Sound(r)
    PROVE  /\ Sound(handleAdd(l, r))
           /\ Denotes(handleAdd(l, r)) = (Denotes(l) + Denotes(r)) % WordBase
<1>1. PICK a \in Word : a = extractU256Operand(l)
  BY SoundFacts
<1>2. PICK b \in Word : b = extractU256Operand(r)
  BY SoundFacts
<1>3. Denotes(l) = Val(a) /\ Denotes(r) = Val(b) /\ Val(a) \in Nat /\ Val(b) \in Nat
  BY <1>1, <1>2, ValBounds DEF Denotes
<1>4. /\ isConstant(l) => l.limbs = a
      /\ isConstant(r) => r.limbs = b
  BY <1>1, <1>2, SoundFacts
<1>5. CASE BothConst(l, r)
  <2>1. handleAdd(l, r) = Const(intxToU256Value(Val(a) + Val(b)))
    BY <1>4, <1>5 DEF handleAdd, BothConst, Fold
  <2>. QED BY <1>3, <2>1, DigitsExact, ConstSound
<1>6. CASE ~BothConst(l, r) /\ isConstWord(l, ZeroWord)
  <2>1. handleAdd(l, r) = r
    BY <1>6 DEF handleAdd
  <2>. QED BY <1>3, <1>6, <2>1, ZeroDenotes, SoundFacts
<1>7. CASE ~BothConst(l, r) /\ ~isConstWord(l, ZeroWord) /\ isConstWord(r, ZeroWord)
  <2>1. handleAdd(l, r) = l
    BY <1>7 DEF handleAdd
  <2>. QED BY <1>3, <1>7, <2>1, ZeroDenotes, SoundFacts
<1>8. CASE /\ ~BothConst(l, r) /\ ~isConstWord(l, ZeroWord) /\ ~isConstWord(r, ZeroWord)
           /\ bothFitU64(l, r)
  <2>1. handleAdd(l, r) = AddFitsU64(l, r)
    BY <1>8 DEF handleAdd
  <2>. QED BY <1>8, <2>1, AddFitsU64Exact
<1>9. CASE /\ ~BothConst(l, r) /\ ~isConstWord(l, ZeroWord) /\ ~isConstWord(r, ZeroWord)
           /\ ~bothFitU64(l, r)
  <2>1. handleAdd(l, r) = Inst(AddChain(a, b)) \/ handleAdd(l, r) = Inst(AddChain(b, a))
    BY <1>1, <1>2, <1>4, <1>9 DEF handleAdd, handleAddU64Const, isConstU64
  <2>2. Val(a) + Val(b) = Val(b) + Val(a)
    BY <1>3
  <2>. QED BY <1>3, <2>1, <2>2, AddChainMod, WideSound
<1>. QED BY <1>5, <1>6, <1>7, <1>8, <1>9

(* Subtracting a one-limb constant with comparisons for borrows             *)
(* (handleSubU64Const) computes the limbs SBB would.                        *)
LEMMA SubU64ConstExact ==
    ASSUME NEW a \in Word, NEW b \in Word, ~HasUpper(b)
    PROVE  << (a[1] - b[1]) % LimbBase,
              (a[2] - Borrow(a[1], b[1])) % LimbBase,
              (a[3] - Borrow(a[2], Borrow(a[1], b[1]))) % LimbBase,
              (a[4] - Borrow(a[3], Borrow(a[2], Borrow(a[1], b[1])))) % LimbBase >>
           = SubChain(a, b)
<1>1. b[2] = 0 /\ b[3] = 0 /\ b[4] = 0
  BY DEF HasUpper
<1>2. a[1] \in Limb /\ a[2] \in Limb /\ a[3] \in Limb /\ a[4] \in Limb
  BY WordTuple
<1>3. b[1] \in Limb
  BY WordTuple
<1>4. ASSUME NEW x \in Limb, NEW y \in Limb
      PROVE  /\ (x - y) % LimbBase = x - y + Borrow(x, y) * LimbBase
             /\ Borrow(x, y) \in {0, 1} /\ Borrow(x, y) \in Limb
  <2>1. CASE x < y
    <3>1. x - y + LimbBase \in Int /\ 0 <= x - y + LimbBase /\ x - y + LimbBase < LimbBase
      BY <2>1, LimbAssumption DEF Limb
    <3>2. /\ x - y \in Int /\ LimbBase \in Nat /\ LimbBase > 0 /\ -1 \in Int
          /\ x - y = (x - y + LimbBase) + LimbBase * (-1)
      BY LimbAssumption DEF Limb
    <3>3. (x - y) % LimbBase = x - y + LimbBase
      BY ONLY <3>1, <3>2, DivModUniqueInt
    <3>. QED BY <2>1, <3>3, LimbAssumption DEF Borrow, Limb
  <2>2. CASE ~(x < y)
    BY <2>2, LimbAssumption DEF Borrow, Limb
  <2>. QED BY <2>1, <2>2
<1>. DEFINE c1 == Borrow(a[1], b[1])
            c2 == Borrow(a[2], c1)
            c3 == Borrow(a[3], c2)
            c4 == Borrow(a[4], c3)
<1>5. c1 \in Limb /\ (a[1] - b[1]) % LimbBase = a[1] - b[1] + c1 * LimbBase
  BY <1>2, <1>3, <1>4
<1>. HIDE DEF c1
<1>6. c2 \in Limb /\ (a[2] - c1) % LimbBase = a[2] - c1 + c2 * LimbBase
  BY <1>2, <1>4, <1>5
<1>. HIDE DEF c2
<1>7. c3 \in Limb /\ (a[3] - c2) % LimbBase = a[3] - c2 + c3 * LimbBase
  BY <1>2, <1>4, <1>6
<1>. HIDE DEF c3
<1>8. c4 \in Limb /\ (a[4] - c3) % LimbBase = a[4] - c3 + c4 * LimbBase
  BY <1>2, <1>4, <1>7
<1>. HIDE DEF c4
<1>9. /\ Borrow(a[2], b[2] + c1) = c2
      /\ Borrow(a[3], b[3] + c2) = c3
      /\ Borrow(a[4], b[4] + c3) = c4
  BY <1>1, <1>5, <1>6, <1>7 DEF c2, c3, c4, Limb
<1>10. SubChain(a, b) = << a[1] - b[1] + c1 * LimbBase, a[2] - b[2] - c1 + c2 * LimbBase,
                           a[3] - b[3] - c2 + c3 * LimbBase, a[4] - b[4] - c3 + c4 * LimbBase >>
  BY <1>9 DEF SubChain, c1
<1>11. /\ a[2] - b[2] - c1 = a[2] - c1
       /\ a[3] - b[3] - c2 = a[3] - c2
       /\ a[4] - b[4] - c3 = a[4] - c3
  BY <1>1, <1>2, <1>5, <1>6, <1>7 DEF Limb
<1>12. SubChain(a, b) = << (a[1] - b[1]) % LimbBase, (a[2] - c1) % LimbBase,
                           (a[3] - c2) % LimbBase, (a[4] - c3) % LimbBase >>
  BY ONLY <1>5, <1>6, <1>7, <1>8, <1>10, <1>11
<1>. QED BY ONLY <1>12 DEF c1, c2, c3

(* handleSub, on all its paths, emits limbs for the difference modulo       *)
(* 2^256 and claims a true range.                                           *)
THEOREM HandleSubExact ==
    ASSUME NEW l, NEW r, Sound(l), Sound(r)
    PROVE  /\ Sound(handleSub(l, r))
           /\ Denotes(handleSub(l, r)) = (Denotes(l) - Denotes(r)) % WordBase
<1>1. PICK a \in Word : a = extractU256Operand(l)
  BY SoundFacts
<1>2. PICK b \in Word : b = extractU256Operand(r)
  BY SoundFacts
<1>3. Denotes(l) = Val(a) /\ Denotes(r) = Val(b) /\ Val(a) \in Nat /\ Val(b) \in Nat
  BY <1>1, <1>2, ValBounds DEF Denotes
<1>4. /\ isConstant(l) => l.limbs = a
      /\ isConstant(r) => r.limbs = b
  BY <1>1, <1>2, SoundFacts
<1>5. CASE BothConst(l, r)
  <2>1. PICK n \in Nat : n = (Val(a) - Val(b)) % WordBase /\ n < WordBase
    BY <1>3, WordBasePositive
  <2>2. n % WordBase = n
    BY <2>1, WordBasePositive
  <2>3. handleSub(l, r) = Const(intxToU256Value(n))
    BY <1>4, <1>5, <2>1 DEF handleSub, BothConst, Fold
  <2>. QED BY <1>3, <2>1, <2>2, <2>3, DigitsExact, ConstSound
<1>6. CASE ~BothConst(l, r) /\ isConstWord(r, ZeroWord)
  <2>1. handleSub(l, r) = l
    BY <1>6 DEF handleSub
  <2>. QED BY <1>3, <1>6, <2>1, ZeroDenotes, SoundFacts
<1>7. CASE ~BothConst(l, r) /\ ~isConstWord(r, ZeroWord)
  <2>1. handleSub(l, r) = Inst(SubChain(a, b))
    <3>1. CASE isConstU64(r)
      <4>1. ~HasUpper(b) /\ r.limbs = b
        BY <1>4, <3>1 DEF isConstU64
      <4>2. handleSubU64Const(l, r) = Inst(SubChain(a, b))
        BY <1>1, <4>1, SubU64ConstExact DEF handleSubU64Const
      <4>. QED BY <1>7, <3>1, <4>2 DEF handleSub
    <3>2. CASE ~isConstU64(r)
      BY <1>1, <1>2, <1>7, <3>2 DEF handleSub
    <3>. QED BY <3>1, <3>2
  <2>. QED BY <1>3, <2>1, SubChainMod, WideSound
<1>. QED BY <1>5, <1>6, <1>7

----------------------------------------------------------------------------
(* Comparisons, division and ADDMOD, for every form of the operands.       *)

(* The operand of a comparison stands for 0 or 1.                           *)
LEMMA BooleanOperand ==
    ASSUME NEW b \in BOOLEAN
    PROVE  /\ Sound(Const(Flag(b))) /\ Denotes(Const(Flag(b))) = BoolNum(b)
           /\ Sound(InstIn(Flag(b), U64)) /\ Denotes(InstIn(Flag(b), U64)) = BoolNum(b)
<1>1. Flag(b) \in Word /\ Val(Flag(b)) = BoolNum(b) /\ RangeOf(Flag(b)) = U64
  BY FlagWord DEF BoolNum
<1>2. U64 \in {U64, U128, U256} /\ RangeOf(Flag(b)) <= U64
  BY <1>1 DEF U64
<1>. QED BY <1>1, <1>2, ConstSound, InstSound

(* Against a word of one limb, the short comparisons of                     *)
(* handleCompareEqU64, handleCompareLtRhsU64 and handleCompareGtRhsU64      *)
(* decide =, < and >.                                                       *)
LEMMA AgainstLowWord ==
    ASSUME NEW a \in Word, NEW b \in Word, ~HasUpper(b)
    PROVE  /\ (a[1] = b[1] /\ ~HasUpper(a)) <=> Val(a) = Val(b)
           /\ (~HasUpper(a) /\ a[1] < b[1]) <=> Val(a) < Val(b)
           /\ (HasUpper(a) \/ a[1] > b[1]) <=> Val(b) < Val(a)
<1>1. b[2] = 0 /\ b[3] = 0 /\ b[4] = 0
  BY DEF HasUpper
<1>2. a[1] \in Nat /\ a[2] \in Nat /\ a[3] \in Nat /\ a[4] \in Nat
  BY WordTuple DEF Limb
<1>3. b[1] \in Nat
  BY WordTuple DEF Limb
<1>4. (~HasUpper(a) /\ a[1] < b[1]) <=> UnsignedLT(a, b)
  BY <1>1, <1>2, <1>3 DEF HasUpper, UnsignedLT
<1>5. (HasUpper(a) \/ a[1] > b[1]) <=> UnsignedLT(b, a)
  BY <1>1, <1>2, <1>3 DEF HasUpper, UnsignedLT
<1>6. /\ UnsignedLT(a, b) <=> Val(a) < Val(b)
      /\ UnsignedLT(b, a) <=> Val(b) < Val(a)
  BY UnsignedLTExact
<1>7. Val(a) \in Int /\ Val(b) \in Int
  BY ValBounds
<1>. QED BY <1>2, <1>3, <1>4, <1>5, <1>6, <1>7

(* handleCompareOp for EQ, LT and GT, on its folding, one-limb and four-    *)
(* limb paths with the operands on either side, emits the 0 or 1 the        *)
(* interpreter pushes, and U64 is a true range for it.                      *)
THEOREM HandleCompareExact ==
    ASSUME NEW op \in {"EQ", "LT", "GT"}, NEW l, NEW r, Sound(l), Sound(r)
    PROVE  /\ Sound(handleCompareOp(op, l, r))
           /\ Denotes(handleCompareOp(op, l, r)) = Interpret(op, Denotes(l), Denotes(r))
<1>1. PICK a \in Word : a = extractU256Operand(l)
  BY SoundFacts
<1>2. PICK b \in Word : b = extractU256Operand(r)
  BY SoundFacts
<1>3. Denotes(l) = Val(a) /\ Denotes(r) = Val(b) /\ Val(a) \in Nat /\ Val(b) \in Nat
  BY <1>1, <1>2, ValBounds DEF Denotes
<1>4. /\ isConstant(l) => l.limbs = a
      /\ isConstant(r) => r.limbs = b
  BY <1>1, <1>2, SoundFacts
<1>5. /\ isConstU64(l) => ~HasUpper(a)
      /\ isConstU64(r) => ~HasUpper(b)
  BY <1>4 DEF isConstU64
<1>6. /\ UnsignedLT(a, b) <=> Val(a) < Val(b)
      /\ UnsignedLT(b, a) <=> Val(b) < Val(a)
      /\ a = b <=> Val(a) = Val(b)
  BY UnsignedLTExact
<1>7. CASE op = "EQ"
  <2>1. PICK e \in BOOLEAN : e = (Val(a) = Val(b))
    BY Zenon
  <2>2. Interpret(op, Denotes(l), Denotes(r)) = BoolNum(e)
    BY <1>3, <1>7, <2>1 DEF Interpret
  <2>3. handleCompareOp(op, l, r) \in {Const(Flag(e)), InstIn(Flag(e), U64)}
    <3>1. CASE BothConst(l, r)
      <4>1. handleCompareOp(op, l, r) = Const(Flag(a = b))
        BY <1>1, <1>2, <1>7, <3>1 DEF handleCompareOp
      <4>. QED BY <1>6, <2>1, <4>1
    <3>2. CASE ~BothConst(l, r) /\ isConstU64(l)
      <4>1. handleCompareOp(op, l, r) = InstIn(Flag(b[1] = a[1] /\ ~HasUpper(b)), U64)
        BY <1>1, <1>2, <1>7, <3>2 DEF handleCompareOp, handleCompareEqU64
      <4>2. (b[1] = a[1] /\ ~HasUpper(b)) <=> Val(b) = Val(a)
        BY <1>5, <3>2, AgainstLowWord
      <4>3. (b[1] = a[1] /\ ~HasUpper(b)) = e
        BY <1>3, <2>1, <4>2
      <4>. QED BY <4>1, <4>3
    <3>3. CASE ~BothConst(l, r) /\ ~isConstU64(l) /\ isConstU64(r)
      <4>1. handleCompareOp(op, l, r) = InstIn(Flag(a[1] = b[1] /\ ~HasUpper(a)), U64)
        BY <1>1, <1>2, <1>7, <3>3 DEF handleCompareOp, handleCompareEqU64
      <4>2. (a[1] = b[1] /\ ~HasUpper(a)) <=> Val(a) = Val(b)
        BY <1>5, <3>3, AgainstLowWord
      <4>3. (a[1] = b[1] /\ ~HasUpper(a)) = e
        BY <2>1, <4>2
      <4>. QED BY <4>1, <4>3
    <3>4. CASE ~BothConst(l, r) /\ ~isConstU64(l) /\ ~isConstU64(r)
      <4>1. handleCompareOp(op, l, r) = InstIn(Flag(a = b), U64)
        BY <1>1, <1>2, <1>7, <3>4 DEF handleCompareOp
      <4>. QED BY <1>6, <2>1, <4>1
    <3>. QED BY <3>1, <3>2, <3>3, <3>4
  <2>. QED BY <2>2, <2>3, BooleanOperand
<1>8. CASE op = "LT"
  <2>1. PICK e \in BOOLEAN : e = (Val(a) < Val(b))
    <3>1. (Val(a) < Val(b)) \in BOOLEAN
      BY <1>3
    <3>. QED BY <3>1, Zenon
  <2>2. Interpret(op, Denotes(l), Denotes(r)) = BoolNum(e)
    BY <1>3, <1>8, <2>1 DEF Interpret
  <2>3. handleCompareOp(op, l, r) \in {Const(Flag(e)), InstIn(Flag(e), U64)}
    <3>1. CASE BothConst(l, r)
      <4>1. handleCompareOp(op, l, r) = Const(Flag(Val(a) < Val(b)))
        BY <1>1, <1>2, <1>8, <3>1 DEF handleCompareOp
      <4>. QED BY <2>1, <4>1
    <3>2. CASE ~BothConst(l, r) /\ isConstU64(r)
      <4>1. handleCompareOp(op, l, r) = InstIn(Flag(~HasUpper(a) /\ a[1] < b[1]), U64)
        BY <1>1, <1>2, <1>8, <3>2 DEF handleCompareOp, handleCompareLtRhsU64
      <4>2. (~HasUpper(a) /\ a[1] < b[1]) <=> Val(a) < Val(b)
        BY <1>5, <3>2, AgainstLowWord
      <4>3. (~HasUpper(a) /\ a[1] < b[1]) = e
        BY <2>1, <4>2
      <4>. QED BY <4>1, <4>3
    <3>3. CASE ~BothConst(l, r) /\ ~isConstU64(r) /\ isConstU64(l)
      <4>1. handleCompareOp(op, l, r) = InstIn(Flag(HasUpper(b) \/ b[1] > a[1]), U64)
        BY <1>1, <1>2, <1>8, <3>3 DEF handleCompareOp, handleCompareGtRhsU64
      <4>2. (HasUpper(b) \/ b[1] > a[1]) <=> Val(a) < Val(b)
        BY <1>5, <3>3, AgainstLowWord
      <4>3. (HasUpper(b) \/ b[1] > a[1]) = e
        BY <2>1, <4>2
      <4>. QED BY <4>1, <4>3
    <3>4. CASE ~BothConst(l, r) /\ ~isConstU64(l) /\ ~isConstU64(r)
      <4>1. handleCompareOp(op, l, r) = InstIn(Flag(UnsignedLT(a, b)), U64)
        BY <1>1, <1>2, <1>8, <3>4 DEF handleCompareOp, handleCompareGT_LT
      <4>2. UnsignedLT(a, b) = e
        BY <1>6, <2>1 DEF UnsignedLT
      <4>. QED BY <4>1, <4>2
    <3>. QED BY <3>1, <3>2, <3>3, <3>4
  <2>. QED BY <2>2, <2>3, BooleanOperand
<1>9. CASE op = "GT"
  <2>1. PICK e \in BOOLEAN : e = (Val(a) > Val(b))
    <3>1. (Val(a) > Val(b)) \in BOOLEAN
      BY <1>3
    <3>. QED BY <3>1, Zenon
  <2>2. Interpret(op, Denotes(l), Denotes(r)) = BoolNum(e)
    BY <1>3, <1>9, <2>1 DEF Interpret
  <2>3. handleCompareOp(op, l, r) \in {Const(Flag(e)), InstIn(Flag(e), U64)}
    <3>1. CASE BothConst(l, r)
      <4>1. handleCompareOp(op, l, r) = Const(Flag(Val(a) > Val(b)))
        BY <1>1, <1>2, <1>9, <3>1 DEF handleCompareOp
      <4>. QED BY <2>1, <4>1
    <3>2. CASE ~BothConst(l, r) /\ isConstU64(r)
      <4>1. handleCompareOp(op, l, r) = InstIn(Flag(HasUpper(a) \/ a[1] > b[1]), U64)
        BY <1>1, <1>2, <1>9, <3>2 DEF handleCompareOp, handleCompareGtRhsU64
      <4>2. (HasUpper(a) \/ a[1] > b[1]) <=> Val(b) < Val(a)
        BY <1>5, <3>2, AgainstLowWord
      <4>3. (HasUpper(a) \/ a[1] > b[1]) = e
        BY <1>3, <2>1, <4>2
      <4>. QED BY <4>1, <4>3
    <3>3. CASE ~BothConst(l, r) /\ ~isConstU64(r) /\ isConstU64(l)
      <4>1. handleCompareOp(op, l, r) = InstIn(Flag(~HasUpper(b) /\ b[1] < a[1]), U64)
        BY <1>1, <1>2, <1>9, <3>3 DEF handleCompareOp, handleCompareLtRhsU64
      <4>2. (~HasUpper(b) /\ b[1] < a[1]) <=> Val(b) < Val(a)
        BY <1>5, <3>3, AgainstLowWord
      <4>3. (~HasUpper(b) /\ b[1] < a[1]) = e
        BY <1>3, <2>1, <4>2
      <4>. QED BY <4>1, <4>3
    <3>4. CASE ~BothConst(l, r) /\ ~isConstU64(l) /\ ~isConstU64(r)
      <4>1. handleCompareOp(op, l, r) = InstIn(Flag(UnsignedLT(b, a)), U64)
        BY <1>1, <1>2, <1>9, <3>4 DEF handleCompareOp, handleCompareGT_LT
      <4>2. UnsignedLT(b, a) = e
        BY <1>3, <1>6, <2>1 DEF UnsignedLT
      <4>. QED BY <4>1, <4>2
    <3>. QED BY <3>1, <3>2, <3>3, <3>4
  <2>. QED BY <2>2, <2>3, BooleanOperand
<1>. QED BY <1>7, <1>8, <1>9

(* A division that does not fault leaves its operand sound.                 *)
LEMMA TrappingSound ==
    ASSUME NEW w \in Word, NEW c, c.trap = FALSE
    PROVE  Sound(Trapping(Inst(w), c)) /\ Denotes(Trapping(Inst(w), c)) = Val(w)
<1>1. PICK o : o = [kind |-> "inst", range |-> U256, limbs |-> w, trap |-> FALSE]
  BY Zenon
<1>2. [o EXCEPT !.trap = FALSE] = o
  <2>1. o \in [kind : {"inst"}, range : {U256}, limbs : Word, trap : {FALSE}]
    BY <1>1
  <2>. QED BY ONLY <2>1, Zenon
<1>3. Trapping(Inst(w), c) = Inst(w)
  BY <1>1, <1>2, Zenon DEF Trapping, Inst, InstIn
<1>. QED BY <1>3, WideSound

(* A word of one limb stands for that limb.                                 *)
LEMMA OneLimbWord ==
    ASSUME NEW x \in Limb
    PROVE  <<x, 0, 0, 0>> \in Word /\ Val(<<x, 0, 0, 0>>) = x
<1>1. 0 \in Limb /\ x \in Int
  BY LimbAssumption DEF Limb
<1>2. <<x, 0, 0, 0>> \in Word
  BY <1>1, TupleWord
<1>3. x + LimbBase * (0 + LimbBase * (0 + LimbBase * 0)) = x
  BY <1>1, LimbAssumption
<1>. QED BY <1>2, <1>3 DEF Val

(* The divisor handed to the CPU is never 0, and is the divisor when that   *)
(* is not 0.                                                                *)
LEMMA SafeDivisorLimb ==
    ASSUME NEW d \in Limb
    PROVE  SafeDivisor(d) \in Limb /\ SafeDivisor(d) # 0 /\ (d # 0 => SafeDivisor(d) = d)
BY LimbAssumption DEF SafeDivisor, Limb

(* A number below 2^256 is the number of its limbs.                         *)
LEMMA NumberFits ==
    ASSUME NEW n \in Nat, n < WordBase
    PROVE  intxToU256Value(n) \in Word /\ Val(intxToU256Value(n)) = n
<1>1. n % WordBase = n
  BY WordBasePositive
<1>. QED BY <1>1, DigitsExact

(* Quotient and remainder do not exceed the dividend.                       *)
LEMMA QuotientFits ==
    ASSUME NEW n \in Nat, NEW m \in Nat, m > 0
    PROVE  n \div m \in Nat /\ n \div m <= n /\ n % m \in Nat /\ n % m <= n
<1>1. PICK q \in Nat, r \in Nat : q = n \div m /\ r = n % m /\ n = r + m * q
  BY DivModAny
<1>2. m * q >= q /\ m * q \in Nat
  BY ONLY q \in Nat, m \in Nat, m > 0
<1>. QED BY <1>1, <1>2

(* handleDivModGeneral never executes a division that faults, whatever      *)
(* the divisor, and emits quotient and remainder as the runtime helpers     *)
(* define them, 0 for a zero divisor.                                       *)
THEOREM DivModGeneralExact ==
    ASSUME NEW a \in Word, NEW b \in Word
    PROVE  /\ Sound(handleDivModGeneral(a, b, TRUE))
           /\ Sound(handleDivModGeneral(a, b, FALSE))
           /\ Denotes(handleDivModGeneral(a, b, TRUE)) = evmGetDiv(Val(a), Val(b))
           /\ Denotes(handleDivModGeneral(a, b, FALSE)) = evmGetMod(Val(a), Val(b))
<1>1. Val(a) \in Nat /\ Val(b) \in Nat /\ Val(a) < WordBase
  BY ValBounds
<1>2. b[1] \in Limb
  BY WordTuple
<1>3. PICK q : q = evmGetDiv(Val(a), Val(b))
  OBVIOUS
<1>4. PICK m : m = evmGetMod(Val(a), Val(b))
  OBVIOUS
<1>5. q \in Nat /\ q < WordBase /\ m \in Nat /\ m < WordBase
  <2>1. CASE Val(b) = 0
    BY <1>3, <1>4, <2>1, WordBasePositive DEF evmGetDiv, evmGetMod
  <2>2. CASE Val(b) # 0
    <3>1. q = Val(a) \div Val(b) /\ m = Val(a) % Val(b) /\ Val(b) > 0
      BY <1>1, <1>3, <1>4, <2>2 DEF evmGetDiv, evmGetMod
    <3>2. q \in Nat /\ q <= Val(a) /\ m \in Nat /\ m <= Val(a)
      BY ONLY <1>1, <3>1, QuotientFits
    <3>. QED BY ONLY <1>1, <3>2, WordBasePositive
  <2>. QED BY <2>1, <2>2
<1>6. CASE HasUpper(b)
  <2>1. /\ handleDivModGeneral(a, b, TRUE) = Inst(intxToU256Value(q))
        /\ handleDivModGeneral(a, b, FALSE) = Inst(intxToU256Value(m))
    BY <1>3, <1>4, <1>6 DEF handleDivModGeneral
  <2>. QED BY <1>3, <1>4, <1>5, <2>1, NumberFits, WideSound, Zenon
<1>7. CASE ~HasUpper(b)
  <2>1. RangeOf(b) <= U64
    BY <1>7 DEF RangeOf, U64
  <2>2. Val(b) = b[1]
    BY <2>1, LowWord
  <2>3. PICK d \in Limb : d = SafeDivisor(b[1]) /\ d # 0 /\ (b[1] # 0 => d = b[1])
    BY <1>2, SafeDivisorLimb
  <2>4. PICK c : c = DivCascade(a, d)
    OBVIOUS
  <2>5. /\ ~c.trap /\ c.q \in Word /\ c.r \in Limb
        /\ Val(c.q) = Val(a) \div d /\ c.r = Val(a) % d
    BY <2>3, <2>4, DivCascadeExact
  <2>6. c.trap = FALSE
    BY <2>4, <2>5, Zenon DEF DivCascade
  <2>7. CASE b[1] = 0
    <3>1. /\ handleDivModGeneral(a, b, TRUE) = Trapping(Inst(ZeroWord), c)
          /\ handleDivModGeneral(a, b, FALSE) = Trapping(Inst(ZeroWord), c)
      BY <1>7, <2>3, <2>4, <2>7 DEF handleDivModGeneral
    <3>2. 0 \in Limb
      BY LimbAssumption DEF Limb
    <3>3. ZeroWord \in Word /\ Val(ZeroWord) = 0
      BY <3>2, OneLimbWord DEF ZeroWord
    <3>4. q = 0 /\ m = 0
      BY <1>3, <1>4, <2>2, <2>7 DEF evmGetDiv, evmGetMod
    <3>. QED BY <1>3, <1>4, <2>6, <3>1, <3>3, <3>4, TrappingSound, Zenon
  <2>8. CASE b[1] # 0
    <3>1. /\ handleDivModGeneral(a, b, TRUE) = Trapping(Inst(c.q), c)
          /\ handleDivModGeneral(a, b, FALSE) = Trapping(Inst(<<c.r, 0, 0, 0>>), c)
      BY <1>7, <2>3, <2>4, <2>8 DEF handleDivModGeneral
    <3>2. <<c.r, 0, 0, 0>> \in Word /\ Val(<<c.r, 0, 0, 0>>) = c.r
      BY <2>5, OneLimbWord
    <3>3. q = Val(c.q) /\ m = c.r
      BY <1>3, <1>4, <2>2, <2>3, <2>5, <2>8 DEF evmGetDiv, evmGetMod
    <3>. QED BY <1>3, <1>4, <2>5, <2>6, <3>1, <3>2, <3>3, TrappingSound, Zenon
  <2>. QED BY <2>7, <2>8, Zenon
<1>. QED BY <1>6, <1>7, Zenon

(* handleAddMod, whichever of folding, fast path and helper call the        *)
(* operands select at run time, emits (x + y) mod m, 0 for m = 0.           *)
THEOREM HandleAddModExact ==
    ASSUME NEW l, NEW r, NEW mo, Sound(l), Sound(r), Sound(mo)
    PROVE  /\ Sound(handleAddMod(l, r, mo))
           /\ Denotes(handleAddMod(l, r, mo))
              = evmGetAddMod(Denotes(l), Denotes(r), Denotes(mo))
<1>1. PICK x \in Word : x = extractU256Operand(l)
  BY SoundFacts
<1>2. PICK y \in Word : y = extractU256Operand(r)
  BY SoundFacts
<1>3. PICK m \in Word : m = extractU256Operand(mo)
  BY SoundFacts
<1>4. Denotes(l) = Val(x) /\ Denotes(r) = Val(y) /\ Denotes(mo) = Val(m)
  BY <1>1, <1>2, <1>3 DEF Denotes
<1>5. Val(x) \in Nat /\ Val(y) \in Nat /\ Val(m) \in Nat /\ Val(m) < WordBase
  BY ValBounds
<1>6. PICK n : n = evmGetAddMod(Val(x), Val(y), Val(m))
  OBVIOUS
<1>7. n \in Nat /\ n < WordBase
  <2>1. CASE Val(m) = 0
    BY <1>6, <2>1, WordBasePositive DEF evmGetAddMod
  <2>2. CASE Val(m) # 0
    <3>1. /\ n = (Val(x) + Val(y)) % Val(m) /\ Val(m) > 0 /\ Val(m) \in Nat
          /\ Val(x) + Val(y) \in Nat
      BY <1>5, <1>6, <2>2 DEF evmGetAddMod
    <3>2. n \in Nat /\ n < Val(m)
      BY ONLY <3>1, DivModAny
    <3>. QED BY ONLY <1>5, <3>2, WordBasePositive
  <2>. QED BY <2>1, <2>2
<1>8. intxToU256Value(n) \in Word /\ Val(intxToU256Value(n)) = n
  BY <1>7, NumberFits
<1>9. CASE BothConst(l, r) /\ isConstant(mo)
  <2>1. handleAddMod(l, r, mo) = Const(intxToU256Value(n))
    BY <1>1, <1>2, <1>3, <1>6, <1>9 DEF handleAddMod, Fold
  <2>. QED BY <1>4, <1>6, <1>8, <2>1, ConstSound
<1>10. CASE ~(BothConst(l, r) /\ isConstant(mo)) /\ ~FastEligible(x, y, m)
  <2>1. handleAddMod(l, r, mo) = Inst(intxToU256Value(n))
    BY <1>1, <1>2, <1>3, <1>6, <1>10 DEF handleAddMod
  <2>. QED BY <1>4, <1>6, <1>8, <2>1, WideSound
<1>11. CASE ~(BothConst(l, r) /\ isConstant(mo)) /\ FastEligible(x, y, m)
  <2>1. handleAddMod(l, r, mo) = Inst(AddModFast(x, y, m))
    BY <1>1, <1>2, <1>3, <1>11 DEF handleAddMod
  <2>2. AddModFast(x, y, m) \in Word /\ Val(AddModFast(x, y, m)) = (Val(x) + Val(y)) % Val(m)
    BY <1>11, AddModFastExact
  <2>3. Val(m) # 0
    BY <1>5, <1>11, FastEligibleBound
  <2>4. n = (Val(x) + Val(y)) % Val(m)
    BY <1>6, <2>3 DEF evmGetAddMod
  <2>. QED BY <1>4, <1>6, <2>1, <2>2, <2>4, WideSound
<1>. QED BY <1>9, <1>10, <1>11

----------------------------------------------------------------------------
(* Induction, and functions defined by recursion.                          *)

(* A nonempty set of natural numbers has a least element.                   *)
LEMMA Least ==
    ASSUME NEW T, T \subseteq Nat, NEW t \in T
    PROVE  \E x \in T : \A y \in T : x <= y
<1>. DEFINE R == OpToRel(<, Nat)
<1>1. IsWellFoundedOn(R, Nat)
  BY NatLessThanWellFounded, Zenon
<1>2. \A y, x \in Nat : y < x => <<y, x>> \in R
  BY DEF OpToRel
<1>. HIDE DEF R
<1>3. PICK x \in T : \A y \in T : ~(<<y, x>> \in R)
  BY <1>1, WFMin, Zenon
<1>4. \A y \in T : x <= y
  <2>. SUFFICES ASSUME NEW y \in T PROVE x <= y
    OBVIOUS
  <2>1. x \in Nat /\ y \in Nat /\ ~(y < x)
    BY <1>2, <1>3, Zenon
  <2>. QED BY <2>1
<1>. QED BY <1>4

(* Induction up to a bound.                                                 *)
LEMMA InductionUpTo ==
    ASSUME NEW S, NEW n \in Nat, 0 \in S, \A k \in 0 .. (n - 1) : k \in S => k + 1 \in S
    PROVE  0 .. n \subseteq S
<1>. SUFFICES ASSUME NEW t \in (0 .. n) \ S PROVE FALSE
  OBVIOUS
<1>1. PICK x \in (0 .. n) \ S : \A y \in (0 .. n) \ S : x <= y
  <2>1. (0 .. n) \ S \subseteq Nat
    OBVIOUS
  <2>. QED BY <2>1, Least, Zenon
<1>2. x - 1 \in 0 .. (n - 1) /\ x - 1 \in 0 .. n /\ ~(x <= x - 1) /\ (x - 1) + 1 = x
  OBVIOUS
<1>3. x - 1 \in S
  BY <1>1, <1>2
<1>. QED BY <1>2, <1>3

\* g is defined on 0 .. n from its value at the predecessor: b at 0, then h.
Recursion(g, D, n, b, h) ==
    g \in [0 .. n -> D] /\ g[0] = b /\ \A i \in 1 .. n : g[i] = h[<<i, g[i - 1]>>]

(* A function defined from its value at the predecessor exists.             *)
LEMMA PrimitiveRecursion ==
    ASSUME NEW D, NEW n \in Nat, NEW b \in D, NEW h, \A i \in 1 .. n, d \in D : h[<<i, d>>] \in D
    PROVE  \E g : Recursion(g, D, n, b, h)
<1>. DEFINE S == {k \in Nat : \E g : Recursion(g, D, k, b, h)}
<1>1. 0 \in S
  <2>. DEFINE g == [i \in 0 .. 0 |-> b]
  <2>1. Recursion(g, D, 0, b, h)
    BY DEF Recursion
  <2>. QED BY <2>1
<1>2. ASSUME NEW k \in 0 .. (n - 1), k \in S PROVE k + 1 \in S
  <2>1. PICK g : Recursion(g, D, k, b, h)
    BY <1>2
  <2>. DEFINE f == [i \in 0 .. (k + 1) |-> IF i = k + 1 THEN h[<<k + 1, g[k]>>] ELSE g[i]]
  <2>2. h[<<k + 1, g[k]>>] \in D
    BY <2>1 DEF Recursion
  <2>3. f \in [0 .. (k + 1) -> D]
    BY <2>1, <2>2 DEF Recursion
  <2>4. f[0] = b
    BY <2>1 DEF Recursion
  <2>5. ASSUME NEW i \in 1 .. (k + 1) PROVE f[i] = h[<<i, f[i - 1]>>]
    <3>1. CASE i = k + 1
      <4>1. f[i] = h[<<k + 1, g[k]>>] /\ f[i - 1] = g[k]
        BY <3>1
      <4>. QED BY <3>1, <4>1, Zenon
    <3>2. CASE i # k + 1
      <4>1. i \in 1 .. k
        BY <3>2
      <4>2. f[i] = g[i] /\ f[i - 1] = g[i - 1]
        BY <3>2
      <4>. QED BY <2>1, <4>1, <4>2 DEF Recursion
    <3>. QED BY <3>1, <3>2
  <2>6. Recursion(f, D, k + 1, b, h)
    BY <2>3, <2>4, <2>5, Zenon DEF Recursion
  <2>. QED BY <2>6
<1>3. 0 .. n \subseteq S
  <2>. HIDE DEF S
  <2>. QED BY <1>1, <1>2, InductionUpTo
<1>. QED BY <1>3

----------------------------------------------------------------------------
(* Powers of two and the limb instructions.                                *)

(* LimbBits, and with it the width of a word, is positive.                  *)
LEMMA Widths ==
    /\ LimbBits \in Nat /\ LimbBits > 0 /\ WordBits \in Nat /\ WordBits = 4 * LimbBits
    /\ LimbBase \in Nat /\ LimbBase > 1 /\ LimbBase > 4 * LimbBits
<1>1. 2^0 = 1
  OBVIOUS
<1>2. LimbBits = 0 => LimbBase = 1
  BY <1>1, ScaleAssumption, Zenon
<1>. QED BY <1>2, LimbAssumption, ScaleAssumption DEF WordBits

(* Powers up to 2^256 are positive numbers.                                 *)
LEMMA PowerType ==
    ASSUME NEW n \in 0 .. WordBits
    PROVE  2^n \in Nat /\ 2^n >= 1
<1>. DEFINE S == {k \in Nat : 2^k \in Nat /\ 2^k >= 1}
<1>1. 0 \in S
  <2>1. 2^0 = 1
    OBVIOUS
  <2>. QED BY <2>1
<1>2. ASSUME NEW k \in 0 .. (WordBits - 1), k \in S PROVE k + 1 \in S
  <2>1. 2^(k + 1) = 2 * 2^k
    BY Widths, PowerAssumption
  <2>2. \A x \in Nat : x >= 1 => 2 * x \in Nat /\ 2 * x >= 1
    OBVIOUS
  <2>3. 2^k \in Nat /\ 2^k >= 1 /\ k + 1 \in Nat
    BY <1>2, Widths
  <2>. QED BY <2>1, <2>2, <2>3, Zenon
<1>3. 0 .. WordBits \subseteq S
  <2>. HIDE DEF S
  <2>. QED BY <1>1, <1>2, Widths, InductionUpTo
<1>. QED BY <1>3

(* 2^(a + b) = 2^a * 2^b.                                                   *)
LEMMA PowerSum ==
    ASSUME NEW a \in Nat, NEW b \in Nat, a + b <= WordBits
    PROVE  2^(a + b) = 2^a * 2^b
<1>. DEFINE S == {k \in Nat : 2^(a + k) = 2^a * 2^k}
<1>0. WordBits \in Nat /\ a \in 0 .. WordBits
  BY Widths
<1>1. 0 \in S
  <2>1. 2^0 = 1 /\ a + 0 = a
    OBVIOUS
  <2>2. 2^a \in Nat
    BY <1>0, PowerType
  <2>3. 2^a * 1 = 2^a
    BY <2>2
  <2>. QED BY <2>1, <2>3
<1>2. ASSUME NEW k \in 0 .. (b - 1), k \in S PROVE k + 1 \in S
  <2>1. a + k \in 0 .. WordBits /\ k \in 0 .. WordBits /\ a + (k + 1) = (a + k) + 1 /\ k + 1 \in Nat
    BY <1>0
  <2>2. 2^((a + k) + 1) = 2 * 2^(a + k) /\ 2^(k + 1) = 2 * 2^k
    BY <2>1, PowerAssumption, Zenon
  <2>3. 2^(a + k) = 2^a * 2^k
    BY <1>2
  <2>4. 2^a \in Nat /\ 2^k \in Nat
    BY <1>0, <2>1, PowerType, Zenon
  <2>5. ASSUME NEW x \in Nat, NEW y \in Nat PROVE 2 * (x * y) = x * (2 * y)
    OBVIOUS
  <2>6. 2^(a + (k + 1)) = 2^a * 2^(k + 1)
    <3>1. 2^(a + (k + 1)) = 2 * (2^a * 2^k)
      BY <2>1, <2>2, <2>3, Zenon
    <3>2. 2 * (2^a * 2^k) = 2^a * (2 * 2^k)
      BY <2>4, <2>5, Zenon
    <3>. QED BY <2>2, <3>1, <3>2, Zenon
  <2>. QED BY <2>1, <2>6, Zenon
<1>3. 0 .. b \subseteq S
  <2>. HIDE DEF S
  <2>. QED BY <1>1, <1>2, InductionUpTo
<1>. QED BY <1>3

(* A shift count is masked to the limb, so the power it stands for is one    *)
(* of those below.                                                          *)
LEMMA MaskedPower ==
    ASSUME NEW n \in Int
    PROVE  n % LimbBits \in 0 .. WordBits /\ 2^(n % LimbBits) \in Nat /\ 2^(n % LimbBits) >= 1
<1>1. n % LimbBits \in 0 .. WordBits
  BY Widths
<1>. QED BY <1>1, PowerType, Zenon

(* The logical shifts of a limb give a limb.                                *)
LEMMA ShiftLimb ==
    ASSUME NEW x \in Limb, NEW n \in Int
    PROVE  Shl(x, n) \in Limb /\ UShr(x, n) \in Limb
<1>1. PICK p \in Nat : p = 2^(n % LimbBits) /\ p >= 1
  BY MaskedPower, Zenon
<1>2. x \in Nat /\ x < LimbBase
  BY Widths DEF Limb
<1>3. x * p \in Nat
  BY <1>1, <1>2
<1>4. (x * p) % LimbBase \in Limb
  BY <1>3, LimbDivMod, Zenon
<1>5. x \div p \in Nat /\ x \div p <= x
  BY ONLY <1>1, <1>2
<1>6. x \div p \in Limb
  BY <1>2, <1>5, Widths DEF Limb
<1>. QED BY <1>1, <1>4, <1>6, Zenon DEF Shl, UShr

(* So does the arithmetic shift.                                            *)
LEMMA SShrLimb ==
    ASSUME NEW x \in Limb, NEW n \in Int
    PROVE  SShr(x, n) \in Limb
<1>1. ASSUME NEW y \in Limb PROVE LimbBase - 1 - y \in Limb
  BY Widths DEF Limb
<1>2. LimbBase - 1 - UShr(LimbBase - 1 - x, n) \in Limb
  BY <1>1, ShiftLimb, Zenon
<1>3. UShr(x, n) \in Limb
  BY ShiftLimb, Zenon
<1>. QED BY <1>2, <1>3, Zenon DEF SShr

(* A bitwise instruction on two limbs gives a limb: n bits of the result    *)
(* make a number below 2^n.                                                 *)
LEMMA BitwiseLimb ==
    ASSUME NEW table \in [1 .. 4 -> {0, 1}], NEW x \in Limb, NEW y \in Limb
    PROVE  Bitwise2(table, x, y) \in Limb
<1>. DEFINE P(n) == 2^(n - 1) * table[1 + 2 * Bit(x, n - 1) + Bit(y, n - 1)]
            Body(v, n) == IF n = 0 THEN 0 ELSE v[n - 1] + P(n)
            Is(v) == v = [n \in 0 .. LimbBits |-> Body(v, n)]
            sum == CHOOSE v : Is(v)
<1>1. Bitwise2(table, x, y) = sum[LimbBits]
  BY DEF Bitwise2
<1>2. LimbBits \in Nat /\ WordBits \in Nat /\ LimbBits <= WordBits
  BY Widths
<1>3. ASSUME NEW n \in 1 .. LimbBits
      PROVE  /\ 2^(n - 1) \in Nat /\ 2^n = 2 * 2^(n - 1)
             /\ P(n) \in Nat /\ P(n) <= 2^(n - 1)
  <2>1. n - 1 \in 0 .. WordBits /\ (n - 1) + 1 = n
    BY <1>2
  <2>2. 2^(n - 1) \in Nat /\ 2^(n - 1) >= 1
    BY <2>1, PowerType, Zenon
  <2>3. 2^((n - 1) + 1) = 2 * 2^(n - 1)
    BY <2>1, PowerAssumption, Zenon
  <2>4. ASSUME NEW z \in Limb PROVE Bit(z, n - 1) \in {0, 1}
    <3>1. PICK p \in Nat : p = 2^(n - 1) /\ p >= 1
      BY <2>2
    <3>2. z \in Nat
      BY Widths DEF Limb
    <3>3. (z \div p) % 2 \in {0, 1}
      BY ONLY <3>1, <3>2
    <3>. QED BY <3>1, <3>3, Zenon DEF Bit
  <2>5. \A b, c \in {0, 1} : 1 + 2 * b + c \in 1 .. 4
    OBVIOUS
  <2>6. table[1 + 2 * Bit(x, n - 1) + Bit(y, n - 1)] \in {0, 1}
    BY <2>4, <2>5, Zenon
  <2>7. ASSUME NEW p \in Nat, NEW b \in {0, 1} PROVE p * b \in Nat /\ p * b <= p
    OBVIOUS
  <2>. QED BY <2>1, <2>2, <2>3, <2>6, <2>7, Zenon
<1>. HIDE DEF P
<1>4. Is(sum)
  <2>. DEFINE h == [q \in (1 .. LimbBits) \X Nat |-> q[2] + P(q[1])]
  <2>1. ASSUME NEW n \in 1 .. LimbBits, NEW d \in Nat
        PROVE  h[<<n, d>>] = d + P(n) /\ h[<<n, d>>] \in Nat
    BY <1>3
  <2>. HIDE DEF h
  <2>2. PICK g : Recursion(g, Nat, LimbBits, 0, h)
    BY <1>2, <2>1, PrimitiveRecursion, Zenon
  <2>3. ASSUME NEW n \in 0 .. LimbBits PROVE g[n] = Body(g, n)
    <3>1. CASE n = 0
      BY <2>2, <3>1, Zenon DEF Recursion
    <3>2. CASE n # 0
      <4>1. n \in 1 .. LimbBits /\ n - 1 \in 0 .. LimbBits
        BY <1>2, <3>2
      <4>2. g[n - 1] \in Nat /\ g[n] = h[<<n, g[n - 1]>>]
        BY <2>2, <4>1, Zenon DEF Recursion
      <4>. QED BY <2>1, <3>2, <4>1, <4>2, Zenon
    <3>. QED BY <3>1, <3>2
  <2>. HIDE DEF Body
  <2>4. Is(g)
    <3>1. g = [n \in 0 .. LimbBits |-> g[n]]
      BY <2>2, Zenon DEF Recursion
    <3>. QED BY <2>3, <3>1, Zenon
  <2>. HIDE DEF Is
  <2>. QED BY <2>4, Zenon
<1>. HIDE DEF sum
<1>5. ASSUME NEW n \in 0 .. LimbBits PROVE sum[n] = Body(sum, n)
  <2>. DEFINE B(k) == Body(sum, k)
  <2>1. sum = [k \in 0 .. LimbBits |-> B(k)]
    BY <1>4, Zenon
  <2>. HIDE DEF B
  <2>2. sum[n] = B(n)
    BY <2>1
  <2>. QED BY <2>2, Zenon DEF B
<1>. HIDE DEF Is
<1>. DEFINE S == {n \in Nat : sum[n] \in Nat /\ sum[n] < 2^n}
<1>6. 0 \in S
  <2>1. 0 \in 0 .. LimbBits /\ 2^0 = 1
    BY <1>2
  <2>2. sum[0] = 0
    BY <1>5, <2>1, Zenon
  <2>. QED BY <2>1, <2>2
<1>7. ASSUME NEW k \in 0 .. (LimbBits - 1), k \in S PROVE k + 1 \in S
  <2>1. k + 1 \in 1 .. LimbBits /\ k + 1 \in 0 .. LimbBits /\ k + 1 # 0 /\ (k + 1) - 1 = k
        /\ k + 1 \in Nat
    BY <1>2
  <2>2. sum[k + 1] = sum[k] + P(k + 1)
    BY <1>5, <2>1, Zenon
  <2>3. 2^k \in Nat /\ 2^(k + 1) = 2 * 2^k /\ P(k + 1) \in Nat /\ P(k + 1) <= 2^k
    BY <1>3, <2>1, Zenon
  <2>4. sum[k] \in Nat /\ sum[k] < 2^k
    BY <1>7
  <2>5. ASSUME NEW a \in Nat, NEW b \in Nat, NEW p \in Nat, a < p, b <= p
        PROVE  a + b \in Nat /\ a + b < 2 * p
    BY <2>5
  <2>6. sum[k + 1] \in Nat /\ sum[k + 1] < 2^(k + 1)
    <3>. HIDE DEF P
    <3>1. sum[k] + P(k + 1) \in Nat /\ sum[k] + P(k + 1) < 2 * 2^k
      BY <2>3, <2>4, <2>5, Zenon
    <3>. QED BY <2>2, <2>3, <3>1, Zenon
  <2>. QED BY <2>1, <2>6, Zenon
<1>8. 0 .. LimbBits \subseteq S
  <2>. HIDE DEF S
  <2>. QED BY <1>2, <1>6, <1>7, InductionUpTo, Zenon
<1>9. sum[LimbBits] \in Nat /\ sum[LimbBits] < 2^LimbBits
  <2>1. LimbBits \in 0 .. LimbBits
    BY <1>2
  <2>. QED BY <1>8, <2>1, Zenon
<1>10. sum[LimbBits] \in Nat /\ sum[LimbBits] < LimbBase
  BY <1>9, ScaleAssumption, Zenon
<1>. HIDE DEF S, Body
<1>. QED BY <1>1, <1>10, Widths DEF Limb

(* The halves of a product of two limbs are limbs.                          *)
LEMMA HalvesLimb ==
    ASSUME NEW x \in Limb, NEW y \in Limb
    PROVE  Lo(x, y) \in Limb /\ Hi(x, y) \in Limb
<1>1. x \in Nat /\ y \in Nat /\ x <= LimbBase - 1 /\ y <= LimbBase - 1 /\ LimbBase - 1 \in Nat
  BY Widths DEF Limb
<1>2. ASSUME NEW a \in Nat, NEW b \in Nat, NEW c \in Nat, a <= c, b <= c PROVE a * b <= c * c
  <2>1. a * b <= c * b
    BY <1>2
  <2>2. c * b <= c * c
    BY <1>2
  <2>. QED BY <2>1, <2>2
<1>3. PICK s \in Nat : s = x * y
  BY <1>1
<1>4. s <= (LimbBase - 1) * (LimbBase - 1)
  BY <1>1, <1>2, <1>3
<1>5. (LimbBase - 1) * (LimbBase - 1) < LimbBase * LimbBase
  BY Widths
<1>6. s < LimbBase * LimbBase
  BY <1>4, <1>5, Widths
<1>7. PICK q \in Nat : q = s \div LimbBase
  BY LimbDivMod
<1>8. s >= LimbBase * q
  <2>1. s = (s % LimbBase) + LimbBase * q /\ s % LimbBase \in Limb
    BY <1>7, LimbDivMod
  <2>. QED BY <2>1, Widths DEF Limb
<1>9. q < LimbBase
  <2>. SUFFICES ASSUME q >= LimbBase PROVE FALSE
    BY Widths
  <2>1. LimbBase * LimbBase <= LimbBase * q
    BY Widths, Monotone
  <2>. QED BY <1>6, <1>8, <2>1, Widths
<1>10. q \in Limb /\ s % LimbBase \in Limb
  BY <1>9, Widths, LimbDivMod DEF Limb
<1>. QED BY <1>3, <1>7, <1>10 DEF Lo, Hi

(* The running sum of a column of a product is a limb, the carries counted  *)
(* beside it a number.                                                      *)
LEMMA ColumnType ==
    ASSUME NEW terms \in Seq(Nat)
    PROVE  Column(terms)[1] \in Limb /\ Column(terms)[2] \in Nat
<1>. DEFINE n == Len(terms)
            D == Limb \X Nat
            Step(i, p) == <<(p[1] + terms[i]) % LimbBase,
                            p[2] + (p[1] + terms[i]) \div LimbBase>>
            Body(v, i) == IF i = 0 THEN <<0, 0>> ELSE Step(i, v[i - 1])
            Is(v) == v = [i \in 0 .. n |-> Body(v, i)]
            at == CHOOSE v : Is(v)
<1>1. Column(terms) = at[n]
  BY DEF Column
<1>2. n \in Nat /\ <<0, 0>> \in D
  BY Widths DEF Limb
<1>3. ASSUME NEW i \in 1 .. n, NEW p \in D PROVE Step(i, p) \in D
  <2>1. terms[i] \in Nat
    OBVIOUS
  <2>2. p[1] \in Limb /\ p[2] \in Nat
    OBVIOUS
  <2>3. p[1] + terms[i] \in Nat
    BY <2>1, <2>2, Widths DEF Limb
  <2>4. (p[1] + terms[i]) % LimbBase \in Limb /\ (p[1] + terms[i]) \div LimbBase \in Nat
    BY <2>3, LimbDivMod, Zenon
  <2>5. \A x, y \in Nat : x + y \in Nat
    OBVIOUS
  <2>6. p[2] + (p[1] + terms[i]) \div LimbBase \in Nat
    BY <2>2, <2>4, <2>5, Zenon
  <2>. QED BY <2>4, <2>6
<1>. HIDE DEF n, Step, D
<1>4. Is(at)
  <2>. DEFINE h == [q \in (1 .. n) \X D |-> Step(q[1], q[2])]
  <2>1. ASSUME NEW i \in 1 .. n, NEW d \in D
        PROVE  h[<<i, d>>] = Step(i, d) /\ h[<<i, d>>] \in D
    <3>1. h[<<i, d>>] = Step(i, d)
      OBVIOUS
    <3>. QED BY <1>3, <3>1, Zenon
  <2>. HIDE DEF h
  <2>2. PICK g : Recursion(g, D, n, <<0, 0>>, h)
    BY <1>2, <2>1, PrimitiveRecursion, Zenon
  <2>3. ASSUME NEW i \in 0 .. n PROVE g[i] = Body(g, i)
    <3>1. CASE i = 0
      BY <2>2, <3>1, Zenon DEF Recursion
    <3>2. CASE i # 0
      <4>1. i \in 1 .. n /\ i - 1 \in 0 .. n
        BY <1>2, <3>2
      <4>2. g[i - 1] \in D /\ g[i] = h[<<i, g[i - 1]>>]
        BY <2>2, <4>1, Zenon DEF Recursion
      <4>. QED BY <2>1, <3>2, <4>1, <4>2, Zenon
    <3>. QED BY <3>1, <3>2, Zenon
  <2>. HIDE DEF Body
  <2>4. Is(g)
    <3>1. g = [i \in 0 .. n |-> g[i]]
      BY <2>2, Zenon DEF Recursion
    <3>. QED BY <2>3, <3>1, Zenon
  <2>. HIDE DEF Is
  <2>. QED BY <2>4, Zenon
<1>. HIDE DEF at
<1>5. ASSUME NEW i \in 0 .. n PROVE at[i] = Body(at, i)
  <2>. DEFINE B(k) == Body(at, k)
  <2>1. at = [k \in 0 .. n |-> B(k)]
    BY <1>4, Zenon
  <2>. HIDE DEF B
  <2>2. at[i] = B(i)
    BY <2>1
  <2>. QED BY <2>2, Zenon DEF B
<1>. HIDE DEF Is
<1>. DEFINE S == {i \in Nat : at[i] \in D}
<1>6. 0 \in S
  <2>1. 0 \in 0 .. n /\ 0 \in Nat
    BY <1>2
  <2>. QED BY <1>2, <1>5, <2>1, Zenon
<1>7. ASSUME NEW k \in 0 .. (n - 1), k \in S PROVE k + 1 \in S
  <2>1. k + 1 \in 1 .. n /\ k + 1 \in 0 .. n /\ k + 1 # 0 /\ (k + 1) - 1 = k /\ k + 1 \in Nat
    BY <1>2
  <2>2. at[k + 1] = Step(k + 1, at[k])
    BY <1>5, <2>1, Zenon
  <2>. QED BY <1>3, <1>7, <2>1, <2>2, Zenon
<1>8. 0 .. n \subseteq S
  <2>. HIDE DEF S
  <2>. QED BY <1>2, <1>6, <1>7, InductionUpTo, Zenon
<1>9. at[n] \in D
  <2>1. n \in 0 .. n
    BY <1>2
  <2>. QED BY <1>8, <2>1, Zenon
<1>. QED BY <1>1, <1>9 DEF D

(* The product of the interpreter's and the folder's library is a number    *)
(* below 2^256.                                                             *)
LEMMA IntxMulType ==
    ASSUME NEW a \in Nat, NEW b \in Nat
    PROVE  IntxMul(a, b) \in Nat
<1>. DEFINE w == intxToU256Value(b)
            Step(i, p) == (p * LimbBase + a * w[5 - i]) % WordBase
            Body(v, i) == IF i = 0 THEN 0 ELSE Step(i, v[i - 1])
            Is(v) == v = [i \in 0 .. 4 |-> Body(v, i)]
            at == CHOOSE v : Is(v)
<1>1. IntxMul(a, b) = at[4]
  BY DEF IntxMul
<1>2. 4 \in Nat /\ 0 \in Nat
  OBVIOUS
<1>3. ASSUME NEW i \in 1 .. 4, NEW p \in Nat PROVE Step(i, p) \in Nat
  <2>1. w \in Word
    BY DigitsExact
  <2>. HIDE DEF w
  <2>2. 5 - i \in 1 .. 4
    OBVIOUS
  <2>3. w[5 - i] \in Nat
    BY <2>1, <2>2, Widths DEF Word, Limb
  <2>4. p * LimbBase + a * w[5 - i] \in Nat
    BY <2>3, Widths
  <2>. QED BY <2>4, DivModAny, WordBasePositive, Zenon
<1>. HIDE DEF Step
<1>4. Is(at)
  <2>. DEFINE h == [q \in (1 .. 4) \X Nat |-> Step(q[1], q[2])]
  <2>1. ASSUME NEW i \in 1 .. 4, NEW d \in Nat
        PROVE  h[<<i, d>>] = Step(i, d) /\ h[<<i, d>>] \in Nat
    <3>1. h[<<i, d>>] = Step(i, d)
      OBVIOUS
    <3>. QED BY <1>3, <3>1, Zenon
  <2>. HIDE DEF h
  <2>2. PICK g : Recursion(g, Nat, 4, 0, h)
    BY <1>2, <2>1, PrimitiveRecursion, Zenon
  <2>3. ASSUME NEW i \in 0 .. 4 PROVE g[i] = Body(g, i)
    <3>1. CASE i = 0
      BY <2>2, <3>1, Zenon DEF Recursion
    <3>2. CASE i # 0
      <4>1. i \in 1 .. 4 /\ i - 1 \in 0 .. 4
        BY <1>2, <3>2
      <4>2. g[i - 1] \in Nat /\ g[i] = h[<<i, g[i - 1]>>]
        BY <2>2, <4>1, Zenon DEF Recursion
      <4>. QED BY <2>1, <3>2, <4>1, <4>2, Zenon
    <3>. QED BY <3>1, <3>2, Zenon
  <2>. HIDE DEF Body
  <2>4. Is(g)
    <3>1. g = [i \in 0 .. 4 |-> g[i]]
      BY <2>2, Zenon DEF Recursion
    <3>. QED BY <2>3, <3>1, Zenon
  <2>. HIDE DEF Is
  <2>. QED BY <2>4, Zenon
<1>. HIDE DEF at
<1>5. ASSUME NEW i \in 0 .. 4 PROVE at[i] = Body(at, i)
  <2>. DEFINE B(k) == Body(at, k)
  <2>1. at = [k \in 0 .. 4 |-> B(k)]
    BY <1>4, Zenon
  <2>. HIDE DEF B
  <2>2. at[i] = B(i)
    BY <2>1
  <2>. QED BY <2>2, Zenon DEF B
<1>. HIDE DEF Is
<1>. DEFINE S == {i \in Nat : at[i] \in Nat}
<1>6. 0 \in S
  <2>1. 0 \in 0 .. 4 /\ 0 \in Nat
    BY <1>2
  <2>. QED BY <1>2, <1>5, <2>1, Zenon
<1>7. ASSUME NEW k \in 0 .. (4 - 1), k \in S PROVE k + 1 \in S
  <2>1. k + 1 \in 1 .. 4 /\ k + 1 \in 0 .. 4 /\ k + 1 # 0 /\ (k + 1) - 1 = k /\ k + 1 \in Nat
    BY <1>2
  <2>2. at[k + 1] = Step(k + 1, at[k])
    BY <1>5, <2>1, Zenon
  <2>. QED BY <1>3, <1>7, <2>1, <2>2, Zenon
<1>8. 0 .. 4 \subseteq S
  <2>. HIDE DEF S
  <2>. QED BY <1>2, <1>6, <1>7, InductionUpTo, Zenon
<1>9. at[4] \in Nat
  <2>1. 4 \in 0 .. 4
    OBVIOUS
  <2>. QED BY <1>8, <2>1, Zenon
<1>. QED BY <1>1, <1>9

(* The library's modular product is a number below the modulus.             *)
LEMMA IntxMulModType ==
    ASSUME NEW a \in Nat, NEW b \in Nat, NEW m \in Nat, m > 0
    PROVE  IntxMulMod(a, b, m) \in Nat
<1>. DEFINE w == intxToU256Value(b)
            Step(i, p) == (p * LimbBase + (a % m) * w[5 - i]) % m
            Body(v, i) == IF i = 0 THEN 0 ELSE Step(i, v[i - 1])
            Is(v) == v = [i \in 0 .. 4 |-> Body(v, i)]
            at == CHOOSE v : Is(v)
<1>1. IntxMulMod(a, b, m) = at[4]
  BY DEF IntxMulMod
<1>2. 4 \in Nat /\ 0 \in Nat
  OBVIOUS
<1>3. ASSUME NEW i \in 1 .. 4, NEW p \in Nat PROVE Step(i, p) \in Nat
  <2>1. w \in Word
    BY DigitsExact
  <2>. HIDE DEF w
  <2>2. 5 - i \in 1 .. 4
    OBVIOUS
  <2>3. w[5 - i] \in Nat
    BY <2>1, <2>2, Widths DEF Word, Limb
  <2>4. PICK r \in Nat : r = a % m
    BY DivModAny
  <2>5. p * LimbBase + r * w[5 - i] \in Nat
    BY <2>3, Widths
  <2>. QED BY <2>4, <2>5, DivModAny, Zenon
<1>. HIDE DEF Step
<1>4. Is(at)
  <2>. DEFINE h == [q \in (1 .. 4) \X Nat |-> Step(q[1], q[2])]
  <2>1. ASSUME NEW i \in 1 .. 4, NEW d \in Nat
        PROVE  h[<<i, d>>] = Step(i, d) /\ h[<<i, d>>] \in Nat
    <3>1. h[<<i, d>>] = Step(i, d)
      OBVIOUS
    <3>. QED BY <1>3, <3>1, Zenon
  <2>. HIDE DEF h
  <2>2. PICK g : Recursion(g, Nat, 4, 0, h)
    BY <1>2, <2>1, PrimitiveRecursion, Zenon
  <2>3. ASSUME NEW i \in 0 .. 4 PROVE g[i] = Body(g, i)
    <3>1. CASE i = 0
      BY <2>2, <3>1, Zenon DEF Recursion
    <3>2. CASE i # 0
      <4>1. i \in 1 .. 4 /\ i - 1 \in 0 .. 4
        BY <1>2, <3>2
      <4>2. g[i - 1] \in Nat /\ g[i] = h[<<i, g[i - 1]>>]
        BY <2>2, <4>1, Zenon DEF Recursion
      <4>. QED BY <2>1, <3>2, <4>1, <4>2, Zenon
    <3>. QED BY <3>1, <3>2, Zenon
  <2>. HIDE DEF Body
  <2>4. Is(g)
    <3>1. g = [i \in 0 .. 4 |-> g[i]]
      BY <2>2, Zenon DEF Recursion
    <3>. QED BY <2>3, <3>1, Zenon
  <2>. HIDE DEF Is
  <2>. QED BY <2>4, Zenon
<1>. HIDE DEF at
<1>5. ASSUME NEW i \in 0 .. 4 PROVE at[i] = Body(at, i)
  <2>. DEFINE B(k) == Body(at, k)
  <2>1. at = [k \in 0 .. 4 |-> B(k)]
    BY <1>4, Zenon
  <2>. HIDE DEF B
  <2>2. at[i] = B(i)
    BY <2>1
  <2>. QED BY <2>2, Zenon DEF B
<1>. HIDE DEF Is
<1>. DEFINE S == {i \in Nat : at[i] \in Nat}
<1>6. 0 \in S
  <2>1. 0 \in 0 .. 4 /\ 0 \in Nat
    BY <1>2
  <2>. QED BY <1>2, <1>5, <2>1, Zenon
<1>7. ASSUME NEW k \in 0 .. (4 - 1), k \in S PROVE k + 1 \in S
  <2>1. k + 1 \in 1 .. 4 /\ k + 1 \in 0 .. 4 /\ k + 1 # 0 /\ (k + 1) - 1 = k /\ k + 1 \in Nat
    BY <1>2
  <2>2. at[k + 1] = Step(k + 1, at[k])
    BY <1>5, <2>1, Zenon
  <2>. QED BY <1>3, <1>7, <2>1, <2>2, Zenon
<1>8. 0 .. 4 \subseteq S
  <2>. HIDE DEF S
  <2>. QED BY <1>2, <1>6, <1>7, InductionUpTo, Zenon
<1>9. at[4] \in Nat
  <2>1. 4 \in 0 .. 4
    OBVIOUS
  <2>. QED BY <1>8, <2>1, Zenon
<1>. QED BY <1>1, <1>9

(* One ADCX/ADOX row keeps the accumulator a word.                          *)
LEMMA AdxRowWord ==
    ASSUME NEW w \in Word, NEW ai \in Limb, NEW b \in Word,
           NEW i \in 1 .. 4, NEW first \in 1 .. 2, first <= 5 - i
    PROVE  AdxRow(w, ai, b, i, first) \in Word
<1>. DEFINE m == first - 1
            n == (5 - i) - m
            D == [acc : Word, cf : Nat, of : Nat]
            start == [acc |-> w, cf |-> 0, of |-> 0]
            Step(j, p) ==
              LET c  == i + j - 1
                  lo == p.acc[c] + Lo(ai, b[j]) + p.cf
                  hi == p.acc[c + 1] + Hi(ai, b[j]) + p.of
              IN  IF c < 4
                  THEN [acc |-> [p.acc EXCEPT ![c] = lo % LimbBase,
                                              ![c + 1] = hi % LimbBase],
                        cf |-> lo \div LimbBase, of |-> hi \div LimbBase]
                  ELSE [acc |-> [p.acc EXCEPT ![c] = lo % LimbBase],
                        cf |-> lo \div LimbBase, of |-> p.of]
            Body(v, j) == IF j = m THEN start ELSE Step(j, v[j - 1])
            Is(v) == v = [j \in m .. (5 - i) |-> Body(v, j)]
            step == CHOOSE v : Is(v)
<1>1. AdxRow(w, ai, b, i, first) = step[5 - i].acc
  BY DEF AdxRow
<1>2. m \in Nat /\ n \in Nat /\ 5 - i = m + n /\ start \in D
  OBVIOUS
<1>3. ASSUME NEW j \in (m + 1) .. (5 - i), NEW p \in D PROVE Step(j, p) \in D
  <2>. DEFINE c == i + j - 1
              lo == p.acc[c] + Lo(ai, b[j]) + p.cf
              hi == p.acc[c + 1] + Hi(ai, b[j]) + p.of
  <2>1. c \in 1 .. 4 /\ j \in 1 .. 4 /\ (c < 4 => c + 1 \in 1 .. 4)
    OBVIOUS
  <2>2. p.acc \in Word /\ p.cf \in Nat /\ p.of \in Nat
    OBVIOUS
  <2>3. b[j] \in Limb /\ p.acc[c] \in Limb /\ (c < 4 => p.acc[c + 1] \in Limb)
    BY <2>1, <2>2, Zenon DEF Word
  <2>4. Lo(ai, b[j]) \in Limb /\ Hi(ai, b[j]) \in Limb
    BY <2>3, HalvesLimb, Zenon
  <2>5. ASSUME NEW x \in Limb, NEW y \in Limb, NEW z \in Nat
        PROVE  (x + y + z) % LimbBase \in Limb /\ (x + y + z) \div LimbBase \in Nat
    <3>1. x + y + z \in Nat
      BY Widths DEF Limb
    <3>. QED BY <3>1, LimbDivMod, Zenon
  <2>6. /\ lo % LimbBase \in Limb /\ lo \div LimbBase \in Nat
        /\ c < 4 => hi % LimbBase \in Limb /\ hi \div LimbBase \in Nat
    BY <2>2, <2>3, <2>4, <2>5, Zenon
  <2>7. ASSUME NEW u \in Word, NEW k \in 1 .. 4, NEW x \in Limb PROVE [u EXCEPT ![k] = x] \in Word
    BY DEF Word
  <2>11. ASSUME NEW u \in Word, NEW x \in Nat, NEW y \in Nat
         PROVE  [acc |-> u, cf |-> x, of |-> y] \in D
    OBVIOUS
  <2>. HIDE DEF c, lo, hi
  <2>8. [p.acc EXCEPT ![c] = lo % LimbBase] \in Word
    BY <2>1, <2>2, <2>6, <2>7, Zenon
  <2>9. CASE c < 4
    <3>1. [[p.acc EXCEPT ![c] = lo % LimbBase] EXCEPT ![c + 1] = hi % LimbBase] \in Word
      BY <2>1, <2>6, <2>7, <2>8, <2>9, Zenon
    <3>2. Step(j, p) = [acc |-> [p.acc EXCEPT ![c] = lo % LimbBase, ![c + 1] = hi % LimbBase],
                        cf |-> lo \div LimbBase, of |-> hi \div LimbBase]
      BY <2>9, Zenon DEF c, lo, hi
    <3>3. [p.acc EXCEPT ![c] = lo % LimbBase, ![c + 1] = hi % LimbBase] \in Word
      BY <3>1, Zenon
    <3>. HIDE DEF Step, D
    <3>. QED BY <2>6, <2>9, <2>11, <3>2, <3>3, Zenon
  <2>10. CASE ~(c < 4)
    <3>1. Step(j, p) = [acc |-> [p.acc EXCEPT ![c] = lo % LimbBase],
                        cf |-> lo \div LimbBase, of |-> p.of]
      BY <2>10, Zenon DEF c, lo, hi
    <3>. HIDE DEF Step, D
    <3>. QED BY <2>2, <2>6, <2>8, <2>11, <3>1, Zenon
  <2>. QED BY <2>9, <2>10, Zenon
<1>. HIDE DEF Step, D, start
<1>4. Is(step)
  <2>. DEFINE h == [q \in (1 .. n) \X D |-> Step(m + q[1], q[2])]
  <2>1. ASSUME NEW k \in 1 .. n, NEW d \in D
        PROVE  h[<<k, d>>] = Step(m + k, d) /\ h[<<k, d>>] \in D
    <3>1. h[<<k, d>>] = Step(m + k, d)
      OBVIOUS
    <3>2. m + k \in (m + 1) .. (5 - i)
      BY <1>2
    <3>. QED BY <1>3, <3>1, <3>2, Zenon
  <2>. HIDE DEF h
  <2>2. PICK g : Recursion(g, D, n, start, h)
    BY <1>2, <2>1, PrimitiveRecursion, Zenon
  <2>. DEFINE f == [j \in m .. (5 - i) |-> g[j - m]]
  <2>3. ASSUME NEW j \in m .. (5 - i) PROVE f[j] = Body(f, j)
    <3>1. f[j] = g[j - m]
      OBVIOUS
    <3>2. CASE j = m
      <4>1. j - m = 0
        BY <1>2, <3>2
      <4>. QED BY <2>2, <3>1, <3>2, <4>1, Zenon DEF Recursion
    <3>3. CASE j # m
      <4>1. /\ j - m \in 1 .. n /\ (j - m) - 1 \in 0 .. n /\ j - 1 \in m .. (5 - i)
            /\ m + (j - m) = j /\ (j - 1) - m = (j - m) - 1
        BY <1>2, <3>3
      <4>2. f[j - 1] = g[(j - m) - 1]
        BY <4>1, Zenon
      <4>. HIDE DEF f
      <4>3. g[(j - m) - 1] \in D /\ g[j - m] = h[<<j - m, g[(j - m) - 1]>>]
        BY <2>2, <4>1, Zenon DEF Recursion
      <4>4. g[j - m] = Step(m + (j - m), g[(j - m) - 1])
        BY <2>1, <4>1, <4>3, Zenon
      <4>. QED BY <3>1, <3>3, <4>1, <4>2, <4>4, Zenon
    <3>. QED BY <3>2, <3>3, Zenon
  <2>4. f = [j \in m .. (5 - i) |-> f[j]]
    BY Zenon
  <2>. HIDE DEF f, Body
  <2>5. Is(f)
    BY <2>3, <2>4, Zenon
  <2>. HIDE DEF Is
  <2>. QED BY <2>5, Zenon
<1>. HIDE DEF step
<1>5. ASSUME NEW j \in m .. (5 - i) PROVE step[j] = Body(step, j)
  <2>. DEFINE B(k) == Body(step, k)
  <2>1. step = [k \in m .. (5 - i) |-> B(k)]
    BY <1>4, Zenon
  <2>. HIDE DEF B
  <2>2. step[j] = B(j)
    BY <2>1
  <2>. QED BY <2>2, Zenon DEF B
<1>. HIDE DEF Is
<1>. DEFINE S == {k \in Nat : step[m + k] \in D}
<1>6. 0 \in S
  <2>1. m + 0 \in m .. (5 - i) /\ 0 \in Nat /\ m + 0 = m
    BY <1>2
  <2>. QED BY <1>2, <1>5, <2>1, Zenon
<1>7. ASSUME NEW k \in 0 .. (n - 1), k \in S PROVE k + 1 \in S
  <2>1. /\ m + (k + 1) \in (m + 1) .. (5 - i) /\ m + (k + 1) \in m .. (5 - i) /\ m + (k + 1) # m
        /\ (m + (k + 1)) - 1 = m + k /\ k + 1 \in Nat
    BY <1>2
  <2>2. step[m + (k + 1)] = Step(m + (k + 1), step[m + k])
    BY <1>5, <2>1, Zenon
  <2>. QED BY <1>3, <1>7, <2>1, <2>2, Zenon
<1>8. 0 .. n \subseteq S
  <2>. HIDE DEF S
  <2>. QED BY <1>2, <1>6, <1>7, InductionUpTo, Zenon
<1>9. step[5 - i] \in D
  <2>1. n \in 0 .. n
    BY <1>2
  <2>2. step[m + n] \in D
    BY <1>8, <2>1, Zenon
  <2>. QED BY <1>2, <2>2, Zenon
<1>. QED BY <1>1, <1>9 DEF D

(* The short product of a word and a limb, and both expansions of the full  *)
(* product, are words.                                                      *)
LEMMA ProductWords ==
    ASSUME NEW a \in Word, NEW b \in Word, NEW x \in Limb, NEW adx
    PROVE  MulU64Const(a, x) \in Word /\ lowerEvmU256MulExpr(adx, a, b) \in Word
<1>1. /\ a[1] \in Limb /\ a[2] \in Limb /\ a[3] \in Limb /\ a[4] \in Limb
      /\ b[1] \in Limb /\ b[2] \in Limb /\ b[3] \in Limb /\ b[4] \in Limb
  BY WordTuple, Zenon
<1>2. \A y \in Limb : y \in Nat
  BY Widths DEF Limb
<1>3. \A y, z \in Limb : Lo(y, z) \in Limb /\ Hi(y, z) \in Limb /\ Lo(y, z) \in Nat /\ Hi(y, z) \in Nat
  BY <1>2, HalvesLimb, Zenon
<1>4. \A t \in Seq(Nat) : Column(t)[1] \in Limb /\ Column(t)[2] \in Nat
  BY ColumnType, Zenon
<1>5. /\ \A p, q \in Nat : <<p, q>> \in Seq(Nat)
      /\ \A p, q, r \in Nat : <<p, q, r>> \in Seq(Nat)
  OBVIOUS
<1>6. \A p, q, r, s, t, u \in Nat : <<p, q, r, s, t, u>> \in Seq(Nat)
  OBVIOUS
<1>7. \A p, q, r, s, t, u, v, w \in Nat : <<p, q, r, s, t, u, v, w>> \in Seq(Nat)
  OBVIOUS
<1>8. MulU64Const(a, x) \in Word
  <2>. DEFINE r2 == Column(<<Hi(a[1], x), Lo(a[2], x)>>)
              r3 == Column(<<Hi(a[2], x), Lo(a[3], x), r2[2]>>)
              r4 == Column(<<Hi(a[3], x), Lo(a[4], x), r3[2]>>)
  <2>1. r2[1] \in Limb /\ r2[2] \in Nat
    BY <1>1, <1>3, <1>4, <1>5, Zenon
  <2>. HIDE DEF r2
  <2>2. r3[1] \in Limb /\ r3[2] \in Nat
    BY <1>1, <1>3, <1>4, <1>5, <2>1, Zenon
  <2>. HIDE DEF r3
  <2>3. r4[1] \in Limb
    BY <1>1, <1>3, <1>4, <1>5, <2>2, Zenon
  <2>. HIDE DEF r4
  <2>4. MulU64Const(a, x) = <<Lo(a[1], x), r2[1], r3[1], r4[1]>>
    BY Zenon DEF MulU64Const, r2, r3, r4
  <2>5. Lo(a[1], x) \in Limb
    BY <1>1, <1>3, Zenon
  <2>6. <<Lo(a[1], x), r2[1], r3[1], r4[1]>> \in Word
    BY <2>1, <2>2, <2>3, <2>5, TupleWord
  <2>. QED BY <2>4, <2>6, Zenon
<1>9. lowerEvmU256MulExprLegacy(a, b) \in Word
  <2>. DEFINE r2 == Column(<<Hi(a[1], b[1]), Lo(a[1], b[2]), Lo(a[2], b[1])>>)
              r3 == Column(<<Hi(a[1], b[2]), Hi(a[2], b[1]), Lo(a[1], b[3]),
                             Lo(a[2], b[2]), Lo(a[3], b[1]), r2[2]>>)
              r4 == Column(<<Hi(a[1], b[3]), Hi(a[2], b[2]), Hi(a[3], b[1]),
                             Lo(a[1], b[4]), Lo(a[2], b[3]), Lo(a[3], b[2]),
                             Lo(a[4], b[1]), r3[2]>>)
  <2>1. r2[1] \in Limb /\ r2[2] \in Nat
    BY <1>1, <1>3, <1>4, <1>5, Zenon
  <2>. HIDE DEF r2
  <2>2. r3[1] \in Limb /\ r3[2] \in Nat
    BY <1>1, <1>3, <1>4, <1>6, <2>1, Zenon
  <2>. HIDE DEF r3
  <2>3. r4[1] \in Limb
    BY <1>1, <1>3, <1>4, <1>7, <2>2, Zenon
  <2>. HIDE DEF r4
  <2>4. lowerEvmU256MulExprLegacy(a, b) = <<Lo(a[1], b[1]), r2[1], r3[1], r4[1]>>
    BY Zenon DEF lowerEvmU256MulExprLegacy, r2, r3, r4
  <2>5. Lo(a[1], b[1]) \in Limb
    BY <1>1, <1>3, Zenon
  <2>6. <<Lo(a[1], b[1]), r2[1], r3[1], r4[1]>> \in Word
    BY <2>1, <2>2, <2>3, <2>5, TupleWord
  <2>. QED BY <2>4, <2>6, Zenon
<1>10. lowerEvmU256MulExprAdx(a, b) \in Word
  <2>. DEFINE row0 == <<Lo(a[1], b[1]), Hi(a[1], b[1]), 0, 0>>
              row1 == AdxRow(row0, a[1], b, 1, 2)
              row2 == AdxRow(row1, a[2], b, 2, 1)
              row3 == AdxRow(row2, a[3], b, 3, 1)
  <2>1. 0 \in Limb
    BY Widths DEF Limb
  <2>2. row0 \in Word
    BY <1>1, <1>3, <2>1, TupleWord, Zenon
  <2>. HIDE DEF row0
  <2>3. /\ 1 \in 1 .. 4 /\ 2 \in 1 .. 4 /\ 3 \in 1 .. 4 /\ 4 \in 1 .. 4 /\ 1 \in 1 .. 2 /\ 2 \in 1 .. 2
        /\ 2 <= 5 - 1 /\ 1 <= 5 - 2 /\ 1 <= 5 - 3 /\ 1 <= 5 - 4
    OBVIOUS
  <2>4. row1 \in Word
    BY <1>1, <2>2, <2>3, AdxRowWord, Zenon
  <2>. HIDE DEF row1
  <2>5. row2 \in Word
    BY <1>1, <2>3, <2>4, AdxRowWord, Zenon
  <2>. HIDE DEF row2
  <2>6. row3 \in Word
    BY <1>1, <2>3, <2>5, AdxRowWord, Zenon
  <2>. HIDE DEF row3
  <2>7. AdxRow(row3, a[4], b, 4, 1) \in Word
    BY <1>1, <2>3, <2>6, AdxRowWord, Zenon
  <2>8. lowerEvmU256MulExprAdx(a, b) = AdxRow(row3, a[4], b, 4, 1)
    BY Zenon DEF lowerEvmU256MulExprAdx, row0, row1, row2, row3
  <2>. QED BY <2>7, <2>8, Zenon
<1>. QED BY <1>8, <1>9, <1>10, Zenon DEF lowerEvmU256MulExpr

(* A folded number, and the limbs of a number a runtime helper returns.     *)
LEMMA NumberSound ==
    ASSUME NEW n \in Nat
    PROVE  Sound(Fold(n)) /\ Sound(Inst(intxToU256Value(n)))
BY DigitsExact, ConstSound, WideSound, Zenon DEF Fold

(* The constants 0 and 1, and words whose upper limbs are 0.                *)
LEMMA NarrowWords ==
    ASSUME NEW x \in Limb, NEW y \in Limb
    PROVE  /\ ZeroWord \in Word /\ OneWord \in Word
           /\ <<x, 0, 0, 0>> \in Word /\ Sound(InstIn(<<x, 0, 0, 0>>, U64))
           /\ <<x, y, 0, 0>> \in Word /\ Sound(InstIn(<<x, y, 0, 0>>, U128))
<1>1. 0 \in Limb /\ 1 \in Limb
  BY Widths DEF Limb
<1>2. /\ ZeroWord \in Word /\ OneWord \in Word
      /\ <<x, 0, 0, 0>> \in Word /\ <<x, y, 0, 0>> \in Word
  BY <1>1, TupleWord, Zenon DEF ZeroWord, OneWord
<1>3. RangeOf(<<x, 0, 0, 0>>) <= U64 /\ RangeOf(<<x, y, 0, 0>>) <= U128
  BY DEF RangeOf, HasUpper, U64, U128, U256
<1>4. U64 \in {U64, U128, U256} /\ U128 \in {U64, U128, U256}
  OBVIOUS
<1>5. Sound(InstIn(<<x, 0, 0, 0>>, U64)) /\ Sound(InstIn(<<x, y, 0, 0>>, U128))
  BY <1>2, <1>3, <1>4, InstSound, Zenon
<1>. QED BY <1>2, <1>5

(* handleMul: the folded product, the identities, the products of one or    *)
(* two limbs and the full product keep the claims sound.                    *)
LEMMA HandleMulSound ==
    ASSUME NEW adx, NEW l, NEW r, Sound(l), Sound(r)
    PROVE  Sound(handleMul(adx, l, r))
<1>. DEFINE a == extractU256Operand(l)
            b == extractU256Operand(r)
<1>1. a \in Word /\ b \in Word
  BY SoundFacts, Zenon
<1>. HIDE DEF a, b
<1>2. a[1] \in Limb /\ b[1] \in Limb /\ Val(a) \in Nat /\ Val(b) \in Nat
  BY <1>1, WordTuple, ValBounds, Zenon
<1>3. Sound(Fold(IntxMul(Val(a), Val(b))))
  BY <1>2, IntxMulType, NumberSound, Zenon
<1>4. Sound(Const(ZeroWord)) /\ Sound(InstIn(<<Lo(a[1], b[1]), Hi(a[1], b[1]), 0, 0>>, U128))
  BY <1>2, HalvesLimb, NarrowWords, ConstSound, Zenon
<1>5. /\ Sound(Inst(MulU64Const(b, a[1]))) /\ Sound(Inst(MulU64Const(a, b[1])))
      /\ Sound(Inst(lowerEvmU256MulExpr(adx, a, b)))
  BY <1>1, <1>2, ProductWords, WideSound, Zenon
<1>. QED BY <1>3, <1>4, <1>5, Zenon DEF handleMul, a, b

(* AND, OR and XOR of two words, limb by limb, is a word; so is NOT.        *)
LEMMA LimbwiseWord ==
    ASSUME NEW a \in Word, NEW b \in Word
    PROVE  /\ Limbwise(AndTable, a, b) \in Word /\ Limbwise(OrTable, a, b) \in Word
           /\ Limbwise(XorTable, a, b) \in Word /\ NotWord(a) \in Word
<1>1. /\ a[1] \in Limb /\ a[2] \in Limb /\ a[3] \in Limb /\ a[4] \in Limb
      /\ b[1] \in Limb /\ b[2] \in Limb /\ b[3] \in Limb /\ b[4] \in Limb
  BY WordTuple, Zenon
<1>2. /\ AndTable \in [1 .. 4 -> {0, 1}] /\ OrTable \in [1 .. 4 -> {0, 1}]
      /\ XorTable \in [1 .. 4 -> {0, 1}]
  BY DEF AndTable, OrTable, XorTable
<1>3. ASSUME NEW table \in [1 .. 4 -> {0, 1}] PROVE Limbwise(table, a, b) \in Word
  <2>1. /\ Bitwise2(table, a[1], b[1]) \in Limb /\ Bitwise2(table, a[2], b[2]) \in Limb
        /\ Bitwise2(table, a[3], b[3]) \in Limb /\ Bitwise2(table, a[4], b[4]) \in Limb
    BY <1>1, BitwiseLimb, Zenon
  <2>. QED BY <2>1, TupleWord, Zenon DEF Limbwise
<1>4. \A x \in Limb : LimbNot(x) \in Limb
  BY Widths DEF LimbNot, AllOnes, Limb
<1>5. NotWord(a) \in Word
  BY <1>1, <1>4, TupleWord, Zenon DEF NotWord
<1>. QED BY <1>2, <1>3, <1>5, Zenon

(* handleAnd: the range an AND claims is the narrower operand's.            *)
LEMMA HandleAndSound ==
    ASSUME NEW l, NEW r, Sound(l), Sound(r)
    PROVE  Sound(handleAnd(l, r))
<1>. DEFINE w == Limbwise(AndTable, extractU256Operand(l), extractU256Operand(r))
<1>1. w \in Word
  BY SoundFacts, LimbwiseWord, Zenon
<1>. HIDE DEF w
<1>2. w[1] \in Limb /\ w[2] \in Limb /\ 0 \in Limb
  BY <1>1, WordTuple, Widths DEF Limb
<1>3. /\ Sound(Const(w)) /\ Sound(Inst(w)) /\ Sound(Const(ZeroWord))
      /\ Sound(InstIn(<<w[1], 0, 0, 0>>, U64)) /\ Sound(InstIn(<<w[1], w[2], 0, 0>>, U128))
  BY <1>1, <1>2, ConstSound, WideSound, NarrowWords, Zenon
<1>. QED BY <1>3, Zenon DEF handleAnd, w

(* handleOr and handleXor.                                                  *)
LEMMA HandleOrXorSound ==
    ASSUME NEW l, NEW r, Sound(l), Sound(r)
    PROVE  Sound(handleOrXor(OrTable, l, r)) /\ Sound(handleOrXor(XorTable, l, r))
<1>. DEFINE a == extractU256Operand(l)
            b == extractU256Operand(r)
<1>1. a \in Word /\ b \in Word
  BY SoundFacts, Zenon
<1>. HIDE DEF a, b
<1>2. ASSUME NEW table, Limbwise(table, a, b) \in Word PROVE Sound(handleOrXor(table, l, r))
  <2>. DEFINE w == Limbwise(table, a, b)
  <2>1. w \in Word /\ w[1] \in Limb
    BY <1>2, WordTuple, Zenon
  <2>. HIDE DEF w
  <2>2. <<w[1], b[2], b[3], b[4]>> \in Word /\ <<w[1], a[2], a[3], a[4]>> \in Word
    BY <1>1, <2>1, WordTuple, TupleWord, Zenon
  <2>3. /\ Sound(Const(w)) /\ Sound(Inst(w))
        /\ Sound(Inst(<<w[1], b[2], b[3], b[4]>>)) /\ Sound(Inst(<<w[1], a[2], a[3], a[4]>>))
    BY <2>1, <2>2, ConstSound, WideSound, Zenon
  <2>. QED BY <2>3, Zenon DEF handleOrXor, w, a, b
<1>. QED BY <1>1, <1>2, LimbwiseWord, Zenon

(* A deferred operand claims no range.                                      *)
LEMMA DeferredSound ==
    ASSUME NEW w \in Word, NEW kind \in Deferred
    PROVE  Sound(createDeferred(kind, w))
<1>. DEFINE o == createDeferred(kind, w)
<1>1. Inst(w) \in Operands /\ Inst(w).range = U256 /\ Inst(w).trap = FALSE
  BY DEF Inst, InstIn, Operands
<1>2. o \in Operands /\ o.range = U256 /\ o.trap = FALSE
  BY <1>1 DEF Operands, createDeferred
<1>3. RangeOf(extractU256Operand(o)) <= U256
  BY DEF RangeOf, U64, U128, U256
<1>. HIDE DEF o
<1>4. Sound(o)
  BY <1>2, <1>3, Zenon DEF Sound
<1>. QED BY <1>4, Zenon DEF o

(* A truth value needs one limb, whatever is compared.                      *)
LEMMA FlagSound ==
    ASSUME NEW b
    PROVE  Sound(Const(Flag(b))) /\ Sound(InstIn(Flag(b), U64))
<1>1. 0 \in Limb /\ 1 \in Limb
  BY Widths DEF Limb
<1>2. PICK x \in Limb : Flag(b) = <<x, 0, 0, 0>>
  BY <1>1, Zenon DEF Flag
<1>. QED BY <1>1, <1>2, NarrowWords, ConstSound, Zenon

(* handleNot and handleIsZero.                                              *)
LEMMA HandleNotIsZeroSound ==
    ASSUME NEW o, Sound(o)
    PROVE  Sound(handleNot(o)) /\ Sound(handleIsZero(o))
<1>. DEFINE a == extractU256Operand(o)
<1>1. a \in Word /\ o.limbs \in Word
  BY OperandWord, Zenon DEF Sound
<1>. HIDE DEF a
<1>2. "not" \in Deferred /\ "zeq" \in Deferred /\ "zne" \in Deferred
  BY DEF Deferred
<1>3. Sound(Const(NotWord(o.limbs))) /\ Sound(Inst(o.limbs)) /\ Sound(Const(Flag(o.limbs = ZeroWord)))
  BY <1>1, LimbwiseWord, ConstSound, WideSound, FlagSound, Zenon
<1>4. /\ Sound(createDeferred("not", a)) /\ Sound(createDeferred("zeq", a))
      /\ Sound(createDeferred("zne", o.limbs)) /\ Sound(createDeferred("zeq", o.limbs))
  BY <1>1, <1>2, DeferredSound, Zenon
<1>. QED BY <1>3, <1>4, Zenon DEF handleNot, handleIsZero, a

(* The word base is 2^256.                                                  *)
LEMMA WordBasePower == WordBase = 2^WordBits
<1>. DEFINE L == LimbBits
<1>1. /\ L \in Nat /\ L + L \in Nat /\ L + (L + L) \in Nat
      /\ L + (L + (L + L)) = WordBits /\ L + L <= WordBits /\ L + (L + L) <= WordBits
  BY Widths
<1>. HIDE DEF L
<1>2. 2^L = LimbBase
  BY ScaleAssumption, Zenon DEF L
<1>3. 2^(L + L) = LimbBase * LimbBase
  BY <1>1, <1>2, PowerSum, Zenon
<1>4. 2^(L + (L + L)) = LimbBase * (LimbBase * LimbBase)
  BY <1>1, <1>2, <1>3, PowerSum, Zenon
<1>5. L + (L + (L + L)) <= WordBits
  BY <1>1, Widths
<1>6. 2^(L + (L + (L + L))) = LimbBase * (LimbBase * (LimbBase * LimbBase))
  BY <1>1, <1>2, <1>4, <1>5, PowerSum, Zenon
<1>. QED BY <1>1, <1>6, Zenon DEF WordBase

(* handleClz: a word has a number of leading zeros.                         *)
LEMMA HandleClzSound ==
    ASSUME NEW o, Sound(o)
    PROVE  Sound(handleClz(o))
<1>. DEFINE n == Val(extractU256Operand(o))
            P(k) == n < 2^(WordBits - k) /\ (k < WordBits => n >= 2^(WordBits - k - 1))
            T == {m \in 0 .. WordBits : n < 2^m}
            clz == CHOOSE k \in 0 .. WordBits : P(k)
<1>1. n \in Nat /\ n < 2^WordBits
  BY SoundFacts, WordBasePower, Zenon DEF Denotes
<1>. HIDE DEF n
<1>2. WordBits \in Nat /\ WordBits \in 0 .. WordBits
  BY Widths
<1>3. WordBits \in T /\ T \subseteq Nat
  BY <1>1, <1>2
<1>4. PICK m \in T : \A y \in T : m <= y
  BY <1>3, Least, Zenon
<1>5. m \in 0 .. WordBits /\ n < 2^m
  BY <1>4, Zenon
<1>6. m > 0 => n >= 2^(m - 1)
  <2>. SUFFICES ASSUME m > 0 PROVE n >= 2^(m - 1)
    OBVIOUS
  <2>1. m - 1 \in 0 .. WordBits /\ ~(m <= m - 1)
    BY <1>2, <1>5
  <2>2. ~(n < 2^(m - 1))
    BY <1>4, <2>1, Zenon
  <2>3. 2^(m - 1) \in Nat
    BY <2>1, PowerType, Zenon
  <2>. QED BY <1>1, <2>2, <2>3
<1>. HIDE DEF T
<1>7. /\ WordBits - m \in 0 .. WordBits /\ WordBits - (WordBits - m) = m
      /\ WordBits - (WordBits - m) - 1 = m - 1 /\ (WordBits - m < WordBits => m > 0)
  BY <1>2, <1>5
<1>8. P(WordBits - m)
  BY <1>5, <1>6, <1>7, Zenon
<1>. HIDE DEF P
<1>9. clz \in 0 .. WordBits
  BY <1>7, <1>8, Zenon
<1>10. clz \in Nat
  BY <1>2, <1>9
<1>. HIDE DEF clz
<1>11. Sound(Inst(intxToU256Value(clz)))
  BY <1>10, NumberSound, Zenon
<1>. QED BY <1>11, Zenon DEF handleClz, clz, P, n

(* handleCompareOp: a comparison, signed or not, gives a truth value.       *)
LEMMA HandleCompareSound ==
    ASSUME NEW op \in {"LT", "GT", "SLT", "SGT", "EQ"}, NEW l, NEW r, Sound(l), Sound(r)
    PROVE  Sound(handleCompareOp(op, l, r))
<1>. DEFINE a == extractU256Operand(l)
            b == extractU256Operand(r)
            folded == CASE op = "EQ"  -> a = b
                        [] op = "LT"  -> Val(a) < Val(b)
                        [] op = "GT"  -> Val(a) > Val(b)
                        [] op = "SLT" -> IntxSigned(Val(a)) < IntxSigned(Val(b))
                        [] op = "SGT" -> IntxSigned(Val(a)) > IntxSigned(Val(b))
            full == IF op = "EQ" THEN Flag(a = b) ELSE handleCompareGT_LT(op, a, b)
<1>1. Sound(Const(Flag(folded)))
  <2>. HIDE DEF folded
  <2>. QED BY FlagSound, Zenon
<1>2. \A x, y : /\ Sound(handleCompareEqU64(x, y)) /\ Sound(handleCompareLtRhsU64(x, y))
                /\ Sound(handleCompareGtRhsU64(x, y))
  BY FlagSound, Zenon DEF handleCompareEqU64, handleCompareLtRhsU64, handleCompareGtRhsU64
<1>3. \E x : full = Flag(x)
  <2>. HIDE DEF a, b
  <2>. QED BY DEF handleCompareGT_LT
<1>4. Sound(InstIn(full, U64))
  <2>. HIDE DEF full
  <2>. QED BY <1>3, FlagSound, Zenon
<1>. HIDE DEF folded, full
<1>5. handleCompareOp(op, l, r) =
        IF BothConst(l, r) THEN Const(Flag(folded))
        ELSE IF op = "EQ" /\ isConstU64(l) THEN handleCompareEqU64(r, a[1])
        ELSE IF op = "EQ" /\ isConstU64(r) THEN handleCompareEqU64(l, b[1])
        ELSE IF op = "LT" /\ isConstU64(r) THEN handleCompareLtRhsU64(l, b[1])
        ELSE IF op = "LT" /\ isConstU64(l) THEN handleCompareGtRhsU64(r, a[1])
        ELSE IF op = "GT" /\ isConstU64(r) THEN handleCompareGtRhsU64(l, b[1])
        ELSE IF op = "GT" /\ isConstU64(l) THEN handleCompareLtRhsU64(r, a[1])
        ELSE InstIn(full, U64)
  BY DEF handleCompareOp, folded, full
<1>. HIDE DEF a, b
<1>. QED BY <1>1, <1>2, <1>4, <1>5, Zenon

----------------------------------------------------------------------------
(* Shifts, BYTE and SIGNEXTEND.                                            *)

(* Four limbs by index make a word.                                         *)
LEMMA LimbsWord ==
    ASSUME NEW f, f[0] \in Limb, f[1] \in Limb, f[2] \in Limb, f[3] \in Limb
    PROVE  Limbs(f) \in Word
BY TupleWord, Zenon DEF Limbs

(* The OR of two limbs is a limb.                                           *)
LEMMA OrLimb ==
    ASSUME NEW x \in Limb, NEW y \in Limb
    PROVE  LimbOr(x, y) \in Limb
<1>1. <<0, 1, 1, 1>> \in [1 .. 4 -> {0, 1}]
  OBVIOUS
<1>. QED BY <1>1, BitwiseLimb, Zenon DEF LimbOr

(* A limb of a shift by a constant amount: from one limb of the operand, or *)
(* from two.                                                                *)
LEMMA ShiftConstWord ==
    ASSUME NEW v \in Word, NEW s \in Nat, NEW fill \in Limb
    PROVE  LeftShiftConst(v, s) \in Word /\ RightShiftConst(v, s, fill) \in Word
<1>. DEFINE comp == s \div LimbBits
            m == s % LimbBits
<1>1. comp \in Nat /\ m \in Int /\ LimbBits - m \in Int /\ 0 \in Limb
  BY Widths DEF Limb
<1>2. \A k \in 1 .. 4 : v[k] \in Limb
  BY DEF Word
<1>. HIDE DEF comp, m
<1>3. \A x, y \in Limb : /\ Shl(x, m) \in Limb /\ UShr(x, m) \in Limb /\ SShr(x, m) \in Limb
                         /\ LimbOr(Shl(x, m), UShr(y, LimbBits - m)) \in Limb
                         /\ LimbOr(UShr(x, m), Shl(y, LimbBits - m)) \in Limb
  BY <1>1, ShiftLimb, SShrLimb, OrLimb, Zenon
<1>4. LeftShiftConst(v, s) \in Word
  <2>. DEFINE G(i) == IF i < comp THEN 0
                      ELSE IF m = 0 THEN v[i - comp + 1]
                      ELSE IF i = comp THEN Shl(v[1], m)
                      ELSE LimbOr(Shl(v[i - comp + 1], m), UShr(v[i - comp], LimbBits - m))
  <2>1. ASSUME NEW i \in 0 .. 3 PROVE G(i) \in Limb
    <3>1. CASE i < comp
      BY <1>1, <3>1, Zenon
    <3>2. CASE ~(i < comp)
      <4>1. i - comp + 1 \in 1 .. 4 /\ 1 \in 1 .. 4 /\ (i # comp => i - comp \in 1 .. 4)
        BY <1>1, <3>2
      <4>. QED BY <1>2, <1>3, <3>2, <4>1, Zenon
    <3>. QED BY <3>1, <3>2, Zenon
  <2>2. LeftShiftConst(v, s) = Limbs([i \in 0 .. 3 |-> G(i)])
    BY Zenon DEF LeftShiftConst, comp, m
  <2>. HIDE DEF G
  <2>3. \A i \in 0 .. 3 : [j \in 0 .. 3 |-> G(j)][i] \in Limb
    BY <2>1, Zenon
  <2>4. 0 \in 0 .. 3 /\ 1 \in 0 .. 3 /\ 2 \in 0 .. 3 /\ 3 \in 0 .. 3
    OBVIOUS
  <2>. QED BY <2>2, <2>3, <2>4, LimbsWord, Zenon
<1>5. RightShiftConst(v, s, fill) \in Word
  <2>. DEFINE G(i) == IF i + comp > 3 THEN fill
                      ELSE IF m = 0 THEN v[i + comp + 1]
                      ELSE IF i + comp = 3 THEN IF fill = 0 THEN UShr(v[4], m) ELSE SShr(v[4], m)
                      ELSE LimbOr(UShr(v[i + comp + 1], m), Shl(v[i + comp + 2], LimbBits - m))
  <2>1. ASSUME NEW i \in 0 .. 3 PROVE G(i) \in Limb
    <3>1. CASE i + comp > 3
      BY <3>1, Zenon
    <3>2. CASE ~(i + comp > 3)
      <4>1. i + comp + 1 \in 1 .. 4 /\ 4 \in 1 .. 4 /\ (i + comp # 3 => i + comp + 2 \in 1 .. 4)
        BY <1>1, <3>2
      <4>. QED BY <1>2, <1>3, <3>2, <4>1, Zenon
    <3>. QED BY <3>1, <3>2, Zenon
  <2>2. RightShiftConst(v, s, fill) = Limbs([i \in 0 .. 3 |-> G(i)])
    BY Zenon DEF RightShiftConst, comp, m
  <2>. HIDE DEF G
  <2>3. \A i \in 0 .. 3 : [j \in 0 .. 3 |-> G(j)][i] \in Limb
    BY <2>1, Zenon
  <2>4. 0 \in 0 .. 3 /\ 1 \in 0 .. 3 /\ 2 \in 0 .. 3 /\ 3 \in 0 .. 3
    OBVIOUS
  <2>. QED BY <2>2, <2>3, <2>4, LimbsWord, Zenon
<1>. QED BY <1>4, <1>5

(* The same for an amount known at run time only: a source index that       *)
(* wrapped around selects no limb.                                          *)
LEMMA ShiftDynamicWord ==
    ASSUME NEW v \in Word, NEW s \in Nat, NEW fill \in Limb
    PROVE  LeftShiftDynamic(v, s) \in Word /\ RightShiftDynamic(v, s, fill) \in Word
<1>. DEFINE comp == s \div LimbBits
            m == s % LimbBits
<1>1. comp \in Nat /\ m \in Int /\ LimbBits - m \in Int /\ 0 \in Limb
  BY Widths DEF Limb
<1>2. \A k \in 1 .. 4 : v[k] \in Limb
  BY DEF Word
<1>. HIDE DEF comp, m
<1>3. \A x, y \in Limb : /\ UShr(x, LimbBits - m) \in Limb /\ Shl(x, LimbBits - m) \in Limb
                         /\ LimbOr(Shl(x, m), y) \in Limb /\ LimbOr(UShr(x, m), y) \in Limb
  BY <1>1, ShiftLimb, OrLimb, Zenon
<1>4. \A z \in Int : z % LimbBase \in Nat
  BY Widths
<1>5. \A z \in Nat : z < 4 => z + 1 \in 1 .. 4
  OBVIOUS
<1>6. 0 \in 0 .. 3 /\ 1 \in 0 .. 3 /\ 2 \in 0 .. 3 /\ 3 \in 0 .. 3
  OBVIOUS
<1>7. LeftShiftDynamic(v, s) \in Word
  <2>. DEFINE src(i) == (i - comp) % LimbBase
              prev(i) == (src(i) - 1) % LimbBase
              carry(i) == IF prev(i) < 4 /\ m # 0 THEN UShr(v[prev(i) + 1], LimbBits - m) ELSE 0
              G(i) == IF src(i) < 4 THEN LimbOr(Shl(v[src(i) + 1], m), carry(i)) ELSE 0
  <2>1. ASSUME NEW i \in 0 .. 3 PROVE G(i) \in Limb
    <3>1. i - comp \in Int
      BY <1>1
    <3>2. src(i) \in Nat
      BY <1>4, <3>1, Zenon
    <3>. HIDE DEF src
    <3>3. src(i) - 1 \in Int
      BY <3>2
    <3>4. prev(i) \in Nat
      BY <1>4, <3>3, Zenon
    <3>. HIDE DEF prev
    <3>5. carry(i) \in Limb
      BY <1>1, <1>2, <1>3, <1>5, <3>4, Zenon
    <3>. HIDE DEF carry
    <3>. QED BY <1>1, <1>2, <1>3, <1>5, <3>2, <3>5, Zenon
  <2>2. LeftShiftDynamic(v, s) = Limbs([i \in 0 .. 3 |-> G(i)])
    BY Zenon DEF LeftShiftDynamic, comp, m
  <2>. HIDE DEF G
  <2>3. \A i \in 0 .. 3 : [j \in 0 .. 3 |-> G(j)][i] \in Limb
    BY <2>1, Zenon
  <2>. QED BY <1>6, <2>2, <2>3, LimbsWord, Zenon
<1>8. RightShiftDynamic(v, s, fill) \in Word
  <2>. DEFINE src(i) == (i + comp) % LimbBase
              next(i) == (src(i) + 1) % LimbBase
              above(i) == IF next(i) < 4 THEN v[next(i) + 1] ELSE fill
              carry(i) == IF m # 0 THEN Shl(above(i), LimbBits - m) ELSE 0
              G(i) == IF src(i) < 4 THEN LimbOr(UShr(v[src(i) + 1], m), carry(i)) ELSE fill
  <2>1. ASSUME NEW i \in 0 .. 3 PROVE G(i) \in Limb
    <3>1. i + comp \in Int
      BY <1>1
    <3>2. src(i) \in Nat
      BY <1>4, <3>1, Zenon
    <3>. HIDE DEF src
    <3>3. src(i) + 1 \in Int
      BY <3>2
    <3>4. next(i) \in Nat
      BY <1>4, <3>3, Zenon
    <3>. HIDE DEF next
    <3>5. above(i) \in Limb
      BY <1>2, <1>5, <3>4, Zenon
    <3>. HIDE DEF above
    <3>6. carry(i) \in Limb
      BY <1>1, <1>3, <3>5, Zenon
    <3>. HIDE DEF carry
    <3>. QED BY <1>2, <1>3, <1>5, <3>2, <3>6, Zenon
  <2>2. RightShiftDynamic(v, s, fill) = Limbs([i \in 0 .. 3 |-> G(i)])
    BY Zenon DEF RightShiftDynamic, comp, m
  <2>. HIDE DEF G
  <2>3. \A i \in 0 .. 3 : [j \in 0 .. 3 |-> G(j)][i] \in Limb
    BY <2>1, Zenon
  <2>. QED BY <1>6, <2>2, <2>3, LimbsWord, Zenon
<1>. QED BY <1>7, <1>8

(* The folded shifts.                                                       *)
LEMMA IntxShiftType ==
    ASSUME NEW op \in {"SHL", "SHR", "SAR"}, NEW n \in Nat, NEW v \in Nat
    PROVE  IntxShift(op, n, v) \in Nat
<1>1. WordBits \in Nat /\ WordBase \in Nat /\ WordBase > 0
  BY Widths, WordBasePositive
<1>2. IntxSigned(v) \in Int /\ WordBase - 1 \in Nat /\ 0 \in Nat
  BY <1>1 DEF IntxSigned
<1>3. CASE ~(n >= WordBits)
  <2>1. n \in 0 .. WordBits /\ WordBits - n \in 0 .. WordBits
    BY <1>1, <1>3
  <2>2. 2^n \in Nat /\ 2^n > 0 /\ 2^(WordBits - n) \in Nat /\ 2^(WordBits - n) > 0
    <3>1. 2^n \in Nat /\ 2^n >= 1 /\ 2^(WordBits - n) \in Nat /\ 2^(WordBits - n) >= 1
      BY <2>1, PowerType, Zenon
    <3>. QED BY <3>1
  <2>3. ASSUME NEW x \in Int, NEW p \in Nat, p > 0, NEW q \in Nat, q > 0
        PROVE  (v % p) * q \in Nat /\ v \div p \in Nat /\ (x \div p) % WordBase \in Nat
    <3>1. v % p \in Nat /\ v \div p \in Nat /\ x \div p \in Int
      BY <2>3
    <3>2. \A y \in Int : y % WordBase \in Nat
      BY <1>1
    <3>3. \A y, z \in Nat : y * z \in Nat
      OBVIOUS
    <3>. QED BY <3>1, <3>2, <3>3, Zenon
  <2>4. /\ (v % 2^(WordBits - n)) * 2^n \in Nat /\ v \div 2^n \in Nat
        /\ (IntxSigned(v) \div 2^n) % WordBase \in Nat
    BY <1>2, <2>2, <2>3, Zenon
  <2>. QED BY <1>3, <2>4, Zenon DEF IntxShift
<1>4. CASE n >= WordBits
  BY <1>2, <1>4, Zenon DEF IntxShift
<1>. QED BY <1>3, <1>4

(* handleShift, for the three shifts and both forms of the amount.          *)
LEMMA HandleShiftSound ==
    ASSUME NEW op \in {"SHL", "SHR", "SAR"}, NEW s, NEW o, Sound(s), Sound(o)
    PROVE  Sound(handleShift(op, s, o))
<1>. DEFINE n == extractU256Operand(s)
            v == extractU256Operand(o)
            large == isU256GreaterOrEqual(n, WordBits)
            literal == s.kind \in {"const", "lit"}
<1>1. n \in Word /\ v \in Word
  BY SoundFacts, Zenon
<1>. HIDE DEF n, v, large, literal
<1>2. n[1] \in Nat /\ 0 \in Limb /\ AllOnes \in Limb
  BY <1>1, WordTuple, Widths DEF Limb, AllOnes
<1>3. Val(n) \in Nat /\ Val(v) \in Nat
  BY <1>1, ValBounds, Zenon
<1>4. Sound(Fold(IntxShift(op, Val(n), Val(v))))
  BY <1>3, IntxShiftType, NumberSound, Zenon
<1>5. ZeroWord \in Word
  BY <1>2, NarrowWords, Zenon
<1>6. handleLeftShift(v, n[1], literal, large) \in Word
  BY <1>1, <1>2, <1>5, ShiftConstWord, ShiftDynamicWord, Zenon DEF handleLeftShift
<1>7. handleLogicalRightShift(v, n[1], literal, large) \in Word
  BY <1>1, <1>2, <1>5, ShiftConstWord, ShiftDynamicWord, Zenon DEF handleLogicalRightShift
<1>8. handleArithmeticRightShift(v, n[1], literal, large) \in Word
  <2>. DEFINE fill == IF UShr(v[4], LimbBits - 1) = 1 THEN AllOnes ELSE 0
  <2>1. fill \in Limb
    BY <1>2, Zenon
  <2>2. handleArithmeticRightShift(v, n[1], literal, large) =
          IF large \/ (literal /\ n[1] >= WordBits) THEN <<fill, fill, fill, fill>>
          ELSE IF literal THEN RightShiftConst(v, n[1], fill)
          ELSE RightShiftDynamic(v, n[1], fill)
    BY Zenon DEF handleArithmeticRightShift
  <2>. HIDE DEF fill
  <2>3. <<fill, fill, fill, fill>> \in Word
    BY <2>1, TupleWord
  <2>. QED BY <1>1, <1>2, <2>1, <2>2, <2>3, ShiftConstWord, ShiftDynamicWord, Zenon
<1>9. handleShift(op, s, o) =
        IF BothConst(s, o) THEN Fold(IntxShift(op, Val(n), Val(v)))
        ELSE Inst(CASE op = "SHL" -> handleLeftShift(v, n[1], literal, large)
                    [] op = "SHR" -> handleLogicalRightShift(v, n[1], literal, large)
                    [] op = "SAR" -> handleArithmeticRightShift(v, n[1], literal, large))
  BY Zenon DEF handleShift, n, v, large, literal
<1>10. /\ Sound(Inst(handleLeftShift(v, n[1], literal, large)))
       /\ Sound(Inst(handleLogicalRightShift(v, n[1], literal, large)))
       /\ Sound(Inst(handleArithmeticRightShift(v, n[1], literal, large)))
  BY <1>6, <1>7, <1>8, WideSound, Zenon
<1>. QED BY <1>4, <1>9, <1>10

(* A limb has whole bytes, at least one of them, and a byte fits a limb.    *)
LEMMA ByteWidths ==
    /\ LimbBytes \in Nat /\ LimbBytes > 0 /\ LimbBytes * ByteBits = LimbBits
    /\ ByteBits \in 0 .. WordBits /\ 2^ByteBits \in Nat /\ 2^ByteBits >= 1 /\ 2^ByteBits <= LimbBase
<1>1. ByteBits \in Nat /\ ByteBits > 0 /\ LimbBits \in Nat /\ LimbBits > 0
  BY LimbAssumption, PowerAssumption, Widths
<1>2. LimbBytes \in Nat /\ LimbBits = (LimbBits % ByteBits) + ByteBits * LimbBytes
  BY <1>1, DivModAny, Zenon DEF LimbBytes
<1>3. LimbBits % ByteBits = 0
  BY ScaleAssumption
<1>4. LimbBits = ByteBits * LimbBytes /\ ByteBits * LimbBytes = LimbBytes * ByteBits
  BY <1>1, <1>2, <1>3
<1>5. LimbBytes > 0
  <2>. SUFFICES ASSUME LimbBytes = 0 PROVE FALSE
    BY <1>2
  <2>. QED BY <1>1, <1>4
<1>6. ByteBits <= LimbBits
  <2>1. ASSUME NEW p \in Nat, NEW q \in Nat, q > 0 PROVE p <= p * q
    BY <2>1
  <2>. QED BY <1>1, <1>2, <1>4, <1>5, <2>1, Zenon
<1>7. ByteBits \in 0 .. WordBits /\ LimbBits - ByteBits \in Nat /\ LimbBits - ByteBits \in 0 .. WordBits
      /\ ByteBits + (LimbBits - ByteBits) = LimbBits /\ ByteBits + (LimbBits - ByteBits) <= WordBits
  BY <1>1, <1>6, Widths
<1>8. LimbBase = 2^ByteBits * 2^(LimbBits - ByteBits)
  BY <1>1, <1>7, PowerSum, ScaleAssumption, Zenon
<1>9. 2^ByteBits \in Nat /\ 2^ByteBits >= 1 /\ 2^(LimbBits - ByteBits) \in Nat /\ 2^(LimbBits - ByteBits) >= 1
  BY <1>7, PowerType, Zenon
<1>10. ASSUME NEW p \in Nat, NEW q \in Nat, q >= 1 PROVE p <= p * q
  BY <1>10
<1>11. 2^ByteBits <= LimbBase
  BY <1>8, <1>9, <1>10, Zenon
<1>. QED BY <1>2, <1>4, <1>5, <1>7, <1>9, <1>11, Zenon

(* A byte of a limb.                                                        *)
LEMMA ByteAtLimb ==
    ASSUME NEW x \in Limb, NEW offset \in Int
    PROVE  ByteAt(x, offset) \in Limb /\ ByteAt(x, offset) < 2^ByteBits
<1>1. PICK p \in Nat : p = 2^ByteBits /\ p >= 1
  BY ByteWidths, Zenon
<1>2. UShr(x, offset) \in Limb
  BY ShiftLimb, Zenon
<1>3. ASSUME NEW y \in Limb PROVE y % p \in Limb /\ y % p < p
  <2>1. y \in Nat /\ p > 0
    BY <1>1, Widths DEF Limb
  <2>2. y % p \in Nat /\ y % p <= y /\ y % p < p
    BY <2>1, QuotientFits, DivModAny
  <2>. QED BY <2>1, <2>2, Widths DEF Limb
<1>. QED BY <1>1, <1>2, <1>3, Zenon DEF ByteAt

(* handleByte: an index within the word selects a limb of it, and a byte    *)
(* needs one limb.                                                          *)
LEMMA HandleByteSound ==
    ASSUME NEW i, NEW o, Sound(i), Sound(o)
    PROVE  Sound(handleByte(i, o))
<1>. DEFINE n == extractU256Operand(i)
            v == extractU256Operand(o)
            group == n[1] \div LimbBytes
            offset == (LimbBytes - 1 - (n[1] % LimbBytes)) * ByteBits
            out == isU256GreaterOrEqual(n, WordBytes)
            pair == IF group >= 2 THEN <<v[2], v[1]>> ELSE <<v[4], v[3]>>
<1>1. n \in Word /\ v \in Word
  BY SoundFacts, Zenon
<1>. HIDE DEF n, v
<1>2. n[1] \in Nat /\ 0 \in Limb
  BY <1>1, WordTuple, Widths DEF Limb
<1>3. LimbBytes \in Nat /\ LimbBytes > 0 /\ ByteBits \in Nat
  BY ByteWidths, LimbAssumption
<1>4. group \in Nat /\ n[1] % LimbBytes \in Nat /\ n[1] = (n[1] % LimbBytes) + LimbBytes * group
  BY <1>2, <1>3, DivModAny, Zenon
<1>5. offset \in Int
  <2>1. \A x \in Nat : (LimbBytes - 1 - x) * ByteBits \in Int
    BY <1>3
  <2>. QED BY <1>4, <2>1, Zenon
<1>6. ~out => 4 - group \in 1 .. 4
  <2>. SUFFICES ASSUME ~out PROVE group < 4
    BY <1>4
  <2>1. n[1] < 4 * LimbBytes
    BY <1>2, <1>3 DEF isU256GreaterOrEqual, WordBytes
  <2>. HIDE DEF group
  <2>2. group >= 4 => 4 * LimbBytes <= LimbBytes * group
    BY <1>3, <1>4
  <2>. QED BY <1>2, <1>3, <1>4, <2>1, <2>2
<1>7. pair[1 + (group % 2)] \in Limb
  <2>1. v[1] \in Limb /\ v[2] \in Limb /\ v[3] \in Limb /\ v[4] \in Limb
    BY <1>1, WordTuple, Zenon
  <2>2. 1 + (group % 2) \in {1, 2}
    <3>. HIDE DEF group
    <3>. QED BY <1>4
  <2>3. \A x, y \in Limb : \A k \in {1, 2} : <<x, y>>[k] \in Limb
    OBVIOUS
  <2>. HIDE DEF group
  <2>. QED BY <2>1, <2>2, <2>3, Zenon
<1>. HIDE DEF group, offset, out, pair
<1>8. ByteAt(pair[1 + (group % 2)], offset) \in Limb
  BY <1>5, <1>7, ByteAtLimb, Zenon
<1>9. ~out => ByteAt(v[4 - group], offset) \in Limb
  BY <1>1, <1>5, <1>6, ByteAtLimb, Zenon DEF Word
<1>10. Sound(Const(ZeroWord))
  BY <1>2, NarrowWords, ConstSound, Zenon
<1>11. ~out => /\ Sound(Const(<<ByteAt(v[4 - group], offset), 0, 0, 0>>))
               /\ Sound(InstIn(<<ByteAt(v[4 - group], offset), 0, 0, 0>>, U64))
  BY <1>2, <1>9, NarrowWords, ConstSound, Zenon
<1>. DEFINE byte == IF out THEN 0 ELSE ByteAt(pair[1 + (group % 2)], offset)
<1>12. byte \in Limb
  BY <1>2, <1>8, Zenon
<1>13. handleByte(i, o) =
         IF isConstant(i) /\ out THEN Const(ZeroWord)
         ELSE IF BothConst(i, o) THEN Const(<<ByteAt(v[4 - group], offset), 0, 0, 0>>)
         ELSE IF isConstant(i) THEN InstIn(<<ByteAt(v[4 - group], offset), 0, 0, 0>>, U64)
         ELSE InstIn(<<byte, 0, 0, 0>>, U64)
  BY Zenon DEF handleByte, n, v, group, offset, out, pair
<1>. HIDE DEF byte
<1>14. Sound(InstIn(<<byte, 0, 0, 0>>, U64))
  BY <1>2, <1>12, NarrowWords, Zenon
<1>. QED BY <1>10, <1>11, <1>13, <1>14, Zenon DEF BothConst

(* handleSignextend: the byte extended over its limb, and the sign over the *)
(* limbs above.                                                             *)
LEMMA HandleSignextendSound ==
    ASSUME NEW i, NEW o, Sound(i), Sound(o)
    PROVE  Sound(handleSignextend(i, o))
<1>. DEFINE n == extractU256Operand(i)
            v == extractU256Operand(o)
            word == n[1] \div LimbBytes
            offset == (n[1] % LimbBytes) * ByteBits
            sel == v[IF word \in 1 .. 3 THEN word + 1 ELSE 1]
            byte == ByteAt(sel, offset)
            sext == IF byte < 2^(ByteBits - 1) THEN byte ELSE LimbBase - 2^ByteBits + byte
            ext == LimbOr(Shl(sext, offset), sel % 2^offset)
            G(k) == IF k > word THEN SShr(sext, LimbBits - 1)
                    ELSE IF k = word THEN ext ELSE v[k + 1]
            w == IF isU256GreaterOrEqual(n, WordBytes - 1) THEN v ELSE Limbs([k \in 0 .. 3 |-> G(k)])
<1>0. handleSignextend(i, o) = Inst(w)
  BY Zenon DEF handleSignextend
<1>1. n \in Word /\ v \in Word
  BY SoundFacts, Zenon
<1>. HIDE DEF n, v
<1>2. n[1] \in Nat /\ \A k \in 1 .. 4 : v[k] \in Limb
  BY <1>1, WordTuple, Widths DEF Limb, Word
<1>3. LimbBytes \in Nat /\ LimbBytes > 0 /\ ByteBits \in Nat /\ LimbBytes * ByteBits = LimbBits
  BY ByteWidths, LimbAssumption
<1>4. offset \in Int /\ offset \in 0 .. WordBits
  <2>1. PICK q \in Nat : q = n[1] % LimbBytes /\ q <= LimbBytes
    <3>1. n[1] % LimbBytes \in Nat /\ n[1] % LimbBytes < LimbBytes
      BY <1>2, <1>3, DivModAny, Zenon
    <3>. QED BY <1>3, <3>1
  <2>2. q * ByteBits \in Nat /\ q * ByteBits <= LimbBytes * ByteBits
    BY <1>3, <2>1
  <2>3. q * ByteBits \in 0 .. WordBits /\ q * ByteBits \in Int
    BY <1>3, <2>2, Widths
  <2>. QED BY <2>1, <2>3, Zenon
<1>. HIDE DEF offset
<1>5. sel \in Limb
  <2>1. (IF word \in 1 .. 3 THEN word + 1 ELSE 1) \in 1 .. 4
    <3>. HIDE DEF word
    <3>. QED OBVIOUS
  <2>. QED BY <1>2, <2>1, Zenon
<1>. HIDE DEF word, sel
<1>6. byte \in Limb /\ byte < 2^ByteBits
  BY <1>4, <1>5, ByteAtLimb, Zenon
<1>. HIDE DEF byte
<1>7. sext \in Limb
  <2>1. ASSUME NEW p \in Nat, p >= 1, p <= LimbBase, byte < p PROVE LimbBase - p + byte \in Limb
    BY <1>6, <2>1, Widths DEF Limb
  <2>2. LimbBase - 2^ByteBits + byte \in Limb
    BY <1>6, <2>1, ByteWidths, Zenon
  <2>. QED BY <1>6, <2>2, Zenon
<1>. HIDE DEF sext
<1>8. ext \in Limb
  <2>1. PICK p \in Nat : p = 2^offset /\ p >= 1
    BY <1>4, PowerType, Zenon
  <2>2. sel % p \in Limb
    <3>1. sel \in Nat /\ p > 0
      BY <1>5, <2>1, Widths DEF Limb
    <3>2. sel % p \in Nat /\ sel % p <= sel
      BY <3>1, QuotientFits
    <3>. QED BY <1>5, <3>1, <3>2, Widths DEF Limb
  <2>3. Shl(sext, offset) \in Limb
    BY <1>4, <1>7, ShiftLimb, Zenon
  <2>. QED BY <2>1, <2>2, <2>3, OrLimb, Zenon
<1>. HIDE DEF ext
<1>9. SShr(sext, LimbBits - 1) \in Limb
  <2>1. LimbBits - 1 \in Int
    BY Widths
  <2>. QED BY <1>7, <2>1, SShrLimb, Zenon
<1>10. ASSUME NEW k \in 0 .. 3 PROVE G(k) \in Limb
  <2>1. k + 1 \in 1 .. 4
    OBVIOUS
  <2>. QED BY <1>2, <1>8, <1>9, <2>1, Zenon
<1>. HIDE DEF G
<1>11. \A k \in 0 .. 3 : [j \in 0 .. 3 |-> G(j)][k] \in Limb
  BY <1>10, Zenon
<1>12. 0 \in 0 .. 3 /\ 1 \in 0 .. 3 /\ 2 \in 0 .. 3 /\ 3 \in 0 .. 3
  OBVIOUS
<1>13. w \in Word
  BY <1>1, <1>11, <1>12, LimbsWord, Zenon
<1>. HIDE DEF w
<1>. QED BY <1>0, <1>13, WideSound, Zenon

----------------------------------------------------------------------------
(* The divisions.                                                          *)

(* Recording that no fault happened leaves a sound operand as it is.        *)
LEMMA TrappingSame ==
    ASSUME NEW o, Sound(o), NEW c, c.trap = FALSE
    PROVE  Trapping(o, c) = o /\ [o EXCEPT !.trap = FALSE] = o
<1>1. o \in Operands /\ o.trap = FALSE
  BY DEF Sound
<1>2. [o EXCEPT !.trap = FALSE] = o
  BY <1>1 DEF Operands
<1>. QED BY <1>2, Zenon DEF Trapping

(* One division of a limb by a limb that is not 0.                          *)
LEMMA UdivLimb ==
    ASSUME NEW x \in Limb, NEW d \in Limb, d # 0
    PROVE  Udiv(0, x, d).trap = FALSE /\ Udiv(0, x, d).q \in Limb /\ Udiv(0, x, d).r \in Limb
<1>1. 0 \in Nat /\ d \in Nat /\ 0 < d /\ d <= LimbBase - 1
  BY Widths DEF Limb
<1>2. /\ ~Udiv(0, x, d).trap /\ Udiv(0, x, d).q \in Limb
      /\ Udiv(0, x, d).r \in Nat /\ Udiv(0, x, d).r < d
  BY <1>1, UdivExact, Zenon
<1>3. Udiv(0, x, d).trap = FALSE
  <2>1. Udiv(0, x, d).trap \in BOOLEAN
    BY <1>1 DEF Udiv
  <2>. QED BY <1>2, <2>1, Zenon
<1>4. Udiv(0, x, d).r \in Limb
  BY <1>1, <1>2, Widths DEF Limb
<1>. QED BY <1>2, <1>3, <1>4, Zenon

(* The division and the remainder of operands of one limb.                  *)
LEMMA FitsU64Sound ==
    ASSUME NEW x \in Limb, NEW y \in Limb
    PROVE  Sound(DivFitsU64(x, y)) /\ Sound(ModFitsU64(x, y))
<1>. DEFINE d == Udiv(0, x, SafeDivisor(y))
            q == IF y = 0 THEN 0 ELSE d.q
            r == IF y = 0 THEN 0 ELSE d.r
<1>1. d.trap = FALSE /\ d.q \in Limb /\ d.r \in Limb
  BY SafeDivisorLimb, UdivLimb, Zenon
<1>2. 0 \in Limb
  BY Widths DEF Limb
<1>3. q \in Limb /\ r \in Limb
  BY <1>1, <1>2, Zenon
<1>4. /\ DivFitsU64(x, y) = Trapping(InstIn(<<q, 0, 0, 0>>, U64), d)
      /\ ModFitsU64(x, y) = Trapping(InstIn(<<r, 0, 0, 0>>, U64), d)
  BY Zenon DEF DivFitsU64, ModFitsU64
<1>. HIDE DEF d, q, r
<1>5. Sound(InstIn(<<q, 0, 0, 0>>, U64)) /\ Sound(InstIn(<<r, 0, 0, 0>>, U64))
  BY <1>3, NarrowWords, Zenon
<1>. QED BY <1>1, <1>4, <1>5, TrappingSame, Zenon

(* Divisions with a divisor of one limb, not 0, and with a dividend of one  *)
(* limb.                                                                    *)
LEMMA U64DivisionSound ==
    ASSUME NEW a \in Word, NEW x \in Limb, NEW d \in Limb
    PROVE  /\ d # 0 => /\ Sound(handleDivU64Divisor(a, d)) /\ Sound(handleModU64Divisor(a, d))
                       /\ Sound(Trapping(Inst(<<Udiv(0, x, d).q, 0, 0, 0>>), Udiv(0, x, d)))
           /\ Sound(handleDivU64Dividend(x, a)) /\ Sound(handleModU64Dividend(x, a))
<1>0. 0 \in Limb
  BY Widths DEF Limb
<1>1. ASSUME d # 0
      PROVE  /\ Sound(handleDivU64Divisor(a, d)) /\ Sound(handleModU64Divisor(a, d))
             /\ Sound(Trapping(Inst(<<Udiv(0, x, d).q, 0, 0, 0>>), Udiv(0, x, d)))
  <2>. DEFINE c == DivCascade(a, d)
              u == Udiv(0, x, d)
  <2>1. ~c.trap /\ c.q \in Word /\ c.r \in Limb
    BY <1>1, DivCascadeExact, Zenon
  <2>2. c.trap = FALSE
    <3>1. c.trap \in BOOLEAN
      BY DEF DivCascade
    <3>. QED BY <2>1, <3>1, Zenon
  <2>3. u.trap = FALSE /\ u.q \in Limb
    BY <1>1, UdivLimb, Zenon
  <2>4. handleDivU64Divisor(a, d) = Trapping(Inst(c.q), c)
        /\ handleModU64Divisor(a, d) = Trapping(Inst(<<c.r, 0, 0, 0>>), c)
    BY Zenon DEF handleDivU64Divisor, handleModU64Divisor
  <2>. HIDE DEF c, u
  <2>5. <<c.r, 0, 0, 0>> \in Word /\ <<u.q, 0, 0, 0>> \in Word
    BY <1>0, <2>1, <2>3, NarrowWords, Zenon
  <2>6. /\ Sound(Trapping(Inst(c.q), c)) /\ Sound(Trapping(Inst(<<c.r, 0, 0, 0>>), c))
        /\ Sound(Trapping(Inst(<<u.q, 0, 0, 0>>), u))
    BY <2>1, <2>2, <2>3, <2>5, TrappingSound, Zenon
  <2>. QED BY <2>4, <2>6, Zenon DEF u
<1>2. Sound(handleDivU64Dividend(x, a)) /\ Sound(handleModU64Dividend(x, a))
  <2>. DEFINE u == Udiv(0, x, SafeDivisor(a[1]))
              q == IF HasUpper(a) \/ a[1] = 0 THEN 0 ELSE u.q
              r == IF HasUpper(a) THEN x ELSE IF a[1] = 0 THEN 0 ELSE u.r
  <2>1. u.trap = FALSE /\ u.q \in Limb /\ u.r \in Limb
    BY WordTuple, SafeDivisorLimb, UdivLimb, Zenon
  <2>2. q \in Limb /\ r \in Limb
    BY <1>0, <2>1, Zenon
  <2>3. /\ handleDivU64Dividend(x, a) = Trapping(Inst(<<q, 0, 0, 0>>), u)
        /\ handleModU64Dividend(x, a) = Trapping(Inst(<<r, 0, 0, 0>>), u)
    BY Zenon DEF handleDivU64Dividend, handleModU64Dividend
  <2>. HIDE DEF u, q, r
  <2>4. <<q, 0, 0, 0>> \in Word /\ <<r, 0, 0, 0>> \in Word
    BY <2>2, NarrowWords, Zenon
  <2>. QED BY <2>1, <2>3, <2>4, TrappingSound, Zenon
<1>. QED BY <1>1, <1>2, Zenon

(* The runtime helpers return numbers.                                      *)
LEMMA HelperTypes ==
    ASSUME NEW a \in Nat, a < WordBase, NEW b \in Nat, b < WordBase, NEW m \in Nat
    PROVE  /\ evmGetDiv(a, b) \in Nat /\ evmGetMod(a, b) \in Nat
           /\ (IF b = 0 THEN 0 ELSE IntxSDivRem(a, b).quot) \in Nat
           /\ (IF b = 0 THEN 0 ELSE IntxSDivRem(a, b).rem) \in Nat
           /\ evmGetSDiv(a, b) \in Nat /\ evmGetSMod(a, b) \in Nat
           /\ evmGetMulMod(a, b, m) \in Nat
<1>1. WordBase \in Nat /\ WordBase > 0 /\ 0 \in Nat
  BY WordBasePositive
<1>2. \A n \in Nat : n < WordBase => /\ IntxAbs(n) \in Nat /\ (n # 0 => IntxAbs(n) > 0)
  BY <1>1 DEF IntxAbs
<1>3. \A n \in Nat : IntxNeg(n) \in Nat
  BY <1>1 DEF IntxNeg
<1>4. m # 0 => m > 0
  OBVIOUS
<1>5. evmGetMulMod(a, b, m) \in Nat
  BY <1>1, <1>4, IntxMulModType, Zenon DEF evmGetMulMod
<1>6. CASE b = 0
  BY <1>1, <1>5, <1>6, Zenon DEF evmGetDiv, evmGetMod, evmGetSDiv, evmGetSMod
<1>7. CASE b # 0
  <2>1. b > 0 /\ IntxAbs(a) \in Nat /\ IntxAbs(b) \in Nat /\ IntxAbs(b) > 0
    BY <1>2, <1>7
  <2>2. a \div b \in Nat /\ a % b \in Nat
    BY <2>1, DivModAny, Zenon
  <2>. DEFINE q == IntxAbs(a) \div IntxAbs(b)
              r == IntxAbs(a) % IntxAbs(b)
  <2>3. q \in Nat /\ r \in Nat
    BY <2>1, DivModAny, Zenon
  <2>4. /\ IntxSDivRem(a, b).quot = IF (IntxSigned(a) < 0) # (IntxSigned(b) < 0) THEN IntxNeg(q) ELSE q
        /\ IntxSDivRem(a, b).rem = IF IntxSigned(a) < 0 THEN IntxNeg(r) ELSE r
    BY DEF IntxSDivRem
  <2>5. evmGetSDiv(a, b) = IF b = 0 THEN 0
                           ELSE IF (IntxSigned(a) < 0) # (IntxSigned(b) < 0) THEN IntxNeg(q) ELSE q
    BY DEF evmGetSDiv
  <2>. HIDE DEF q, r
  <2>6. IntxSDivRem(a, b).quot \in Nat /\ IntxSDivRem(a, b).rem \in Nat /\ evmGetSDiv(a, b) \in Nat
    BY <1>3, <1>7, <2>3, <2>4, <2>5, Zenon
  <2>. QED BY <1>5, <1>7, <2>2, <2>6, Zenon DEF evmGetDiv, evmGetMod, evmGetSMod
<1>. QED BY <1>6, <1>7, Zenon

(* handleDiv: a shift for a constant power of two, one division for         *)
(* operands of one limb, the cascade or the helper otherwise.               *)
LEMMA HandleDivSound ==
    ASSUME NEW l, NEW r, Sound(l), Sound(r)
    PROVE  Sound(handleDiv(l, r))
<1>. DEFINE a == extractU256Operand(l)
            b == extractU256Operand(r)
            k == Udiv(0, a[1], b[1])
<1>1. a \in Word /\ b \in Word
  BY SoundFacts, Zenon
<1>. HIDE DEF a, b
<1>2. a[1] \in Limb /\ b[1] \in Limb /\ Val(a) \in Nat /\ Val(b) \in Nat
      /\ Val(a) < WordBase /\ Val(b) < WordBase /\ 0 \in Nat
  BY <1>1, WordTuple, ValBounds
<1>3. Sound(Fold(evmGetDiv(Val(a), Val(b))))
  BY <1>2, HelperTypes, NumberSound, Zenon
<1>4. IsPowerOfTwo(Val(b)) => Sound(handleShift("SHR", Fold(Log2(Val(b))), l))
  <2>. SUFFICES ASSUME IsPowerOfTwo(Val(b)) PROVE Sound(handleShift("SHR", Fold(Log2(Val(b))), l))
    OBVIOUS
  <2>1. Log2(Val(b)) \in 0 .. (WordBits - 1)
    BY Zenon DEF IsPowerOfTwo, Log2
  <2>2. Log2(Val(b)) \in Nat
    BY <2>1, Widths
  <2>3. Sound(Fold(Log2(Val(b)))) /\ "SHR" \in {"SHL", "SHR", "SAR"}
    BY <2>2, NumberSound
  <2>. QED BY <2>3, HandleShiftSound, Zenon
<1>5. Sound(DivFitsU64(a[1], b[1]))
  BY <1>2, FitsU64Sound, Zenon
<1>6. /\ b[1] # 0 => Sound(handleDivU64Divisor(a, b[1])) /\ Sound(Trapping(Inst(<<k.q, 0, 0, 0>>), k))
      /\ Sound(handleDivU64Dividend(a[1], b))
  BY <1>1, <1>2, U64DivisionSound, Zenon
<1>7. Sound(handleDivModGeneral(a, b, TRUE))
  BY <1>1, DivModGeneralExact, Zenon
<1>8. handleDiv(l, r) =
        IF BothConst(l, r) THEN Fold(evmGetDiv(Val(a), Val(b)))
        ELSE IF isConstant(r) /\ IsPowerOfTwo(Val(b))
             THEN handleShift("SHR", Fold(Log2(Val(b))), l)
        ELSE IF bothFitU64(l, r) THEN DivFitsU64(a[1], b[1])
        ELSE IF isConstU64(r) /\ b[1] # 0
             THEN IF HasUpper(a) THEN handleDivU64Divisor(a, b[1])
                  ELSE Trapping(Inst(<<k.q, 0, 0, 0>>), k)
        ELSE IF isConstU64(l) THEN handleDivU64Dividend(a[1], b)
        ELSE handleDivModGeneral(a, b, TRUE)
  BY Zenon DEF handleDiv, a, b
<1>. HIDE DEF k
<1>. QED BY <1>3, <1>4, <1>5, <1>6, <1>7, <1>8, Zenon

(* handleMod: a mask for a constant power of two.                           *)
LEMMA HandleModSound ==
    ASSUME NEW l, NEW r, Sound(l), Sound(r)
    PROVE  Sound(handleMod(l, r))
<1>. DEFINE a == extractU256Operand(l)
            b == extractU256Operand(r)
<1>1. a \in Word /\ b \in Word
  BY SoundFacts, Zenon
<1>. HIDE DEF a, b
<1>2. a[1] \in Limb /\ b[1] \in Limb /\ Val(a) \in Nat /\ Val(b) \in Nat
      /\ Val(a) < WordBase /\ Val(b) < WordBase /\ 0 \in Nat
  BY <1>1, WordTuple, ValBounds
<1>3. Sound(Fold(evmGetMod(Val(a), Val(b))))
  BY <1>2, HelperTypes, NumberSound, Zenon
<1>4. IsPowerOfTwo(Val(b)) => Sound(handleAnd(l, Fold(Val(b) - 1)))
  <2>. SUFFICES ASSUME IsPowerOfTwo(Val(b)) PROVE Sound(handleAnd(l, Fold(Val(b) - 1)))
    OBVIOUS
  <2>1. PICK k \in 0 .. (WordBits - 1) : Val(b) = 2^k
    BY Zenon DEF IsPowerOfTwo
  <2>2. k \in 0 .. WordBits
    BY Widths
  <2>3. Val(b) >= 1
    BY <2>1, <2>2, PowerType, Zenon
  <2>4. Val(b) - 1 \in Nat
    BY <1>2, <2>3
  <2>. QED BY <2>4, NumberSound, HandleAndSound, Zenon
<1>5. Sound(ModFitsU64(a[1], b[1]))
  BY <1>2, FitsU64Sound, Zenon
<1>6. /\ b[1] # 0 => Sound(handleModU64Divisor(a, b[1]))
      /\ Sound(handleModU64Dividend(a[1], b))
  BY <1>1, <1>2, U64DivisionSound, Zenon
<1>7. Sound(handleDivModGeneral(a, b, FALSE))
  BY <1>1, DivModGeneralExact, Zenon
<1>8. handleMod(l, r) =
        IF BothConst(l, r) THEN Fold(evmGetMod(Val(a), Val(b)))
        ELSE IF isConstant(r) /\ IsPowerOfTwo(Val(b)) THEN handleAnd(l, Fold(Val(b) - 1))
        ELSE IF bothFitU64(l, r) THEN ModFitsU64(a[1], b[1])
        ELSE IF isConstU64(r) /\ b[1] # 0 THEN handleModU64Divisor(a, b[1])
        ELSE IF isConstU64(l) THEN handleModU64Dividend(a[1], b)
        ELSE handleDivModGeneral(a, b, FALSE)
  BY Zenon DEF handleMod, a, b
<1>. QED BY <1>3, <1>4, <1>5, <1>6, <1>7, <1>8, Zenon

(* handleSDiv and handleSMod by a small positive constant: the dividend is  *)
(* negated, divided and the result negated back.                            *)
LEMMA SignedByU64Sound ==
    ASSUME NEW l, Sound(l), NEW d \in Limb, d # 0, NEW wantQuotient
    PROVE  Sound(SignedByU64(l, d, wantQuotient))
<1>1. ASSUME NEW o, Sound(o) PROVE Negate(o) \in Word
  <2>. DEFINE n == handleNot(o)
  <2>1. extractU256Operand(n) \in Word
    BY <1>1, HandleNotIsZeroSound, SoundFacts, Zenon
  <2>. HIDE DEF n
  <2>2. 0 \in Limb
    BY Widths DEF Limb
  <2>3. OneWord \in Word
    BY <2>2, NarrowWords, Zenon
  <2>4. Const(OneWord).limbs = OneWord
    BY DEF Const
  <2>5. AddChain(extractU256Operand(n), Const(OneWord).limbs) \in Word
    BY <2>1, <2>3, <2>4, AddChainMod, Zenon
  <2>6. Sound(handleAddU64Const(n, Const(OneWord)))
    BY <2>5, WideSound, Zenon DEF handleAddU64Const
  <2>. QED BY <2>6, SoundFacts, Zenon DEF Negate, n
<1>. DEFINE a == extractU256Operand(l)
            neg == a[4] >= LimbBase \div 2
            abs == IF neg THEN Negate(l) ELSE a
            u == IF wantQuotient THEN handleDivU64Divisor(abs, d) ELSE handleModU64Divisor(abs, d)
            w == IF neg THEN Negate(u) ELSE extractU256Operand(u)
<1>2. a \in Word
  BY SoundFacts, Zenon
<1>3. SignedByU64(l, d, wantQuotient) = Trapping(Inst(w), u)
  BY Zenon DEF SignedByU64, Trapping
<1>. HIDE DEF a, neg
<1>4. abs \in Word
  BY <1>1, <1>2, Zenon
<1>. HIDE DEF abs
<1>5. Sound(u)
  BY <1>4, U64DivisionSound, Zenon
<1>. HIDE DEF u
<1>6. w \in Word /\ u.trap = FALSE
  BY <1>1, <1>5, SoundFacts, Zenon DEF Sound
<1>. HIDE DEF w
<1>. QED BY <1>3, <1>6, TrappingSound, Zenon

(* handleSDiv and handleSMod.                                               *)
LEMMA HandleSignedDivisionSound ==
    ASSUME NEW l, NEW r, Sound(l), Sound(r)
    PROVE  Sound(handleSDiv(l, r)) /\ Sound(handleSMod(l, r))
<1>. DEFINE a == Val(extractU256Operand(l))
            b == Val(extractU256Operand(r))
<1>1. a \in Nat /\ a < WordBase /\ b \in Nat /\ b < WordBase /\ 0 \in Nat
  BY SoundFacts DEF Denotes
<1>. HIDE DEF a, b
<1>2. /\ Sound(Fold(IF b = 0 THEN 0 ELSE IntxSDivRem(a, b).quot))
      /\ Sound(Fold(IF b = 0 THEN 0 ELSE IntxSDivRem(a, b).rem))
      /\ Sound(Inst(intxToU256Value(evmGetSDiv(a, b)))) /\ Sound(Inst(intxToU256Value(evmGetSMod(a, b))))
  BY <1>1, HelperTypes, NumberSound, Zenon
<1>3. SmallPositive(r) => r.limbs[1] \in Limb /\ r.limbs[1] # 0
  BY OperandWord, WordTuple, Zenon DEF Sound, SmallPositive
<1>4. SmallPositive(r) => /\ Sound(SignedByU64(l, r.limbs[1], TRUE))
                          /\ Sound(SignedByU64(l, r.limbs[1], FALSE))
  BY <1>3, SignedByU64Sound, Zenon
<1>. QED BY <1>2, <1>4, Zenon DEF handleSDiv, handleSMod, a, b

(* handleMulMod.                                                            *)
LEMMA HandleMulModSound ==
    ASSUME NEW l, NEW r, NEW mo, Sound(l), Sound(r), Sound(mo)
    PROVE  Sound(handleMulMod(l, r, mo))
<1>. DEFINE n == evmGetMulMod(Val(extractU256Operand(l)), Val(extractU256Operand(r)),
                              Val(extractU256Operand(mo)))
<1>1. n \in Nat
  BY SoundFacts, HelperTypes, Zenon DEF Denotes
<1>. HIDE DEF n
<1>. QED BY <1>1, NumberSound, Zenon DEF handleMulMod, n

(* Every opcode of two operands keeps the claims sound.                     *)
LEMMA LowerSound ==
    ASSUME NEW op \in BinaryOps, NEW adx, NEW l, NEW r, Sound(l), Sound(r)
    PROVE  Sound(Lower(op, adx, l, r))
<1>1. /\ Sound(handleAdd(l, r)) /\ Sound(handleSub(l, r)) /\ Sound(handleMul(adx, l, r))
      /\ Sound(handleDiv(l, r)) /\ Sound(handleMod(l, r)) /\ Sound(handleSDiv(l, r))
      /\ Sound(handleSMod(l, r)) /\ Sound(handleAnd(l, r)) /\ Sound(handleOrXor(OrTable, l, r))
      /\ Sound(handleOrXor(XorTable, l, r)) /\ Sound(handleByte(l, r)) /\ Sound(handleSignextend(l, r))
  BY HandleAddExact, HandleSubExact, HandleMulSound, HandleDivSound, HandleModSound,
     HandleSignedDivisionSound, HandleAndSound, HandleOrXorSound, HandleByteSound,
     HandleSignextendSound, Zenon
<1>2. op \in {"LT", "GT", "SLT", "SGT", "EQ"} => Sound(handleCompareOp(op, l, r))
  BY HandleCompareSound, Zenon
<1>3. op \in {"SHL", "SHR", "SAR"} => Sound(handleShift(op, l, r))
  BY HandleShiftSound, Zenon
<1>. QED BY <1>1, <1>2, <1>3 DEF Lower, BinaryOps

----------------------------------------------------------------------------
(* A chain of opcodes.                                                     *)

\* The loop of EXP works on words.
LoopWords ==
    \E pc, b0, e0, bytes, adx : \E base, exp, result \in Word :
        ex = [pc |-> pc, base |-> base, exp |-> exp, result |-> result,
              b0 |-> b0, e0 |-> e0, bytes |-> bytes, adx |-> adx]

\* The inductive invariant: the operand on top is sound, so is what the loop
\* of EXP will make of its variables.
ArithInv == Sound(acc) /\ LoopWords /\ depth \in Nat

(* An operand that becomes the top of the stack is sound when it is sound   *)
(* by itself and its inputs did not fault.                                  *)
LEMMA BecomesSound ==
    ASSUME Sound(acc), depth \in Nat, NEW o, Sound(o), NEW n, Becomes(o, n)
    PROVE  Sound(acc') /\ depth' \in Nat
<1>1. (o.trap \/ acc.trap) = FALSE
  BY Zenon DEF Sound
<1>2. acc' = [o EXCEPT !.trap = FALSE]
  BY <1>1, Zenon DEF Becomes
<1>3. acc' = o
  BY <1>1, <1>2, TrappingSame, Zenon DEF Sound
<1>4. depth' \in Nat
  BY DEF Becomes
<1>. QED BY <1>3, <1>4, Zenon

(* The first operand is sound.                                              *)
LEMMA InitArith == Init => ArithInv
<1>. SUFFICES ASSUME Init PROVE ArithInv
  OBVIOUS
<1>1. 0 \in 0 .. MaxDepth
  BY ArithAssumption
<1>2. Sound(acc)
  BY <1>1, ArithAssumption, Zenon DEF Init
<1>3. ZeroWord \in Word
  <2>1. 0 \in Limb
    BY Widths DEF Limb
  <2>. QED BY <2>1, NarrowWords, Zenon
<1>4. LoopWords
  BY <1>3, Zenon DEF Init, Idle, LoopWords
<1>5. depth \in Nat
  BY DEF Init
<1>. QED BY <1>2, <1>4, <1>5, Zenon DEF ArithInv

(* The variables of the loop of EXP stay words.                             *)
LEMMA LoopKeeps ==
    ASSUME ArithInv, ExpFast \/ ExpSlow
    PROVE  LoopWords'
<1>1. PICK pc, b0, e0, bytes, adx : \E base, exp, result \in Word :
        ex = [pc |-> pc, base |-> base, exp |-> exp, result |-> result,
              b0 |-> b0, e0 |-> e0, bytes |-> bytes, adx |-> adx]
  BY Zenon DEF ArithInv, LoopWords
<1>2. PICK base \in Word, exp \in Word, result \in Word :
        ex = [pc |-> pc, base |-> base, exp |-> exp, result |-> result,
              b0 |-> b0, e0 |-> e0, bytes |-> bytes, adx |-> adx]
  BY <1>1, Zenon
<1>3. ex.base = base /\ ex.exp = exp /\ ex.result = result
  BY <1>2
<1>4. ASSUME NEW x \in Word, NEW y \in Word PROVE MulWords(x, y) \in Word
  BY WideSound, HandleMulSound, SoundFacts, Zenon DEF MulWords
<1>5. ASSUME NEW p, NEW b \in Word, NEW e \in Word, NEW r \in Word,
             ex' = [pc |-> p, base |-> b, exp |-> e, result |-> r,
                    b0 |-> b0, e0 |-> e0, bytes |-> bytes, adx |-> adx]
      PROVE  LoopWords'
  BY <1>5, Zenon DEF LoopWords
<1>6. ASSUME ex' = [ex EXCEPT !.pc = "after"] PROVE LoopWords'
  <2>1. ex' = [pc |-> "after", base |-> base, exp |-> exp, result |-> result,
               b0 |-> b0, e0 |-> e0, bytes |-> bytes, adx |-> adx]
    BY <1>2, <1>6, Zenon
  <2>. QED BY <1>5, <2>1, Zenon
<1>7. ASSUME NEW shifted \in Word, Iteration(shifted) PROVE LoopWords'
  <2>. DEFINE odd == ex.exp[1] % 2 = 1
              r == IF odd THEN MulWords(ex.result, ex.base) ELSE ex.result
              b == MulWords(ex.base, ex.base)
  <2>1. r \in Word /\ b \in Word
    BY <1>3, <1>4, Zenon
  <2>2. \/ ex' = [ex EXCEPT !.pc = "after", !.result = r]
        \/ ex' = [ex EXCEPT !.result = r, !.exp = shifted, !.base = b]
    BY <1>7, Zenon DEF Iteration
  <2>. HIDE DEF r, b
  <2>3. CASE ex' = [ex EXCEPT !.pc = "after", !.result = r]
    <3>1. ex' = [pc |-> "after", base |-> base, exp |-> exp, result |-> r,
                 b0 |-> b0, e0 |-> e0, bytes |-> bytes, adx |-> adx]
      BY <1>2, <2>3, Zenon
    <3>. QED BY <1>5, <2>1, <3>1, Zenon
  <2>4. CASE ex' = [ex EXCEPT !.result = r, !.exp = shifted, !.base = b]
    <3>1. ex' = [pc |-> pc, base |-> b, exp |-> shifted, result |-> r,
                 b0 |-> b0, e0 |-> e0, bytes |-> bytes, adx |-> adx]
      BY <1>2, <2>4, Zenon
    <3>. QED BY <1>5, <2>1, <3>1, Zenon
  <2>. QED BY <2>2, <2>3, <2>4, Zenon
<1>8. CASE ExpFast
  <2>1. <<UShr(ex.exp[1], 1), 0, 0, 0>> \in Word
    <3>1. 1 \in Int /\ 0 \in Limb
      BY Widths DEF Limb
    <3>2. UShr(ex.exp[1], 1) \in Limb
      BY <1>3, <3>1, WordTuple, ShiftLimb, Zenon
    <3>. QED BY <3>1, <3>2, NarrowWords, Zenon
  <2>. QED BY <1>6, <1>7, <1>8, <2>1, Zenon DEF ExpFast
<1>9. CASE ExpSlow
  <2>. DEFINE one == createU256ConstOperand(1)
  <2>1. intxToU256Value(1) \in Word
    <3>1. 1 \in Nat
      OBVIOUS
    <3>. QED BY <3>1, DigitsExact, Zenon
  <2>2. Sound(one)
    <3>. DEFINE w == intxToU256Value(1)
    <3>1. Inst(w) \in Operands /\ Inst(w).range = U256 /\ Inst(w).trap = FALSE
      BY <2>1 DEF Inst, InstIn, Operands
    <3>2. one \in Operands /\ one.range = U256 /\ one.trap = FALSE
      <4>. HIDE DEF w
      <4>1. one = [Inst(w) EXCEPT !.kind = "lit"]
        BY Zenon DEF createU256ConstOperand, w
      <4>. HIDE DEF one
      <4>. QED BY <3>1, <4>1 DEF Operands
    <3>3. RangeOf(extractU256Operand(one)) <= U256
      <4>. HIDE DEF one
      <4>. QED BY DEF RangeOf, U64, U128, U256
    <3>. QED BY <3>2, <3>3, Zenon DEF Sound
  <2>. HIDE DEF one
  <2>3. "SHR" \in {"SHL", "SHR", "SAR"}
    OBVIOUS
  <2>4. extractU256Operand(handleShift("SHR", one, Inst(ex.exp))) \in Word
    BY <1>3, <2>2, <2>3, WideSound, HandleShiftSound, SoundFacts, Zenon
  <2>. QED BY <1>6, <1>7, <1>9, <2>4, Zenon DEF ExpSlow, one
<1>. QED BY <1>8, <1>9

(* Every opcode keeps the invariant.                                        *)
LEMMA NextArith == ArithInv /\ [Next]_vars => ArithInv'
<1>. SUFFICES ASSUME ArithInv, [Next]_vars PROVE ArithInv'
  OBVIOUS
<1>1. Sound(acc) /\ LoopWords /\ depth \in Nat
  BY Zenon DEF ArithInv
<1>2. ASSUME Ready PROVE \A o \in Inputs(depth) : Sound(o)
  <2>1. depth \in 0 .. MaxDepth
    BY <1>1, <1>2, ArithAssumption DEF Ready
  <2>. QED BY <2>1, ArithAssumption, Zenon
<1>3. ASSUME NEW o, Sound(o), NEW n, Becomes(o, n), UNCHANGED ex PROVE ArithInv'
  <2>1. LoopWords'
    BY <1>1, <1>3, Zenon DEF LoopWords
  <2>. QED BY <1>1, <1>3, <2>1, BecomesSound, Zenon DEF ArithInv
<1>4. CASE BinaryOpcode
  <2>1. PICK o \in Inputs(depth), op \in BinaryOps :
          \E adx \in IF op = "MUL" THEN Subtargets ELSE {FALSE} :
            /\ Ready
            /\ \/ Becomes(Lower(op, adx, acc, o), Interpret(op, num, Number(o)))
               \/ Becomes(Lower(op, adx, o, acc), Interpret(op, Number(o), num))
            /\ UNCHANGED ex
    BY <1>4, Zenon DEF BinaryOpcode
  <2>2. PICK adx : /\ Ready
                   /\ \/ Becomes(Lower(op, adx, acc, o), Interpret(op, num, Number(o)))
                      \/ Becomes(Lower(op, adx, o, acc), Interpret(op, Number(o), num))
                   /\ UNCHANGED ex
    BY <2>1, Zenon
  <2>3. Sound(Lower(op, adx, acc, o)) /\ Sound(Lower(op, adx, o, acc))
    BY <1>1, <1>2, <2>2, LowerSound, Zenon
  <2>. QED BY <1>3, <2>2, <2>3, Zenon
<1>5. CASE NotOpcode \/ IsZeroOpcode
  BY <1>1, <1>3, <1>5, HandleNotIsZeroSound, Zenon DEF NotOpcode, IsZeroOpcode
<1>6. CASE ClzOpcode
  <2>1. PICK n : Becomes(handleClz(acc), n) /\ UNCHANGED ex
    BY <1>6, Zenon DEF ClzOpcode
  <2>. QED BY <1>1, <1>3, <2>1, HandleClzSound, Zenon
<1>7. CASE ModularOpcode
  <2>1. PICK o \in Inputs(depth), m \in Moduli :
          /\ Ready
          /\ \/ Becomes(handleAddMod(acc, o, m), evmGetAddMod(num, Number(o), Number(m)))
             \/ Becomes(handleMulMod(acc, o, m), evmGetMulMod(num, Number(o), Number(m)))
          /\ UNCHANGED ex
    BY <1>7, Zenon DEF ModularOpcode
  <2>2. Sound(o) /\ Sound(m)
    BY <1>2, <2>1, ArithAssumption, Zenon
  <2>3. Sound(handleAddMod(acc, o, m)) /\ Sound(handleMulMod(acc, o, m))
    BY <1>1, <2>2, HandleAddModExact, HandleMulModSound, Zenon
  <2>. QED BY <1>3, <2>1, <2>3, Zenon
<1>8. CASE ExpOpcode
  <2>1. PICK o \in Inputs(depth), adx \in Subtargets :
          /\ Ready
          /\ \/ ExpBegin(extractU256Operand(acc), extractU256Operand(o), adx)
             \/ ExpBegin(extractU256Operand(o), extractU256Operand(acc), adx)
          /\ UNCHANGED <<acc, num, depth>>
    BY <1>8, Zenon DEF ExpOpcode
  <2>2. extractU256Operand(acc) \in Word /\ extractU256Operand(o) \in Word
    BY <1>1, <1>2, <2>1, SoundFacts, Zenon
  <2>3. OneWord \in Word
    <3>1. 0 \in Limb
      BY Widths DEF Limb
    <3>. QED BY <3>1, NarrowWords, Zenon
  <2>4. ASSUME NEW b \in Word, NEW e \in Word, ExpBegin(b, e, adx) PROVE LoopWords'
    BY <2>3, <2>4, Zenon DEF ExpBegin, LoopWords
  <2>5. LoopWords'
    BY <2>1, <2>2, <2>4, Zenon
  <2>. QED BY <1>1, <2>1, <2>5, Zenon DEF ArithInv
<1>9. CASE ExpFast \/ ExpSlow
  <2>1. UNCHANGED <<acc, num, depth>>
    BY <1>9, Zenon DEF ExpFast, ExpSlow
  <2>. QED BY <1>1, <1>9, <2>1, LoopKeeps, Zenon DEF ArithInv
<1>10. CASE ExpAfter
  <2>1. ex.result \in Word
    <3>1. PICK pc, b0, e0, bytes, adx : \E base, exp, result \in Word :
            ex = [pc |-> pc, base |-> base, exp |-> exp, result |-> result,
                  b0 |-> b0, e0 |-> e0, bytes |-> bytes, adx |-> adx]
      BY <1>1, Zenon DEF LoopWords
    <3>2. PICK base \in Word, exp \in Word, result \in Word :
            ex = [pc |-> pc, base |-> base, exp |-> exp, result |-> result,
                  b0 |-> b0, e0 |-> e0, bytes |-> bytes, adx |-> adx]
      BY <3>1, Zenon
    <3>3. ex.result = result
      BY <3>2
    <3>. QED BY <3>3
  <2>2. Sound(Inst(ex.result))
    BY <2>1, WideSound, Zenon
  <2>3. Sound(acc') /\ depth' \in Nat
    BY <1>1, <1>10, <2>2, BecomesSound, Zenon DEF ExpAfter
  <2>4. ZeroWord \in Word
    <3>1. 0 \in Limb
      BY Widths DEF Limb
    <3>. QED BY <3>1, NarrowWords, Zenon
  <2>5. LoopWords'
    BY <1>10, <2>4, Zenon DEF ExpAfter, Idle, LoopWords
  <2>. QED BY <2>3, <2>5, Zenon DEF ArithInv
<1>11. CASE UNCHANGED vars
  BY <1>1, <1>11, Zenon DEF vars, ArithInv, LoopWords
<1>. QED BY <1>4, <1>5, <1>6, <1>7, <1>8, <1>9, <1>10, <1>11, Zenon DEF Next, ExpLoop

(* Whatever chain of opcodes is compiled, on every fast path, a range the   *)
(* builder claims for an operand is true.                                   *)
THEOREM ClaimedRanges == Spec => []RangeSound
<1>1. ArithInv => RangeSound
  BY Zenon DEF ArithInv, Sound, RangeSound
<1>. QED BY <1>1, InitArith, NextArith, PTL DEF Spec

(* Whatever chain of opcodes is compiled, no division that faults is        *)
(* executed: a divisor that reaches DIV is not 0, and the high half is      *)
(* below it.                                                                *)
THEOREM NoFaultingDivide == Spec => []DivideNeverTraps
<1>1. ArithInv => DivideNeverTraps
  BY Zenon DEF ArithInv, Sound, DivideNeverTraps
<1>. QED BY <1>1, InitArith, NextArith, PTL DEF Spec
=============================================================================
