-------------------------- MODULE DifficultyProofs --------------------------
(***************************************************************************)
(* Theorems about Difficulty, for every width of a word: both products are *)
(* products, and check_hash accepts a hash exactly when it meets the       *)
(* difficulty.                                                             *)
(***************************************************************************)
EXTENDS Difficulty, TLAPS

-----------------------------------------------------------------------------
(* Division, and products of bounded numbers *)

LEMMA DivMod ==
  ASSUME NEW n \in Nat, NEW k \in Nat, k > 0
  PROVE  /\ n \div k \in Nat
         /\ n % k \in 0..(k - 1)
         /\ n = k * (n \div k) + (n % k)
  OBVIOUS

LEMMA ProductBound ==
  ASSUME NEW m \in Nat, NEW n \in Nat, NEW x \in 0..m, NEW y \in 0..n
  PROVE  x * y \in 0..(m * n)
<1>1. x * y >= 0 /\ x * (n - y) >= 0 /\ (m - x) * n >= 0
  OBVIOUS
<1>2. x * (n - y) = x * n - x * y /\ (m - x) * n = m * n - x * n
  OBVIOUS
<1> QED BY <1>1, <1>2

LEMMA WordNat == Word \in Nat /\ Word >= Half /\ Word >= 4 /\ Word > 0
<1>1. Half \in Nat /\ Half >= 2
  BY HalfAssumption
<1>2. (Half - 2) * Half >= 0 /\ (Half - 2) * Half = Half * Half - 2 * Half
  BY <1>1
<1> QED BY <1>1, <1>2 DEF Word

\* A word is its two halves.
LEMMA Halves ==
  ASSUME NEW n \in Words
  PROVE  /\ High(n) \in 0..(Half - 1)
         /\ Low(n) \in 0..(Half - 1)
         /\ n = High(n) * Half + Low(n)
<1>1. Half \in Nat /\ Half > 0 /\ n \in Nat /\ n < Half * Half
  BY HalfAssumption, WordNat DEF Word, Words
<1>2. /\ n \div Half \in Nat
      /\ n % Half \in 0..(Half - 1)
      /\ n = Half * (n \div Half) + (n % Half)
  BY <1>1, DivMod
<1> DEFINE q == n \div Half
<1>3. q < Half
  <2> SUFFICES ASSUME q >= Half PROVE FALSE
    BY <1>1, <1>2
  <2>1. Half * (q - Half) >= 0 /\ Half * (q - Half) = Half * q - Half * Half
    BY <1>1, <1>2
  <2> HIDE DEF q
  <2> QED BY <1>1, <1>2, <2>1 DEF q
<1> QED BY <1>1, <1>2, <1>3 DEF High, Low

\* What wrapping a sum of two words loses is told by comparing it with either.
LEMMA WrapSum ==
  ASSUME NEW x \in Words, NEW y \in Words
  PROVE  /\ Wrap(x + y) \in Words
         /\ Wrap(x + y) < x => x + y = Wrap(x + y) + Word
         /\ ~(Wrap(x + y) < x) => x + y = Wrap(x + y)
<1>1. Word \in Nat /\ Word > 0 /\ x \in 0..(Word - 1) /\ y \in 0..(Word - 1)
  BY WordNat DEF Words
<1> DEFINE q == (x + y) \div Word
           r == (x + y) % Word
<1>2. q \in Nat /\ r \in 0..(Word - 1) /\ x + y = Word * q + r
  BY <1>1, DivMod
<1> HIDE DEF q, r
<1>3. q = 0 \/ q = 1
  <2> SUFFICES ASSUME q >= 2 PROVE FALSE
    BY <1>2
  <2>1. Word * (q - 2) >= 0 /\ Word * (q - 2) = Word * q - 2 * Word
    BY <1>1, <1>2
  <2> QED BY <1>1, <1>2, <2>1
<1>4. q = 1 => x + y = Word + r
  BY <1>1, <1>2
<1>5. q = 0 => x + y = r
  BY <1>1, <1>2
<1> QED BY <1>1, <1>2, <1>3, <1>4, <1>5 DEF Wrap, Words, r

LEMMA WrapCarry ==
  ASSUME NEW x \in Words, NEW y \in Words
  PROVE  x + y = Wrap(x + y) + (IF Wrap(x + y) < x THEN 1 ELSE 0) * Word
<1>1. Word \in Nat /\ x \in Nat /\ y \in Nat /\ Wrap(x + y) \in Nat
  BY WordNat, WrapSum DEF Words
<1>2. 1 * Word = Word /\ 0 * Word = 0
  BY <1>1
<1>3. CASE Wrap(x + y) < x
  BY <1>1, <1>2, <1>3, WrapSum
<1>4. CASE ~(Wrap(x + y) < x)
  BY <1>1, <1>2, <1>4, WrapSum
<1> QED BY <1>3, <1>4

\* The product of two words has a high word that is a word.
LEMMA HighWord ==
  ASSUME NEW m \in Words, NEW n \in Words, NEW x \in Nat, NEW y \in Words,
         x * Word + y = m * n
  PROVE  x \in Words
<1>1. Word \in Nat /\ Word > 0 /\ m \in 0..(Word - 1) /\ n \in 0..(Word - 1)
  BY WordNat DEF Words
<1>2. m * n \in 0..((Word - 1) * (Word - 1))
  BY <1>1, ProductBound
<1>3. (Word - 1) * (Word - 1) = Word * Word - 2 * Word + 1
  BY <1>1
<1> SUFFICES ASSUME x >= Word PROVE FALSE
  BY <1>1 DEF Words
<1>4. (x - Word) * Word >= 0 /\ (x - Word) * Word = x * Word - Word * Word
  BY <1>1
<1>5. x * Word \in Nat /\ Word * Word \in Nat
  BY <1>1
<1> QED BY <1>1, <1>2, <1>3, <1>4, <1>5 DEF Words

LEMMA HalfProduct ==
  ASSUME NEW x \in 0..(Half - 1), NEW y \in 0..(Half - 1)
  PROVE  /\ x * y \in Words
         /\ x * y <= Word - 2 * Half + 1
<1>1. Half \in Nat /\ Half - 1 \in Nat
  BY HalfAssumption
<1>2. x * y \in 0..((Half - 1) * (Half - 1))
  BY <1>1, ProductBound
<1>3. (Half - 1) * (Half - 1) = Half * Half - 2 * Half + 1
  BY <1>1
<1> QED BY <1>1, <1>2, <1>3, HalfAssumption DEF Word, Words

\* A half word, shifted up, is a word.
LEMMA Shifted ==
  ASSUME NEW x \in 0..(Half - 1)
  PROVE  /\ x * Half \in Words
         /\ x * Half <= Word - Half
<1>1. (Half - 1 - x) * Half >= 0 /\ (Half - 1 - x) * Half = Half * Half - Half - x * Half
  BY HalfAssumption
<1>2. x * Half \in Nat
  BY HalfAssumption
<1> QED BY <1>1, <1>2, HalfAssumption DEF Word, Words

LEMMA Scale ==
  ASSUME NEW x, NEW y, NEW w, NEW v, NEW k, x \in Nat, y \in Nat, w \in Nat, v \in Nat, k \in Nat,
         x + y = w + v
  PROVE  x * k + y * k = w * k + v * k
<1>1. (x + y) * k = x * k + y * k /\ (w + v) * k = w * k + v * k
  OBVIOUS
<1> QED BY <1>1

\* The columns of the portable product, added up.
LEMMA Columns ==
  ASSUME NEW product \in Nat, NEW hh \in Nat, NEW hl \in Nat, NEW lh \in Nat, NEW ll \in Nat,
         NEW c1 \in Nat, NEW d1 \in Nat, NEW u2 \in Nat, NEW d2 \in Nat, NEW c2 \in Nat,
         NEW e2 \in Nat, NEW u3 \in Nat, NEW e3 \in Nat, NEW f3 \in Nat, NEW u4 \in Nat,
         NEW v4 \in Nat, NEW v3 \in Nat,
         product = hh + hl + lh + ll,
         ll = c1 + d1, hl + c1 = u2 + d2, lh = c2 + e2, hh + c2 = u4 + f3,
         d2 + e2 = u3 + e3, u2 + f3 + u3 = v4 + v3
  PROVE  v3 + u4 + v4 + e3 + d1 = product
OBVIOUS

-----------------------------------------------------------------------------
\* mul128 is the product of two words: the three carries it recovers by
\* comparing wrapped sums are all there are.
THEOREM Mul128IsProduct ==
  ASSUME NEW m \in Words, NEW n \in Words
  PROVE  IsProduct(Mul128(m, n), m, n)
<1> DEFINE a == High(m)
           b == Low(m)
           c == High(n)
           d == Low(n)
           cross == Wrap(a * d + b * c)
           crossCarry == IF cross < a * d THEN 1 ELSE 0
           low == Wrap(b * d + ShiftUp(cross))
           lowCarry == IF low < b * d THEN 1 ELSE 0
           top == a * c + High(cross) + crossCarry * Half + lowCarry
           ch == High(cross)
           cl == Low(cross)
<1>1. /\ a \in 0..(Half - 1) /\ b \in 0..(Half - 1) /\ m = a * Half + b
      /\ c \in 0..(Half - 1) /\ d \in 0..(Half - 1) /\ n = c * Half + d
  BY Halves
<1> HIDE DEF a, b, c, d
<1>2. a * d \in Words /\ b * c \in Words /\ b * d \in Words /\ a * c \in Words
  BY <1>1, HalfProduct
<1>3. cross \in Words /\ a * d + b * c = cross + crossCarry * Word
  BY <1>2, WrapSum, WrapCarry
<1> HIDE DEF cross
<1>4. ch \in 0..(Half - 1) /\ cl \in 0..(Half - 1) /\ cross = ch * Half + cl
  BY <1>3, Halves
<1>5. ShiftUp(cross) = cl * Half /\ cl * Half \in Words
  BY <1>4, Shifted DEF ShiftUp
<1> HIDE DEF ch, cl
<1>6. low \in Words /\ b * d + cl * Half = low + lowCarry * Word
  <2>1. b * d + ShiftUp(cross) = low + lowCarry * Word
    BY <1>2, <1>5, WrapCarry
  <2> QED BY <1>2, <1>5, <2>1, WrapSum
<1>7. crossCarry \in {0, 1} /\ lowCarry \in {0, 1}
  OBVIOUS
<1>8. low \in Nat /\ Half \in Nat /\ Word \in Nat /\ Word = Half * Half
  BY <1>6, HalfAssumption, WordNat DEF Word, Words
<1> HIDE DEF low, crossCarry, lowCarry
<1>9. top * Word + low = m * n
  <2>1. m * n = (a * c) * Word + (a * d + b * c) * Half + b * d
    BY <1>1, <1>8
  <2>2. (a * d + b * c) * Half = ch * Word + cl * Half + (crossCarry * Half) * Word
    BY <1>3, <1>4, <1>7, <1>8
  <2>3. top * Word = (a * c) * Word + ch * Word + (crossCarry * Half) * Word + lowCarry * Word
    BY <1>1, <1>4, <1>7, <1>8 DEF ch
  <2> QED BY <1>1, <1>2, <1>4, <1>6, <1>7, <1>8, <2>1, <2>2, <2>3
<1>10. top \in Nat
  BY <1>1, <1>4, <1>7, <1>8 DEF ch
<1>11. top \in Words
  BY <1>6, <1>9, <1>10, HighWord
<1> HIDE DEF top
<1>12. Wrap(top) = top
  BY <1>10, <1>11, WordNat DEF Wrap, Words
<1>13. Mul128(m, n) = [low |-> low, high |-> Wrap(top)]
  BY DEF Mul128, a, b, c, d, cross, crossCarry, low, lowCarry, top
<1> QED BY <1>6, <1>9, <1>11, <1>12, <1>13 DEF IsProduct

\* The portable product is the product of two words: what is shifted out at
\* its last line is always zero.
THEOREM PortableMulIsProduct ==
  ASSUME NEW m \in Words, NEW n \in Words
  PROVE  IsProduct(PortableMul(m, n), m, n)
<1> DEFINE a == High(m)
           b == Low(m)
           c == High(n)
           d == Low(n)
           lowLow == b * d
           highLow == a * d + High(lowLow)
           lowHigh == b * c
           highHigh == a * c + High(lowHigh)
           second == Low(highLow) + Low(lowHigh)
           third == High(highLow) + Low(highHigh) + High(second)
           fourth == High(highHigh) + High(third)
           low == Low(second) * Half + Low(lowLow)
           top == Low(third) + fourth * Half
<1>1. /\ a \in 0..(Half - 1) /\ b \in 0..(Half - 1) /\ m = a * Half + b
      /\ c \in 0..(Half - 1) /\ d \in 0..(Half - 1) /\ n = c * Half + d
  BY Halves
<1>2. Half \in Nat /\ Half >= 2 /\ Word \in Nat /\ Word = Half * Half /\ Word >= 2 * Half
  <2>1. (Half - 2) * Half >= 0 /\ (Half - 2) * Half = Half * Half - 2 * Half
    BY HalfAssumption
  <2> QED BY <2>1, HalfAssumption, WordNat DEF Word
<1> HIDE DEF a, b, c, d
<1>3. /\ lowLow \in Words /\ lowHigh \in Words
      /\ a * d \in Words /\ a * d <= Word - 2 * Half + 1
      /\ a * c \in Words /\ a * c <= Word - 2 * Half + 1
  BY <1>1, HalfProduct
<1> HIDE DEF lowLow, lowHigh
<1>4. /\ High(lowLow) \in 0..(Half - 1) /\ Low(lowLow) \in 0..(Half - 1)
      /\ lowLow = High(lowLow) * Half + Low(lowLow)
      /\ High(lowHigh) \in 0..(Half - 1) /\ Low(lowHigh) \in 0..(Half - 1)
      /\ lowHigh = High(lowHigh) * Half + Low(lowHigh)
  BY <1>3, Halves
<1>5. highLow \in Words /\ highHigh \in Words
  BY <1>2, <1>3, <1>4 DEF Words
<1>6. /\ High(highLow) \in 0..(Half - 1) /\ Low(highLow) \in 0..(Half - 1)
      /\ highLow = High(highLow) * Half + Low(highLow)
      /\ High(highHigh) \in 0..(Half - 1) /\ Low(highHigh) \in 0..(Half - 1)
      /\ highHigh = High(highHigh) * Half + Low(highHigh)
  BY <1>5, Halves
<1>7. a * d + High(lowLow) = highLow /\ a * c + High(lowHigh) = highHigh
  OBVIOUS
<1> HIDE DEF highLow, highHigh
<1>8. second \in Words /\ second <= 2 * Half - 2
  BY <1>2, <1>4, <1>6 DEF Words
<1>9. /\ High(second) \in 0..(Half - 1) /\ Low(second) \in 0..(Half - 1)
      /\ second = High(second) * Half + Low(second)
  BY <1>8, Halves
<1>10. High(second) <= 1
  <2> SUFFICES ASSUME High(second) >= 2 PROVE FALSE
    BY <1>9
  <2>1. (High(second) - 2) * Half >= 0 /\ (High(second) - 2) * Half = High(second) * Half - 2 * Half
    BY <1>2, <1>9
  <2> HIDE DEF second
  <2> QED BY <1>2, <1>8, <1>9, <2>1
<1>11. Low(highLow) + Low(lowHigh) = High(second) * Half + Low(second)
  BY <1>9
<1> HIDE DEF second
<1>12. third \in Words
  BY <1>2, <1>6, <1>9, <1>10 DEF Words
<1>13. /\ High(third) \in 0..(Half - 1) /\ Low(third) \in 0..(Half - 1)
       /\ third = High(third) * Half + Low(third)
  BY <1>12, Halves
<1>14. High(highLow) + Low(highHigh) + High(second) = High(third) * Half + Low(third)
  BY <1>13
<1> HIDE DEF third
<1>15. low \in Words
  BY <1>2, <1>4, <1>9, Shifted DEF Words
<1>16. fourth \in Nat /\ top \in Nat
  BY <1>2, <1>6, <1>13
<1>17. top * Word + low = m * n
  <2>1. m * n = (a * c) * Word + (a * d) * Half + lowHigh * Half + lowLow
    BY <1>1, <1>2 DEF lowHigh, lowLow
  <2>2. /\ a * d \in Nat /\ a * c \in Nat
        /\ \A x \in Nat : (x * Half) * Half = x * Word
    BY <1>1, <1>2
  <2>3. (a * d) * Half + High(lowLow) * Half = High(highLow) * Word + Low(highLow) * Half
    <3> DEFINE x == a * d
               y == High(lowLow)
               w == High(highLow) * Half
               v == Low(highLow)
    <3>2. x \in Nat /\ y \in Nat /\ w \in Nat /\ v \in Nat /\ x + y = w + v
      BY <1>2, <1>4, <1>6, <1>7, <2>2
    <3> HIDE DEF x, y, w, v
    <3>3. x * Half + y * Half = w * Half + v * Half
      BY <1>2, <3>2, Scale
    <3>1. (a * d) * Half + High(lowLow) * Half = (High(highLow) * Half) * Half + Low(highLow) * Half
      BY <3>3 DEF x, y, w, v
    <3> QED BY <1>6, <2>2, <3>1
  <2>4. lowHigh * Half = High(lowHigh) * Word + Low(lowHigh) * Half
    BY <1>2, <1>4
  <2>5. (a * c) * Word + High(lowHigh) * Word = (High(highHigh) * Half) * Word + Low(highHigh) * Word
    <3> DEFINE x == a * c
               y == High(lowHigh)
               w == High(highHigh) * Half
               v == Low(highHigh)
    <3>1. x \in Nat /\ y \in Nat /\ w \in Nat /\ v \in Nat /\ x + y = w + v
      BY <1>2, <1>4, <1>6, <1>7, <2>2
    <3> HIDE DEF x, y, w, v
    <3>2. x * Word + y * Word = w * Word + v * Word
      BY <1>2, <3>1, Scale
    <3> QED BY <3>2 DEF x, y, w, v
  <2>6. Low(highLow) * Half + Low(lowHigh) * Half = High(second) * Word + Low(second) * Half
    <3>1. Low(highLow) * Half + Low(lowHigh) * Half = (High(second) * Half) * Half + Low(second) * Half
      <4> DEFINE x == Low(highLow)
                 y == Low(lowHigh)
                 w == High(second) * Half
                 v == Low(second)
      <4>1. x \in Nat /\ y \in Nat /\ w \in Nat /\ v \in Nat /\ x + y = w + v
        BY <1>2, <1>4, <1>6, <1>9, <1>11
      <4> HIDE DEF x, y, w, v
      <4>2. x * Half + y * Half = w * Half + v * Half
        BY <1>2, <4>1, Scale
      <4> QED BY <4>2 DEF x, y, w, v
    <3> QED BY <1>9, <2>2, <3>1
  <2>7. High(highLow) * Word + Low(highHigh) * Word + High(second) * Word
          = (High(third) * Half) * Word + Low(third) * Word
    <3>1. High(highLow) + Low(highHigh) \in Nat
      BY <1>6
    <3>2. (High(highLow) + Low(highHigh)) * Word + High(second) * Word
            = (High(third) * Half) * Word + Low(third) * Word
      <4> DEFINE x == High(highLow) + Low(highHigh)
                 y == High(second)
                 w == High(third) * Half
                 v == Low(third)
      <4>1. x \in Nat /\ y \in Nat /\ w \in Nat /\ v \in Nat /\ x + y = w + v
        BY <1>2, <1>9, <1>13, <1>14, <3>1
      <4> HIDE DEF x, y, w, v
      <4>2. x * Word + y * Word = w * Word + v * Word
        BY <1>2, <4>1, Scale
      <4> QED BY <4>2 DEF x, y, w, v
    <3> QED BY <1>2, <1>6, <3>2
  <2>8. top * Word = Low(third) * Word + (High(highHigh) * Half) * Word + (High(third) * Half) * Word
    <3>1. top = Low(third) + High(highHigh) * Half + High(third) * Half
      BY <1>2, <1>6, <1>13
    <3>2. \A x, y, z \in Nat : (x + y + z) * Word = x * Word + y * Word + z * Word
      BY <1>2
    <3>3. High(highHigh) * Half \in Nat /\ High(third) * Half \in Nat
      BY <1>2, <1>6, <1>13
    <3> HIDE DEF top
    <3> QED BY <1>13, <3>1, <3>2, <3>3
  <2>9. /\ (a * c) * Word \in Nat /\ (a * d) * Half \in Nat /\ lowHigh * Half \in Nat
        /\ High(lowLow) * Half \in Nat /\ High(lowHigh) * Word \in Nat
        /\ High(highLow) * Word \in Nat /\ Low(highHigh) * Word \in Nat
        /\ (High(highHigh) * Half) * Word \in Nat /\ (High(third) * Half) * Word \in Nat
        /\ Low(highLow) * Half \in Nat /\ Low(lowHigh) * Half \in Nat
        /\ High(second) * Word \in Nat /\ Low(second) * Half \in Nat
        /\ Low(third) * Word \in Nat /\ Low(lowLow) \in Nat /\ m * n \in Nat /\ lowLow \in Nat
    BY <1>1, <1>2, <1>3, <1>4, <1>6, <1>9, <1>13, <2>2 DEF Words
  <2>10. low = Low(second) * Half + Low(lowLow)
    OBVIOUS
  <2> HIDE DEF top, low
  <2>11. Low(third) * Word + (High(highHigh) * Half) * Word + (High(third) * Half) * Word
           + Low(second) * Half + Low(lowLow) = m * n
    BY <1>4, <2>1, <2>3, <2>4, <2>5, <2>6, <2>7, <2>9, Columns
  <2> QED BY <2>8, <2>9, <2>10, <2>11
<1>18. top \in Words
  BY <1>15, <1>16, <1>17, HighWord
<1>19. Low(fourth) = fourth
  <2>1. fourth * Half < Half * Half
    BY <1>2, <1>13, <1>16, <1>18 DEF Words
  <2> HIDE DEF fourth
  <2>2. fourth < Half
    <3> SUFFICES ASSUME fourth >= Half PROVE FALSE
      BY <1>2, <1>16
    <3>1. (fourth - Half) * Half >= 0 /\ (fourth - Half) * Half = fourth * Half - Half * Half
      BY <1>2, <1>16
    <3> QED BY <1>2, <1>16, <2>1, <3>1
  <2> QED BY <1>2, <1>16, <2>2 DEF Low
<1>20. PortableMul(m, n) = [low |-> low, high |-> Low(third) + Low(fourth) * Half]
  BY DEF PortableMul, a, b, c, d, lowLow, highLow, lowHigh, highHigh, second, third, fourth, low
<1> QED BY <1>15, <1>17, <1>18, <1>19, <1>20 DEF IsProduct

\* Neither build's product is off for any width of a word: what the run checks
\* for the smallest words holds for all.
THEOREM ProductsAlwaysAgree == ProductsAgree
BY Mul128IsProduct, PortableMulIsProduct DEF ProductsAgree

-----------------------------------------------------------------------------
(* The comparison with 2^256, from the lowest word up *)

\* A sum of two words overflows, or does not; what is left is a word.
LEMMA CaddCarries ==
  ASSUME NEW x \in Words, NEW y \in Words
  PROVE  \E rest \in Words, out \in {0, 1} :
           /\ out = 1 <=> Cadd(x, y)
           /\ x + y = rest + out * Word
<1>1. 1 * Word = Word /\ 0 * Word = 0 /\ Word \in Nat /\ x \in Nat /\ y \in Nat
  BY WordNat DEF Words
<1>2. CASE Wrap(x + y) < x
  <2>1. x + y = Wrap(x + y) + 1 * Word /\ Wrap(x + y) \in Words
    BY <1>1, <1>2, WrapSum
  <2> QED BY <1>2, <2>1 DEF Cadd
<1>3. CASE ~(Wrap(x + y) < x)
  <2>1. x + y = Wrap(x + y) + 0 * Word /\ Wrap(x + y) \in Words
    BY <1>1, <1>3, WrapSum DEF Words
  <2> QED BY <1>3, <2>1 DEF Cadd
<1> QED BY <1>2, <1>3

\* The same with a carry that comes in.
CarriesOut(x, y, in) == \E rest \in Words, out \in {0, 1} :
                          /\ out = 1 <=> Cadc(x, y, in = 1)
                          /\ x + y + in = rest + out * Word

LEMMA CadcCarries ==
  ASSUME NEW x \in Words, NEW y \in Words, NEW in \in {0, 1}
  PROVE  CarriesOut(x, y, in)
<1>1. Word \in Nat /\ Word > 0 /\ x \in 0..(Word - 1) /\ y \in 0..(Word - 1)
  BY WordNat DEF Words
<1>2. PICK s \in 0..(Word - 1) : /\ s = Wrap(x + y)
                                 /\ s < x => x + y = s + Word
                                 /\ ~(s < x) => x + y = s
  BY WrapSum DEF Words
<1>3. Cadc(x, y, in = 1) <=> (s < x \/ (in = 1 /\ s = Word - 1))
  BY <1>2 DEF Cadc
<1>4. 1 * Word = Word /\ 0 * Word = 0
  BY <1>1
<1>5. CASE s < x
  <2>1. x + y + in = (s + in) + 1 * Word /\ s + in \in Words
    BY <1>1, <1>2, <1>4, <1>5 DEF Words
  <2> QED BY <1>3, <1>5, <2>1 DEF CarriesOut
<1>6. CASE ~(s < x) /\ in = 1 /\ s = Word - 1
  <2>1. x + y + in = 0 + 1 * Word /\ 0 \in Words
    BY <1>1, <1>2, <1>4, <1>6 DEF Words
  <2> QED BY <1>3, <1>6, <2>1 DEF CarriesOut
<1>7. CASE ~(s < x) /\ ~(in = 1 /\ s = Word - 1)
  <2>1. x + y + in = (s + in) + 0 * Word /\ s + in \in Words
    BY <1>1, <1>2, <1>4, <1>7 DEF Words
  <2> QED BY <1>3, <1>7, <2>1 DEF CarriesOut
<1> QED BY <1>5, <1>6, <1>7

\* The lowest word never decides whether a multiple of Word is reached.
LEMMA DropLowest ==
  ASSUME NEW u \in Nat, NEW s \in Words, NEW m \in Nat
  PROVE  (u * Word + s < m * Word) <=> (u < m)
<1>1. Word \in Nat /\ Word > 0 /\ s \in 0..(Word - 1)
  BY WordNat DEF Words
<1>2. u * Word \in Nat /\ m * Word \in Nat
  BY <1>1
<1>3. CASE u < m
  <2>1. (m - u - 1) * Word >= 0 /\ (m - u - 1) * Word = m * Word - u * Word - Word
    BY <1>1, <1>3
  <2> QED BY <1>1, <1>2, <1>3, <2>1
<1>4. CASE u >= m
  <2>1. (u - m) * Word >= 0 /\ (u - m) * Word = u * Word - m * Word
    BY <1>1, <1>4
  <2> QED BY <1>1, <1>2, <1>4, <2>1
<1> QED BY <1>3, <1>4


\* One word of the sum: what the words above it add up to, x, takes the high
\* word of the product and the carry of this one.
LEMMA SumWord ==
  ASSUME NEW w \in Nat, NEW x \in Nat, NEW high \in Nat, NEW low \in Nat, NEW above \in Nat,
         NEW incoming \in Nat, NEW rest \in Nat, NEW carry \in Nat,
         low + incoming = rest + carry * w,
         x + high + carry = above
  PROVE  x * w + (high * w + low) + incoming = above * w + rest
<1>1. (x + high + carry) * w = x * w + high * w + carry * w
  OBVIOUS
<1>2. x * w \in Nat /\ high * w \in Nat /\ carry * w \in Nat
  OBVIOUS
<1>3. above * w = x * w + high * w + carry * w
  BY <1>1
<1> QED BY <1>2, <1>3

\* The products of the words h of a hash, as words H and L, and what adding
\* them up leaves, s, and carries, c.
AddedUp(w, d, h0, h1, h2, h3, H0, H1, H2, H3, L0, L1, L2, L3, c1, c2, c3, s1, s2, s3) ==
  /\ H0 * w + L0 = h0 * d
  /\ H1 * w + L1 = h1 * d
  /\ H2 * w + L2 = h2 * d
  /\ H3 * w + L3 = h3 * d
  /\ H0 + L1 = s1 + c1 * w
  /\ H1 + L2 + c1 = s2 + c2 * w
  /\ H2 + L3 + c2 = s3 + c3 * w

\* The value of a hash, times the difficulty, word by word from the top.
SumsTo(w, d, h0, h1, h2, h3, H0, H1, H2, H3, L0, L1, L2, L3, c1, c2, c3, s1, s2, s3) ==
  (((h3 * w + h2) * w + h1) * w + h0) * d
    = ((((H3 + c3) * w + s3) * w + s2) * w + s1) * w + L0

LEMMA SumOfProducts ==
  ASSUME NEW w \in Nat, NEW d \in Nat,
         NEW h0 \in Nat, NEW h1 \in Nat, NEW h2 \in Nat, NEW h3 \in Nat,
         NEW H0 \in Nat, NEW H1 \in Nat, NEW H2 \in Nat, NEW H3 \in Nat,
         NEW L0 \in Nat, NEW L1 \in Nat, NEW L2 \in Nat, NEW L3 \in Nat,
         NEW c1 \in Nat, NEW c2 \in Nat, NEW c3 \in Nat,
         NEW s1 \in Nat, NEW s2 \in Nat, NEW s3 \in Nat,
         AddedUp(w, d, h0, h1, h2, h3, H0, H1, H2, H3, L0, L1, L2, L3, c1, c2, c3, s1, s2, s3)
  PROVE  SumsTo(w, d, h0, h1, h2, h3, H0, H1, H2, H3, L0, L1, L2, L3, c1, c2, c3, s1, s2, s3)
<1>0. /\ H0 * w + L0 = h0 * d /\ H1 * w + L1 = h1 * d
      /\ H2 * w + L2 = h2 * d /\ H3 * w + L3 = h3 * d
      /\ H0 + L1 = s1 + c1 * w /\ H1 + L2 + c1 = s2 + c2 * w /\ H2 + L3 + c2 = s3 + c3 * w
  BY DEF AddedUp
<1>1. PICK u3 \in Nat : u3 = (H3 + c3) * w + s3
  OBVIOUS
<1>2. PICK u2 \in Nat : u2 = u3 * w + s2
  OBVIOUS
<1>3. PICK u1 \in Nat : u1 = u2 * w + s1
  OBVIOUS
<1>4. PICK v2 \in Nat : v2 = h3 * w + h2
  OBVIOUS
<1>5. PICK v1 \in Nat : v1 = v2 * w + h1
  OBVIOUS
<1>6. PICK x3 \in Nat : x3 = h3 * d
  OBVIOUS
<1>7. PICK x2 \in Nat : x2 = v2 * d
  OBVIOUS
<1>8. PICK x1 \in Nat : x1 = v1 * d
  OBVIOUS
<1>9. x2 = x3 * w + h2 * d
  <2>1. (h3 * w + h2) * d = (h3 * d) * w + h2 * d
    OBVIOUS
  <2> QED BY <1>4, <1>6, <1>7, <2>1
<1>10. x1 = x2 * w + h1 * d
  <2>1. (v2 * w + h1) * d = (v2 * d) * w + h1 * d
    OBVIOUS
  <2> QED BY <1>5, <1>7, <1>8, <2>1
<1>11. (v1 * w + h0) * d = x1 * w + h0 * d
  <2>1. (v1 * w + h0) * d = (v1 * d) * w + h0 * d
    OBVIOUS
  <2> QED BY <1>8, <2>1
<1>12. x3 + H2 + c2 = u3
  <2>1. (H3 + c3) * w = H3 * w + c3 * w /\ H3 * w \in Nat /\ c3 * w \in Nat
    OBVIOUS
  <2> QED BY <1>0, <1>1, <1>6, <2>1
<1>13. x2 + H1 + c1 = u2
  <2>1. L2 + (H1 + c1) = s2 + c2 * w
    <3>1. c2 * w \in Nat
      OBVIOUS
    <3> QED BY <1>0, <3>1
  <2>2. x3 * w + (H2 * w + L2) + (H1 + c1) = u3 * w + s2
    BY <1>12, <2>1, SumWord
  <2>3. x3 * w \in Nat
    OBVIOUS
  <2> QED BY <1>0, <1>2, <1>9, <2>2, <2>3
<1>14. x1 + H0 + 0 = u1
  <2>1. L1 + H0 = s1 + c1 * w
    <3>1. c1 * w \in Nat
      OBVIOUS
    <3> QED BY <1>0, <3>1
  <2>2. x2 * w + (H1 * w + L1) + H0 = u2 * w + s1
    BY <1>13, <2>1, SumWord
  <2>3. x2 * w \in Nat
    OBVIOUS
  <2> QED BY <1>0, <1>3, <1>10, <2>2, <2>3
<1>15. x1 * w + (H0 * w + L0) = u1 * w + L0
  <2>1. (x1 + H0) * w = x1 * w + H0 * w
    OBVIOUS
  <2>2. x1 + H0 = u1
    BY <1>14
  <2>3. x1 * w \in Nat /\ H0 * w \in Nat
    OBVIOUS
  <2> QED BY <2>1, <2>2, <2>3
<1> QED BY <1>0, <1>1, <1>2, <1>3, <1>4, <1>5, <1>11, <1>15 DEF SumsTo

-----------------------------------------------------------------------------
\* check_hash_64 compares with 2^256: following only the carries between the
\* words, and asking the highest product to fit its word, decides it.
LEMMA CheckHash64IsExact ==
  ASSUME NEW hash \in Hashes, NEW d \in Words
  PROVE  CheckHash64(hash, d) <=> MeetsDifficulty(hash, d)
<1> DEFINE p0 == Mul128(hash[0], d)
           p1 == Mul128(hash[1], d)
           p2 == Mul128(hash[2], d)
           p3 == Mul128(hash[3], d)
           out1 == Cadd(p0.high, p1.low)
           out2 == Cadc(p1.high, p2.low, out1)
           out3 == Cadc(p2.high, p3.low, out2)
<1>1. /\ hash[0] \in Words /\ hash[1] \in Words /\ hash[2] \in Words /\ hash[3] \in Words
      /\ \A x \in Words : x \in Nat
      /\ Word \in Nat /\ Word > 0 /\ d \in Nat
  BY WordNat DEF Hashes, Words
<1>2. /\ p0.low \in Words /\ p0.high \in Words /\ p0.high * Word + p0.low = hash[0] * d
      /\ p1.low \in Words /\ p1.high \in Words /\ p1.high * Word + p1.low = hash[1] * d
      /\ p2.low \in Words /\ p2.high \in Words /\ p2.high * Word + p2.low = hash[2] * d
      /\ p3.low \in Words /\ p3.high \in Words /\ p3.high * Word + p3.low = hash[3] * d
  BY <1>1, Mul128IsProduct DEF IsProduct
<1>3. CheckHash64(hash, d) <=> (p3.high = 0 /\ ~out3)
  BY DEF CheckHash64
<1>4. out1 \in BOOLEAN /\ out2 \in BOOLEAN /\ out3 \in BOOLEAN
  BY DEF Cadd, Cadc
<1> HIDE DEF p0, p1, p2, p3
<1>5. PICK s1 \in Words, c1 \in {0, 1} :
        /\ c1 = 1 <=> out1
        /\ p0.high + p1.low = s1 + c1 * Word
  BY <1>2, CaddCarries
<1> HIDE DEF out1
<1>6. PICK s2 \in Words, c2 \in {0, 1} :
        /\ c2 = 1 <=> out2
        /\ p1.high + p2.low + c1 = s2 + c2 * Word
  <2>1. out2 <=> Cadc(p1.high, p2.low, c1 = 1)
    BY <1>5 DEF Cadc, out2
  <2> HIDE DEF out2
  <2>2. p1.high \in Words /\ p2.low \in Words /\ c1 \in {0, 1}
    BY <1>2, <1>5
  <2>3. CarriesOut(p1.high, p2.low, c1)
    BY <2>2, CadcCarries
  <2> QED BY <2>1, <2>3 DEF CarriesOut
<1> HIDE DEF out2
<1>7. PICK s3 \in Words, c3 \in {0, 1} :
        /\ c3 = 1 <=> out3
        /\ p2.high + p3.low + c2 = s3 + c3 * Word
  <2>1. out3 <=> Cadc(p2.high, p3.low, c2 = 1)
    BY <1>6 DEF Cadc, out3
  <2> HIDE DEF out3
  <2>2. p2.high \in Words /\ p3.low \in Words /\ c2 \in {0, 1}
    BY <1>2, <1>6
  <2>3. CarriesOut(p2.high, p3.low, c2)
    BY <2>2, CadcCarries
  <2> QED BY <2>1, <2>3 DEF CarriesOut
<1> HIDE DEF out3
<1>8. c1 \in Nat /\ c2 \in Nat /\ c3 \in Nat /\ (~out3 <=> c3 = 0)
  BY <1>7
<1> DEFINE u3 == (p3.high + c3) * Word + s3
           u2 == u3 * Word + s2
           u1 == u2 * Word + s1
<1>9. /\ hash[0] \in Nat /\ hash[1] \in Nat /\ hash[2] \in Nat /\ hash[3] \in Nat
      /\ p0.high \in Nat /\ p1.high \in Nat /\ p2.high \in Nat /\ p3.high \in Nat
      /\ p0.low \in Nat /\ p1.low \in Nat /\ p2.low \in Nat /\ p3.low \in Nat
      /\ s1 \in Nat /\ s2 \in Nat /\ s3 \in Nat
  BY <1>1, <1>2
<1>10. Value(hash) * d = u1 * Word + p0.low
  <2>1. AddedUp(Word, d, hash[0], hash[1], hash[2], hash[3],
                p0.high, p1.high, p2.high, p3.high, p0.low, p1.low, p2.low, p3.low,
                c1, c2, c3, s1, s2, s3)
    BY <1>2, <1>5, <1>6, <1>7 DEF AddedUp
  <2>2. SumsTo(Word, d, hash[0], hash[1], hash[2], hash[3],
               p0.high, p1.high, p2.high, p3.high, p0.low, p1.low, p2.low, p3.low,
               c1, c2, c3, s1, s2, s3)
    BY <1>1, <1>8, <1>9, <2>1, SumOfProducts
  <2> QED BY <2>2 DEF SumsTo, Value
<1>11. u3 \in Nat /\ u2 \in Nat /\ u1 \in Nat
  <2>1. u3 \in Nat
    BY <1>1, <1>8, <1>9
  <2> HIDE DEF u3
  <2>2. u2 \in Nat
    BY <1>1, <1>9, <2>1
  <2> HIDE DEF u2
  <2> QED BY <1>1, <1>9, <2>1, <2>2
<1> HIDE DEF u1
<1>12. (u1 * Word + p0.low < Word * Word * Word * Word) <=> (u1 < Word * Word * Word)
  <2>1. Word * Word * Word \in Nat
    BY <1>1
  <2> QED BY <1>2, <1>11, <2>1, DropLowest
<1> HIDE DEF u2
<1>13. (u1 < Word * Word * Word) <=> (u2 < Word * Word)
  <2>1. Word * Word \in Nat
    BY <1>1
  <2> QED BY <1>11, <2>1, DropLowest DEF u1
<1> HIDE DEF u3
<1>14. (u2 < Word * Word) <=> (u3 < Word)
  BY <1>1, <1>11, DropLowest DEF u2
<1>15. (u3 < Word) <=> (p3.high + c3 < 1)
  <2>1. 1 * Word = Word /\ p3.high + c3 \in Nat
    BY <1>1, <1>8, <1>9
  <2>2. ((p3.high + c3) * Word + s3 < 1 * Word) <=> (p3.high + c3 < 1)
    BY <2>1, DropLowest
  <2> QED BY <2>1, <2>2 DEF u3
<1>16. MeetsDifficulty(hash, d) <=> (p3.high + c3 < 1)
  BY <1>10, <1>12, <1>13, <1>14, <1>15 DEF MeetsDifficulty
<1> QED BY <1>3, <1>8, <1>9, <1>16

\* The miner reports a hash exactly when the daemon will take it: for every
\* hash and every difficulty, on either side of the 64-bit boundary.
THEOREM CheckHashIsExact ==
  ASSUME NEW hash \in Hashes, NEW d \in Nat
  PROVE  CheckHash(hash, d) <=> MeetsDifficulty(hash, d)
<1>1. Word \in Nat /\ Word > 0
  BY WordNat
<1>2. CASE d <= Word - 1
  <2>1. d \in Words
    BY <1>1, <1>2 DEF Words
  <2> QED BY <1>2, <2>1, CheckHash64IsExact DEF CheckHash
<1>3. CASE ~(d <= Word - 1)
  <2>1. hash[0] \in Nat /\ hash[1] \in Nat /\ hash[2] \in Nat /\ hash[3] \in Nat
    BY <1>1 DEF Hashes, Words
  <2>2. Value(hash) \in Nat
    BY <1>1, <2>1 DEF Value
  <2>3. Value(hash) * d \in Nat /\ Word * Word * Word * Word \in Nat
    BY <1>1, <2>2
  <2>4. CheckHash(hash, d) <=> (Value(hash) * d <= Word * Word * Word * Word - 1)
    BY <1>3 DEF CheckHash, CheckHash128
  <2> QED BY <2>3, <2>4 DEF MeetsDifficulty
<1> QED BY <1>2, <1>3

\* What a run checks for the smallest words holds for words of every width.
THEOREM AlwaysChecksDifficulty == ChecksDifficulty
BY CheckHashIsExact, WordNat DEF ChecksDifficulty
=============================================================================
