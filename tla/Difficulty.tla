----------------------------- MODULE Difficulty -----------------------------
(***************************************************************************)
(* control-center/src/difficulty.cpp: whether a hash meets a difficulty,   *)
(* that is whether their product stays below 2^256, computed in 64-bit     *)
(* words; and the two ways the build may multiply words (mul128 of epee's  *)
(* int-util.h on x86_64, a portable product elsewhere).                    *)
(*                                                                         *)
(* Half stands for 2^32.  A word is what unsigned arithmetic leaves of a   *)
(* number: its remainder by Word.  A hash is four words, the lowest first. *)
(***************************************************************************)
EXTENDS Naturals

CONSTANT Half

ASSUME HalfAssumption == Half \in Nat /\ Half >= 2

Word == Half * Half

Words == 0..(Word - 1)

Hashes == [0..3 -> Words]

Wrap(n) == n % Word

High(n) == n \div Half

Low(n) == n % Half

\* x << 32 of a word: its high half is lost.
ShiftUp(n) == Low(n) * Half

-----------------------------------------------------------------------------
(* Products of two words, as a low and a high word *)

\* mul128: three partial sums, each with a carry of its own.
Mul128(multiplier, multiplicand) ==
  LET a == High(multiplier)
      b == Low(multiplier)
      c == High(multiplicand)
      d == Low(multiplicand)
      cross == Wrap(a * d + b * c)
      crossCarry == IF cross < a * d THEN 1 ELSE 0
      low == Wrap(b * d + ShiftUp(cross))
      lowCarry == IF low < b * d THEN 1 ELSE 0
  IN  [low |-> low,
       high |-> Wrap(a * c + High(cross) + crossCarry * Half + lowCarry)]

\* The portable product: four half words, carries kept in the upper halves.
PortableMul(a, b) ==
  LET lowLow == Low(a) * Low(b)
      highLow == High(a) * Low(b) + High(lowLow)
      lowHigh == Low(a) * High(b)
      highHigh == High(a) * High(b) + High(lowHigh)
      second == Low(highLow) + Low(lowHigh)
      third == High(highLow) + Low(highHigh) + High(second)
      fourth == High(highHigh) + High(third)
  IN  [low |-> Low(second) * Half + Low(lowLow),
       high |-> Low(third) + Low(fourth) * Half]

-----------------------------------------------------------------------------
(* Sums of words, of which only the carry is asked *)

\* cadd: does a + b overflow?
Cadd(a, b) == Wrap(a + b) < a

\* Faulty: the carry that comes in is forgotten when the sum is all ones.
CadcDroppingCarry(a, b, carry) == Wrap(a + b) < a

\* cadc: does a + b and a carry overflow?
Cadc(a, b, carry) == Wrap(a + b) < a \/ (carry /\ Wrap(a + b) = Word - 1)

-----------------------------------------------------------------------------
\* The sum of the four shifted products is never formed: the highest product
\* must fit its word, and then only carries between the words are followed.
CheckHash64(hash, difficulty) ==
  LET product == [i \in 0..3 |-> Mul128(hash[i], difficulty)]
      carry1 == Cadd(product[0].high, product[1].low)
      carry2 == Cadc(product[1].high, product[2].low, carry1)
      carry3 == Cadc(product[2].high, product[3].low, carry2)
  IN  product[3].high = 0 /\ ~carry3

Value(hash) == ((hash[3] * Word + hash[2]) * Word + hash[1]) * Word + hash[0]

\* check_hash_128, with 512-bit numbers: nothing wraps.
CheckHash128(hash, difficulty) == Value(hash) * difficulty <= Word * Word * Word * Word - 1

\* check_hash
CheckHash(hash, difficulty) == IF difficulty <= Word - 1
                                 THEN CheckHash64(hash, difficulty)
                                 ELSE CheckHash128(hash, difficulty)

-----------------------------------------------------------------------------
IsProduct(result, a, b) == /\ result.low \in Words
                           /\ result.high \in Words
                           /\ result.high * Word + result.low = a * b

\* Both products are the product, whatever carries it takes: neither build
\* accepts a hash the other rejects.
ProductsAgree == \A a, b \in Words : /\ IsProduct(Mul128(a, b), a, b)
                                     /\ IsProduct(PortableMul(a, b), a, b)

MeetsDifficulty(hash, difficulty) ==
  Value(hash) * difficulty < Word * Word * Word * Word

\* check_hash accepts a hash exactly when it meets the difficulty: a lost carry
\* would let the miner report hashes the daemon penalises, one too many would
\* throw found hashes away.
ChecksDifficulty == \A hash \in Hashes, difficulty \in 0..Word :
                      CheckHash(hash, difficulty) <=> MeetsDifficulty(hash, difficulty)
=============================================================================
