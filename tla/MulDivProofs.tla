---------------------------- MODULE MulDivProofs ----------------------------
(***************************************************************************)
(* The multiplier and either divider are right for words of every even     *)
(* width, for signed and unsigned operands, and whatever was abandoned     *)
(* before.                                                                 *)
(*                                                                         *)
(* After j iterations the dividend is what the quotient's digits so far    *)
(* and the partial remainder make of it, and a rest in buf2 that has still *)
(* to be used (Holds); a division in state md has made as many iterations  *)
(* as the counter says (Dividing).                                         *)
(***************************************************************************)
EXTENDS MulDiv, TLAPS

(* Arithmetic *)

\* A number below four times R has a digit in front of R,
LEMMA TopDigit ==
  ASSUME NEW R \in Nat \ {0}, NEW rest \in 0 .. 4 * R - 1
  PROVE  \E t \in 0 .. 3, low \in 0 .. R - 1 : rest = t * R + low
<1>1. CASE rest < R
  <2>1. rest = 0 * R + rest /\ rest \in 0 .. R - 1
    BY <1>1
  <2> QED
    BY <2>1
<1>2. CASE R <= rest /\ rest < 2 * R
  <2>1. rest = 1 * R + (rest - R) /\ rest - R \in 0 .. R - 1
    BY <1>2
  <2> QED
    BY <2>1
<1>3. CASE 2 * R <= rest /\ rest < 3 * R
  <2>1. rest = 2 * R + (rest - 2 * R) /\ rest - 2 * R \in 0 .. R - 1
    BY <1>3
  <2> QED
    BY <2>1
<1>4. CASE 3 * R <= rest
  <2>1. rest = 3 * R + (rest - 3 * R) /\ rest - 3 * R \in 0 .. R - 1
    BY <1>4
  <2> QED
    BY <2>1
<1> QED
  BY <1>1, <1>2, <1>3, <1>4

\* and one below twice R has a bit.
LEMMA TopBit ==
  ASSUME NEW R \in Nat \ {0}, NEW rest \in 0 .. 2 * R - 1
  PROVE  \E t \in 0 .. 1, low \in 0 .. R - 1 : rest = t * R + low
<1>1. CASE rest < R
  <2>1. rest = 0 * R + rest /\ rest \in 0 .. R - 1
    BY <1>1
  <2> QED
    BY <2>1
<1>2. CASE R <= rest
  <2>1. rest = 1 * R + (rest - R) /\ rest - R \in 0 .. R - 1
    BY <1>2
  <2> QED
    BY <2>1
<1> QED
  BY <1>1, <1>2

\* The digit is what \div finds, the rest what % finds.
LEMMA DivMod ==
  ASSUME NEW Q \in Nat \ {0}, NEW t \in 0 .. 3, NEW low \in 0 .. Q - 1
  PROVE  (t * Q + low) \div Q = t /\ (t * Q + low) % Q = low
<1>1. CASE t = 0
  BY <1>1
<1>2. CASE t = 1
  BY <1>2
<1>3. CASE t = 2
  BY <1>3
<1>4. CASE t = 3
  BY <1>4
<1> QED
  BY <1>1, <1>2, <1>3, <1>4

\* A word is its own remainder.
LEMMA SmallMod ==
  ASSUME NEW M \in Nat \ {0}, NEW x \in 0 .. M - 1
  PROVE  x % M = x
OBVIOUS

\* A digit moves from the rest of the dividend to the partial remainder, and
\* a multiple of the divisor from there to the quotient.
LEMMA Recombine ==
  ASSUME NEW q \in Nat, NEW D \in Nat, NEW b \in Nat, NEW R \in Nat, NEW t \in Nat,
         NEW low \in Nat, NEW d \in Nat,
         NEW A \in Nat, A = (q * D + b) * (4 * R) + (t * R + low)
  PROVE  A = ((4 * q + d) * D + ((4 * b + t) - d * D)) * R + low
OBVIOUS

\* The same for a bit.
LEMMA RecombineBit ==
  ASSUME NEW q \in Nat, NEW D \in Nat, NEW b \in Nat, NEW R \in Nat, NEW t \in Nat,
         NEW low \in Nat, NEW d \in Nat,
         NEW A \in Nat, A = (q * D + b) * (2 * R) + (t * R + low)
  PROVE  A = ((2 * q + d) * D + ((2 * b + t) - d * D)) * R + low
OBVIOUS

\* Two numbers side by side.
LEMMA Below ==
  ASSUME NEW P \in Nat, NEW R \in Nat, NEW low \in 0 .. R - 1, NEW q \in 0 .. P - 1
  PROVE  low * P + q \in 0 .. R * P - 1
<1>1. low * P <= (R - 1) * P
  OBVIOUS
<1>2. low * P \in Nat /\ (R - 1) * P = R * P - P
  OBVIOUS
<1> QED
  BY <1>1, <1>2

-----------------------------------------------------------------------------
(* The registers of the divider after some iterations *)

\* The quotient so far is in the lower part of buf2 and what is left of the
\* dividend above it; P and R are the powers of two in between.  A divisor of zero
\* leaves the dividend, but not in the radix-2 divider.
DividedSoFar(A, D, buf1, buf2, P, R) ==
  /\ P * R = Modulus
  /\ \E q \in 0 .. P - 1, rest \in 0 .. R - 1 :
       /\ buf2 = rest * P + q
       /\ D # 0 \/ fast => A = (q * D + buf1) * R + rest
       /\ D = 0 => q = P - 1
  /\ D # 0 => buf1 < D

\* An iteration of the radix-4 divider.
LEMMA DigitStep ==
  ASSUME fast = TRUE, Modulus \in Nat \ {0}, Quarter \in Nat \ {0}, Modulus = 4 * Quarter,
         NEW A \in Word, NEW P \in Nat \ {0}, NEW R \in Nat \ {0},
         div.buf1 \in Word, div.buf2 \in Word, div.divisor \in Word,
         DividedSoFar(A, div.divisor, div.buf1, div.buf2, P, 4 * R)
  PROVE  /\ Iteration4.buf1 \in Word /\ Iteration4.buf2 \in Word
         /\ DividedSoFar(A, div.divisor, Iteration4.buf1, Iteration4.buf2, 4 * P, R)
<1> DEFINE D == div.divisor
<1> DEFINE b == div.buf1
<1>0. D \in Nat /\ b \in Nat /\ A \in Nat /\ A < Modulus /\ D < Modulus
  BY DEF Word, Modulus
<1>1. PICK q \in 0 .. P - 1, rest \in 0 .. 4 * R - 1 :
        /\ div.buf2 = rest * P + q
        /\ A = (q * D + b) * (4 * R) + rest
        /\ D = 0 => q = P - 1
  BY DEF DividedSoFar
<1>2. PICK t \in 0 .. 3, low \in 0 .. R - 1 : rest = t * R + low
  BY TopDigit
<1>3. R * P = Quarter
  <2>1. P * (4 * R) = Modulus
    BY DEF DividedSoFar
  <2>2. P * (4 * R) = 4 * (R * P)
    OBVIOUS
  <2> QED
    BY <2>1, <2>2
<1>4. low * P + q \in 0 .. Quarter - 1
  BY <1>3, Below
<1>5. div.buf2 = t * Quarter + (low * P + q)
  <2>1. (t * R + low) * P + q = t * (R * P) + (low * P + q)
    OBVIOUS
  <2> QED
    BY <1>1, <1>2, <1>3, <2>1
<1>6. div.buf2 \div Quarter = t /\ div.buf2 % Quarter = low * P + q
  <2> DEFINE lower == low * P + q
  <2> HIDE DEF lower
  <2>1. lower \in 0 .. Quarter - 1
    BY <1>4 DEF lower
  <2>2. (t * Quarter + lower) \div Quarter = t /\ (t * Quarter + lower) % Quarter = lower
    BY <2>1, DivMod
  <2> QED
    BY <1>5, <2>2 DEF lower
<1>7. Top4 = 4 * b + t /\ Top4 \in Nat
  BY <1>0, <1>6 DEF Top4
<1>8. PICK d \in 0 .. 3 : /\ Digit4 = d
                          /\ d * D <= Top4
                          /\ D # 0 => Top4 - d * D < D
                          /\ D = 0 => d = 3
  <2>1. D # 0 => Top4 < 4 * D
    BY <1>0, <1>7 DEF DividedSoFar
  <2>2. CASE Top4 >= 3 * D
    <3>1. Digit4 = 3
      BY <2>2, <1>0, <1>7 DEF Digit4
    <3> QED
      BY <3>1, <2>1, <2>2, <1>0, <1>7
  <2>3. CASE Top4 < 3 * D /\ Top4 >= 2 * D
    <3>1. Digit4 = 2
      BY <2>3, <1>0, <1>7 DEF Digit4
    <3>2. 2 * D <= Top4 /\ Top4 - 2 * D < D /\ D # 0
      BY <2>3, <1>0, <1>7
    <3> QED
      BY <3>1, <3>2
  <2>4. CASE Top4 < 2 * D /\ Top4 >= D
    <3>1. Digit4 = 1
      BY <2>4, <1>0, <1>7 DEF Digit4
    <3> QED
      BY <3>1, <2>4, <1>0, <1>7
  <2>5. CASE Top4 < D
    <3>1. Digit4 = 0
      BY <2>5, <1>0, <1>7 DEF Digit4
    <3> QED
      BY <3>1, <2>5, <1>0, <1>7
  <2> QED
    BY <2>2, <2>3, <2>4, <2>5, <1>0, <1>7
<1>9. A = ((4 * q + d) * D + (Top4 - d * D)) * R + low
  <2>1. A = (q * D + b) * (4 * R) + (t * R + low)
    BY <1>1, <1>2
  <2>2. q \in Nat /\ t \in Nat /\ low \in Nat /\ d \in Nat /\ D \in Nat /\ b \in Nat /\ A \in Nat
    BY <1>0
  <2>3. A = ((4 * q + d) * D + ((4 * b + t) - d * D)) * R + low
    <3> HIDE DEF D, b
    <3> QED
      BY <2>1, <2>2, Recombine
  <2> QED
    BY <1>7, <2>3
<1>10. Top4 - d * D \in Word
  <2>1. CASE D # 0
    BY <2>1, <1>0, <1>7, <1>8 DEF Word, Modulus
  <2>2. CASE D = 0
    <3>1. A = Top4 * R + low
      BY <2>2, <1>7, <1>9
    <3>2. Top4 <= Top4 * R
      BY <1>7
    <3> QED
      BY <2>2, <3>1, <3>2, <1>0, <1>7 DEF Word, Modulus
  <2> QED
    BY <2>1, <2>2
<1>11. Iteration4.buf1 = Top4 - d * D
  <2>1. (Top4 - d * D) % Modulus = Top4 - d * D
    BY <1>10, SmallMod DEF Word, Modulus
  <2> QED
    BY <1>8, <2>1 DEF Iteration4
<1>12. Iteration4.buf2 = low * (4 * P) + (4 * q + d)
  <2>1. 4 * (low * P + q) + d = low * (4 * P) + (4 * q + d)
    OBVIOUS
  <2> QED
    BY <1>6, <1>8, <2>1 DEF Iteration4
<1>13. 4 * q + d \in 0 .. 4 * P - 1
  OBVIOUS
<1>14. Iteration4.buf2 \in Word
  <2>1. R * (4 * P) = Modulus
    BY <1>3
  <2> QED
    BY <1>12, <1>13, <2>1, Below DEF Word, Modulus
<1>15. D = 0 => 4 * q + d = 4 * P - 1
  BY <1>1, <1>8
<1>16. (4 * P) * R = Modulus
  BY <1>3
<1> QED
  BY <1>8, <1>9, <1>10, <1>11, <1>12, <1>13, <1>14, <1>15, <1>16 DEF DividedSoFar

\* A partial remainder has no more bits than have been used of the dividend.
LEMMA RemainderFits ==
  ASSUME NEW P \in Nat, NEW R \in Nat \ {0}, NEW q \in Nat, NEW D \in Nat, NEW b \in Nat,
         NEW rest \in Nat, (q * D + b) * R + rest < P * R
  PROVE  b < P
<1> SUFFICES ASSUME b >= P PROVE FALSE
  OBVIOUS
<1>1. q * D \in Nat
  OBVIOUS
<1> DEFINE n == q * D + b
<1>2. n \in Nat /\ n >= P
  BY <1>1
<1> HIDE DEF n
<1>3. n * R >= P * R
  BY <1>2
<1>4. n * R + rest < P * R /\ n * R \in Nat /\ P * R \in Nat
  BY <1>2 DEF n
<1> QED
  BY <1>3, <1>4

\* An iteration of the radix-2 divider: the bits it cuts off are zero, unless the
\* divisor is.
LEMMA BitStep ==
  ASSUME fast = FALSE, Modulus \in Nat \ {0}, Half \in Nat \ {0}, Modulus = 2 * Half,
         NEW A \in Word, NEW P \in Nat \ {0}, NEW R \in Nat \ {0},
         div.buf1 \in Word, div.buf2 \in Word, div.divisor \in Word,
         DividedSoFar(A, div.divisor, div.buf1, div.buf2, P, 2 * R)
  PROVE  DividedSoFar(A, div.divisor, Iteration2.buf1, Iteration2.buf2, 2 * P, R)
<1> DEFINE D == div.divisor
           b == div.buf1
<1>0. D \in Nat /\ b \in Nat /\ A \in Nat /\ A < Modulus /\ D < Modulus /\ b < Modulus
  BY DEF Word, Modulus
<1>1. PICK q \in 0 .. P - 1, rest \in 0 .. 2 * R - 1 :
        /\ div.buf2 = rest * P + q
        /\ D # 0 => A = (q * D + b) * (2 * R) + rest
        /\ D = 0 => q = P - 1
  BY DEF DividedSoFar
<1>2. PICK t \in 0 .. 1, low \in 0 .. R - 1 : rest = t * R + low
  BY TopBit
<1>3. P * (2 * R) = Modulus /\ R * P = Half
  <2>1. P * (2 * R) = Modulus
    BY DEF DividedSoFar
  <2>2. P * (2 * R) = 2 * (R * P)
    OBVIOUS
  <2> QED
    BY <2>1, <2>2
<1>4. low * P + q \in 0 .. Half - 1
  BY <1>3, Below
<1>5. div.buf2 = t * Half + (low * P + q)
  <2>1. (t * R + low) * P + q = t * (R * P) + (low * P + q)
    OBVIOUS
  <2> QED
    BY <1>1, <1>2, <1>3, <2>1
<1>6. div.buf2 \div Half = t /\ div.buf2 % Half = low * P + q
  <2> DEFINE lower == low * P + q
  <2> HIDE DEF lower
  <2>1. lower \in 0 .. Half - 1
    BY <1>4 DEF lower
  <2>2. (t * Half + lower) \div Half = t /\ (t * Half + lower) % Half = lower
    BY <2>1, DivMod
  <2> QED
    BY <1>5, <2>2 DEF lower
<1>7. Top2 = (2 * b + t) % Modulus /\ Top2 \in Nat
  BY <1>0, <1>6 DEF Top2
<1>8. D # 0 => 2 * b + t < Modulus
  <2> SUFFICES ASSUME D # 0 PROVE 2 * b + t < Modulus
    OBVIOUS
  <2>1. (q * D + b) * (2 * R) + rest < P * (2 * R)
    BY <1>0, <1>1, <1>3
  <2>2. b < P
    <3> HIDE DEF D, b
    <3>1. 2 * R \in Nat \ {0} /\ P \in Nat /\ q \in Nat /\ rest \in Nat
      OBVIOUS
    <3> QED
      BY <1>0, <2>1, <3>1, RemainderFits
  <2>3. P <= Half
    BY <1>3
  <2> QED
    BY <1>0, <2>2, <2>3
<1>9. D # 0 => Top2 = 2 * b + t
  <2> HIDE DEF D, b
  <2>1. D # 0 => 2 * b + t \in 0 .. Modulus - 1
    BY <1>0, <1>8
  <2> QED
    BY <1>7, <2>1, SmallMod
<1>10. PICK d \in 0 .. 1 : /\ Subtracted2 <=> d = 1
                           /\ D = 0 => d = 1
                           /\ D # 0 => /\ d * D <= Top2 /\ Top2 - d * D < D
                                        /\ Iteration2.buf1 = Top2 - d * D
  <2>1. CASE Subtracted2
    <3>1. Top2 >= D /\ Iteration2.buf1 = (Top2 - D) % Half
      BY <2>1 DEF Subtracted2, Iteration2
    <3>2. D # 0 => Top2 - D < D /\ Top2 < Modulus
      BY <1>0, <1>8, <1>9 DEF DividedSoFar
    <3>3. D # 0 => Top2 - D \in 0 .. Half - 1
      BY <1>0, <1>7, <3>1, <3>2
    <3>4. D # 0 => (Top2 - D) % Half = Top2 - D
      BY <3>3, SmallMod
    <3>5. 1 \in 0 .. 1 /\ 1 * D = D
      BY <1>0
    <3> QED
      BY <2>1, <3>1, <3>2, <3>4, <3>5
  <2>2. CASE ~Subtracted2
    <3>1. Top2 < D /\ Iteration2.buf1 = Top2
      BY <1>0, <1>7, <2>2 DEF Subtracted2, Iteration2
    <3>2. D # 0 /\ 0 * D = 0 /\ 0 \in 0 .. 1 /\ Top2 - 0 = Top2
      BY <1>0, <1>7, <3>1
    <3> QED
      BY <1>7, <2>2, <3>1, <3>2
  <2> QED
    BY <2>1, <2>2
<1>11. D # 0 => A = ((2 * q + d) * D + Iteration2.buf1) * R + low
  <2> SUFFICES ASSUME D # 0
               PROVE  A = ((2 * q + d) * D + Iteration2.buf1) * R + low
    OBVIOUS
  <2>1. A = (q * D + b) * (2 * R) + (t * R + low)
    BY <1>1, <1>2
  <2>2. q \in Nat /\ t \in Nat /\ low \in Nat /\ d \in Nat /\ R \in Nat
    OBVIOUS
  <2>3. A = ((2 * q + d) * D + ((2 * b + t) - d * D)) * R + low
    <3> HIDE DEF D, b
    <3> QED
      BY <1>0, <2>1, <2>2, RecombineBit
  <2>4. Iteration2.buf1 = (2 * b + t) - d * D
    BY <1>9, <1>10
  <2> QED
    BY <2>3, <2>4
<1>12. Iteration2.buf2 = low * (2 * P) + (2 * q + d)
  <2>1. 2 * (low * P + q) + d = low * (2 * P) + (2 * q + d)
    OBVIOUS
  <2>2. Iteration2.buf2 = 2 * (low * P + q) + d
    BY <1>6, <1>10 DEF Iteration2
  <2> QED
    BY <2>1, <2>2
<1>13. 2 * q + d \in 0 .. 2 * P - 1
  OBVIOUS
<1>14. D = 0 => 2 * q + d = 2 * P - 1
  BY <1>1, <1>10
<1>15. (2 * P) * R = Modulus
  BY <1>3
<1>16. D # 0 => Iteration2.buf1 < D
  BY <1>10
<1> QED
  <2> HIDE DEF D
  <2>1. \E e \in 0 .. 2 * P - 1, l \in 0 .. R - 1 :
          /\ Iteration2.buf2 = l * (2 * P) + e
          /\ D # 0 \/ fast => A = (e * D + Iteration2.buf1) * R + l
          /\ D = 0 => e = 2 * P - 1
    BY <1>11, <1>12, <1>13, <1>14
  <2> QED
    BY <1>15, <1>16, <2>1 DEF DividedSoFar, D

-----------------------------------------------------------------------------
(* The inductive invariant *)

\* The bits that an iteration uses.
Bits == IF fast THEN 2 ELSE 1

\* After j iterations of the operation that was asked for.
Holds(j) ==
  /\ div.divisor = Magnitude(asked.op, asked.b)
  /\ div.outsign = Outsign(asked.op, asked.a, asked.b)
  /\ DividedSoFar(Magnitude(asked.op, asked.a), div.divisor, div.buf1, div.buf2,
                  Power[Bits * j], Power[Width - Bits * j])

\* A division in state md is not disturbed by the multiplier, and has made as
\* many iterations as the counter says.
Dividing ==
  /\ ~mul.running /\ ~mul.ready
  /\ \/ div.running /\ ~div.ready /\ div.count \in 1 .. Iterations /\ Holds(div.count - 1)
     \/ ~div.running /\ div.ready /\ Holds(Iterations)

Inv ==
  /\ TypeOK /\ fast \in BOOLEAN
  /\ state = "exec" => ~mul.running
  /\ md_start => state = "intr"
  /\ state = "md" => asked \in Operations /\ md_op = asked.op
  /\ (state = "md" /\ IsDivision(asked.op)) => Dividing
  /\ ended => state = "exec" /\ asked \in Operations /\ md_op = asked.op
  /\ (ended /\ IsDivision(asked.op)) => Holds(Iterations)

\* The powers that the divider uses.
LEMMA PowerFacts ==
  /\ Steps \in Nat \ {0} /\ Width \in Nat /\ Width >= 2
  /\ Modulus \in Nat \ {0} /\ Half \in Nat \ {0} /\ Quarter \in Nat \ {0}
  /\ Modulus = 2 * Half /\ Half = 2 * Quarter
  /\ Power[0] = 1 /\ Power[Width] = Modulus /\ Word = 0 .. Modulus - 1
  /\ \A k \in 0 .. Width : Power[k] \in Nat \ {0}
  /\ \A k \in 1 .. Width : Power[k] = 2 * Power[k - 1]
<1>1. Steps \in Nat \ {0} /\ Width = 2 * Steps
  BY MulDivAssumption DEF Width
<1>2. \A k \in 0 .. Width : Power[k] \in Nat \ {0}
  BY MulDivAssumption
<1>3. \A k \in 1 .. Width : Power[k] = 2 * Power[k - 1]
  BY MulDivAssumption
<1>4. Power[Width] = 2 * Power[Width - 1] /\ Power[Width - 1] = 2 * Power[Width - 2]
  BY <1>1, <1>3
<1>5. Power[0] = 1
  BY MulDivAssumption
<1> QED
  BY <1>1, <1>2, <1>3, <1>4, <1>5 DEF Modulus, Half, Quarter, Word

\* How an iteration moves the border in buf2.
LEMMA Borders ==
  ASSUME fast \in BOOLEAN
  PROVE  /\ Iterations \in Nat \ {0} /\ Bits * Iterations = Width
         /\ \A j \in 1 .. Iterations :
              LET P == Power[Bits * (j - 1)]
                  R == Power[Width - Bits * j]
              IN /\ P \in Nat \ {0} /\ R \in Nat \ {0}
                 /\ fast  => /\ Power[Bits * j] = 4 * P
                             /\ Power[Width - Bits * (j - 1)] = 4 * R
                 /\ ~fast => /\ Power[Bits * j] = 2 * P
                             /\ Power[Width - Bits * (j - 1)] = 2 * R
<1>1. Steps \in Nat \ {0} /\ Width = 2 * Steps /\ Width \in Nat
  BY PowerFacts DEF Width
<1>2. \A k \in 0 .. Width : Power[k] \in Nat \ {0}
  BY PowerFacts
<1>3. \A k \in 1 .. Width : Power[k] = 2 * Power[k - 1]
  BY PowerFacts
<1>4. CASE fast
  <2>1. Iterations = Steps /\ Bits = 2
    BY <1>4 DEF Iterations, Bits
  <2>2. ASSUME NEW j \in 1 .. Steps
        PROVE  /\ Power[2 * (j - 1)] \in Nat \ {0} /\ Power[Width - 2 * j] \in Nat \ {0}
               /\ Power[2 * j] = 4 * Power[2 * (j - 1)]
               /\ Power[Width - 2 * (j - 1)] = 4 * Power[Width - 2 * j]
    <3>1. /\ Power[2 * j] = 2 * Power[2 * j - 1]
          /\ Power[2 * j - 1] = 2 * Power[2 * j - 2]
          /\ Power[2 * j - 2] \in Nat \ {0}
      BY <1>1, <1>2, <1>3
    <3>2. /\ Power[Width - 2 * j + 2] = 2 * Power[Width - 2 * j + 1]
          /\ Power[Width - 2 * j + 1] = 2 * Power[Width - 2 * j]
          /\ Power[Width - 2 * j] \in Nat \ {0}
      BY <1>1, <1>2, <1>3
    <3>3. 2 * (j - 1) = 2 * j - 2 /\ Width - 2 * (j - 1) = Width - 2 * j + 2
      BY <1>1
    <3> QED
      BY <3>1, <3>2, <3>3
  <2> QED
    BY <1>1, <1>4, <2>1, <2>2
<1>5. CASE ~fast
  <2>1. Iterations = Width /\ Bits = 1
    BY <1>5 DEF Iterations, Bits
  <2>2. ASSUME NEW j \in 1 .. Width
        PROVE  /\ Power[1 * (j - 1)] \in Nat \ {0} /\ Power[Width - 1 * j] \in Nat \ {0}
               /\ Power[1 * j] = 2 * Power[1 * (j - 1)]
               /\ Power[Width - 1 * (j - 1)] = 2 * Power[Width - 1 * j]
    <3>1. Power[j] = 2 * Power[j - 1] /\ Power[j - 1] \in Nat \ {0}
      BY <1>1, <1>2, <1>3
    <3>2. Power[Width - j + 1] = 2 * Power[Width - j] /\ Power[Width - j] \in Nat \ {0}
      BY <1>1, <1>2, <1>3
    <3>3. 1 * (j - 1) = j - 1 /\ 1 * j = j /\ Width - 1 * (j - 1) = Width - j + 1
      BY <1>1
    <3> QED
      BY <3>1, <3>2, <3>3
  <2> QED
    BY <1>1, <1>5, <2>1, <2>2
<1> QED
  BY <1>4, <1>5

\* The operands of an operation are words.
LEMMA OperationType ==
  \A o \in Operations : o.op \in 0 .. 7 /\ o.a \in Word /\ o.b \in Word
BY MulDivAssumption

\* Magnitudes are words.
LEMMA MagnitudeType ==
  ASSUME NEW op, NEW x \in Word
  PROVE  Magnitude(op, x) \in Word
BY PowerFacts DEF Magnitude, Negated, Negative

\* The sign of a result is a bit.
LEMMA OutsignType ==
  ASSUME NEW op, NEW a, NEW b
  PROVE  Outsign(op, a, b) \in BOOLEAN
BY DEF Outsign

\* The digit of the quotient.
LEMMA DigitType ==
  ASSUME div.buf1 \in Word, div.buf2 \in Word, div.divisor \in Word
  PROVE  Top4 \in Int /\ Digit4 \in 0 .. 3
<1> DEFINE D == div.divisor
<1>1. Top4 \in Int
  <2>1. div.buf2 \div Quarter \in Int
    BY PowerFacts
  <2> QED
    BY <2>1, PowerFacts DEF Top4
<1>2. D \in Int
  BY PowerFacts
<1>3. CASE Top4 >= 3 * D
  BY <1>1, <1>2, <1>3 DEF Digit4
<1>4. CASE Top4 < 3 * D /\ Top4 >= 2 * D
  BY <1>1, <1>2, <1>4 DEF Digit4
<1>5. CASE Top4 < 2 * D /\ Top4 >= D
  BY <1>1, <1>2, <1>5 DEF Digit4
<1>6. CASE Top4 < D
  BY <1>1, <1>2, <1>6, PowerFacts DEF Digit4
<1> QED
  BY <1>1, <1>2, <1>3, <1>4, <1>5, <1>6

\* Both dividers keep words in their registers.
LEMMA IterationType ==
  ASSUME TypeOK
  PROVE  /\ Iteration.buf1 \in Word /\ Iteration.buf2 \in Word
         /\ Iteration.divisor = div.divisor /\ Iteration.outsign = div.outsign
<1>1. div.buf1 \in Word /\ div.buf2 \in Word /\ div.divisor \in Word
  BY DEF TypeOK
<1>2. CASE fast
  <2>1. Iteration4.buf1 \in Word
    <3>1. Top4 \in Int /\ Digit4 * div.divisor \in Int
      BY <1>1, DigitType, PowerFacts
    <3> QED
      BY SMTT(20), <3>1, PowerFacts DEF Iteration4
  <2>2. Iteration4.buf2 \in Word
    <3>1. div.buf2 % Quarter \in 0 .. Quarter - 1
      BY <1>1, PowerFacts
    <3> QED
      BY SMTT(20), <1>1, <3>1, DigitType, PowerFacts DEF Iteration4
  <2> QED
    BY <1>2, <2>1, <2>2 DEF Iteration, Iteration4
<1>3. CASE ~fast
  <2>1. Top2 \in Word
    <3>1. Modulus \in Nat \ {0} /\ Half \in Nat \ {0} /\ Word = 0 .. Modulus - 1
      BY PowerFacts
    <3> DEFINE top == 2 * div.buf1 + div.buf2 \div Half
    <3>2. top \in Int
      BY <1>1, <3>1
    <3> HIDE DEF top
    <3>3. top % Modulus \in 0 .. Modulus - 1
      BY <3>1, <3>2
    <3> QED
      BY <3>1, <3>3 DEF Top2, top
  <2>2. Iteration2.buf1 \in Word
    BY <1>1, <2>1, PowerFacts DEF Iteration2, Subtracted2
  <2>3. Iteration2.buf2 \in Word
    <3>1. div.buf2 % Half \in 0 .. Half - 1
      BY <1>1, PowerFacts
    <3> QED
      BY <3>1, PowerFacts DEF Iteration2
  <2> QED
    BY <1>3, <2>2, <2>3 DEF Iteration, Iteration2
<1> QED
  BY <1>2, <1>3

-----------------------------------------------------------------------------
(* What an edge does to the unit *)

Multipliers == [running : BOOLEAN, ready : BOOLEAN, a : Int, b : Int, product : Int]
Dividers == [running : BOOLEAN, ready : BOOLEAN, count : 0 .. Iterations,
             buf1 : Word, buf2 : Word, divisor : Word, outsign : BOOLEAN]

\* The types of the divider's registers while it runs.
LEMMA ControlType ==
  ASSUME NEW runs \in BOOLEAN, NEW count \in 0 .. Iterations,
         NEW r, r.buf1 \in Word, r.buf2 \in Word, r.divisor \in Word, r.outsign \in BOOLEAN
  PROVE  DividerControl(runs, count, r) \in Dividers
<1>1. Iterations \in Nat \ {0}
  BY PowerFacts DEF Iterations
<1>2. NextCount(count) \in 0 .. Iterations
  BY <1>1 DEF NextCount
<1>3. (runs /\ count # Iterations) \in BOOLEAN /\ (runs /\ count = Iterations) \in BOOLEAN
  OBVIOUS
<1> QED
  BY <1>2, <1>3 DEF DividerControl, Dividers

\* The types of the unit, at any edge.
LEMMA UnitType ==
  ASSUME TypeOK, NEW start \in BOOLEAN,
         NEW o, o.op \in 0 .. 7, o.a \in Word, o.b \in Word, UnitEdge(start, o)
  PROVE  mul' \in Multipliers /\ div' \in Dividers /\ fast' = fast
<1>0. fast' = fast
  BY DEF UnitEdge
<1>1. Multiplicand(o.op, o.a) \in Int /\ MultiplierOf(o.op, o.b) \in Int
  BY PowerFacts DEF Multiplicand, MultiplierOf, Signed
<1>2. mul' \in Multipliers
  <2>1. mul.a \in Int /\ mul.b \in Int /\ mul.a * mul.b \in Int /\ mul.running \in BOOLEAN
    BY DEF TypeOK
  <2>2. (start /\ ~IsDivision(o.op)) \in BOOLEAN
    BY DEF IsDivision
  <2> QED
    BY <1>1, <2>1, <2>2 DEF UnitEdge, MultiplierEdge, Multipliers
<1>3. div \in Dividers
  BY DEF TypeOK, Dividers
<1> DEFINE runs  == div.running \/ DivStart(start, o.op)
           count == Count(start, o.op)
<1>4. count \in 0 .. Iterations
  BY <1>3, PowerFacts DEF Count, Dividers, Iterations
<1>5. runs \in BOOLEAN
  BY <1>3 DEF Dividers, DivStart, IsDivision
<1>6. CASE runs /\ count = 0
  <2>1. div' = DividerControl(runs, count, Loaded(o.op, o.a, o.b))
    BY <1>6 DEF UnitEdge, DividerEdge
  <2>2. Magnitude(o.op, o.a) \in Word /\ Magnitude(o.op, o.b) \in Word
    BY MagnitudeType
  <2>3. Outsign(o.op, o.a, o.b) \in BOOLEAN
    BY OutsignType
  <2>4. 0 \in Word
    BY PowerFacts
  <2> DEFINE r == Loaded(o.op, o.a, o.b)
  <2>5. r.buf1 \in Word /\ r.buf2 \in Word /\ r.divisor \in Word /\ r.outsign \in BOOLEAN
    BY <2>2, <2>3, <2>4 DEF Loaded
  <2> HIDE DEF runs, count, r
  <2>6. DividerControl(runs, count, r) \in Dividers
    BY <1>4, <1>5, <2>5, ControlType
  <2> QED
    BY <1>0, <1>2, <2>1, <2>6 DEF r
<1>7. CASE runs /\ count # 0
  <2>1. div' = DividerControl(runs, count, Iteration)
    BY <1>7 DEF UnitEdge, DividerEdge
  <2>2. /\ Iteration.buf1 \in Word /\ Iteration.buf2 \in Word
        /\ Iteration.divisor \in Word /\ Iteration.outsign \in BOOLEAN
    BY <1>3, IterationType DEF Dividers
  <2> HIDE DEF runs, count
  <2>3. DividerControl(runs, count, Iteration) \in Dividers
    BY <1>4, <1>5, <2>2, ControlType
  <2> QED
    BY <1>0, <1>2, <2>1, <2>3
<1>8. CASE ~runs
  <2>1. div' = [div EXCEPT !.ready = FALSE]
    BY <1>8 DEF UnitEdge, DividerEdge
  <2>2. [div EXCEPT !.ready = FALSE] \in Dividers
    BY <1>3 DEF Dividers
  <2> QED
    BY <1>0, <1>2, <2>1, <2>2
<1> QED
  BY <1>5, <1>6, <1>7, <1>8

\* The operands are words when there is no operation, too.
LEMMA NoOperationType ==
  NoOperation.op \in 0 .. 7 /\ NoOperation.a \in Word /\ NoOperation.b \in Word
BY PowerFacts DEF NoOperation

\* The first edge of a division loads its operands.
LEMMA DivisionStarts ==
  ASSUME TypeOK, fast \in BOOLEAN, ~mul.running, NEW o \in Operations, IsDivision(o.op),
         UnitEdge(TRUE, o), asked' = o
  PROVE  Dividing'
<1>1. o.op \in 0 .. 7 /\ o.a \in Word /\ o.b \in Word
  BY OperationType
<1> DEFINE A == Magnitude(o.op, o.a)
           D == Magnitude(o.op, o.b)
<1>2. A \in Word /\ D \in Word
  BY <1>1, MagnitudeType
<1>3. Iterations \in Nat \ {0}
  BY PowerFacts DEF Iterations
<1>4. div' = DividerControl(TRUE, 0, Loaded(o.op, o.a, o.b))
  BY DEF UnitEdge, DividerEdge, DivStart, Count
<1>5. /\ div'.running /\ ~div'.ready /\ div'.count = 1
      /\ div'.buf1 = 0 /\ div'.buf2 = A /\ div'.divisor = D
      /\ div'.outsign = Outsign(o.op, o.a, o.b)
  <2> DEFINE r == Loaded(o.op, o.a, o.b)
  <2>1. /\ r.buf1 = 0 /\ r.buf2 = A /\ r.divisor = D
        /\ r.outsign = Outsign(o.op, o.a, o.b)
    BY DEF Loaded
  <2>2. NextCount(0) = 1
    BY <1>3 DEF NextCount
  <2> HIDE DEF r, A, D
  <2>3. div' = [running |-> TRUE /\ 0 # Iterations, ready |-> TRUE /\ 0 = Iterations,
                count |-> NextCount(0), buf1 |-> r.buf1, buf2 |-> r.buf2,
                divisor |-> r.divisor, outsign |-> r.outsign]
    BY <1>4 DEF DividerControl, r
  <2> QED
    BY <1>3, <2>1, <2>2, <2>3
<1>6. ~mul'.running /\ ~mul'.ready
  BY DEF UnitEdge, MultiplierEdge
<1>7. DividedSoFar(A, D, 0, A, 1, Modulus)
  <2>1. 0 \in 0 .. 1 - 1 /\ A \in 0 .. Modulus - 1
    BY <1>2, PowerFacts
  <2>2. A = A * 1 + 0 /\ A = (0 * D + 0) * Modulus + A /\ 0 = 1 - 1
    BY <1>2, PowerFacts
  <2>3. 1 * Modulus = Modulus /\ (D # 0 => 0 < D)
    BY <1>2, PowerFacts
  <2> QED
    BY <2>1, <2>2, <2>3 DEF DividedSoFar
<1>8. Holds(0)'
  <2>1. fast' = fast
    BY DEF UnitEdge
  <2>2. Bits' = Bits /\ Bits * 0 = 0
    BY <2>1 DEF Bits
  <2>3. Power[Bits * 0] = 1 /\ Power[Width - Bits * 0] = Modulus
    BY <2>2, PowerFacts
  <2>4. DividedSoFar(A, D, div.buf1, div.buf2, Power[Bits * 0], Power[Width - Bits * 0])'
    BY <1>5, <1>7, <2>1, <2>2, <2>3 DEF DividedSoFar, Modulus, Width
  <2> QED
    BY <1>5, <2>4 DEF Holds
<1>9. 1 \in 1 .. Iterations' /\ 1 - 1 = 0
  BY <1>3 DEF UnitEdge, Iterations, Width
<1> QED
  BY <1>5, <1>6, <1>8, <1>9 DEF Dividing

\* The k-th iteration, of either divider.
LEMMA IterationStep ==
  ASSUME fast \in BOOLEAN, TypeOK, NEW A \in Word, NEW k \in 1 .. Iterations,
         DividedSoFar(A, div.divisor, div.buf1, div.buf2,
                      Power[Bits * (k - 1)], Power[Width - Bits * (k - 1)])
  PROVE  DividedSoFar(A, div.divisor, Iteration.buf1, Iteration.buf2,
                      Power[Bits * k], Power[Width - Bits * k])
<1> DEFINE P == Power[Bits * (k - 1)]
           R == Power[Width - Bits * k]
<1>1. div.buf1 \in Word /\ div.buf2 \in Word /\ div.divisor \in Word
  BY DEF TypeOK
<1>2. /\ P \in Nat \ {0} /\ R \in Nat \ {0}
      /\ fast  => Power[Bits * k] = 4 * P /\ Power[Width - Bits * (k - 1)] = 4 * R
      /\ ~fast => Power[Bits * k] = 2 * P /\ Power[Width - Bits * (k - 1)] = 2 * R
  BY Borders
<1>3. /\ Modulus \in Nat \ {0} /\ Quarter \in Nat \ {0} /\ Half \in Nat \ {0}
      /\ Modulus = 4 * Quarter /\ Modulus = 2 * Half
  BY PowerFacts
<1> HIDE DEF P, R
<1>4. CASE fast
  <2>1. DividedSoFar(A, div.divisor, div.buf1, div.buf2, P, 4 * R)
    BY <1>2, <1>4 DEF P
  <2>2. DividedSoFar(A, div.divisor, Iteration4.buf1, Iteration4.buf2, 4 * P, R)
    BY <1>1, <1>2, <1>3, <1>4, <2>1, DigitStep
  <2> QED
    BY <1>2, <1>4, <2>2 DEF Iteration, R
<1>5. CASE ~fast
  <2>1. DividedSoFar(A, div.divisor, div.buf1, div.buf2, P, 2 * R)
    BY <1>2, <1>5 DEF P
  <2>2. DividedSoFar(A, div.divisor, Iteration2.buf1, Iteration2.buf2, 2 * P, R)
    BY <1>1, <1>2, <1>3, <1>5, <2>1, BitStep
  <2> QED
    BY <1>2, <1>5, <2>2 DEF Iteration, R
<1> QED
  BY <1>4, <1>5

\* What Holds speaks of.
LEMMA HoldsKept ==
  ASSUME UNCHANGED <<fast, asked>>, NEW j, UNCHANGED <<div.divisor, div.outsign>>,
         div.divisor = Magnitude(asked.op, asked.b),
         div.outsign = Outsign(asked.op, asked.a, asked.b),
         DividedSoFar(Magnitude(asked.op, asked.a), div.divisor, div'.buf1, div'.buf2,
                      Power[Bits * j], Power[Width - Bits * j])
  PROVE  Holds(j)'
BY DEF Holds, DividedSoFar, Bits, Width, Modulus

\* Each further edge is an iteration, until the last makes the result ready.
LEMMA DivisionGoesOn ==
  ASSUME fast \in BOOLEAN, TypeOK, Dividing, ~md_ready, asked \in Operations,
         UnitEdge(FALSE, NoOperation), UNCHANGED asked
  PROVE  Dividing'
<1> DEFINE A == Magnitude(asked.op, asked.a)
           n == Iterations
<1>1. /\ div.running /\ div.count \in 1 .. n /\ Holds(div.count - 1)
      /\ ~mul.running /\ ~mul.ready
  BY DEF Dividing, md_ready
<1>2. PICK k \in 1 .. n : k = div.count
  BY <1>1
<1>3. n \in Nat \ {0}
  BY Borders
<1>4. div' = DividerControl(TRUE, k, Iteration)
  <2>1. ~DivStart(FALSE, NoOperation.op)
    BY DEF DivStart
  <2>2. Count(FALSE, NoOperation.op) = k /\ k # 0
    BY <1>2, <1>3, <2>1 DEF Count
  <2> QED
    BY <1>1, <2>1, <2>2 DEF UnitEdge, DividerEdge
<1>5. ~mul'.running /\ ~mul'.ready
  BY <1>1 DEF UnitEdge, MultiplierEdge
<1>6. fast' = fast /\ Iterations' = n
  BY DEF UnitEdge, Iterations, Width
<1>7. DividedSoFar(A, div.divisor, Iteration.buf1, Iteration.buf2,
                   Power[Bits * k], Power[Width - Bits * k])
  <2>1. A \in Word
    BY OperationType, MagnitudeType
  <2>2. DividedSoFar(A, div.divisor, div.buf1, div.buf2,
                     Power[Bits * (k - 1)], Power[Width - Bits * (k - 1)])
    BY <1>1, <1>2 DEF Holds
  <2> HIDE DEF A
  <2> QED
    BY <2>1, <2>2, IterationStep
<1>8. /\ div'.buf1 = Iteration.buf1 /\ div'.buf2 = Iteration.buf2
      /\ div'.divisor = div.divisor /\ div'.outsign = div.outsign
      /\ div'.running = (k # n) /\ div'.ready = (k = n)
      /\ div'.count = NextCount(k)
  <2> DEFINE r == Iteration
  <2>1. r.divisor = div.divisor /\ r.outsign = div.outsign
    BY IterationType
  <2> HIDE DEF r
  <2>2. div' = [running |-> TRUE /\ k # n, ready |-> TRUE /\ k = n,
                count |-> NextCount(k), buf1 |-> r.buf1, buf2 |-> r.buf2,
                divisor |-> r.divisor, outsign |-> r.outsign]
    BY <1>4 DEF DividerControl, r
  <2> HIDE DEF n
  <2>3. /\ div'.buf1 = r.buf1 /\ div'.buf2 = r.buf2
        /\ div'.divisor = div.divisor /\ div'.outsign = div.outsign
        /\ div'.running = (k # n) /\ div'.ready = (k = n)
        /\ div'.count = NextCount(k)
    BY <2>1, <2>2
  <2> QED
    BY <2>3 DEF r
<1>9. Holds(k)'
  <2>1. /\ div.divisor = Magnitude(asked.op, asked.b)
        /\ div.outsign = Outsign(asked.op, asked.a, asked.b)
    BY <1>1 DEF Holds
  <2> QED
    BY <1>6, <1>7, <1>8, <2>1, HoldsKept
<1> HIDE DEF n
<1>10. CASE k = n
  BY <1>5, <1>6, <1>8, <1>9, <1>10 DEF Dividing
<1>11. CASE k # n
  <2>1. div'.count = k + 1 /\ k + 1 \in 1 .. n /\ (k + 1) - 1 = k
    BY <1>3, <1>8, <1>11 DEF NextCount, n
  <2>2. Holds(div.count - 1)'
    BY <1>9, <2>1
  <2>3. div'.running /\ ~div'.ready
    BY <1>8, <1>11
  <2> QED
    BY <1>5, <1>6, <2>1, <2>2, <2>3 DEF Dividing
<1> QED
  BY <1>10, <1>11

\* An edge that ends a division leaves its registers alone.
LEMMA DivisionEnds ==
  ASSUME Dividing, md_ready, UnitEdge(FALSE, NoOperation), TypeOK, UNCHANGED asked
  PROVE  Holds(Iterations)'
<1>1. ~div.running /\ Holds(Iterations)
  BY DEF Dividing, md_ready
<1>2. ~DivStart(FALSE, NoOperation.op)
  BY DEF DivStart
<1>3. div' = [div EXCEPT !.ready = FALSE]
  BY <1>1, <1>2 DEF UnitEdge, DividerEdge
<1>4. /\ div'.buf1 = div.buf1 /\ div'.buf2 = div.buf2
      /\ div'.divisor = div.divisor /\ div'.outsign = div.outsign
  BY <1>3 DEF TypeOK
<1>5. fast' = fast /\ Iterations' = Iterations
  BY DEF UnitEdge, Iterations, Width
<1> QED
  BY <1>1, <1>4, <1>5, HoldsKept DEF Holds

-----------------------------------------------------------------------------
(* The invariant is inductive *)

\* The unit is idle at reset.
LEMMA InitInv == Init => Inv
<1> SUFFICES ASSUME Init PROVE Inv
  OBVIOUS
<1>1. Iterations \in Nat \ {0} /\ 0 \in Word
  BY PowerFacts DEF Iterations
<1>2. mul \in Multipliers /\ ~mul.running
  BY DEF Init, Multipliers
<1>3. div \in Dividers
  BY <1>1 DEF Init, Dividers
<1>4. /\ state = "exec" /\ md_start = FALSE /\ md_op = 0 /\ ended = FALSE
      /\ asked = NoOperation
  BY DEF Init
<1>5. TypeOK
  <2>1. state \in {"exec", "md", "intr", "intr2"} /\ md_op \in 0 .. 7
    BY <1>4
  <2>2. md_start \in BOOLEAN /\ ended \in BOOLEAN /\ asked \in Operations \cup {NoOperation}
    BY <1>4
  <2> QED
    BY <1>2, <1>3, <2>1, <2>2 DEF TypeOK, Multipliers, Dividers
<1>6. fast \in BOOLEAN
  BY MulDivAssumption DEF Init
<1> QED
  BY <1>2, <1>4, <1>5, <1>6 DEF Inv

\* The rest of the invariant after an edge at which no operation is started or
\* ended.
LEMMA QuietEdge ==
  ASSUME TypeOK, fast \in BOOLEAN, NEW start \in BOOLEAN,
         NEW o, o.op \in 0 .. 7, o.a \in Word, o.b \in Word, UnitEdge(start, o),
         md_op' \in 0 .. 7, md_start' \in BOOLEAN, asked' = NoOperation,
         ended' = FALSE, state' \in {"exec", "intr", "intr2"},
         md_start' => state' = "intr",
         start => state' # "exec"
  PROVE  Inv'
<1>1. mul' \in Multipliers /\ div' \in Dividers /\ fast' = fast
  BY UnitType
<1>2. state' = "exec" => ~mul'.running
  BY DEF UnitEdge, MultiplierEdge
<1>3. TypeOK'
  BY <1>1 DEF TypeOK, Multipliers, Dividers, Iterations, Word
<1> QED
  BY <1>1, <1>2, <1>3 DEF Inv

\* The same for an edge at which nothing is started.
COROLLARY QuietRest ==
  ASSUME TypeOK, fast \in BOOLEAN, UnitEdge(FALSE, NoOperation),
         md_op' \in 0 .. 7, md_start' = FALSE, asked' = NoOperation,
         ended' = FALSE, state' \in {"exec", "intr", "intr2"}
  PROVE  Inv'
BY NoOperationType, QuietEdge

\* And for one that clears the decode registers.
COROLLARY QuietNone ==
  ASSUME TypeOK, fast \in BOOLEAN, UnitEdge(FALSE, NoOperation), NoneAsked,
         state' \in {"exec", "intr", "intr2"}
  PROVE  Inv'
<1>1. /\ md_op' \in 0 .. 7 /\ md_start' = FALSE /\ asked' = NoOperation
      /\ ended' = FALSE
  BY DEF NoneAsked
<1> QED
  BY <1>1, QuietRest

\* Every edge keeps the invariant.
LEMMA NextInv == Inv /\ [Next]_vars => Inv'
<1> SUFFICES ASSUME Inv, [Next]_vars PROVE Inv'
  OBVIOUS
<1> USE NoOperationType
<1>0. TypeOK /\ fast \in BOOLEAN
  BY DEF Inv
<1>1. CASE StartOperation
  <2>1. PICK o \in Operations :
          /\ UnitEdge(TRUE, o)
          /\ md_op' = o.op
          /\ \/ state' = "md" /\ md_start' = FALSE /\ asked' = o
             \/ state' = "intr" /\ md_start' = TRUE /\ asked' = NoOperation
    BY <1>1, MulDivAssumption DEF StartOperation
  <2>2. state = "exec" /\ ended' = FALSE
    BY <1>1 DEF StartOperation
  <2>3. o.op \in 0 .. 7 /\ o.a \in Word /\ o.b \in Word
    BY OperationType
  <2>4. CASE state' = "md" /\ md_start' = FALSE /\ asked' = o
    <3>1. mul' \in Multipliers /\ div' \in Dividers /\ fast' = fast
      BY <1>0, <2>1, <2>3, UnitType
    <3>2. TypeOK'
      BY <2>1, <2>2, <2>3, <2>4, <3>1 DEF TypeOK, Multipliers, Dividers, Iterations, Word
    <3>3. IsDivision(o.op) => Dividing'
      BY <1>0, <2>1, <2>2, <2>4, DivisionStarts DEF Inv
    <3> QED
      BY <1>0, <2>1, <2>2, <2>4, <3>1, <3>2, <3>3 DEF Inv
  <2>5. CASE state' = "intr" /\ md_start' = TRUE /\ asked' = NoOperation
    BY <1>0, <2>1, <2>2, <2>3, <2>5, QuietEdge
  <2> QED
    BY <2>1, <2>4, <2>5
<1>2. CASE Wait
  <2>1. /\ state = "md" /\ ~md_ready /\ UnitEdge(FALSE, NoOperation)
        /\ UNCHANGED <<state, md_start, md_op, asked, ended, starts>>
    BY <1>2 DEF Wait
  <2>2. mul' \in Multipliers /\ div' \in Dividers /\ fast' = fast
    BY <1>0, <2>1, UnitType
  <2>3. TypeOK'
    BY <1>0, <2>1, <2>2 DEF TypeOK, Multipliers, Dividers, Iterations, Word
  <2>4. IsDivision(asked.op) => Dividing'
    BY <1>0, <2>1, DivisionGoesOn DEF Inv
  <2>5. ~ended /\ asked \in Operations /\ md_op = asked.op /\ ~md_start
    BY <2>1 DEF Inv
  <2> QED
    BY <1>0, <2>1, <2>2, <2>3, <2>4, <2>5 DEF Inv
<1>3. CASE End
  <2>1. /\ state = "md" /\ md_ready /\ UnitEdge(FALSE, NoOperation)
        /\ state' = "exec" /\ ended' = TRUE
        /\ UNCHANGED <<md_start, md_op, asked, starts>>
    BY <1>3 DEF End
  <2>2. mul' \in Multipliers /\ div' \in Dividers /\ fast' = fast
    BY <1>0, <2>1, UnitType
  <2>3. TypeOK'
    BY <1>0, <2>1, <2>2 DEF TypeOK, Multipliers, Dividers, Iterations, Word
  <2>4. IsDivision(asked.op) => Holds(Iterations)'
    BY <1>0, <2>1, DivisionEnds DEF Inv
  <2>5. asked \in Operations /\ md_op = asked.op /\ ~md_start
    BY <2>1 DEF Inv
  <2>6. ~mul'.running
    BY <2>1 DEF UnitEdge, MultiplierEdge
  <2> QED
    BY <1>0, <2>1, <2>2, <2>3, <2>4, <2>5, <2>6 DEF Inv
<1>4. CASE Abandon
  <2>1. md_op \in 0 .. 7 /\ ~md_start /\ md_start \in BOOLEAN /\ ended = FALSE
    BY <1>0, <1>4 DEF Inv, TypeOK, Abandon
  <2>2. /\ UnitEdge(FALSE, NoOperation) /\ state' = "intr" /\ asked' = NoOperation
        /\ md_start' = FALSE /\ md_op' \in 0 .. 7 /\ ended' = FALSE
    BY <1>4, <2>1 DEF Abandon
  <2> QED
    BY <1>0, <2>2, QuietRest
<1>5. CASE Intr
  <2>1. CASE /\ md_start
             /\ \E a, b \in Unforwarded : UnitEdge(TRUE, [op |-> md_op, a |-> a, b |-> b])
    <3>1. PICK a, b \in Unforwarded : UnitEdge(TRUE, [op |-> md_op, a |-> a, b |-> b])
      BY <2>1
    <3> DEFINE o == [op |-> md_op, a |-> a, b |-> b]
    <3>2. o.op \in 0 .. 7 /\ o.a \in Word /\ o.b \in Word
      BY <1>0, MulDivAssumption DEF TypeOK
    <3>3. state' = "intr2" /\ NoneAsked /\ UnitEdge(TRUE, o)
      BY <1>5, <3>1 DEF Intr
    <3> HIDE DEF o
    <3>4. /\ md_op' \in 0 .. 7 /\ md_start' = FALSE /\ asked' = NoOperation
          /\ ended' = FALSE /\ TRUE \in BOOLEAN
      BY <3>3 DEF NoneAsked
    <3> QED
      BY <1>0, <3>2, <3>3, <3>4, QuietEdge
  <2>2. CASE ~md_start /\ UnitEdge(FALSE, NoOperation)
    <3>1. state' = "intr2" /\ NoneAsked
      BY <1>5 DEF Intr
    <3> QED
      BY <1>0, <2>2, <3>1, QuietNone
  <2> QED
    BY <1>5, <2>1, <2>2 DEF Intr
<1>6. CASE Intr2
  BY <1>0, <1>6, QuietNone DEF Intr2
<1>7. CASE Other
  <2>1. state' = "exec" /\ NoneAsked /\ UnitEdge(FALSE, NoOperation)
    BY <1>7 DEF Other
  <2> QED
    BY <1>0, <2>1, QuietNone
<1>8. CASE UNCHANGED vars
  <2>1. (UNCHANGED <<div, asked, fast>>) => (Holds(Iterations)' <=> Holds(Iterations))
    BY DEF Holds, DividedSoFar, Bits, Iterations, Width, Modulus
  <2>2. (UNCHANGED <<div, asked, mul, fast>>) => (Dividing' <=> Dividing)
    BY DEF Dividing, Holds, DividedSoFar, Bits, Iterations, Width, Modulus
  <2>3. TypeOK'
    BY <1>0, <1>8 DEF vars, TypeOK, Iterations, Word
  <2> QED
    BY <1>8, <2>1, <2>2, <2>3 DEF vars, Inv
<1> QED
  BY <1>1, <1>2, <1>3, <1>4, <1>5, <1>6, <1>7, <1>8 DEF Next

-----------------------------------------------------------------------------
(* From the registers to the result *)

\* After the last iteration the dividend is all used up.
LEMMA Divided ==
  ASSUME TypeOK, fast \in BOOLEAN, Holds(Iterations), asked \in Operations,
         NEW A, A = Magnitude(asked.op, asked.a),
         NEW D, D = Magnitude(asked.op, asked.b)
  PROVE  /\ A \in Word /\ D \in Word /\ div.buf1 \in Word /\ div.buf2 \in Word
         /\ D # 0 \/ fast => A = div.buf2 * D + div.buf1
         /\ D # 0 => div.buf1 < D
         /\ D = 0 => div.buf2 = Modulus - 1
<1>1. A \in Word /\ D \in Word
  BY OperationType, MagnitudeType
<1>2. div.buf1 \in Word /\ div.buf2 \in Word
  BY DEF TypeOK
<1>3. Power[Bits * Iterations] = Modulus /\ Power[Width - Bits * Iterations] = 1
  <2>1. Bits * Iterations = Width /\ Width - Width = 0
    BY Borders, PowerFacts
  <2> QED
    BY <2>1, PowerFacts
<1>4. DividedSoFar(A, D, div.buf1, div.buf2, Modulus, 1)
  BY <1>3 DEF Holds
<1>5. PICK q \in 0 .. Modulus - 1, rest \in 0 .. 1 - 1 :
        /\ div.buf2 = rest * Modulus + q
        /\ D # 0 \/ fast => A = (q * D + div.buf1) * 1 + rest
        /\ D = 0 => q = Modulus - 1
  BY <1>4 DEF DividedSoFar
<1>6. rest = 0 /\ div.buf2 = q
  BY <1>5, PowerFacts
<1>7. D # 0 \/ fast => A = q * D + div.buf1
  <2>1. D \in Nat /\ div.buf1 \in Nat /\ q \in Nat
    BY <1>1, <1>2, PowerFacts
  <2> QED
    BY <1>5, <1>6, <2>1
<1> QED
  BY <1>1, <1>2, <1>4, <1>5, <1>6, <1>7 DEF DividedSoFar

\* The magnitudes give the signed quotient and remainder.
LEMMA SignedDivision ==
  ASSUME NEW x \in Int, NEW y \in Int, y # 0, NEW q \in Nat, NEW r \in Nat,
         Abs(x) = q * Abs(y) + r, r < Abs(y)
  PROVE  LET s   == IF (x < 0) # (y < 0) THEN -q ELSE q
             rho == IF x < 0 THEN -r ELSE r
         IN  Divides(x, y, s, rho) /\ rho = x - s * y
<1>1. CASE x >= 0 /\ y > 0
  <2>1. x = q * y + r
    BY <1>1 DEF Abs
  <2> QED
    BY <1>1, <2>1 DEF Divides, Abs
<1>2. CASE x >= 0 /\ y < 0
  <2>1. x = q * (-y) + r
    BY <1>2 DEF Abs
  <2>2. x = (-q) * y + r
    BY <2>1
  <2> QED
    BY <1>2, <2>2 DEF Divides, Abs
<1>3. CASE x < 0 /\ y > 0
  <2>1. -x = q * y + r
    BY <1>3 DEF Abs
  <2>2. x = (-q) * y + (-r)
    BY <2>1
  <2> QED
    BY <1>3, <2>2 DEF Divides, Abs
<1>4. CASE x < 0 /\ y < 0
  <2>1. -x = q * (-y) + r
    BY <1>4 DEF Abs
  <2>2. x = q * y + (-r)
    BY <2>1
  <2> QED
    BY <1>4, <2>2 DEF Divides, Abs
<1> QED
  BY <1>1, <1>2, <1>3, <1>4

\* A word's opposite, as a number, is among those of its two's complement.
LEMMA Opposite ==
  \A w \in Word : Negated(w) \in Word /\ -w \in Numbers(Negated(w))
BY PowerFacts DEF Negated, Numbers

\* The result of a division that has ended.
LEMMA ResultIsRight ==
  ASSUME Inv, ended, IsDivision(asked.op)
  PROVE  DivisionIsRight
<1>1. /\ TypeOK /\ fast \in BOOLEAN /\ Holds(Iterations) /\ asked \in Operations /\ md_op = asked.op
  BY DEF Inv
<1>2. asked.op \in {4, 5, 6, 7} /\ asked.a \in Word /\ asked.b \in Word
  BY <1>1, OperationType DEF IsDivision
<1> DEFINE A == Magnitude(asked.op, asked.a)
           D == Magnitude(asked.op, asked.b)
           q == div.buf2
           r == div.buf1
<1>3. /\ A \in Word /\ D \in Word /\ r \in Word /\ q \in Word
      /\ D # 0 \/ fast => A = q * D + r
      /\ D # 0 => r < D
      /\ D = 0 => q = Modulus - 1
  BY <1>1, Divided
<1>4. X \in Int /\ Y \in Int /\ A = Abs(X) /\ D = Abs(Y)
  <2>1. \A w \in Word : /\ Signed(w) \in Int
                        /\ Abs(Signed(w)) = IF Negative(w) THEN Negated(w) ELSE w
                        /\ Abs(w) = w /\ w \in Int
    BY PowerFacts DEF Abs, Signed, Negated, Negative
  <2>2. CASE asked.op \in {4, 6}
    <3>1. X = Signed(asked.a) /\ Y = Signed(asked.b) /\ IsSigned(asked.op)
      BY <2>2 DEF X, Y, IsSigned
    <3> QED
      BY <1>2, <2>1, <3>1 DEF Magnitude
  <2>3. CASE asked.op \in {5, 7}
    <3>1. X = asked.a /\ Y = asked.b /\ ~IsSigned(asked.op)
      BY <2>3 DEF X, Y, IsSigned
    <3> QED
      BY <1>2, <2>1, <3>1 DEF Magnitude
  <2> QED
    BY <1>2, <2>2, <2>3
<1>5. (asked.b = 0) <=> (Y = 0)
  BY <1>2, PowerFacts DEF Y, Signed, Negative
<1>6. (asked.b = 0) <=> (D = 0)
  BY <1>4, <1>5 DEF Abs
<1>7. Result = IF div.outsign THEN Negated(IF IsRemainder(asked.op) THEN r ELSE q)
               ELSE IF IsRemainder(asked.op) THEN r ELSE q
  BY <1>1 DEF Result, DivResult
<1>8. div.outsign <=> \/ asked.op = 4 /\ ~(Negative(asked.a) <=> Negative(asked.b)) /\ asked.b # 0
                      \/ asked.op = 6 /\ Negative(asked.a)
  <2>1. (Negative(asked.a) # Negative(asked.b)) <=> ~(Negative(asked.a) <=> Negative(asked.b))
    BY DEF Negative
  <2> QED
    BY <1>1, <2>1 DEF Holds, Outsign
<1>9. /\ X < 0 <=> asked.op \in {4, 6} /\ Negative(asked.a)
      /\ Y < 0 <=> asked.op \in {4, 6} /\ Negative(asked.b)
  BY <1>2, PowerFacts DEF X, Y, Signed, Negative
<1>10. q \in Nat /\ r \in Nat /\ q <= Modulus /\ Modulus \in Nat
  BY <1>3, PowerFacts
<1> DEFINE s   == IF (X < 0) # (Y < 0) THEN -q ELSE q
           rho == IF X < 0 THEN -r ELSE r
<1>11. asked.b # 0 => Divides(X, Y, s, rho) /\ rho = X - s * Y
  <2> HIDE DEF q, r, A, D
  <2>1. asked.b # 0 => Y # 0 /\ Abs(X) = q * Abs(Y) + r /\ r < Abs(Y)
    BY <1>3, <1>4, <1>5, <1>6
  <2> QED
    BY <1>4, <1>10, <2>1, SignedDivision
<1>12. asked.b # 0 /\ ~IsRemainder(asked.op) =>
         \E v \in Numbers(Result) : Divides(X, Y, v, X - v * Y)
  <2>1. SUFFICES ASSUME asked.b # 0, ~IsRemainder(asked.op)
                 PROVE  s \in Numbers(Result)
    BY <1>11
  <2>2. asked.op \in {4, 5}
    BY <1>2, <2>1 DEF IsRemainder
  <2>3. div.outsign <=> ~((X < 0) <=> (Y < 0))
    BY <1>8, <1>9, <2>1, <2>2
  <2>4. Result = IF div.outsign THEN Negated(q) ELSE q
    BY <1>7, <2>1
  <2>5. q \in Numbers(q) /\ -q \in Numbers(Negated(q))
    BY <1>3, Opposite DEF Numbers
  <2>6. ((X < 0) # (Y < 0)) <=> ~((X < 0) <=> (Y < 0))
    OBVIOUS
  <2> QED
    BY <2>3, <2>4, <2>5, <2>6
<1>13. asked.b # 0 /\ IsRemainder(asked.op) =>
         \E v \in Numbers(Result) : \E w \in -Modulus .. Modulus : Divides(X, Y, w, v)
  <2>1. SUFFICES ASSUME asked.b # 0, IsRemainder(asked.op)
                 PROVE  rho \in Numbers(Result) /\ s \in -Modulus .. Modulus
    BY <1>11
  <2>2. asked.op \in {6, 7}
    BY <1>2, <2>1 DEF IsRemainder
  <2>3. div.outsign <=> X < 0
    BY <1>8, <1>9, <2>2
  <2>4. Result = IF div.outsign THEN Negated(r) ELSE r
    BY <1>7, <2>1
  <2>5. r \in Numbers(r) /\ -r \in Numbers(Negated(r))
    BY <1>3, Opposite DEF Numbers
  <2>6. s \in -Modulus .. Modulus
    BY <1>10
  <2> QED
    BY <2>3, <2>4, <2>5, <2>6
<1>14. asked.b = 0 /\ ~IsRemainder(asked.op) => Result = Modulus - 1
  <2>1. SUFFICES ASSUME asked.b = 0, ~IsRemainder(asked.op)
                 PROVE  Result = Modulus - 1
    OBVIOUS
  <2>2. asked.op \in {4, 5}
    BY <1>2, <2>1 DEF IsRemainder
  <2>3. ~div.outsign
    BY <1>8, <2>1, <2>2
  <2> QED
    BY <1>3, <1>6, <1>7, <2>1, <2>3
<1>15. asked.b = 0 /\ IsRemainder(asked.op) /\ fast => Result = asked.a
  <2>1. SUFFICES ASSUME asked.b = 0, IsRemainder(asked.op), fast
                 PROVE  Result = asked.a
    OBVIOUS
  <2>2. asked.op \in {6, 7}
    BY <1>2, <2>1 DEF IsRemainder
  <2>3. r = A
    <3>1. D = 0
      BY <1>6, <2>1
    <3> HIDE DEF A, D, q, r
    <3> QED
      BY <1>3, <1>10, <2>1, <3>1
  <2>4. Result = IF div.outsign THEN Negated(A) ELSE A
    BY <1>7, <2>1, <2>3
  <2>5. div.outsign <=> asked.op = 6 /\ Negative(asked.a)
    BY <1>8, <2>2
  <2>6. CASE asked.op = 6 /\ Negative(asked.a)
    <3>1. A = Modulus - asked.a /\ A # 0
      BY <1>2, <2>6, PowerFacts DEF Magnitude, IsSigned, Negated, Negative
    <3> QED
      <4>1. Result = Negated(A)
        BY <2>4, <2>5, <2>6
      <4>2. Negated(A) = asked.a
        <5> HIDE DEF A
        <5> QED
          BY <1>2, <3>1, PowerFacts DEF Negated
      <4> QED
        BY <4>1, <4>2
  <2>7. CASE ~(asked.op = 6 /\ Negative(asked.a))
    BY <2>2, <2>4, <2>5, <2>7 DEF Magnitude, IsSigned
  <2> QED
    BY <2>6, <2>7
<1> QED
  BY <1>12, <1>13, <1>14, <1>15 DEF DivisionIsRight

\* The invariant gives the property.
LEMMA InvResult == Inv => DivisionIsRight
<1> SUFFICES ASSUME Inv PROVE DivisionIsRight
  OBVIOUS
<1>1. CASE ended /\ IsDivision(asked.op)
  BY <1>1, ResultIsRight
<1>2. CASE ~(ended /\ IsDivision(asked.op))
  <2>1. ended => asked.op \in 0 .. 7
    BY OperationType DEF Inv
  <2> QED
    BY <1>2, <2>1 DEF DivisionIsRight, IsDivision, IsRemainder
<1> QED
  BY <1>1, <1>2

-----------------------------------------------------------------------------
(* The multiplier *)

\* \div and % divide, a negative number too.
LEMMA Euclid ==
  ASSUME NEW M \in Nat \ {0}, NEW p \in Int
  PROVE  /\ p \div M \in Int /\ p % M \in 0 .. M - 1
         /\ p = ((p \div M) * M) + (p % M)
OBVIOUS

\* There is one way to divide.
LEMMA OneRemainder ==
  ASSUME NEW M \in Nat \ {0}, NEW k \in Int, NEW low \in 0 .. M - 1
  PROVE  (k * M + low) % M = low
<1> DEFINE p == k * M + low
           d == p \div M
           r == p % M
<1>0. d \in Int /\ r \in 0 .. M - 1 /\ p = d * M + r
  BY Euclid
<1> HIDE DEF d, r
<1>1. (k - d) * M = r - low
  BY <1>0
<1>2. CASE k - d >= 1
  <2>1. (k - d) * M >= M
    BY <1>0, <1>2
  <2> QED
    BY <1>0, <1>1, <2>1
<1>3. CASE k - d <= -1
  <2>1. (d - k) * M >= M /\ (d - k) * M = low - r
    BY <1>0, <1>1, <1>3
  <2> QED
    BY <1>0, <2>1
<1>4. CASE k = d
  BY <1>0, <1>1, <1>4 DEF r
<1> QED
  BY <1>0, <1>2, <1>3, <1>4

\* The higher word of a product is within the range of one factor, when the
\* other is a word.
LEMMA HighWord ==
  ASSUME NEW M \in Nat \ {0}, NEW H \in Nat, NEW x \in -H .. H - 1,
         NEW y \in 1 - M .. M - 1
  PROVE  (x * y) \div M \in -H .. H - 1
<1>0. H >= 1
  OBVIOUS
<1>1. x * y >= -(H * M)
  <2>1. CASE x >= 0
    <3>1. x * y >= x * (-M) /\ x * M <= H * M
      BY <2>1
    <3> QED
      BY <3>1
  <2>2. CASE x < 0
    <3>1. (-x) * y <= (-x) * M /\ (-x) * M <= H * M
      BY <2>2
    <3> QED
      BY <3>1
  <2> QED
    BY <2>1, <2>2
<1>2. x * y < H * M
  <2>1. CASE x >= 0
    <3>1. x * y <= x * M /\ x * M <= (H - 1) * M
      BY <2>1
    <3> QED
      BY <1>0, <3>1
  <2>2. CASE x < 0
    <3>1. (-x) * (-y) <= (-x) * (M - 1)
      BY <2>2
    <3>2. (-x) * (M - 1) <= H * (M - 1)
      BY <2>2
    <3>3. H * (M - 1) < H * M
      BY <1>0
    <3> QED
      BY <3>1, <3>2, <3>3
  <2> QED
    BY <2>1, <2>2
<1> DEFINE p == x * y
           h == p \div M
<1>3. p \in Int /\ h \in Int /\ h * M <= p /\ p < h * M + M
  BY Euclid
<1> HIDE DEF p, h
<1>4. p >= -(H * M) /\ p < H * M
  BY <1>1, <1>2 DEF p
<1>5. h < H
  <2> SUFFICES ASSUME h >= H PROVE FALSE
    BY <1>3
  <2>1. h * M >= H * M
    BY <1>3
  <2> QED
    BY <1>3, <1>4, <2>1
<1>6. h >= -H
  <2> SUFFICES ASSUME h + 1 <= -H PROVE FALSE
    BY <1>3
  <2>1. (h + 1) * M <= (-H) * M
    BY <1>3
  <2> QED
    BY <1>3, <1>4, <2>1
<1> QED
  BY <1>3, <1>5, <1>6 DEF h, p

\* Cut to a word, it stands for itself.
LEMMA HighWordCut ==
  ASSUME NEW M \in Nat \ {0}, NEW H \in Nat, M = 2 * H,
         NEW x \in -H .. H - 1, NEW y \in 1 - M .. M - 1,
         NEW r, r = ((x * y) \div M) % M
  PROVE  \E h \in {r, r - M} : x * y - h * M \in 0 .. M - 1 /\ h \in -H .. H - 1
<1> DEFINE p == x * y
           h == p \div M
<1>1. p \in Int /\ h \in Int /\ p - h * M \in 0 .. M - 1
  <2>1. p \in Int
    OBVIOUS
  <2> HIDE DEF p
  <2>2. h \in Int /\ p % M \in 0 .. M - 1 /\ p = (h * M) + (p % M)
    BY <2>1, Euclid
  <2> HIDE DEF h
  <2> QED
    BY <2>1, <2>2
<1>2. h \in -H .. H - 1
  BY HighWord
<1>3. r = h % M
  OBVIOUS
<1> HIDE DEF p, h
<1>4. CASE h >= 0
  <2>1. h \in 0 .. M - 1
    BY <1>2, <1>4
  <2>2. h = r
    BY <1>3, <2>1, SmallMod
  <2> QED
    BY <1>1, <1>2, <2>2 DEF p
<1>5. CASE h < 0
  <2>1. h + M \in 0 .. M - 1 /\ h = (-1) * M + (h + M)
    BY <1>2, <1>5
  <2>2. \A k \in Int, low \in 0 .. M - 1 : (k * M + low) % M = low
    BY OneRemainder
  <2>3. h = r - M
    BY <1>1, <1>3, <2>1, <2>2
  <2> QED
    BY <1>1, <1>2, <2>3 DEF p
<1> QED
  BY <1>1, <1>4, <1>5

\* The higher word of an unsigned product needs no cut.
LEMMA HighWordUnsigned ==
  ASSUME NEW M \in Nat \ {0}, NEW x \in 0 .. M - 1, NEW y \in 0 .. M - 1,
         NEW r, r = ((x * y) \div M) % M
  PROVE  x * y - r * M \in 0 .. M - 1 /\ r \in 0 .. M - 1
<1> DEFINE p == x * y
           h == p \div M
<1>1. p \in Int /\ h \in Int /\ p - h * M \in 0 .. M - 1
  BY Euclid
<1>2. h \in -M .. M - 1
  <2>1. x \in -M .. M - 1 /\ y \in 1 - M .. M - 1 /\ M \in Nat
    OBVIOUS
  <2> QED
    BY <2>1, HighWord
<1>3. r = h % M
  OBVIOUS
<1>4. p >= 0
  OBVIOUS
<1> HIDE DEF p, h
<1>5. h >= 0
  <2> SUFFICES ASSUME h <= -1 PROVE FALSE
    BY <1>1
  <2>1. h * M <= (-1) * M
    BY <1>1
  <2> QED
    BY <1>1, <1>4, <2>1
<1>6. r = h
  BY <1>2, <1>3, <1>5, SmallMod
<1> QED
  BY <1>1, <1>2, <1>5, <1>6 DEF p

\* A number and its lower word differ by a multiple of the modulus.
LEMMA LowWord ==
  ASSUME NEW M \in Nat \ {0}, NEW p \in Int
  PROVE  (p - (p % M)) % M = 0
<1> DEFINE h == p \div M
           l == p % M
<1>1. h \in Int /\ l \in Int /\ p = (h * M) + l
  BY Euclid
<1> HIDE DEF h, l
<1>2. p - l = h * M + 0 /\ 0 \in 0 .. M - 1
  BY <1>1
<1>3. (h * M + 0) % M = 0
  BY <1>1, <1>2, OneRemainder
<1> QED
  BY <1>2, <1>3 DEF l

\* The types hold after reset,
LEMMA InitType == Init => TypeOK
<1> SUFFICES ASSUME Init PROVE TypeOK
  OBVIOUS
<1>1. Iterations \in Nat \ {0} /\ 0 \in Word
  BY PowerFacts DEF Iterations
<1>2. mul \in Multipliers /\ div \in Dividers
  BY <1>1 DEF Init, Multipliers, Dividers
<1>3. /\ state = "exec" /\ md_start = FALSE /\ md_op = 0 /\ ended = FALSE
      /\ asked = NoOperation
  BY DEF Init
<1>4. state \in {"exec", "md", "intr", "intr2"} /\ md_op \in 0 .. 7
  BY <1>3
<1>5. md_start \in BOOLEAN /\ ended \in BOOLEAN /\ asked \in Operations \cup {NoOperation}
  BY <1>3
<1> QED
  BY <1>2, <1>4, <1>5 DEF TypeOK, Multipliers, Dividers

\* and every edge keeps them.
LEMMA NextType == TypeOK /\ [Next]_vars => TypeOK'
<1> SUFFICES ASSUME TypeOK, [Next]_vars PROVE TypeOK'
  OBVIOUS
<1>1. CASE Next
  <2>1. PICK start \in BOOLEAN, o \in [op : 0 .. 7, a : Word, b : Word] : UnitEdge(start, o)
    <3>1. CASE StartOperation
      BY <3>1, MulDivAssumption DEF StartOperation
    <3>2. CASE Intr
      <4>1. CASE ~md_start
        BY <3>2, <4>1, NoOperationType DEF Intr, NoOperation
      <4>2. CASE md_start
        <5>1. PICK a, b \in Unforwarded : UnitEdge(TRUE, [op |-> md_op, a |-> a, b |-> b])
          BY <3>2, <4>2 DEF Intr
        <5>2. [op |-> md_op, a |-> a, b |-> b] \in [op : 0 .. 7, a : Word, b : Word]
          BY MulDivAssumption DEF TypeOK
        <5> QED
          BY <5>1, <5>2
      <4> QED
        BY <4>1, <4>2
    <3>3. CASE Wait \/ End \/ Abandon \/ Intr2 \/ Other
      BY <3>3, NoOperationType DEF Wait, End, Abandon, Intr2, Other, NoOperation
    <3> QED
      BY <1>1, <3>1, <3>2, <3>3 DEF Next
  <2>2. mul' \in Multipliers /\ div' \in Dividers /\ fast' = fast
    BY <2>1, UnitType
  <2>3. /\ state' \in {"exec", "md", "intr", "intr2"} /\ md_start' \in BOOLEAN
        /\ md_op' \in 0 .. 7 /\ ended' \in BOOLEAN
        /\ asked' \in Operations \cup {NoOperation}
    <3>1. CASE StartOperation
      <4>1. PICK new \in Operations :
              /\ md_op' = new.op
              /\ \/ state' = "md" /\ md_start' = FALSE /\ asked' = new
                 \/ state' = "intr" /\ md_start' = TRUE /\ asked' = NoOperation
        BY <3>1, MulDivAssumption DEF StartOperation
      <4>2. ended' = FALSE
        BY <3>1 DEF StartOperation
      <4> QED
        BY <4>1, <4>2, OperationType
    <3>2. CASE Wait \/ End \/ Abandon
      BY <3>2 DEF TypeOK, Wait, End, Abandon
    <3>3. CASE Intr \/ Intr2 \/ Other
      <4>1. /\ md_start' = FALSE /\ md_op' = 0 /\ ended' = FALSE /\ asked' = NoOperation
            /\ state' = "exec" \/ state' = "intr2"
        BY <3>3 DEF Intr, Intr2, Other, NoneAsked
      <4>2. md_op' \in 0 .. 7
        BY <4>1
      <4> QED
        BY <4>1, <4>2
    <3> QED
      BY <1>1, <3>1, <3>2, <3>3 DEF Next
  <2> QED
    BY <2>2, <2>3 DEF TypeOK, Multipliers, Dividers, Iterations, Word
<1>2. CASE UNCHANGED vars
  BY <1>2 DEF vars, TypeOK, Iterations, Word
<1> QED
  BY <1>1, <1>2

\* The multiplier holds the operands while the FSM waits, and their product at
\* the edge the FSM leaves md: that it may be the divider's ready which ends
\* the wait, a cycle early, does not matter.
Multiplying ==
  /\ state = "md" =>
       /\ asked \in Operations /\ md_op = asked.op /\ ~ended
       /\ mul.a = Multiplicand(asked.op, asked.a)
       /\ mul.b = MultiplierOf(asked.op, asked.b)
  /\ ended =>
       /\ state = "exec" /\ asked \in Operations /\ md_op = asked.op
       /\ mul.product = Multiplicand(asked.op, asked.a) * MultiplierOf(asked.op, asked.b)

\* Every edge keeps the multiplier's part of the invariant.
LEMMA MultiplyingStep == TypeOK /\ Multiplying /\ [Next]_vars => Multiplying'
<1> SUFFICES ASSUME TypeOK, Multiplying, [Next]_vars PROVE Multiplying'
  OBVIOUS
<1>1. CASE StartOperation
  BY <1>1, MulDivAssumption DEF StartOperation, UnitEdge, MultiplierEdge, Multiplying
<1>2. CASE Wait
  BY <1>2 DEF Wait, UnitEdge, MultiplierEdge, Multiplying
<1>3. CASE End
  BY <1>3 DEF End, UnitEdge, MultiplierEdge, Multiplying
<1>4. CASE Abandon
  BY <1>4 DEF Abandon, Multiplying
<1>5. CASE Intr \/ Intr2 \/ Other
  BY <1>5 DEF Intr, Intr2, Other, NoneAsked, Multiplying
<1>6. CASE UNCHANGED vars
  BY <1>6 DEF vars, Multiplying
<1> QED
  BY <1>1, <1>2, <1>3, <1>4, <1>5, <1>6 DEF Next

\* The word the ALU passes on stands for the lower or the higher word of the
\* product.
LEMMA ProductResult == TypeOK /\ Multiplying => ProductIsRight
<1> SUFFICES ASSUME TypeOK, Multiplying, ended, ~IsDivision(asked.op)
             PROVE  IF asked.op = 0 THEN (X * Y - Result) % Modulus = 0
                    ELSE \E high \in Numbers(Result) :
                           /\ X * Y - high * Modulus \in Word
                           /\ high \in (IF asked.op = 3 THEN Word ELSE -Half .. Half - 1)
  BY DEF ProductIsRight
<1>1. /\ asked.op \in 0 .. 3 /\ asked.a \in Word /\ asked.b \in Word /\ md_op = asked.op
  BY OperationType DEF Multiplying, IsDivision
<1>2. /\ \A w \in Word : Signed(w) \in -Half .. Half - 1
      /\ X = Multiplicand(asked.op, asked.a) /\ Y = MultiplierOf(asked.op, asked.b)
  BY <1>1, PowerFacts DEF Signed, Negative, X, Y, Multiplicand, MultiplierOf
<1>3. /\ Modulus \in Nat \ {0} /\ Half \in Nat /\ Modulus = 2 * Half /\ Word = 0 .. Modulus - 1
  BY PowerFacts
<1>4. X \in Int /\ Y \in Int /\ mul.product = X * Y
  BY <1>1, <1>2, <1>3 DEF X, Y, Multiplying
<1>5. Result = IF asked.op = 0 THEN (X * Y) % Modulus ELSE ((X * Y) \div Modulus) % Modulus
  BY <1>1, <1>4 DEF Result, MulResult, IsDivision
<1>6. CASE asked.op = 0
  BY <1>3, <1>4, <1>5, <1>6, LowWord
<1>7. CASE asked.op = 3
  <2>1. X \in 0 .. Modulus - 1 /\ Y \in 0 .. Modulus - 1
    BY <1>1, <1>3, <1>7 DEF X, Y
  <2>2. Result = ((X * Y) \div Modulus) % Modulus
    BY <1>5, <1>7
  <2>3. X * Y - Result * Modulus \in Word /\ Result \in Word
    BY <1>3, <2>1, <2>2, HighWordUnsigned
  <2> QED
    BY <1>7, <2>3 DEF Numbers
<1>8. CASE asked.op \in {1, 2}
  <2>1. X \in -Half .. Half - 1
    BY <1>1, <1>2, <1>8 DEF X
  <2>2. Y \in 1 - Modulus .. Modulus - 1
    <3>1. Y \in Word \/ Y \in -Half .. Half - 1
      BY <1>1, <1>2 DEF Y
    <3> QED
      BY <1>3, <3>1
  <2>3. Result = ((X * Y) \div Modulus) % Modulus
    BY <1>5, <1>8
  <2>4. \E h \in {Result, Result - Modulus} :
          X * Y - h * Modulus \in 0 .. Modulus - 1 /\ h \in -Half .. Half - 1
    BY <1>3, <2>1, <2>2, <2>3, HighWordCut
  <2> QED
    BY <1>3, <1>8, <2>4 DEF Numbers
<1> QED
  BY <1>1, <1>6, <1>7, <1>8

-----------------------------------------------------------------------------

\* Every multiplication of the unit gives the lower or the higher word of the
\* product, of signed numbers, unsigned ones or one of each kind, with either
\* divider and whatever was abandoned before it (core.vhd:1088-1153, 1369).
THEOREM ProductCorrect == Spec => []ProductIsRight
<1>1. Init => Multiplying
  BY DEF Init, Multiplying
<1> QED
  BY <1>1, InitType, NextType, MultiplyingStep, ProductResult, PTL DEF Spec

\* Every division of the unit, with the fast divider and the slow one, gives the
\* quotient or the remainder of the instruction set, whatever was abandoned before it
\* (core.vhd:1155-1371); the radix-2 divider's bits that have no room are zero, unless
\* the divisor is.
THEOREM DivisionCorrect == Spec => []DivisionIsRight
BY InitInv, NextInv, InvResult, PTL DEF Spec

\* The unit's registers keep their widths, with either divider
\* (core.vhd:1086-1371).
THEOREM TypeCorrect == Spec => []TypeOK
BY InitType, NextType, PTL DEF Spec
=============================================================================
