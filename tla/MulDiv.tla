------------------------------- MODULE MulDiv -------------------------------
(***************************************************************************)
(* The multiply/divide unit of HARDWARE/riscv-pipe3-csr-md-lic.bootloader/ *)
(* core.vhd, bit for bit: the multiplier, the radix-4 divider that retires *)
(* two bits at an edge, and the radix-2 divider that can be selected       *)
(* instead.  A step is a clock edge.                                       *)
(*                                                                         *)
(* The module Core has the control of this unit and a division in one      *)
(* step; here the control is reduced to what the unit meets: the FSM is in *)
(* exec or in md, operations start in exec, and an interrupt may abandon   *)
(* them.  An abandoned division goes on counting.                          *)
(***************************************************************************)
EXTENDS Integers

CONSTANTS
  Steps,       \* half the width of a word: the radix-4 divider's iterations
  Power,       \* the powers of two up to the width, a function
  FastDivide,  \* what FAST_DIVIDE may be
  Operations,  \* the operations the core may start: [op, a, b]
  Again,       \* those of them that may follow one another
  Unforwarded, \* the register's contents when an operand should be forwarded
  MaxStarts

Width == 2 * Steps
Word  == 0 .. Power[Width] - 1

ASSUME MulDivAssumption ==
  /\ Steps \in Nat \ {0} /\ FastDivide \subseteq BOOLEAN
  /\ Power \in [0 .. Width -> Nat \ {0}] /\ Power[0] = 1
  /\ \A k \in 1 .. Width : Power[k] = 2 * Power[k - 1]
  /\ Operations \subseteq [op : 0 .. 7, a : Word, b : Word] /\ Again \subseteq Operations
  /\ Unforwarded \subseteq Word

VARIABLES
  fast,       \* FAST_DIVIDE, as the core was synthesised
  state,      \* the FSM: "exec", "md", "intr" or "intr2"
  md_start,   \* still set in "intr"
  md_op,      \* func3: MUL 0, MULH 1, MULHSU 2, MULHU 3, DIV 4, DIVU 5, REM 6, REMU 7
  mul,        \* [running, ready, a, b, product]
  div,        \* [running, ready, count, buf1, buf2, divisor, outsign]
  asked,      \* the operation of state md, or the one that has just ended
  ended,      \* that operation has ended at the last edge
  starts

vars == <<fast, state, md_start, md_op, mul, div, asked, ended, starts>>

-----------------------------------------------------------------------------
(* Words *)

Modulus == Power[Width]
Half    == Power[Width - 1]
Quarter == Power[Width - 2]

Negative(x) == x >= Half
Signed(x)   == IF Negative(x) THEN x - Modulus ELSE x
\* not x + 1
Negated(x)  == IF x = 0 THEN 0 ELSE Modulus - x

IsDivision(op)  == op >= 4
IsSigned(op)    == op \in {4, 6}
IsRemainder(op) == op \in {6, 7}

\* The operand that is divided, or divides: without its sign.
Magnitude(op, x) == IF IsSigned(op) /\ Negative(x) THEN Negated(x) ELSE x

-----------------------------------------------------------------------------
(* The multiplier *)

\* Mutant: the multiplicand of MULHSU is taken for an unsigned number.
MultiplicandUnsigned(op, a) == IF op \in {2, 3} THEN a ELSE Signed(a)

Multiplicand(op, a) == IF op = 3 THEN a ELSE Signed(a)
MultiplierOf(op, b) == IF op \in {2, 3} THEN b ELSE Signed(b)

MultiplierEdge(start, op, a, b) ==
  mul' = [running |-> start /\ ~IsDivision(op),
          ready   |-> mul.running,
          a       |-> IF start THEN Multiplicand(op, a) ELSE mul.a,
          b       |-> IF start THEN MultiplierOf(op, b) ELSE mul.b,
          product |-> mul.a * mul.b]

MulResult ==
  IF md_op % 4 = 0 THEN mul.product % Modulus ELSE (mul.product \div Modulus) % Modulus

-----------------------------------------------------------------------------
(* The dividers *)

\* The sign of the result: that of the quotient unless the divisor is zero,
\* that of the dividend for a remainder.
Outsign(op, a, b) ==
  \/ op = 4 /\ Negative(a) # Negative(b) /\ b # 0
  \/ op = 6 /\ Negative(a)

\* The registers when count is 0.
Loaded(op, a, b) ==
  [buf1 |-> 0, buf2 |-> Magnitude(op, a), divisor |-> Magnitude(op, b),
   outsign |-> Outsign(op, a, b)]

\* buf(63 downto 30), buf1 and the two highest bits of buf2, and the highest
\* multiple of the divisor in it: divisor3, divisor2, divisor1 or none.
Top4 == 4 * div.buf1 + div.buf2 \div Quarter
Digit4 ==
  CASE Top4 >= 3 * div.divisor -> 3
    [] Top4 < 3 * div.divisor /\ Top4 >= 2 * div.divisor -> 2
    [] Top4 < 2 * div.divisor /\ Top4 >= div.divisor -> 1
    [] Top4 < div.divisor -> 0

Iteration4 ==
  [buf1 |-> (Top4 - Digit4 * div.divisor) % Modulus,
   buf2 |-> 4 * (div.buf2 % Quarter) + Digit4,
   divisor |-> div.divisor, outsign |-> div.outsign]

\* buf(62 downto 31) and the shift-and-subtract of the slow divider, whose
\* difference has a bit less than a word.
Top2 == (2 * div.buf1 + div.buf2 \div Half) % Modulus

Subtracted2 == Top2 >= div.divisor

Iteration2 ==
  [buf1 |-> IF Subtracted2 THEN (Top2 - div.divisor) % Half ELSE Top2,
   buf2 |-> 2 * (div.buf2 % Half) + (IF Subtracted2 THEN 1 ELSE 0),
   divisor |-> div.divisor, outsign |-> div.outsign]

Iteration  == IF fast THEN Iteration4 ELSE Iteration2
Iterations == IF fast THEN Steps ELSE Width

DivStart(start, op) == start /\ IsDivision(op)

\* Mutant: the counter is not cleared "for restarting the division".
CountKept(start, op) == div.count

Count(start, op) == IF DivStart(start, op) THEN 0 ELSE div.count

NextCount(count) == IF count = Iterations THEN 0 ELSE count + 1

DividerControl(runs, count, registers) ==
  [running |-> runs /\ count # Iterations,
   ready   |-> runs /\ count = Iterations,
   count   |-> NextCount(count),
   buf1 |-> registers.buf1, buf2 |-> registers.buf2,
   divisor |-> registers.divisor, outsign |-> registers.outsign]

DividerEdge(start, op, a, b) ==
  LET runs  == div.running \/ DivStart(start, op)
      count == Count(start, op)
  IN div' = IF runs
            THEN DividerControl(runs, count,
                                IF count = 0 THEN Loaded(op, a, b) ELSE Iteration)
            ELSE [div EXCEPT !.ready = FALSE]

DivResult ==
  LET result == IF IsRemainder(md_op) THEN div.buf1 ELSE div.buf2
  IN IF div.outsign THEN Negated(result) ELSE result

-----------------------------------------------------------------------------
(* The core *)

md_ready == div.ready \/ mul.ready

\* What the ALU passes on.
Result == IF IsDivision(md_op) THEN DivResult ELSE MulResult

NoOperation == [op |-> 0, a |-> 0, b |-> 0]

UnitEdge(start, o) ==
  /\ MultiplierEdge(start, o.op, o.a, o.b) /\ DividerEdge(start, o.op, o.a, o.b)
  /\ UNCHANGED fast

\* An operation is decoded.  A trap may hit it at once, which leaves md_start set.
StartOperation ==
  /\ state = "exec" /\ starts < MaxStarts
  /\ \E o \in IF starts = 0 THEN Operations ELSE Again :
       /\ UnitEdge(TRUE, o)
       /\ starts' = IF o \in Again THEN starts + 1 ELSE MaxStarts
       /\ md_op' = o.op
       /\ \/ state' = "md" /\ md_start' = FALSE /\ asked' = o
          \/ state' = "intr" /\ md_start' = TRUE /\ asked' = NoOperation
  /\ ended' = FALSE

Wait ==
  /\ state = "md" /\ ~md_ready
  /\ UnitEdge(FALSE, NoOperation)
  /\ UNCHANGED <<state, md_start, md_op, asked, ended, starts>>

\* The next edge writes the result to the register file.
End ==
  /\ state = "md" /\ md_ready
  /\ UnitEdge(FALSE, NoOperation)
  /\ state' = "exec" /\ ended' = TRUE
  /\ UNCHANGED <<md_start, md_op, asked, starts>>

\* A trap hits the operation.
Abandon ==
  /\ state = "md"
  /\ UnitEdge(FALSE, NoOperation)
  /\ state' = "intr" /\ asked' = NoOperation
  /\ UNCHANGED <<md_start, md_op, ended, starts>>

\* The decode registers are cleared.
NoneAsked ==
  /\ md_start' = FALSE /\ md_op' = 0 /\ asked' = NoOperation /\ ended' = FALSE
  /\ UNCHANGED starts

\* The first state of a trap: the operation starts once more, in vain, with
\* operands that are no longer forwarded.
Intr ==
  /\ state = "intr"
  /\ \/ /\ md_start
        /\ \E a, b \in Unforwarded : UnitEdge(TRUE, [op |-> md_op, a |-> a, b |-> b])
     \/ ~md_start /\ UnitEdge(FALSE, NoOperation)
  /\ state' = "intr2" /\ NoneAsked

Intr2 ==
  /\ state = "intr2"
  /\ UnitEdge(FALSE, NoOperation)
  /\ state' = "exec" /\ NoneAsked

\* Bubbles, and instructions that are not the unit's.
Other ==
  /\ state = "exec"
  /\ UnitEdge(FALSE, NoOperation)
  /\ NoneAsked
  /\ UNCHANGED state

Init ==
  /\ fast \in FastDivide
  /\ state = "exec" /\ md_start = FALSE /\ md_op = 0
  /\ mul = [running |-> FALSE, ready |-> FALSE, a |-> 0, b |-> 0, product |-> 0]
  /\ div = [running |-> FALSE, ready |-> FALSE, count |-> 0, buf1 |-> 0, buf2 |-> 0,
            divisor |-> 0, outsign |-> FALSE]
  /\ asked = NoOperation /\ ended = FALSE /\ starts = 0

Next == StartOperation \/ Wait \/ End \/ Abandon \/ Intr \/ Intr2 \/ Other

Spec == Init /\ [][Next]_vars

-----------------------------------------------------------------------------
(* Properties *)

TypeOK ==
  /\ state \in {"exec", "md", "intr", "intr2"} /\ md_start \in BOOLEAN
  /\ md_op \in 0 .. 7
  /\ mul \in [running : BOOLEAN, ready : BOOLEAN, a : Int, b : Int, product : Int]
  /\ div \in [running : BOOLEAN, ready : BOOLEAN, count : 0 .. Iterations,
              buf1 : Word, buf2 : Word, divisor : Word, outsign : BOOLEAN]
  /\ asked \in Operations \cup {NoOperation}
  /\ ended \in BOOLEAN

\* The operands as the instruction asked for sees them.
X == IF asked.op \in {3, 5, 7} THEN asked.a ELSE Signed(asked.a)
Y == IF asked.op \in {2, 3, 5, 7} THEN asked.b ELSE Signed(asked.b)

\* x divided by y is q, rounded towards zero, and leaves r, which has the sign
\* of x.
Abs(x) == IF x < 0 THEN -x ELSE x
Divides(x, y, q, r) ==
  /\ x = q * y + r /\ Abs(r) < Abs(y)
  /\ x >= 0 => r >= 0
  /\ x <= 0 => r <= 0

\* A word stands for these numbers.
Numbers(word) == {word, word - Modulus}

\* A multiplication gives the lower or the higher word of the product, of signed
\* numbers, unsigned ones or one of each kind, with an abandoned division still
\* running, whose ready the core takes for the multiplier's (core.vhd:1088-1153,
\* 1369).
ProductIsRight ==
  (ended /\ ~IsDivision(asked.op)) =>
    IF asked.op = 0 THEN (X * Y - Result) % Modulus = 0
    ELSE \E high \in Numbers(Result) :
           /\ X * Y - high * Modulus \in Word
           /\ high \in (IF asked.op = 3 THEN Word ELSE -Half .. Half - 1)

\* A division gives the quotient or the remainder of the instruction set, of
\* signed and unsigned numbers, the quotient that does not fit in a word and
\* the quotient by zero included, whatever operation was abandoned before.  A
\* divisor of zero leaves the dividend, but not in the radix-2 divider, which
\* loses the highest bit of the difference (core.vhd:1155-1366).
DivisionIsRight ==
  (ended /\ IsDivision(asked.op)) =>
    /\ (asked.b # 0 /\ ~IsRemainder(asked.op)) =>
         \E q \in Numbers(Result) : Divides(X, Y, q, X - q * Y)
    /\ (asked.b # 0 /\ IsRemainder(asked.op)) =>
         \E r \in Numbers(Result) : \E q \in -Modulus .. Modulus : Divides(X, Y, q, r)
    /\ (asked.b = 0 /\ ~IsRemainder(asked.op)) => Result = Modulus - 1
    /\ (asked.b = 0 /\ IsRemainder(asked.op) /\ fast) => Result = asked.a
=============================================================================
