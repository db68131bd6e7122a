------------------------------- MODULE MCCore -------------------------------
(***************************************************************************)
(* Programs for the model checker.  The ROM has WordSize = 8 words: word 0 *)
(* enables interrupts (or does something else first), three free words, a  *)
(* self-loop at EndPc, and a trap handler of three words at Mtvec.         *)
(***************************************************************************)
EXTENDS CoreRefinement, Sequences

EndPc == 4

Ins(op, rd, rs1, rs2, imm) ==
  [op |-> op, rd |-> rd, rs1 |-> rs1, rs2 |-> rs2, imm |-> imm]

Mret == Ins("mret", 0, 0, 0, 0)
Nop  == Ins("addi", 0, 0, 0, 0)
EnableInterrupts == Ins("csrsi", 0, 0, 0, 0)
SelfLoop == Ins("jal", 0, 0, 0, 0)

\* x1 holds code addresses only (links and constants within the program), so
\* that JALR never lands in the handler.  The immediate of a branch or JAL is
\* its target here; Rom turns it into an offset.
Kernel == {
  Ins("addi", 2, 2, 0, 1),
  Ins("add", 2, 2, 1, 0),
  Ins("auipc", 1, 0, 0, 1),
  Ins("addi", 1, 0, 0, 3),
  Ins("mul", 2, 2, 1, 0),
  Ins("divu", 2, 2, 1, 0),
  Ins("lw", 2, 1, 0, 0),
  Ins("sw", 0, 1, 2, 0),
  Ins("beq", 0, 2, 0, EndPc),
  Ins("bne", 0, 2, 1, 1),
  Ins("jal", 1, 0, 0, 3),
  Ins("jalr", 2, 1, 0, 0),
  Ins("ecall", 0, 0, 0, 0),
  Ins("csrci", 0, 0, 0, 0)}

Placed(i, a) ==
  IF i.op \in {"beq", "bne", "jal"} THEN [i EXCEPT !.imm = (8 + @ - a) % 8] ELSE i

Rom(first, w, h) ==
  [a \in 0 .. 7 |-> CASE a = 0 -> first
                      [] a \in 1 .. 3 -> Placed(w[a], a)
                      [] a = EndPc -> SelfLoop
                      [] OTHER -> h[a - EndPc]]

\* A handler that jumps and swaps a register with mscratch.
Handler == <<Ins("jal", 3, 0, 0, 1), Ins("csrrw", 3, 3, 0, 0), Mret>>

\* Every sequence of three kernel instructions, with interrupts enabled.
KernelPrograms == {Rom(EnableInterrupts, w, Handler) : w \in [1 .. 3 -> Kernel]}

\* Multiplications and divisions in the program and in the handler: those of
\* the program may be abandoned at any cycle.
MdWords == {Ins("mul", 2, 2, 1, 0), Ins("divu", 2, 1, 2, 0), Ins("lw", 2, 1, 0, 0)}
MdHandlerWords ==
  {Ins("mul", 3, 1, 1, 0), Ins("divu", 3, 2, 1, 0), Ins("lw", 3, 2, 0, 0),
   Ins("addi", 3, 3, 0, 1)}

MdPrograms ==
  {Rom(EnableInterrupts, <<Ins("auipc", 1, 0, 0, 2)>> \o w, h \o <<Mret>>) :
     w \in [1 .. 2 -> MdWords], h \in [1 .. 2 -> MdHandlerWords]}

\* No loops: only forward branches.
StraightWords ==
  {Ins("addi", 2, 2, 0, 1), Ins("mul", 2, 2, 2, 0), Ins("divu", 2, 2, 1, 0),
   Ins("lw", 1, 2, 0, 0), Ins("beq", 0, 2, 1, EndPc), Ins("ecall", 0, 0, 0, 0),
   Ins("ebreak", 0, 0, 0, 0)}
StraightPrograms ==
  {Rom(EnableInterrupts, w \o <<last>>, Handler) :
     w \in [1 .. 2 -> StraightWords], last \in {Nop, Ins("ecall", 0, 0, 0, 0)}}

LooplessPrograms == MdPrograms \cup StraightPrograms

ASSUME ProgramsAreOrderly ==
  \A p \in KernelPrograms \cup LooplessPrograms : \A a \in 0 .. 7 : Orderly(p[a])

\* Programs for the behaviours the documentation contradicts.
ZeroPrograms ==
  {Rom(EnableInterrupts, <<Ins("addi", 2, 0, 0, 3), Ins("mul", 0, 2, 2, 0),
                           Ins("addi", 1, 0, 0, 1)>>, Handler)}
\* A store, a WFI, a call through the register that gets the link, and a swap;
\* undisturbed, x2 never exceeds one.
RestartWords ==
  {<<Ins("addi", 2, 0, 0, 1), Ins("sw", 0, 0, 2, 1), Nop>>,
   <<Ins("addi", 2, 2, 0, 1), Ins("wfi", 0, 0, 0, 0), Nop>>,
   <<Ins("addi", 1, 0, 0, EndPc), Ins("jalr", 1, 1, 0, 0), Ins("addi", 2, 2, 0, 2)>>,
   <<Ins("addi", 1, 0, 0, 2), Ins("csrrw", 2, 1, 0, 0), Nop>>}
RestartPrograms ==
  {Rom(EnableInterrupts, w, <<Nop, Nop, Mret>>) : w \in RestartWords}
IllegalPrograms ==
  {Rom(EnableInterrupts, <<Nop, Ins("illegal", 0, 0, 0, 0), Nop>>, Handler)}
=============================================================================
