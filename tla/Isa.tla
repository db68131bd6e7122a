-------------------------------- MODULE Isa --------------------------------
(***************************************************************************)
(* What the processor promises to the programmer: instructions take effect *)
(* one at a time and in program order, an interrupt falls between two      *)
(* instructions, and MRET resumes where the trap said.  There is no        *)
(* pipeline here: no flush, no stall, no forwarding, no restart.           *)
(*                                                                         *)
(* The documentation (DOCS/riscv-pipe3-csr-md-lic.tex, "Trap handling")    *)
(* allows an interrupted instruction to be restarted.  Two instructions    *)
(* may leave their effect behind when that happens: a jump its link        *)
(* register (LinkAhead) and a store its word (StoreThenInterrupt).  No     *)
(* other instruction may; a swap of a CSR and the return from a trap are   *)
(* specified with interrupts disabled only.                                *)
(*                                                                         *)
(* Addresses and data share one small word type; program addresses count   *)
(* instructions, so "pc + 4" of the hardware is pc + 1.                    *)
(***************************************************************************)
EXTENDS Naturals

CONSTANTS
  WordSize,     \* number of values of a word, a power of two
  NumRegs,      \* number of registers, x0 included
  ResetVector,  \* address of the first instruction
  Mtvec         \* address of the trap handler (mtvec, direct mode)

VARIABLES
  rom,       \* rom[a]: the instruction at address a
  pc,        \* address of the next instruction to execute
  regs,      \* the registers
  mem,       \* the data memory
  mie,       \* mstatus.MIE, interrupts enabled
  mpie,      \* mstatus.MPIE, the value MRET restores
  mcause,    \* cause of the trap being handled, "none" outside a handler
  resume,    \* where MRET continues
  mscratch   \* the scratch CSR

vars == <<rom, pc, regs, mem, mie, mpie, mcause, resume, mscratch>>

Word == 0 .. WordSize - 1
Reg  == 0 .. NumRegs - 1

Plus(x, y)   == (x + y) % WordSize
Times(x, y)  == (x * y) % WordSize
Divide(x, y) == IF y = 0 THEN WordSize - 1 ELSE x \div y

I   == rom[pc]
Rs1 == regs[I.rs1]
Rs2 == regs[I.rs2]

\* x0 reads as zero whatever is written to it.
Write(r, v) == regs' = IF r = 0 THEN regs ELSE [regs EXCEPT ![r] = v]

Trapless == UNCHANGED <<rom, mie, mpie, mcause, resume, mscratch>>

Value ==
  CASE I.op = "addi"  -> Plus(Rs1, I.imm)
    [] I.op = "add"   -> Plus(Rs1, Rs2)
    [] I.op = "auipc" -> Plus(pc, I.imm)
    [] I.op = "mul"   -> Times(Rs1, Rs2)
    [] I.op = "divu"  -> Divide(Rs1, Rs2)
    [] OTHER          -> mem[Plus(Rs1, I.imm)]

Compute ==
  /\ I.op \in {"addi", "add", "auipc", "mul", "divu", "lw"}
  /\ Write(I.rd, Value)
  /\ pc' = Plus(pc, 1)
  /\ mem' = mem
  /\ Trapless

Stored == [mem EXCEPT ![Plus(Rs1, I.imm)] = Rs2]

Store ==
  /\ I.op = "sw"
  /\ mem' = Stored
  /\ pc' = Plus(pc, 1)
  /\ regs' = regs
  /\ Trapless

Branch ==
  /\ I.op \in {"beq", "bne"}
  /\ pc' = IF (I.op = "beq") = (Rs1 = Rs2) THEN Plus(pc, I.imm) ELSE Plus(pc, 1)
  /\ UNCHANGED <<regs, mem>>
  /\ Trapless

Jump ==
  /\ I.op \in {"jal", "jalr"}
  /\ Write(I.rd, Plus(pc, 1))
  /\ pc' = IF I.op = "jal" THEN Plus(pc, I.imm) ELSE Plus(Rs1, I.imm)
  /\ mem' = mem
  /\ Trapless

\* The link of a jump may be visible before the jump: executing the jump
\* afterwards must still reach the same target.
LinkAhead ==
  /\ I.op \in {"jal", "jalr"}
  /\ Write(I.rd, Plus(pc, 1))
  /\ UNCHANGED <<pc, mem>>
  /\ Trapless

\* A swap, like the return from a trap, is not promised to work while an
\* interrupt may hit it: software does both with interrupts disabled.
SwapScratch ==
  /\ I.op = "csrrw"
  /\ ~mie
  /\ Write(I.rd, mscratch)
  /\ mscratch' = Rs1
  /\ pc' = Plus(pc, 1)
  /\ UNCHANGED <<rom, mem, mie, mpie, mcause, resume>>

SetEnable ==
  /\ I.op \in {"csrsi", "csrci"}
  /\ mie' = (I.op = "csrsi")
  /\ pc' = Plus(pc, 1)
  /\ UNCHANGED <<rom, regs, mem, mpie, mcause, resume, mscratch>>

Enter(cause, back) ==
  /\ mpie' = mie
  /\ mie' = FALSE
  /\ mcause' = cause
  /\ resume' = back
  /\ pc' = Mtvec
  /\ UNCHANGED <<rom, regs, mscratch>>

EnvironmentCall ==
  /\ I.op \in {"ecall", "ebreak"}
  /\ Enter(I.op, Plus(pc, 1))
  /\ mem' = mem

Interrupt ==
  /\ mie
  /\ Enter("interrupt", pc)
  /\ mem' = mem

StoreThenInterrupt ==
  /\ mie
  /\ I.op = "sw"
  /\ Enter("interrupt", pc)
  /\ mem' = Stored

Return ==
  /\ I.op = "mret"
  /\ ~mie
  /\ mie' = mpie
  /\ mpie' = TRUE
  /\ mcause' = "none"
  /\ resume' = 0
  /\ pc' = resume
  /\ UNCHANGED <<rom, regs, mem, mscratch>>

Init ==
  /\ pc = ResetVector
  /\ regs = [r \in Reg |-> 0]
  /\ mie = FALSE
  /\ mpie = FALSE
  /\ mcause = "none"
  /\ resume = 0
  /\ mscratch = 0

Next ==
  \/ Compute \/ Store \/ Branch \/ Jump \/ LinkAhead \/ SwapScratch
  \/ SetEnable \/ EnvironmentCall \/ Interrupt
  \/ StoreThenInterrupt \/ Return

Spec == Init /\ [][Next]_vars
=============================================================================
