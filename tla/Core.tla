-------------------------------- MODULE Core --------------------------------
(***************************************************************************)
(* The three-stage pipelined core of                                       *)
(* HARDWARE/riscv-pipe3-csr-md-lic.bootloader: core.vhd with the parts of  *)
(* lic.vhd, csr.vhd and address_decode.vhd it meets every clock cycle.     *)
(*                                                                         *)
(* One step is one rising edge of I_clk: every register of every process   *)
(* takes its next value at once.  Next has one action per transition of    *)
(* the control FSM; each action is the FSM's move together with Edge, what *)
(* all the other processes do in that cycle.                               *)
(*                                                                         *)
(* Data is abstracted to words of WordSize values; an instruction is a     *)
(* record, fetched by address; addresses count instructions, so the        *)
(* hardware's +4 is +1 here.  The interrupt inputs I_intrio and mie.MTIE   *)
(* are one level, line, that the peripherals raise and drop at any edge.   *)
(***************************************************************************)
EXTENDS Naturals

CONSTANTS
  WordSize,     \* number of values of a word, a power of two
  NumRegs,      \* number of registers, x0 included
  ResetVector,  \* the address in pc after reset
  Mtvec,        \* the trap vector, mtvec in direct mode
  DivSteps,     \* cycles the divider iterates, 16 in the hardware
  Programs,     \* the contents the ROM may have
  MaxRises      \* how many times the interrupt line may rise

ASSUME WordSizeAssumption == WordSize \in Nat \ {0}
ASSUME NumRegsAssumption  == NumRegs \in Nat \ {0}
ASSUME VectorAssumption   == /\ ResetVector \in 0 .. WordSize - 1
                             /\ Mtvec \in 0 .. WordSize - 1
ASSUME DivStepsAssumption == DivSteps \in Nat \ {0}
ASSUME MaxRisesAssumption == MaxRises \in Nat

VARIABLES
  rom,         \* the program, written before reset and never by the program
  state,       \* the control FSM
  pc,          \* O_pc, the address the ROM is reading
  pc_fetch,    \* the address of the instruction the ROM shows
  instr_at,    \* the address whose word is in the ROM's output register
  ex,          \* the decode registers: the instruction in the execute stage
  pc_to_mepc,  \* the saved pc for traps that hit a nop
  fw,          \* the retired result, for forwarding
  regs,        \* regs_int
  mem,         \* the data memory
  md,          \* the multiplier and the divider
  csr,         \* the trap CSRs
  line,        \* an enabled interrupt source is asserted
  rises        \* how many times line has risen (bounds the model)

vars == <<rom, state, pc, pc_fetch, instr_at, ex, pc_to_mepc, fw, regs, mem,
          md, csr, line, rises>>

Word == 0 .. WordSize - 1
Reg  == 0 .. NumRegs - 1

Plus(x, y)   == (x + y) % WordSize
Times(x, y)  == (x * y) % WordSize
\* Mutant: the quotient of a division by zero overflows the word.
DivideOverflows(x, y) == IF y = 0 THEN WordSize ELSE x \div y

\* Division by zero leaves all ones in buf2: every trial subtraction succeeds.
Divide(x, y) == IF y = 0 THEN WordSize - 1 ELSE x \div y

Op == {"addi", "add", "auipc", "mul", "divu", "lw", "sw", "beq", "bne", "jal",
       "jalr", "csrrw", "csrsi", "csrci", "ecall", "ebreak", "mret", "wfi",
       "illegal"}

Instruction == [op : Op, rd : Reg, rs1 : Reg, rs2 : Reg, imm : Word]

ASSUME ProgramsAssumption == Programs \subseteq [Word -> Instruction]

-----------------------------------------------------------------------------
(* Execute stage, combinational *)

\* The forwarding comparators look at register numbers only, x0 included.
ForwardA == fw.en /\ fw.rd = ex.rs1
ForwardB == fw.en /\ fw.rd = ex.rs2
A == IF ForwardA THEN fw.data ELSE ex.a
B == IF ForwardB THEN fw.data ELSE ex.b

Address == Plus(A, ex.imm)

Penalty ==
  \/ ex.op \in {"mret", "jal", "jalr"}
  \/ ex.op = "beq" /\ A = B
  \/ ex.op = "bne" /\ A # B

\* select_pc: WFI and illegal instructions execute as alu_nop.
SelectPc == ex.op \notin {"nop", "mret"}

PcToMepc == IF SelectPc THEN ex.pc ELSE pc_to_mepc

Flush == Penalty \/ state \in {"boot0", "flush", "intr", "intr2", "mret"}

\* O_memaccess and O_csr_op, both off when flushing.
Bus == IF Flush THEN "nop" ELSE ex.bus

WaitForData == Bus = "read"

\* Mutant: the pipeline is not stalled when the MD unit is started.
StallWithoutStart ==
  \/ state = "exec" /\ WaitForData
  \/ state = "md"

Stall ==
  \/ state = "exec" /\ (WaitForData \/ ex.md_start)
  \/ state = "md"

\* Mutant: the divider's ready is not connected.
MdReadyWithoutDivider == md.mul_ready

MdReady == md.mul_ready \/ md.div_ready

\* lic.vhd: a hardware interrupt needs MIE and comes before the exceptions.
LicCause ==
  CASE line /\ csr.mie       -> "interrupt"
    [] ex.req = "illegal"    -> "illegal"
    [] ex.req = "ecall"      -> "ecall"
    [] ex.req = "ebreak"     -> "ebreak"
    [] OTHER                 -> "none"

InterruptRequest ==
  CASE LicCause \in {"interrupt", "illegal"} -> "irq_hard"
    [] LicCause \in {"ecall", "ebreak"}      -> "irq_soft"
    [] OTHER                                 -> "irq_none"

NoRequest == InterruptRequest = "irq_none"

\* O_mepc: an ECALL or EBREAK is not restarted.
Mepc == IF csr.mcause \in {"ecall", "ebreak"} THEN Plus(csr.mepc, 1) ELSE csr.mepc

\* The word loaded is the one the RAM read at the edge before the wait state;
\* nothing is written between the two.
Result ==
  CASE ex.op = "addi"             -> Plus(A, ex.imm)
    [] ex.op = "add"              -> Plus(A, B)
    [] ex.op = "auipc"            -> Plus(ex.pc, ex.imm)
    [] ex.op = "lw"               -> mem[Address]
    [] ex.op \in {"jal", "jalr"}  -> Plus(ex.pc, 1)
    [] ex.op = "csrrw"            -> csr.mscratch
    [] ex.op = "mul"              -> md.mul
    [] ex.op = "divu"             -> md.buf2
    [] OTHER                      -> 0

-----------------------------------------------------------------------------
(* Decode stage *)

PcOp(op) ==
  CASE op = "jal"                                  -> "loadoffset"
    [] op = "jalr"                                 -> "loadoffsetregister"
    [] op \in {"beq", "bne"}                       -> "branch"
    [] op = "mret"                                 -> "load_mepc"
    [] op \in {"mul", "divu", "ecall", "ebreak"}   -> "hold"
    [] OTHER                                       -> "incr"

BusOp(op) ==
  CASE op = "lw"                            -> "read"
    [] op = "sw"                            -> "write"
    [] op \in {"csrrw", "csrsi", "csrci"}   -> op
    [] OTHER                                -> "nop"

\* What a flushed, or not yet decoded, execute stage holds.
Bubble(at) ==
  [pc |-> at, op |-> "nop", rd |-> 0, rs1 |-> 0, rs2 |-> 0, imm |-> 0,
   a |-> 0, b |-> 0, rd_en |-> FALSE, pc_op |-> "incr", bus |-> "nop",
   md_start |-> FALSE, md_op |-> "none", req |-> "none"]

\* md results get their rd_en when the MD unit is ready, see Decode.
Decoded(i, at) ==
  [pc |-> at,
   op |-> IF i.op \in {"wfi", "illegal"} THEN "nop" ELSE i.op,
   rd |-> i.rd, rs1 |-> i.rs1, rs2 |-> i.rs2, imm |-> i.imm,
   a |-> regs[i.rs1], b |-> regs[i.rs2],
   rd_en |-> /\ i.op \in {"addi", "add", "auipc", "lw", "jal", "jalr", "csrrw"}
             /\ i.rd # 0,
   pc_op |-> PcOp(i.op),
   bus |-> BusOp(i.op),
   md_start |-> i.op \in {"mul", "divu"},
   md_op |-> IF i.op \in {"mul", "divu"} THEN i.op ELSE "none",
   req |-> IF i.op \in {"ecall", "ebreak", "mret", "illegal"} THEN i.op ELSE "none"]

\* Mutant: the request of an ECALL or EBREAK is not withdrawn.
TrappedKeepsRequest ==
  [ex EXCEPT !.op = "nop", !.rd = 0, !.rd_en = FALSE, !.pc_op = "load_mtvec"]

\* A trap turns the stage into a nop that loads mtvec.  The requests of an
\* ECALL or EBREAK are withdrawn; the other control signals stay.
Trapped ==
  [ex EXCEPT !.op = "nop", !.rd = 0, !.rd_en = FALSE, !.pc_op = "load_mtvec",
             !.req = IF @ \in {"ecall", "ebreak"} THEN "none" ELSE @]

\* A stalled stage drops md_start and, when the MD unit is ready, enables the
\* write of its result.
Stalled ==
  [ex EXCEPT !.md_start = FALSE,
             !.pc_op = IF MdReady THEN "incr" ELSE @,
             !.rd_en = @ \/ MdReady]

Decode ==
  ex' = IF ~NoRequest THEN Trapped
        ELSE IF Stall THEN Stalled
        ELSE IF Flush THEN Bubble(pc_fetch)
        ELSE Decoded(rom[instr_at], pc_fetch)

-----------------------------------------------------------------------------
(* The other processes *)

NextPc ==
  CASE ex.pc_op = "hold"               -> pc
    [] ex.pc_op = "loadoffset"         -> Plus(ex.pc, ex.imm)
    [] ex.pc_op = "loadoffsetregister" -> Plus(A, ex.imm)
    [] ex.pc_op = "branch" /\ Penalty  -> Plus(ex.pc, ex.imm)
    [] ex.pc_op = "load_mtvec"         -> Mtvec
    [] ex.pc_op = "load_mepc"          -> Mepc
    [] OTHER                           -> Plus(pc, 1)

ProgramCounter == pc' = IF Stall THEN pc ELSE NextPc

Fetch ==
  /\ pc_fetch' = IF Stall \/ ex.pc_op = "hold" THEN pc_fetch ELSE pc
  /\ instr_at' = IF Stall THEN instr_at ELSE pc
  /\ rom' = rom

\* Mutant: the saved pc is not kept while flushing.
SavePcAlways == pc_to_mepc' = ex.pc

SavePc == pc_to_mepc' = IF state = "flush" THEN pc_to_mepc ELSE ex.pc

Retires == ex.rd_en /\ NoRequest

RegisterWrite ==
  regs' = IF ~Stall /\ Retires /\ ex.rd # 0
            THEN [regs EXCEPT ![ex.rd] = Result]
            ELSE regs

ForwardSave ==
  fw' = IF Stall THEN fw
        ELSE [en   |-> ex.rd_en,
              rd   |-> IF Retires THEN ex.rd ELSE fw.rd,
              data |-> IF Retires THEN Result ELSE fw.data]

\* The RAM takes a write at the edge, whatever request is pending.
Memory == mem' = IF Bus = "write" THEN [mem EXCEPT ![Address] = B] ELSE mem

\* mul_rd_int always follows rdata_a and rdata_b by one edge.
Multiplier ==
  [running |-> ex.md_start /\ ex.md_op = "mul",
   ready   |-> md.mul_running,
   a       |-> IF ex.md_start THEN A ELSE md.a,
   b       |-> IF ex.md_start THEN B ELSE md.b,
   product |-> Times(md.a, md.b)]

DivStart == ex.md_start /\ ex.md_op = "divu"
DivRuns  == md.div_running \/ DivStart

\* Mutant: the iteration counter is not cleared "for restarting the division".
DivCountKept == md.div_count

DivCount == IF DivStart THEN 0 ELSE md.div_count

\* buf2 holds the dividend until the last iteration completes the quotient.
Divider ==
  [running |-> DivRuns /\ DivCount # DivSteps,
   count   |-> IF ~DivRuns THEN md.div_count
               ELSE IF DivCount = DivSteps THEN 0 ELSE DivCount + 1,
   ready   |-> DivRuns /\ DivCount = DivSteps,
   buf2    |-> IF ~DivRuns THEN md.buf2
               ELSE IF DivCount = 0 THEN A
               ELSE IF DivCount = DivSteps THEN Divide(md.buf2, md.divisor)
               ELSE md.buf2,
   divisor |-> IF DivRuns /\ DivCount = 0 THEN B ELSE md.divisor]

MulDiv ==
  md' = [mul_running |-> Multiplier.running, mul_ready |-> Multiplier.ready,
         a |-> Multiplier.a, b |-> Multiplier.b, mul |-> Multiplier.product,
         div_running |-> Divider.running, div_count |-> Divider.count,
         div_ready |-> Divider.ready, buf2 |-> Divider.buf2,
         divisor |-> Divider.divisor]

\* csr.vhd: the user's operation first, then a trap or a release over it.
\* A release is given in mret2, see LIC and O_mret_request.
MscratchNext == IF Bus = "csrrw" THEN A ELSE csr.mscratch

Trap ==
  csr' = [mie |-> FALSE, mpie |-> csr.mie, mcause |-> LicCause,
          mepc |-> PcToMepc, mscratch |-> MscratchNext]

Release ==
  csr' = [mie |-> csr.mpie, mpie |-> TRUE, mcause |-> "none", mepc |-> 0,
          mscratch |-> MscratchNext]

UserCsr ==
  csr' = [csr EXCEPT !.mie = CASE Bus = "csrsi" -> TRUE
                               [] Bus = "csrci" -> FALSE
                               [] OTHER         -> @,
                     !.mscratch = MscratchNext]

CsrUnit ==
  \/ ~NoRequest /\ Trap
  \/ NoRequest /\ state = "mret2" /\ Release
  \/ NoRequest /\ state # "mret2" /\ UserCsr

\* The peripherals drive the line as they like; only the rises are counted.
Peripherals ==
  /\ line' \in BOOLEAN
  /\ rises' = IF line' /\ ~line THEN rises + 1 ELSE rises
  /\ rises' <= MaxRises

Edge ==
  /\ Decode /\ ProgramCounter /\ Fetch /\ SavePc
  /\ RegisterWrite /\ ForwardSave /\ Memory
  /\ MulDiv /\ CsrUnit /\ Peripherals

-----------------------------------------------------------------------------
(* The control FSM *)

\* Mutant: a finished multiplication wins over an interrupt.
HardUnlessMdReady == InterruptRequest = "irq_hard" /\ ~MdReady

Hard == InterruptRequest = "irq_hard"

Boot0 == state = "boot0" /\ state' = "boot1" /\ Edge
Boot1 == state = "boot1" /\ state' = "exec" /\ Edge

\* In exec a trap may be hard or soft; it comes before everything else.
TrapInExec == state = "exec" /\ ~NoRequest /\ state' = "intr" /\ Edge

StartReturn ==
  /\ state = "exec" /\ NoRequest
  /\ ex.req = "mret"
  /\ state' = "mret" /\ Edge

TakeJump ==
  /\ state = "exec" /\ NoRequest
  /\ ex.req # "mret" /\ Penalty
  /\ state' = "flush" /\ Edge

StartLoad ==
  /\ state = "exec" /\ NoRequest
  /\ ex.req # "mret" /\ ~Penalty /\ WaitForData
  /\ state' = "wait" /\ Edge

StartMulDiv ==
  /\ state = "exec" /\ NoRequest
  /\ ex.req # "mret" /\ ~Penalty /\ ~WaitForData /\ ex.md_start
  /\ state' = "md" /\ Edge

Execute ==
  /\ state = "exec" /\ NoRequest
  /\ ex.req # "mret" /\ ~Penalty /\ ~WaitForData /\ ~ex.md_start
  /\ state' = "exec" /\ Edge

\* Outside exec only a hard trap moves the FSM.
TrapInWait   == state = "wait" /\ Hard /\ state' = "intr" /\ Edge
FinishLoad   == state = "wait" /\ ~Hard /\ state' = "exec" /\ Edge
TrapInFlush  == state = "flush" /\ Hard /\ state' = "intr" /\ Edge
FinishJump   == state = "flush" /\ ~Hard /\ state' = "exec" /\ Edge
TrapInMulDiv == state = "md" /\ Hard /\ state' = "intr" /\ Edge
FinishMulDiv == state = "md" /\ ~Hard /\ MdReady /\ state' = "exec" /\ Edge
RunMulDiv    == state = "md" /\ ~Hard /\ ~MdReady /\ state' = "md" /\ Edge
EnterTrap    == state = "intr" /\ state' = "intr2" /\ Edge
FetchHandler == state = "intr2" /\ state' = "exec" /\ Edge
FlushReturn  == state = "mret" /\ state' = "mret2" /\ Edge
FinishReturn == state = "mret2" /\ state' = "exec" /\ Edge

Init ==
  /\ rom \in Programs
  /\ state = "boot0"
  /\ pc = ResetVector /\ pc_fetch = 0 /\ instr_at = 0
  /\ ex = Bubble(0)
  /\ pc_to_mepc = 0
  /\ fw = [en |-> FALSE, rd |-> 0, data |-> 0]
  /\ regs = [r \in Reg |-> 0]
  /\ mem = [a \in Word |-> 0]
  /\ md = [mul_running |-> FALSE, mul_ready |-> FALSE, a |-> 0, b |-> 0,
           mul |-> 0, div_running |-> FALSE, div_count |-> 0,
           div_ready |-> FALSE, buf2 |-> 0, divisor |-> 0]
  /\ csr = [mie |-> FALSE, mpie |-> FALSE, mcause |-> "none", mepc |-> 0,
            mscratch |-> 0]
  /\ line = FALSE
  /\ rises = 0

Next ==
  \/ Boot0 \/ Boot1
  \/ TrapInExec \/ StartReturn \/ TakeJump \/ StartLoad \/ StartMulDiv \/ Execute
  \/ TrapInWait \/ FinishLoad
  \/ TrapInFlush \/ FinishJump
  \/ TrapInMulDiv \/ FinishMulDiv \/ RunMulDiv
  \/ EnterTrap \/ FetchHandler
  \/ FlushReturn \/ FinishReturn

Spec == Init /\ [][Next]_vars

\* The clock never stops.
FairSpec == Spec /\ WF_vars(Next)

-----------------------------------------------------------------------------
(* Properties *)

States == {"boot0", "boot1", "exec", "wait", "flush", "md", "intr", "intr2",
           "mret", "mret2"}

Stage ==
  [pc : Word, op : (Op \ {"wfi", "illegal"}) \cup {"nop"},
   rd : Reg, rs1 : Reg, rs2 : Reg, imm : Word, a : Word, b : Word,
   rd_en : BOOLEAN,
   pc_op : {"hold", "incr", "loadoffset", "loadoffsetregister", "branch",
            "load_mtvec", "load_mepc"},
   bus : {"nop", "read", "write", "csrrw", "csrsi", "csrci"},
   md_start : BOOLEAN, md_op : {"none", "mul", "divu"},
   req : {"none", "ecall", "ebreak", "mret", "illegal"}]

MulDivUnit ==
  [mul_running : BOOLEAN, mul_ready : BOOLEAN, a : Word, b : Word, mul : Word,
   div_running : BOOLEAN, div_count : 0 .. DivSteps, div_ready : BOOLEAN,
   buf2 : Word, divisor : Word]

Csrs ==
  [mie : BOOLEAN, mpie : BOOLEAN,
   mcause : {"none", "interrupt", "illegal", "ecall", "ebreak"},
   mepc : Word, mscratch : Word]

\* Every register of the core keeps its width; the divider's counter stays
\* within the iterations it makes.
TypeOK ==
  /\ rom \in [Word -> Instruction]
  /\ state \in States
  /\ pc \in Word /\ pc_fetch \in Word /\ instr_at \in Word
  /\ ex \in Stage
  /\ pc_to_mepc \in Word
  /\ fw \in [en : BOOLEAN, rd : Reg, data : Word]
  /\ regs \in [Reg -> Word]
  /\ mem \in [Word -> Word]
  /\ md \in MulDivUnit
  /\ csr \in Csrs
  /\ line \in BOOLEAN
  /\ rises \in 0 .. MaxRises

\* The ROM holds its output on a stall only, pc_fetch also while pc_op holds
\* the pc.  They may part only in the edge into intr, which is flushed: every
\* instruction that is decoded travels with its own address.
FetchCoherent == state # "intr" => instr_at = pc_fetch

\* What the decode registers ask of the FSM is asked in the one state that
\* answers.  A request or an MD start that outlived its cycle would trap, or
\* return, or stall, for an instruction that is no longer there.
RequestsAnswered ==
  /\ state \in {"boot0", "boot1", "intr", "intr2"} => ~csr.mie
  /\ state \in {"boot0", "boot1"} => ex.bus = "nop" /\ ex.req = "none"
  /\ ex.req \in {"ecall", "ebreak"} => state = "exec"
  /\ ex.req = "mret" => (state = "exec" /\ ex.op = "mret") \/ state = "intr"
  /\ ex.md_start => /\ ex.req = "none"
                    /\ \/ state = "exec" /\ ex.op \in {"mul", "divu"} /\ ex.bus = "nop"
                       \/ state = "intr"
  /\ ex.pc_op = "hold" =>
       \/ state = "md"
       \/ state = "exec" /\ (ex.md_start \/ ex.req \in {"ecall", "ebreak"})

\* The FSM, the decode registers and the CSRs each decide for themselves
\* whether a trap is taken, from different conditions.  They agree: an edge
\* that records a trap in the CSRs enters intr.  Not covered: the two cycles
\* of an MRET, and illegal instructions, whose request is not withdrawn.
TrapAgreement ==
  [][ (~NoRequest /\ LicCause # "illegal" /\ state \notin {"mret", "mret2"})
        => state' = "intr" ]_vars
=============================================================================
