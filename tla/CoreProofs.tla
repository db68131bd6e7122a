----------------------------- MODULE CoreProofs -----------------------------
(***************************************************************************)
(* Theorems about the core, for every word size, register count, division  *)
(* length, set of programs and number of interrupts; the last one says     *)
(* that the three-stage pipeline executes every orderly program as the     *)
(* instruction set architecture does.                                      *)
(***************************************************************************)
EXTENDS CoreRefinement, TLAPS

-----------------------------------------------------------------------------
(* Words *)

\* Arithmetic of the core stays within a word.
LEMMA PlusInWord == ASSUME NEW x \in Word, NEW y \in Nat PROVE Plus(x, y) \in Word
  BY WordSizeAssumption DEF Plus, Word

\* So does the low word of a product.
LEMMA TimesInWord == ASSUME NEW x \in Word, NEW y \in Word PROVE Times(x, y) \in Word
  <1> DEFINE p == x * y
  <1>1. p \in Nat
    BY WordSizeAssumption DEF Word
  <1>2. p % WordSize \in 0 .. WordSize - 1
    <2> HIDE DEF p
    <2> QED BY <1>1, WordSizeAssumption
  <1> QED BY <1>2 DEF Times, Word

\* And the quotient, that of a division by zero included.
LEMMA DivideInWord == ASSUME NEW x \in Word, NEW y \in Word PROVE Divide(x, y) \in Word
  <1>1. CASE y = 0
    BY <1>1, WordSizeAssumption DEF Divide, Word
  <1>2. CASE y # 0
    <2>1. x \in Nat /\ y \in Nat /\ y > 0 /\ x <= WordSize - 1
      BY <1>2, WordSizeAssumption DEF Word
    <2>2. x \div y \in Nat /\ x \div y <= x
      BY <2>1, Z3
    <2> QED BY <1>2, <2>1, <2>2, WordSizeAssumption DEF Divide, Word
  <1> QED BY <1>1, <1>2

-----------------------------------------------------------------------------
(* Types *)

\* Where the FSM may go, and that every step of it is an edge of all processes.
LEMMA NextIsEdge ==
  ASSUME Next PROVE Edge /\ state' \in States
  BY DEF Next, States, Boot0, Boot1, TrapInExec, StartReturn, TakeJump,
         StartLoad, StartMulDiv, Execute, TrapInWait, FinishLoad, TrapInFlush,
         FinishJump, TrapInMulDiv, FinishMulDiv, RunMulDiv, EnterTrap,
         FetchHandler, FlushReturn, FinishReturn

\* The operands, the address and the result of the execute stage are words.
LEMMA ExecuteTypes ==
  ASSUME TypeOK
  PROVE  /\ A \in Word /\ B \in Word /\ Address \in Word
         /\ Result \in Word /\ Mepc \in Word /\ PcToMepc \in Word
  <1>1. A \in Word /\ B \in Word
    BY DEF TypeOK, A, B, Stage
  <1>2. Address \in Word
    BY SMTT(20), <1>1, PlusInWord DEF Address, TypeOK, Stage, Word
  <1>3. 0 \in Word /\ 1 \in Nat
    BY WordSizeAssumption DEF Word
  <1>4. Result \in Word
    <2>1. /\ ex.imm \in Nat /\ B \in Nat
          /\ ex.pc \in Word /\ csr.mscratch \in Word
          /\ md.mul \in Word /\ md.buf2 \in Word
      BY <1>1 DEF TypeOK, Stage, Csrs, MulDivUnit, Word
    <2>2. mem[Address] \in Word
      BY <1>2 DEF TypeOK
    <2> QED BY <1>1, <1>3, <2>1, <2>2, PlusInWord DEF Result
  <1>5. Mepc \in Word
    BY <1>3, PlusInWord DEF Mepc, TypeOK, Csrs
  <1>6. PcToMepc \in Word
    BY DEF PcToMepc, TypeOK, Stage
  <1> QED BY <1>1, <1>2, <1>4, <1>5, <1>6

\* Every way to load the decode registers gives a well-formed stage.
LEMMA DecodeType ==
  ASSUME TypeOK, Decode PROVE ex' \in Stage
  <1>0. 0 \in Word /\ 0 \in Reg
    BY WordSizeAssumption, NumRegsAssumption DEF Word, Reg
  <1>1. Trapped \in Stage
    BY ZenonT(30), <1>0 DEF TypeOK, Trapped, Stage
  <1>2. Stalled \in Stage
    BY ZenonT(30), <1>0 DEF TypeOK, Stalled, Stage
  <1>3. ASSUME NEW at \in Word PROVE Bubble(at) \in Stage
    BY <1>0, <1>3 DEF Bubble, Stage
  <1>4. ASSUME NEW i \in Instruction, NEW at \in Word PROVE Decoded(i, at) \in Stage
    <2>1. i.op \in Op /\ i.rd \in Reg /\ i.rs1 \in Reg /\ i.rs2 \in Reg /\ i.imm \in Word
      BY <1>4 DEF Instruction
    <2>2. PcOp(i.op) \in {"hold", "incr", "loadoffset", "loadoffsetregister",
                          "branch", "load_mtvec", "load_mepc"}
      BY <2>1 DEF PcOp
    <2>3. BusOp(i.op) \in {"nop", "read", "write", "csrrw", "csrsi", "csrci"}
      BY <2>1 DEF BusOp
    <2>4. regs[i.rs1] \in Word /\ regs[i.rs2] \in Word
      BY <2>1 DEF TypeOK
    <2>5. (IF i.op \in {"wfi", "illegal"} THEN "nop" ELSE i.op)
             \in (Op \ {"wfi", "illegal"}) \cup {"nop"}
      BY <2>1
    <2> QED BY <1>4, <2>1, <2>2, <2>3, <2>4, <2>5 DEF Decoded, Stage
  <1>5. rom[instr_at] \in Instruction /\ pc_fetch \in Word
    BY DEF TypeOK
  <1> QED BY <1>1, <1>2, <1>3, <1>4, <1>5 DEF Decode

\* The program counter, the fetch addresses and the saved pc are words.
LEMMA FetchTypes ==
  ASSUME TypeOK, ProgramCounter, Fetch, SavePc
  PROVE  /\ rom' = rom
         /\ pc' \in Word /\ pc_fetch' \in Word /\ instr_at' \in Word
         /\ pc_to_mepc' \in Word
  <1>1. 1 \in Nat /\ Mtvec \in Word /\ ex.imm \in Nat /\ ex.pc \in Word /\ pc \in Word
    BY WordSizeAssumption, VectorAssumption DEF TypeOK, Stage, Word
  <1>2. NextPc \in Word
    BY <1>1, ExecuteTypes, PlusInWord DEF NextPc
  <1> QED BY <1>1, <1>2 DEF ProgramCounter, Fetch, SavePc, TypeOK

\* The register file, the forwarding registers and the memory hold words.
LEMMA DataTypes ==
  ASSUME TypeOK, RegisterWrite, ForwardSave, Memory
  PROVE  /\ regs' \in [Reg -> Word] /\ mem' \in [Word -> Word]
         /\ fw' \in [en : BOOLEAN, rd : Reg, data : Word]
  <1>1. regs' \in [Reg -> Word]
    BY ExecuteTypes DEF TypeOK, RegisterWrite, Stage
  <1>2. mem' \in [Word -> Word]
    BY ExecuteTypes DEF TypeOK, Memory
  <1>3. fw' \in [en : BOOLEAN, rd : Reg, data : Word]
    BY ExecuteTypes DEF TypeOK, ForwardSave, Stage
  <1> QED BY <1>1, <1>2, <1>3

\* The multiplier and the divider keep their types.
LEMMA MulDivType ==
  ASSUME TypeOK, MulDiv PROVE md' \in MulDivUnit
  <1>1. md \in MulDivUnit /\ A \in Word /\ B \in Word
    BY ExecuteTypes DEF TypeOK
  <1>2. Times(md.a, md.b) \in Word /\ Divide(md.buf2, md.divisor) \in Word
    BY <1>1, TimesInWord, DivideInWord DEF MulDivUnit
  <1>3. DivCount \in 0 .. DivSteps
    BY <1>1, DivStepsAssumption DEF DivCount, MulDivUnit
  <1>4. Divider.count \in 0 .. DivSteps
    BY <1>1, <1>3, DivStepsAssumption DEF Divider, MulDivUnit
  <1>5. Divider.buf2 \in Word /\ Divider.divisor \in Word
    BY <1>1, <1>2 DEF Divider, MulDivUnit
  <1>6. Divider.running \in BOOLEAN /\ Divider.ready \in BOOLEAN
    BY DEF Divider, DivRuns, DivStart
  <1>7. /\ Multiplier.running \in BOOLEAN /\ Multiplier.ready \in BOOLEAN
        /\ Multiplier.a \in Word /\ Multiplier.b \in Word
        /\ Multiplier.product \in Word
    BY <1>1, <1>2 DEF Multiplier, MulDivUnit
  <1> HIDE DEF Divider, Multiplier
  <1> QED BY <1>4, <1>5, <1>6, <1>7 DEF MulDiv, MulDivUnit

\* So do the trap CSRs, whichever of the three updates is made.
LEMMA CsrType ==
  ASSUME TypeOK, CsrUnit PROVE csr' \in Csrs
  <1>1. MscratchNext \in Word /\ PcToMepc \in Word
    BY ExecuteTypes DEF MscratchNext, TypeOK, Csrs
  <1>2. LicCause \in {"none", "interrupt", "illegal", "ecall", "ebreak"}
    BY DEF LicCause
  <1>3. csr \in Csrs
    BY DEF TypeOK
  <1>4. CASE Trap
    BY <1>1, <1>2, <1>3, <1>4 DEF Trap, Csrs
  <1>5. CASE Release
    <2>1. 0 \in Word
      BY WordSizeAssumption DEF Word
    <2> QED BY <1>1, <1>3, <1>5, <2>1 DEF Release, Csrs
  <1>6. CASE UserCsr
    BY <1>1, <1>3, <1>6 DEF UserCsr, Csrs
  <1> QED BY <1>4, <1>5, <1>6 DEF CsrUnit

\* After reset every register has its type.
LEMMA InitTypes == Init => TypeOK
  <1> SUFFICES ASSUME Init PROVE TypeOK
    OBVIOUS
  <1>1. 0 \in Word /\ 0 \in Reg /\ ResetVector \in Word
    BY WordSizeAssumption, NumRegsAssumption, VectorAssumption DEF Word, Reg
  <1>2. rom \in [Word -> Instruction]
    BY ProgramsAssumption DEF Init
  <1>3. ex \in Stage
    BY <1>1 DEF Init, Bubble, Stage
  <1>4. md \in MulDivUnit
    BY <1>1, DivStepsAssumption DEF Init, MulDivUnit
  <1>5. csr \in Csrs
    BY <1>1 DEF Init, Csrs
  <1>6. fw \in [en : BOOLEAN, rd : Reg, data : Word]
    BY <1>1 DEF Init
  <1>7. regs \in [Reg -> Word] /\ mem \in [Word -> Word]
    BY <1>1 DEF Init
  <1>8. /\ state \in States /\ pc_to_mepc \in Word
        /\ pc \in Word /\ pc_fetch \in Word /\ instr_at \in Word
    BY <1>1 DEF Init, States
  <1>9. line \in BOOLEAN
    BY Zenon DEF Init
  <1>10. rises = 0
    BY Zenon DEF Init
  <1>11. rises \in 0 .. MaxRises
    BY <1>10, MaxRisesAssumption
  <1> QED BY <1>2, <1>3, <1>4, <1>5, <1>6, <1>7, <1>8, <1>9, <1>11 DEF TypeOK

\* An edge of all processes keeps every type.
LEMMA NextTypes == TypeOK /\ [Next]_vars => TypeOK'
  <1> SUFFICES ASSUME TypeOK, [Next]_vars PROVE TypeOK'
    OBVIOUS
  <1>1. CASE Next
    <2>1. Edge /\ state' \in States
      BY <1>1, NextIsEdge
    <2>2. ex' \in Stage
      BY <2>1, DecodeType DEF Edge
    <2>3. /\ rom' = rom /\ pc' \in Word /\ pc_fetch' \in Word
          /\ instr_at' \in Word /\ pc_to_mepc' \in Word
      BY <2>1, FetchTypes DEF Edge
    <2>4. /\ regs' \in [Reg -> Word] /\ mem' \in [Word -> Word]
          /\ fw' \in [en : BOOLEAN, rd : Reg, data : Word]
      BY <2>1, DataTypes DEF Edge
    <2>5. md' \in MulDivUnit /\ csr' \in Csrs
      BY <2>1, MulDivType, CsrType DEF Edge
    <2>6. line' \in BOOLEAN /\ rises' \in 0 .. MaxRises
      BY <2>1, MaxRisesAssumption DEF Edge, Peripherals, TypeOK
    <2> QED BY <2>1, <2>2, <2>3, <2>4, <2>5, <2>6 DEF TypeOK
  <1>2. CASE UNCHANGED vars
    BY <1>2 DEF vars, TypeOK
  <1> QED BY <1>1, <1>2

\* The type invariant holds for every program made of well-formed instructions.
THEOREM TypeCorrect == Spec => []TypeOK
  BY InitTypes, NextTypes, PTL DEF Spec

-----------------------------------------------------------------------------
(* Control *)

\* The moves of the FSM, as a function of the state it is in.
LEMMA FsmMoves ==
  ASSUME Next
  PROVE  /\ state \in States /\ Edge
         /\ state = "boot0" => state' = "boot1"
         /\ state = "boot1" => state' = "exec"
         /\ state = "exec" /\ ~NoRequest => state' = "intr"
         /\ state = "exec" /\ NoRequest /\ ex.req = "mret" => state' = "mret"
         /\ state = "exec" /\ NoRequest /\ ex.req # "mret" =>
              state' = IF Penalty THEN "flush"
                       ELSE IF WaitForData THEN "wait"
                       ELSE IF ex.md_start THEN "md" ELSE "exec"
         /\ state \in {"wait", "flush"} => state' = IF Hard THEN "intr" ELSE "exec"
         /\ state = "md" => state' = IF Hard THEN "intr"
                                     ELSE IF MdReady THEN "exec" ELSE "md"
         /\ state = "intr" => state' = "intr2"
         /\ state = "intr2" => state' = "exec"
         /\ state = "mret" => state' = "mret2"
         /\ state = "mret2" => state' = "exec"
  <1>1. CASE Boot0 \/ Boot1
    BY <1>1 DEF Boot0, Boot1, States
  <1>2. CASE TrapInExec \/ StartReturn \/ TakeJump
    BY <1>2 DEF TrapInExec, StartReturn, TakeJump, States
  <1>3. CASE StartLoad \/ StartMulDiv \/ Execute
    BY <1>3 DEF StartLoad, StartMulDiv, Execute, States
  <1>4. CASE TrapInWait \/ FinishLoad \/ TrapInFlush \/ FinishJump
    BY <1>4 DEF TrapInWait, FinishLoad, TrapInFlush, FinishJump, States
  <1>5. CASE TrapInMulDiv \/ FinishMulDiv \/ RunMulDiv
    BY <1>5 DEF TrapInMulDiv, FinishMulDiv, RunMulDiv, States
  <1>6. CASE EnterTrap \/ FetchHandler \/ FlushReturn \/ FinishReturn
    BY <1>6 DEF EnterTrap, FetchHandler, FlushReturn, FinishReturn, States
  <1> QED BY <1>1, <1>2, <1>3, <1>4, <1>5, <1>6 DEF Next

\* What the next stage asks for, in each of the four ways to load it.
LEMMA StageNext ==
  ASSUME TypeOK, Decode
  PROVE  /\ ~NoRequest =>
              /\ ex'.op = "nop" /\ ex'.pc_op = "load_mtvec"
              /\ ex'.md_start = ex.md_start /\ ex'.bus = ex.bus
              /\ ex'.req = IF ex.req \in {"ecall", "ebreak"} THEN "none" ELSE ex.req
         /\ NoRequest /\ Stall =>
              /\ ~ex'.md_start
              /\ ex'.req = ex.req /\ ex'.op = ex.op /\ ex'.bus = ex.bus
              /\ ex'.pc_op = IF MdReady THEN "incr" ELSE ex.pc_op
         /\ NoRequest /\ ~Stall /\ Flush =>
              /\ ~ex'.md_start
              /\ ex'.req = "none" /\ ex'.bus = "nop" /\ ex'.pc_op = "incr"
         /\ NoRequest /\ ~Stall /\ ~Flush =>
              /\ ex'.md_start => /\ ex'.op \in {"mul", "divu"}
                                 /\ ex'.req = "none" /\ ex'.bus = "nop"
              /\ ex'.req = "mret" => ex'.op = "mret"
              /\ ex'.pc_op = "hold" => ex'.md_start \/ ex'.req \in {"ecall", "ebreak"}
  <1>0. ex \in Stage
    BY DEF TypeOK
  <1>1. CASE ~NoRequest
    <2>1. ex' = Trapped
      BY <1>1 DEF Decode
    <2> QED BY <1>0, <1>1, <2>1 DEF Trapped, Stage
  <1>2. CASE NoRequest /\ Stall
    <2>1. ex' = Stalled
      BY <1>2 DEF Decode
    <2> QED BY <1>0, <1>2, <2>1 DEF Stalled, Stage
  <1>3. CASE NoRequest /\ ~Stall /\ Flush
    <2>1. ex' = Bubble(pc_fetch)
      BY <1>3 DEF Decode
    <2> QED BY <1>3, <2>1 DEF Bubble
  <1>4. CASE NoRequest /\ ~Stall /\ ~Flush
    <2> DEFINE i == rom[instr_at]
    <2>1. ex' = Decoded(i, pc_fetch)
      BY <1>4 DEF Decode
    <2>2. i.op \in Op
      BY DEF TypeOK, Instruction
    <2> HIDE DEF i
    <2> QED BY <1>4, <2>1, <2>2 DEF Decoded, PcOp, BusOp, Op
  <1> QED BY <1>1, <1>2, <1>3, <1>4

\* The stage is loaded from the ROM only on the way to exec: whatever else the
\* FSM does next, the pipeline is stalled, flushed or trapped in this cycle.
LEMMA DecodesIntoExec ==
  ASSUME TypeOK, RequestsAnswered, Next, NoRequest, ~Stall, ~Flush
  PROVE  state' = "exec"
  <1>1. ex.req = "mret" => ex.op = "mret" \/ state = "intr"
    BY DEF RequestsAnswered
  <1>2. state \in {"boot1", "exec", "wait", "mret2"}
    BY FsmMoves DEF Stall, Flush, States
  <1>3. ~Penalty
    BY DEF Flush
  <1>4. ex.op # "mret"
    BY <1>3 DEF Penalty
  <1>5. ex.req # "mret"
    BY <1>1, <1>2, <1>4
  <1>6. state = "exec" => ~WaitForData /\ ~ex.md_start
    BY DEF Stall
  <1>7. ~Hard
    BY DEF NoRequest, Hard
  <1> QED BY <1>2, <1>3, <1>5, <1>6, <1>7, FsmMoves

\* A software request is only made in exec; elsewhere a request is hard.
LEMMA RequestIsHard ==
  ASSUME RequestsAnswered, ~NoRequest, state # "exec"
  PROVE  Hard
  <1>1. ex.req \notin {"ecall", "ebreak"}
    BY DEF RequestsAnswered
  <1>2. LicCause \in {"interrupt", "illegal"}
    BY <1>1 DEF NoRequest, InterruptRequest, LicCause
  <1> QED BY <1>2 DEF Hard, InterruptRequest

\* Every trap clears MIE, and it stays clear until the handler's first cycle.
LEMMA TrapDisables ==
  ASSUME TypeOK, RequestsAnswered, Next
  PROVE  state' \in {"boot0", "boot1", "intr", "intr2"} => ~csr'.mie
  <1> SUFFICES ASSUME state' \in {"boot0", "boot1", "intr", "intr2"}
               PROVE  ~csr'.mie
    OBVIOUS
  <1>1. CsrUnit /\ csr \in Csrs
    BY FsmMoves DEF Edge, TypeOK
  <1>2. CASE ~NoRequest
    <2>1. Trap
      BY <1>1, <1>2 DEF CsrUnit
    <2> QED BY <2>1 DEF Trap
  <1>3. CASE NoRequest
    <2>1. ~Hard
      BY <1>3 DEF NoRequest, Hard
    <2>2. state \in {"boot0", "intr"}
      BY <1>3, <2>1, FsmMoves DEF States
    <2>3. ~csr.mie
      BY <2>2 DEF RequestsAnswered
    <2>4. UserCsr /\ Bus = "nop"
      BY <1>1, <1>3, <2>2 DEF CsrUnit, Bus, Flush
    <2> QED BY <1>1, <2>3, <2>4 DEF UserCsr, Csrs
  <1> QED BY <1>2, <1>3

\* Requests are answered: the decode registers, whichever way they are loaded,
\* agree with the state the FSM moves to in the same edge.
LEMMA RequestsStep ==
  ASSUME TypeOK, RequestsAnswered, Next PROVE RequestsAnswered'
  <1>0. Decode /\ state \in States
    BY FsmMoves DEF Edge
  <1>1. state' \in {"boot0", "boot1", "intr", "intr2"} => ~csr'.mie
    BY TrapDisables
  <1>2. CASE ~NoRequest
    <2>1. /\ ex'.op = "nop" /\ ex'.pc_op = "load_mtvec"
          /\ ex'.md_start = ex.md_start /\ ex'.bus = ex.bus
          /\ ex'.req = IF ex.req \in {"ecall", "ebreak"} THEN "none" ELSE ex.req
      BY <1>0, <1>2, StageNext
    <2>2. state = "exec" => state' = "intr"
      BY <1>2, FsmMoves
    <2>3. state \in {"wait", "flush", "md"} => state' = "intr"
      BY <1>2, FsmMoves, RequestIsHard
    <2>4. state' \notin {"boot0"} /\ (state' = "boot1" => state = "boot0")
      BY <1>0, <2>2, <2>3, FsmMoves DEF States
    <2>5. state = "intr" => ~ex.md_start /\ ex.req # "mret"
      <3> SUFFICES ASSUME state = "intr" PROVE ~ex.md_start /\ ex.req # "mret"
        OBVIOUS
      <3>1. ~csr.mie
        BY DEF RequestsAnswered
      <3>2. ex.req \in {"illegal", "ecall", "ebreak"}
        BY <1>2, <3>1 DEF NoRequest, InterruptRequest, LicCause
      <3> QED BY <3>2 DEF RequestsAnswered
    <2>6. ex'.req \notin {"ecall", "ebreak"}
      BY <2>1
    <2>7. ex'.req = "mret" => state' = "intr"
      BY <2>1, <2>2, <2>5 DEF RequestsAnswered
    <2>8. ex'.md_start => ex'.req = "none" /\ state' = "intr"
      BY <2>1, <2>2, <2>5 DEF RequestsAnswered
    <2>9. state' = "boot1" => ex'.bus = "nop" /\ ex'.req = "none"
      BY <2>1, <2>4 DEF RequestsAnswered
    <2> QED BY <1>1, <2>1, <2>4, <2>6, <2>7, <2>8, <2>9 DEF RequestsAnswered
  <1>3. CASE NoRequest /\ Stall
    <2>1. /\ ~ex'.md_start
          /\ ex'.req = ex.req /\ ex'.op = ex.op /\ ex'.bus = ex.bus
          /\ ex'.pc_op = IF MdReady THEN "incr" ELSE ex.pc_op
      BY <1>0, <1>3, StageNext
    <2>2. ex.req \notin {"ecall", "ebreak"} /\ ~Hard
      <3>1. LicCause = "none"
        BY <1>3 DEF NoRequest, InterruptRequest, LicCause
      <3> QED BY <1>3, <3>1 DEF LicCause, NoRequest, Hard
    <2>3. state \in {"exec", "md"}
      BY <1>3 DEF Stall
    <2>4. ex.req # "mret"
      <3> SUFFICES ASSUME ex.req = "mret" PROVE FALSE
        OBVIOUS
      <3>1. state = "exec" /\ ex.op = "mret" /\ ~ex.md_start
        BY <2>3 DEF RequestsAnswered
      <3>2. ~WaitForData
        BY <3>1 DEF WaitForData, Bus, Flush, Penalty
      <3> QED BY <1>3, <3>1, <3>2 DEF Stall
    <2>5. state' \notin {"boot0", "boot1"}
      BY <2>3, FsmMoves
    <2>6. ex'.pc_op = "hold" => state' = "md"
      <3> SUFFICES ASSUME ex'.pc_op = "hold" PROVE state' = "md"
        OBVIOUS
      <3>1. ex.pc_op = "hold" /\ ~MdReady
        BY <2>1
      <3>2. CASE state = "md"
        BY <2>2, <3>1, <3>2, FsmMoves
      <3>3. CASE state = "exec"
        <4>1. ex.md_start /\ ex.op \in {"mul", "divu"} /\ ex.bus = "nop"
          BY <2>2, <3>1, <3>3 DEF RequestsAnswered
        <4>2. ~Penalty /\ ~WaitForData
          BY <4>1 DEF Penalty, WaitForData, Bus
        <4> QED BY <1>3, <2>4, <3>3, <4>1, <4>2, FsmMoves
      <3> QED BY <2>3, <3>2, <3>3
    <2> QED BY <1>1, <2>1, <2>2, <2>4, <2>5, <2>6 DEF RequestsAnswered
  <1>4. CASE NoRequest /\ ~Stall /\ Flush
    <2>1. /\ ~ex'.md_start
          /\ ex'.req = "none" /\ ex'.bus = "nop" /\ ex'.pc_op = "incr"
      BY <1>0, <1>4, StageNext
    <2> QED BY <1>1, <2>1 DEF RequestsAnswered
  <1>5. CASE NoRequest /\ ~Stall /\ ~Flush
    <2>1. state' = "exec"
      BY <1>5, DecodesIntoExec
    <2>2. /\ ex'.md_start => /\ ex'.op \in {"mul", "divu"}
                             /\ ex'.req = "none" /\ ex'.bus = "nop"
          /\ ex'.req = "mret" => ex'.op = "mret"
          /\ ex'.pc_op = "hold" => ex'.md_start \/ ex'.req \in {"ecall", "ebreak"}
      BY <1>0, <1>5, StageNext
    <2> QED BY <2>1, <2>2 DEF RequestsAnswered
  <1> QED BY <1>2, <1>3, <1>4, <1>5

\* An edge that does not enter a trap moves the fetched word and its address
\* together: pc_op holds the pc only in a stall or on the way into intr.
LEMMA FetchStep ==
  ASSUME TypeOK, RequestsAnswered, FetchCoherent, Next PROVE FetchCoherent'
  <1> SUFFICES ASSUME state' # "intr" PROVE instr_at' = pc_fetch'
    BY DEF FetchCoherent
  <1>1. Fetch
    BY FsmMoves DEF Edge
  <1>2. CASE Stall
    <2>1. state # "intr"
      BY <1>2 DEF Stall
    <2> QED BY <1>1, <1>2, <2>1 DEF Fetch, FetchCoherent
  <1>3. CASE ~Stall
    <2>1. ex.pc_op # "hold"
      <3> SUFFICES ASSUME ex.pc_op = "hold" PROVE FALSE
        OBVIOUS
      <3>1. state = "exec" /\ ex.req \in {"ecall", "ebreak"}
        BY <1>3 DEF RequestsAnswered, Stall
      <3>2. ~NoRequest
        BY <3>1 DEF NoRequest, InterruptRequest, LicCause
      <3> QED BY <3>1, <3>2, FsmMoves
    <2> QED BY <1>1, <1>3, <2>1 DEF Fetch
  <1> QED BY <1>2, <1>3

-----------------------------------------------------------------------------
(* The theorems *)

\* The inductive invariant: types, the agreement of the decode registers with
\* the FSM, and the coherence of the fetch stage.
ControlInv == TypeOK /\ RequestsAnswered /\ FetchCoherent

\* Reset leaves a bubble in the stage and interrupts disabled.
LEMMA ControlInit == Init => ControlInv
  <1> SUFFICES ASSUME Init PROVE RequestsAnswered /\ FetchCoherent
    BY InitTypes DEF ControlInv
  <1>1. state = "boot0" /\ instr_at = pc_fetch /\ ex = Bubble(0) /\ ~csr.mie
    BY DEF Init
  <1> QED BY <1>1 DEF RequestsAnswered, FetchCoherent, Bubble

\* The three parts of the invariant are preserved together.
LEMMA ControlStep == ControlInv /\ [Next]_vars => ControlInv'
  <1> SUFFICES ASSUME ControlInv, [Next]_vars PROVE ControlInv'
    OBVIOUS
  <1>1. CASE Next
    BY <1>1, NextTypes, RequestsStep, FetchStep DEF ControlInv
  <1>2. CASE UNCHANGED vars
    <2>1. TypeOK'
      BY <1>2, NextTypes DEF ControlInv
    <2>2. RequestsAnswered' /\ FetchCoherent'
      BY <1>2 DEF vars, ControlInv, RequestsAnswered, FetchCoherent
    <2> QED BY <2>1, <2>2 DEF ControlInv
  <1> QED BY <1>1, <1>2

\* No request outlives the cycle that answers it, in any program.
THEOREM RequestsCorrect == Spec => []RequestsAnswered
  <1>1. ControlInv => RequestsAnswered
    BY DEF ControlInv
  <1> QED BY <1>1, ControlInit, ControlStep, PTL DEF Spec

\* Every instruction is decoded with its own address, in any program and under
\* any interrupts.
THEOREM FetchCorrect == Spec => []FetchCoherent
  <1>1. ControlInv => FetchCoherent
    BY DEF ControlInv
  <1> QED BY <1>1, ControlInit, ControlStep, PTL DEF Spec

\* The FSM takes every trap that the CSRs record.
THEOREM TrapsAgree == Spec => TrapAgreement
  <1>1. ControlInv /\ [Next]_vars =>
          [ (~NoRequest /\ LicCause # "illegal" /\ state \notin {"mret", "mret2"})
              => state' = "intr" ]_vars
    <2> SUFFICES ASSUME ControlInv, Next, ~NoRequest, LicCause # "illegal",
                        state \notin {"mret", "mret2"}
                 PROVE  state' = "intr"
      OBVIOUS
    <2>1. csr.mie \/ ex.req \in {"ecall", "ebreak"}
      BY DEF NoRequest, InterruptRequest, LicCause
    <2>2. state \in {"exec", "wait", "flush", "md"}
      BY <2>1, FsmMoves DEF ControlInv, RequestsAnswered, States
    <2> QED BY <2>2, FsmMoves, RequestIsHard DEF ControlInv
  <1> QED BY <1>1, ControlInit, ControlStep, PTL DEF Spec, TrapAgreement

-----------------------------------------------------------------------------
(* The pipeline implements the architecture: the invariant says what each  *)
(* register of the pipeline holds relative to the instruction the          *)
(* programmer sees as next (ArchPc), state by state.                       *)


-----------------------------------------------------------------------------
(* The inductive invariant *)

\* A bubble.
Idle ==
  /\ ex.op = "nop" /\ ~ex.rd_en /\ ex.pc_op = "incr" /\ ex.bus = "nop"
  /\ ~ex.md_start /\ ex.req = "none"

\* The instruction at ex.pc, with the operands the programmer sees.
InExecute ==
  LET i == rom[ex.pc]
  IN /\ ex.op = i.op /\ ex.rd = i.rd /\ ex.rs1 = i.rs1 /\ ex.rs2 = i.rs2 /\ ex.imm = i.imm
     /\ ex.bus = BusOp(i.op)
     /\ ex.md_op = IF i.op \in {"mul", "divu"} THEN i.op ELSE "none"
     /\ ex.req = IF i.op \in {"ecall", "ebreak", "mret"} THEN i.op ELSE "none"
     /\ A = regs[i.rs1] /\ B = regs[i.rs2]

\* In its first cycle,
Fresh ==
  /\ ex.md_start <=> ex.op \in {"mul", "divu"}
  /\ ex.pc_op = PcOp(ex.op)
  /\ ex.rd_en <=> ex.op \in {"addi", "add", "auipc", "lw", "jal", "jalr", "csrrw"} /\ ex.rd # 0

\* in the cycles of state md,
Computing ==
  /\ ex.op \in {"mul", "divu"} /\ ~ex.md_start /\ ex.pc_op \in {"hold", "incr"}
  /\ ex.op = "mul" => md.a = A /\ md.b = B
  /\ ex.op = "divu" =>
       /\ ~md.mul_running /\ ~md.mul_ready
       /\ \/ /\ md.div_running /\ ~md.div_ready /\ md.div_count \in 1 .. DivSteps
             /\ md.buf2 = A /\ md.divisor = B
          \/ ~md.div_running /\ md.div_ready /\ md.buf2 = Divide(A, B)

\* or in the cycle after them.
Computed ==
  /\ ex.op \in {"mul", "divu"} /\ ~ex.md_start /\ ex.pc_op = "incr" /\ ex.rd_en
  /\ ex.op = "mul" => md.mul = Times(A, B)
  /\ ex.op = "divu" => md.buf2 = Divide(A, B)

\* The fetch stage is one word, or two, behind the execute stage.
Sequential == pc = Plus(pc_fetch, 1)
InLine     == Sequential /\ pc_fetch = Plus(ex.pc, 1)

\* The jump or the taken branch at from has been executed, and has written its
\* link: executed again, it reaches the same target.
JumpTaken(from, to) ==
  LET i == rom[from]
  IN /\ i.op \in {"beq", "bne", "jal", "jalr"}
     /\ i.op \in {"beq", "bne"} => (i.op = "beq" <=> regs[i.rs1] = regs[i.rs2])
     /\ to = Plus(IF i.op = "jalr" THEN regs[i.rs1] ELSE from, i.imm)
     /\ i.op \in {"jal", "jalr"} /\ i.rd # 0 => regs[i.rd] = Plus(from, 1)

\* The forwarding register never differs from the register it stands for.
Registers ==
  /\ regs[0] = 0 /\ fw.data = regs[fw.rd]
  /\ ex.rd_en => ex.rd # 0

Execution ==
  /\ state = "boot0" => Idle /\ pc = ResetVector
  /\ state \in {"boot1", "mret2"} => Idle /\ Sequential
  /\ state = "exec" =>
       \/ Idle /\ Sequential /\ (csr.mie => JumpTaken(pc_to_mepc, pc_fetch))
       \/ InExecute /\ InLine /\ (Fresh \/ Computed)
  /\ state = "wait" => InExecute /\ InLine /\ Fresh /\ ex.op = "lw"
  /\ state = "flush" => Idle /\ (csr.mie => JumpTaken(pc_to_mepc, pc))
  /\ state = "md" => InExecute /\ InLine /\ Computing
  /\ state = "intr" => ex.op = "nop" /\ ~ex.rd_en /\ ex.pc_op = "load_mtvec"
  /\ state \in {"intr2", "mret"} => Idle
  /\ state \in {"mret", "mret2"} => ~csr.mie

PipeInv ==
  /\ ControlInv
  /\ \A a \in Word : Orderly(rom[a])
  /\ ex.req # "illegal"
  /\ md.mul_running => state \in {"md", "intr", "intr2"}
  /\ Registers
  /\ Execution

-----------------------------------------------------------------------------
(* Loading the decode registers *)

\* An instruction that is decoded has the operands the programmer sees, from the
\* register file or from the result that is written to it at the same edge.
LEMMA DecodeNext ==
  ASSUME TypeOK, FetchCoherent, Registers, \A a \in Word : Orderly(rom[a]),
         Edge, NoRequest, ~Stall, ~Flush, state # "intr", ex.pc_op # "hold",
         Sequential, NextPc = Plus(pc, 1)
  PROVE  /\ ex'.pc = pc_fetch /\ InExecute' /\ Fresh' /\ InLine'
         /\ ex'.req # "illegal" /\ ex'.op # "nop"
  <1> DEFINE i == rom[pc_fetch]
  <1>1. ex' = Decoded(i, pc_fetch) /\ rom' = rom
    BY DEF Edge, Decode, Fetch, FetchCoherent
  <1>2. i \in Instruction /\ Orderly(i) /\ pc_fetch \in Word
    BY DEF TypeOK
  <1>3. /\ regs' = IF ex.rd_en /\ ex.rd # 0 THEN [regs EXCEPT ![ex.rd] = Result] ELSE regs
        /\ fw' = [en |-> ex.rd_en, rd |-> IF ex.rd_en THEN ex.rd ELSE fw.rd,
                  data |-> IF ex.rd_en THEN Result ELSE fw.data]
    BY DEF Edge, RegisterWrite, ForwardSave, Retires
  <1>4. ASSUME NEW r \in Reg
        PROVE  (IF fw'.en /\ fw'.rd = r THEN fw'.data ELSE regs[r]) = regs'[r]
    BY <1>3, <1>4 DEF TypeOK, Registers, Stage
  <1>5. i.op \in Op /\ i.rd \in Reg /\ i.rs1 \in Reg /\ i.rs2 \in Reg
    BY <1>2 DEF Instruction
  <1>6. /\ ex'.pc = pc_fetch
        /\ ex'.op = i.op /\ ex'.rd = i.rd /\ ex'.rs1 = i.rs1 /\ ex'.rs2 = i.rs2
        /\ ex'.imm = i.imm /\ ex'.a = regs[i.rs1] /\ ex'.b = regs[i.rs2]
        /\ ex'.bus = BusOp(i.op) /\ ex'.pc_op = PcOp(i.op)
        /\ ex'.md_start = (i.op \in {"mul", "divu"})
        /\ ex'.md_op = (IF i.op \in {"mul", "divu"} THEN i.op ELSE "none")
        /\ ex'.req = (IF i.op \in {"ecall", "ebreak", "mret"} THEN i.op ELSE "none")
        /\ ex'.rd_en = (/\ i.op \in {"addi", "add", "auipc", "lw", "jal", "jalr", "csrrw"}
                        /\ i.rd # 0)
    BY <1>1, <1>2 DEF Decoded, Orderly
  <1>7. A' = regs'[i.rs1] /\ B' = regs'[i.rs2]
    BY <1>4, <1>5, <1>6 DEF A, B, ForwardA, ForwardB
  <1>8. InExecute'
    BY <1>1, <1>6, <1>7 DEF InExecute
  <1>9. Fresh'
    BY <1>6 DEF Fresh
  <1>10. InLine'
    BY <1>6 DEF Edge, ProgramCounter, Fetch, InLine, Sequential
  <1> QED BY <1>2, <1>5, <1>6, <1>8, <1>9, <1>10 DEF Op, Orderly

\* A stalled edge keeps the stage, its operands and what it is relative to.
LEMMA StallNext ==
  ASSUME TypeOK, Edge, NoRequest, Stall
  PROVE  /\ ex' = Stalled
         /\ UNCHANGED <<rom, pc, pc_fetch, regs, fw>>
         /\ A' = A /\ B' = B
         /\ InExecute => InExecute'
         /\ InLine => InLine'
  <1>1. ex' = Stalled
    BY DEF Edge, Decode
  <1>2. UNCHANGED <<rom, pc, pc_fetch, regs, fw>>
    BY DEF Edge, ProgramCounter, Fetch, RegisterWrite, ForwardSave
  <1>3. /\ ex'.pc = ex.pc /\ ex'.op = ex.op /\ ex'.rd = ex.rd /\ ex'.rs1 = ex.rs1
        /\ ex'.rs2 = ex.rs2 /\ ex'.imm = ex.imm /\ ex'.a = ex.a /\ ex'.b = ex.b
        /\ ex'.bus = ex.bus /\ ex'.md_op = ex.md_op /\ ex'.req = ex.req
    BY <1>1 DEF Stalled, TypeOK, Stage
  <1>4. A' = A /\ B' = B
    BY <1>2, <1>3 DEF A, B, ForwardA, ForwardB
  <1> QED BY <1>1, <1>2, <1>3, <1>4 DEF InExecute, InLine, Sequential

\* A flushed edge leaves a bubble.
LEMMA FlushNext ==
  ASSUME TypeOK, Edge, NoRequest, ~Stall, Flush
  PROVE  Idle'
  BY DEF Edge, Decode, Bubble, Idle

\* The forwarding register goes on agreeing with the register file.
LEMMA RegistersNext ==
  ASSUME TypeOK, Registers, Edge,
         NoRequest /\ Stall => ex.rd # 0
  PROVE  Registers'
  <1>1. ex \in Stage /\ regs \in [Reg -> Word] /\ fw \in [en : BOOLEAN, rd : Reg, data : Word]
    BY DEF TypeOK
  <1>2. regs'[0] = 0 /\ fw'.data = regs'[fw'.rd]
    BY <1>1 DEF Registers, Edge, RegisterWrite, ForwardSave, Retires, Stage
  <1>3. ex'.rd_en => ex'.rd # 0
    <2>1. CASE ~NoRequest
      BY <1>1, <2>1 DEF Edge, Decode, Trapped, Stage
    <2>2. CASE NoRequest /\ Stall
      BY <1>1, <2>2 DEF Edge, Decode, Stalled, Stage
    <2>3. CASE NoRequest /\ ~Stall /\ Flush
      BY <2>3 DEF Edge, Decode, Bubble
    <2>4. CASE NoRequest /\ ~Stall /\ ~Flush
      BY <2>4 DEF Edge, Decode, Decoded
    <2> QED BY <2>1, <2>2, <2>3, <2>4
  <1> QED BY <1>2, <1>3 DEF Registers

-----------------------------------------------------------------------------
(* The invariant is inductive *)

\* The CSRs are left alone by an edge without a trap, a release or a CSR access.
LEMMA QuietCsr ==
  ASSUME TypeOK, Edge, NoRequest, state # "mret2", Bus \notin {"csrrw", "csrsi", "csrci"}
  PROVE  csr' = csr
  <1>1. UserCsr /\ csr \in Csrs
    BY DEF Edge, CsrUnit, TypeOK
  <1> QED BY <1>1 DEF UserCsr, MscratchNext, Csrs

\* What the execute stage holds tells what it stalls for.
LEMMA StallsFor ==
  ASSUME PipeInv
  PROVE  /\ Stall => ex.op \in {"lw", "mul", "divu"} /\ ex.rd # 0 /\ InExecute /\ InLine
         /\ state = "exec" /\ Idle => ~Stall /\ ~Flush /\ ~Penalty /\ ~WaitForData
         /\ state = "exec" /\ ~Idle => InExecute /\ InLine /\ (Fresh \/ Computed) /\ ex.op # "nop"
  <1>0. TypeOK
    BY DEF PipeInv, ControlInv
  <1>1. state = "exec" /\ Idle => ~Stall /\ ~Flush /\ ~Penalty /\ ~WaitForData
    BY DEF Idle, Stall, Flush, Penalty, WaitForData, Bus
  <1>2. state = "exec" /\ ~Idle => InExecute /\ InLine /\ (Fresh \/ Computed)
    BY DEF PipeInv, Execution
  <1>3. InExecute => ex.op # "nop" /\ Orderly(rom[ex.pc]) /\ ex.op = rom[ex.pc].op
                     /\ ex.rd = rom[ex.pc].rd /\ ex.bus = BusOp(ex.op)
    BY <1>0 DEF InExecute, PipeInv, TypeOK, Stage, Instruction, Op
  <1>4. Stall => InExecute /\ InLine /\ ex.op \in {"lw", "mul", "divu"}
    <2>1. CASE state = "exec" /\ (WaitForData \/ ex.md_start)
      <3>1. InExecute /\ InLine /\ (Fresh \/ Computed)
        BY <1>1, <1>2, <2>1 DEF Stall
      <3> QED BY <1>3, <2>1, <3>1 DEF Fresh, Computed, WaitForData, Bus, BusOp
    <2>2. CASE state = "md"
      BY <2>2 DEF PipeInv, Execution, Computing
    <2> QED BY <2>1, <2>2 DEF Stall
  <1> QED BY <1>1, <1>2, <1>3, <1>4 DEF Orderly

\* The invariant but for what the execute stage holds.
LEMMA CommonNext ==
  ASSUME PipeInv, Next
  PROVE  /\ ControlInv' /\ Registers' /\ (\A a \in Word : Orderly(rom[a]))'
         /\ md'.mul_running => state' \in {"md", "intr", "intr2"}
         /\ ex'.req # "illegal"
  <1>0. TypeOK /\ RequestsAnswered /\ FetchCoherent /\ Registers /\ Edge
    BY FsmMoves DEF PipeInv, ControlInv
  <1>1. ControlInv'
    BY ControlStep DEF PipeInv
  <1>2. Registers'
    BY <1>0, StallsFor, RegistersNext
  <1>3. rom' = rom
    BY <1>0 DEF Edge, Fetch
  <1>4. ex'.req # "illegal"
    <2>1. CASE NoRequest /\ ~Stall /\ ~Flush
      <3>1. ex' = Decoded(rom[instr_at], pc_fetch) /\ Orderly(rom[instr_at])
        BY <1>0, <2>1 DEF Edge, Decode, PipeInv, TypeOK
      <3> QED BY <3>1 DEF Decoded, Orderly
    <2>2. CASE ~(NoRequest /\ ~Stall /\ ~Flush)
      BY <1>0, <2>2, StageNext DEF PipeInv, Edge
    <2> QED BY <2>1, <2>2
  <1>5. md'.mul_running => state' \in {"md", "intr", "intr2"}
    <2> SUFFICES ASSUME ex.md_start PROVE state' \in {"md", "intr", "intr2"}
      BY <1>0 DEF Edge, MulDiv, Multiplier
    <2>1. CASE state = "exec"
      <3>1. ex.req = "none" /\ ex.op \in {"mul", "divu"} /\ ex.bus = "nop"
        BY <1>0, <2>1 DEF RequestsAnswered
      <3> QED BY <2>1, <3>1, FsmMoves DEF Penalty, WaitForData, Bus
    <2>2. CASE state = "intr"
      BY <2>2, FsmMoves
    <2> QED BY <1>0, <2>1, <2>2 DEF RequestsAnswered
  <1> QED BY <1>1, <1>2, <1>3, <1>4, <1>5 DEF PipeInv

\* A trap empties the execute stage, in the states that can take one.
LEMMA TrapNext ==
  ASSUME PipeInv, Disciplined, Next, ~NoRequest
  PROVE  /\ state \in {"exec", "wait", "flush", "md"} /\ state' = "intr"
         /\ Execution'
  <1>0. TypeOK /\ RequestsAnswered /\ ex.req # "illegal"
    BY DEF PipeInv, ControlInv
  <1>1. csr.mie \/ ex.req \in {"ecall", "ebreak"}
    BY <1>0 DEF NoRequest, InterruptRequest, LicCause
  <1>2. state \in {"exec", "wait", "flush", "md"}
    BY <1>0, <1>1, FsmMoves DEF RequestsAnswered, States, PipeInv, Execution
  <1>3. state' = "intr"
    BY <1>0, <1>2, FsmMoves, RequestIsHard
  <1>4. ex' = Trapped
    BY FsmMoves DEF Edge, Decode
  <1> QED BY <1>0, <1>2, <1>3, <1>4 DEF Execution, Trapped, TypeOK, Stage

\* Reset, traps and returns from traps leave a bubble.
LEMMA BubbleNext ==
  ASSUME PipeInv, Next, NoRequest, state \in {"boot0", "intr", "intr2", "mret"}
  PROVE  Execution'
  <1>0. TypeOK /\ RequestsAnswered /\ Edge /\ Flush /\ ~Stall
    BY FsmMoves DEF PipeInv, ControlInv, Flush, Stall
  <1>1. Idle'
    BY <1>0, FlushNext
  <1>2. state' = "boot1" \/ state' = "mret2" \/ state' = "exec" \/ state' = "intr2"
    BY FsmMoves
  <1>3. state \in {"boot0", "intr2", "mret"} => Sequential'
    BY <1>0 DEF PipeInv, Execution, Idle, Sequential, Edge, ProgramCounter, NextPc, Fetch
  <1>4. state \in {"intr2", "mret"} => ~csr'.mie
    <2>1. csr' = csr
      BY <1>0, QuietCsr DEF Bus
    <2> QED BY <1>0, <2>1 DEF RequestsAnswered, PipeInv, Execution
  <1> QED BY <1>1, <1>2, <1>3, <1>4, FsmMoves DEF Execution

\* An instruction is decoded where the one before it ends, or where it is found.
LEMMA DecodingNext ==
  ASSUME PipeInv, Next, NoRequest, ~Stall, ~Flush
  PROVE  /\ state' = "exec" /\ ex'.pc = pc_fetch /\ ex'.op # "nop" 
         /\ InExecute' /\ Fresh' /\ InLine' /\ Execution'
  <1>0. /\ TypeOK /\ RequestsAnswered /\ FetchCoherent /\ Registers /\ Edge
        /\ \A a \in Word : Orderly(rom[a])
    BY FsmMoves DEF PipeInv, ControlInv
  <1>1. state' = "exec"
    BY <1>0, DecodesIntoExec
  <1>2. state \in {"boot1", "exec", "wait", "mret2"}
    BY FsmMoves DEF Flush, Stall, States
  <1>3. Sequential /\ ex.pc_op # "hold" /\ ex.pc_op # "load_mtvec" /\ NextPc = Plus(pc, 1)
    <2>1. CASE Idle
      <3>1. Sequential
        BY <1>2, <2>1, StallsFor DEF PipeInv, Execution, InLine
      <3> QED BY <2>1, <3>1 DEF Idle, NextPc
    <2>2. CASE ~Idle
      <3>1. InExecute /\ InLine /\ (Fresh \/ Computed)
        BY <1>2, <2>2 DEF PipeInv, Execution
      <3>2. ex.op \in Op
        BY <1>0, <3>1 DEF InExecute, TypeOK, Stage, Instruction
      <3>3. ~Penalty /\ ~ex.md_start
        BY <1>0, <1>2 DEF Flush, Stall, RequestsAnswered
      <3>4. ex.req \notin {"ecall", "ebreak"}
        BY DEF NoRequest, InterruptRequest, LicCause
      <3>5. ex.pc_op \in {"incr", "branch"}
        <4>1. CASE Computed
          BY <4>1 DEF Computed
        <4>2. CASE Fresh
          <5>1. ex.op \notin {"jal", "jalr", "mret", "mul", "divu", "ecall", "ebreak"}
            BY <3>1, <3>3, <3>4, <4>2 DEF Penalty, Fresh, InExecute
          <5> QED BY <3>2, <4>2, <5>1 DEF Fresh, PcOp, Op
        <4> QED BY <3>1, <4>1, <4>2
      <3> QED BY <3>1, <3>3, <3>5 DEF NextPc, InLine
    <2> QED BY <2>1, <2>2
  <1>4. state # "intr"
    BY <1>2
  <1>5. /\ ex'.pc = pc_fetch /\ InExecute' /\ Fresh' /\ InLine'
        /\ ex'.req # "illegal" /\ ex'.op # "nop"
    BY <1>0, <1>3, <1>4, DecodeNext
  <1> QED BY <1>1, <1>5 DEF Execution

\* What an instruction of the first cycle asks for is in the state's answer.
LEMMA FreshAsks ==
  ASSUME PipeInv, state = "exec", ~Idle, NoRequest
  PROVE  /\ ex.op \in {"mret", "jal", "jalr"} => Fresh /\ Penalty
         /\ Penalty => ex.op \in {"mret", "jal", "jalr", "beq", "bne"} /\ Fresh
                       /\ ~ex.md_start /\ ~Stall /\ ex.bus = "nop"
         /\ ex.req = "mret" <=> ex.op = "mret"
         /\ WaitForData => ex.op = "lw" /\ Fresh /\ ~Penalty
         /\ ex.md_start => ex.op \in {"mul", "divu"} /\ Fresh /\ ~Penalty /\ ~WaitForData
  <1>1. InExecute /\ (Fresh \/ Computed)
    BY StallsFor
  <1>2. ex.op \in Op /\ ex.bus = BusOp(ex.op)
    BY <1>1 DEF InExecute, PipeInv, ControlInv, TypeOK, Stage, Instruction
  <1>3. ex.req = "mret" <=> ex.op = "mret"
    BY <1>1 DEF InExecute
  <1> QED BY <1>1, <1>2, <1>3
      DEF Fresh, Computed, Penalty, WaitForData, Bus, BusOp, Stall, Op

\* A jump or a taken branch: what a trap would have to save in the flush cycle
\* is the instruction's own address, and that leads to the target again.
LEMMA JumpNext ==
  ASSUME PipeInv, Next, NoRequest, state = "exec", ~Idle, Penalty, ex.op # "mret"
  PROVE  /\ state' = "flush" /\ Idle' /\ JumpTaken(pc_to_mepc, pc)' /\ pc_to_mepc' = ex.pc
         /\ pc' = Plus(IF ex.op = "jalr" THEN A ELSE ex.pc, ex.imm)
         /\ regs' = IF ex.op \in {"jal", "jalr"} /\ ex.rd # 0
                      THEN [regs EXCEPT ![ex.rd] = Plus(ex.pc, 1)] ELSE regs
         /\ Execution'
  <1>0. /\ TypeOK /\ Edge /\ rom' = rom /\ Orderly(rom[ex.pc])
        /\ InExecute /\ Fresh /\ ~Stall /\ Flush
        /\ ex.op \in {"jal", "jalr", "beq", "bne"} /\ ex.req # "mret"
    BY FsmMoves, FreshAsks, StallsFor
    DEF PipeInv, ControlInv, Edge, Fetch, Flush, TypeOK, Stage
  <1>1. state' = "flush"
    BY <1>0, FsmMoves
  <1>2. Idle'
    BY <1>0, FlushNext
  <1>3. pc' = Plus(IF ex.op = "jalr" THEN A ELSE ex.pc, ex.imm)
    BY <1>0 DEF Edge, ProgramCounter, NextPc, Fresh, PcOp
  <1>4. pc_to_mepc' = ex.pc
    BY <1>0 DEF Edge, SavePc
  <1>5. regs' = IF ex.op \in {"jal", "jalr"} /\ ex.rd # 0
                  THEN [regs EXCEPT ![ex.rd] = Plus(ex.pc, 1)] ELSE regs
    BY <1>0 DEF Edge, RegisterWrite, Retires, Fresh, Result
  <1> DEFINE i == rom[ex.pc]
  <1>6. /\ i.op = ex.op /\ i.rd = ex.rd /\ i.imm = ex.imm
        /\ A = regs[i.rs1] /\ B = regs[i.rs2]
        /\ i.rd \in Reg /\ i.rs1 \in Reg /\ i.rs2 \in Reg
        /\ i.op = "jalr" => i.rd = 0 \/ i.rd # i.rs1
    BY <1>0 DEF InExecute, Orderly, TypeOK, Stage, Instruction
  <1>7. i.op \in {"beq", "bne"} => (i.op = "beq" <=> regs'[i.rs1] = regs'[i.rs2])
    BY <1>5, <1>6 DEF Penalty
  <1>8. i.op = "jalr" => regs'[i.rs1] = A
    BY <1>0, <1>5, <1>6 DEF TypeOK
  <1>9. (i.op \in {"jal", "jalr"} /\ i.rd # 0) => regs'[i.rd] = Plus(ex.pc, 1)
    BY <1>0, <1>5, <1>6 DEF TypeOK
  <1>10. JumpTaken(pc_to_mepc, pc)'
    BY <1>0, <1>3, <1>4, <1>6, <1>7, <1>8, <1>9 DEF JumpTaken
  <1> QED BY <1>0, <1>1, <1>2, <1>3, <1>4, <1>5, <1>10 DEF Execution

\* The flush cycle fetches the target.
LEMMA FinishJumpNext ==
  ASSUME PipeInv, Next, NoRequest, state = "flush"
  PROVE  /\ state' = "exec" /\ Idle' /\ pc_fetch' = pc /\ regs' = regs
         /\ pc_to_mepc' = pc_to_mepc /\ csr' = csr
         /\ Execution'
  <1>0. TypeOK /\ Edge /\ Idle /\ Flush /\ ~Stall /\ ~Hard
    BY FsmMoves DEF PipeInv, ControlInv, Execution, Flush, Stall, NoRequest, Hard
  <1>1. state' = "exec" /\ Idle'
    BY <1>0, FsmMoves, FlushNext
  <1>2. pc_fetch' = pc /\ Sequential' /\ pc_to_mepc' = pc_to_mepc
    BY <1>0 DEF Idle, Edge, ProgramCounter, NextPc, Fetch, SavePc, Sequential
  <1>3. regs' = regs /\ rom' = rom
    BY <1>0 DEF Idle, Edge, RegisterWrite, Retires, Fetch
  <1>4. csr' = csr
    BY <1>0, QuietCsr DEF Bus
  <1>5. csr.mie => JumpTaken(pc_to_mepc, pc_fetch)'
    BY <1>2, <1>3 DEF PipeInv, Execution, JumpTaken
  <1> QED BY <1>1, <1>2, <1>3, <1>4, <1>5 DEF Execution

\* MRET loads the saved pc.
LEMMA ReturnNext ==
  ASSUME PipeInv, Disciplined, Next, NoRequest, state = "exec", ~Idle, ex.op = "mret"
  PROVE  /\ state' = "mret" /\ pc' = Mepc /\ regs' = regs /\ csr' = csr /\ ~csr.mie
         /\ Execution'
  <1>0. /\ TypeOK /\ Edge /\ InExecute /\ Fresh /\ ~Stall /\ Flush /\ ex.req = "mret"
    BY FsmMoves, FreshAsks, StallsFor DEF PipeInv, ControlInv, Flush
  <1>1. state' = "mret" /\ Idle'
    BY <1>0, FsmMoves, FlushNext
  <1>2. pc' = Mepc /\ regs' = regs
    BY <1>0 DEF Edge, ProgramCounter, NextPc, RegisterWrite, Retires, Fresh, PcOp
  <1>3. csr' = csr
    BY <1>0, QuietCsr DEF Bus
  <1>4. ~csr.mie
    BY DEF Disciplined
  <1> QED BY <1>1, <1>2, <1>3, <1>4 DEF Execution

\* A load waits for the RAM.
LEMMA LoadNext ==
  ASSUME PipeInv, Next, NoRequest, state = "exec", ~Idle, WaitForData
  PROVE  state' = "wait" /\ Stall /\ Execution'
  <1>0. /\ TypeOK /\ Edge /\ InExecute /\ InLine /\ Fresh /\ Stall /\ ~Penalty
        /\ ex.op = "lw" /\ ex.rd # 0 /\ ex.req # "mret"
    BY FsmMoves, FreshAsks, StallsFor DEF PipeInv, ControlInv, Stall
  <1>1. state' = "wait"
    BY <1>0, FsmMoves
  <1>2. ex' = Stalled /\ InExecute' /\ InLine'
    BY <1>0, StallNext
  <1>3. Fresh' /\ ex'.op = "lw"
    BY <1>0, <1>2 DEF Stalled, Fresh, PcOp, TypeOK, Stage
  <1> QED BY <1>1, <1>0, <1>2, <1>3 DEF Execution

\* The multiplier or the divider takes the operands; it has nothing left of an
\* operation that was abandoned which could be mistaken for an answer.
LEMMA StartNext ==
  ASSUME PipeInv, Next, NoRequest, state = "exec", ~Idle, ex.md_start
  PROVE  state' = "md" /\ Stall /\ Execution'
  <1>0. /\ TypeOK /\ Edge /\ InExecute /\ InLine /\ Fresh /\ Stall /\ ~Penalty /\ ~WaitForData
        /\ ex.op \in {"mul", "divu"} /\ ex.rd # 0 /\ ex.req # "mret"
    BY FsmMoves, FreshAsks, StallsFor DEF PipeInv, ControlInv, Stall
  <1>1. state' = "md"
    BY <1>0, FsmMoves
  <1>2. ex' = Stalled /\ InExecute' /\ InLine' /\ A' = A /\ B' = B
    BY <1>0, StallNext
  <1>3. /\ ex'.op = ex.op /\ ~ex'.md_start /\ ex'.pc_op \in {"hold", "incr"}
        /\ ex.md_op = ex.op
    <2>1. ex.pc_op = "hold" /\ ex.md_op = ex.op
      BY Zenon, <1>0 DEF Fresh, PcOp, InExecute
    <2>2. ex'.op = ex.op /\ ~ex'.md_start
      BY <1>0, <1>2 DEF Stalled, TypeOK, Stage
    <2>3. ex'.pc_op = IF MdReady THEN "incr" ELSE ex.pc_op
      BY <1>0, <1>2 DEF Stalled, TypeOK, Stage
    <2> QED  BY <2>1, <2>2, <2>3
  <1>4. ex.op = "mul" => md'.a = A /\ md'.b = B
    BY <1>0 DEF Edge, MulDiv, Multiplier
  <1>5. ex.op = "divu" =>
          /\ ~md'.mul_running /\ ~md'.mul_ready
          /\ md'.div_running /\ ~md'.div_ready /\ md'.div_count \in 1 .. DivSteps
          /\ md'.buf2 = A /\ md'.divisor = B
    <2> SUFFICES ASSUME ex.op = "divu"
                 PROVE /\ ~md'.mul_running /\ ~md'.mul_ready
                       /\ md'.div_running /\ ~md'.div_ready /\ md'.div_count \in 1 .. DivSteps
                       /\ md'.buf2 = A /\ md'.divisor = B
      OBVIOUS
    <2>1. DivStart /\ DivRuns /\ DivCount = 0 /\ DivCount # DivSteps /\ ~md.mul_running
      BY <1>3, DivStepsAssumption DEF DivStart, DivRuns, DivCount, PipeInv
    <2>2. 0 + 1 \in 1 .. DivSteps
      BY DivStepsAssumption
    <2>3. md'.mul_running = (ex.md_start /\ ex.md_op = "mul") /\ md'.mul_ready = md.mul_running
      BY <1>0, <1>3 DEF Edge, MulDiv, Multiplier
    <2>4. /\ md'.div_running = (DivRuns /\ DivCount # DivSteps)
          /\ md'.div_ready = (DivRuns /\ DivCount = DivSteps)
          /\ md'.div_count = 0 + 1
          /\ md'.buf2 = A /\ md'.divisor = B
      BY <1>0, <2>1 DEF Edge, MulDiv, Divider
    <2> QED BY <1>3, <2>1, <2>2, <2>3, <2>4
  <1>6. Computing'
    BY <1>0, <1>2, <1>3, <1>4, <1>5 DEF Computing
  <1> QED BY <1>1, <1>0, <1>2, <1>6 DEF Execution

\* Every edge in state md is an iteration, or the last.
LEMMA MulDivNext ==
  ASSUME PipeInv, Next, NoRequest, state = "md"
  PROVE  state' = (IF MdReady THEN "exec" ELSE "md") /\ Stall /\ ex'.op # "nop" /\ Execution'
  <1>0. /\ TypeOK /\ Edge /\ InExecute /\ InLine /\ Computing /\ Stall /\ ~Hard /\ ex.rd # 0
    BY FsmMoves, StallsFor
    DEF PipeInv, ControlInv, Stall, Execution, NoRequest, Hard
  <1>1. state' = IF MdReady THEN "exec" ELSE "md"
    BY <1>0, FsmMoves
  <1>2. ex' = Stalled /\ InExecute' /\ InLine' /\ A' = A /\ B' = B
    BY <1>0, StallNext
  <1>3. /\ ex'.op = ex.op /\ ~ex'.md_start /\ ex'.pc_op \in {"hold", "incr"}
        /\ MdReady => ex'.pc_op = "incr" /\ ex'.rd_en
    BY <1>0, <1>2 DEF Stalled, Computing, TypeOK, Stage
  <1>4. ~DivStart /\ ~ex.md_start /\ ex.op \in {"mul", "divu"}
    BY <1>0 DEF DivStart, Computing
  <1>5. CASE ex.op = "mul"
    <2>1. md'.a = A /\ md'.b = B /\ md'.mul = Times(A, B)
      BY <1>0, <1>4, <1>5 DEF Edge, MulDiv, Multiplier, Computing
    <2> QED BY <1>0, <1>1, <1>2, <1>3, <1>4, <1>5, <2>1 DEF Execution, Computing, Computed
  <1>6. CASE ex.op = "divu" /\ MdReady
    <2>1. ~DivRuns /\ md.buf2 = Divide(A, B)
      BY <1>0, <1>4, <1>6 DEF Computing, MdReady, DivRuns
    <2>2. md'.buf2 = Divide(A, B)
      BY <1>0, <2>1 DEF Edge, MulDiv, Divider
    <2> QED BY <1>0, <1>1, <1>2, <1>3, <1>4, <1>6, <2>2 DEF Execution, Computed
  <1>7. CASE ex.op = "divu" /\ ~MdReady
    <2>1. /\ DivRuns /\ DivCount = md.div_count /\ md.div_count \in 1 .. DivSteps
          /\ md.buf2 = A /\ md.divisor = B /\ ~md.mul_running
      BY <1>0, <1>4, <1>7 DEF Computing, MdReady, DivRuns, DivCount
    <2>2. ~md'.mul_running /\ ~md'.mul_ready
      BY <1>0, <1>4, <2>1 DEF Edge, MulDiv, Multiplier
    <2>3. /\ md'.div_running = (md.div_count # DivSteps)
          /\ md'.div_ready = (md.div_count = DivSteps)
          /\ md'.div_count = (IF md.div_count = DivSteps THEN 0 ELSE md.div_count + 1)
          /\ md'.buf2 = (IF md.div_count = DivSteps THEN Divide(A, B) ELSE A)
          /\ md'.divisor = B
      BY <1>0, <2>1, DivStepsAssumption DEF Edge, MulDiv, Divider
    <2>4. Computing'
      <3>1. md.div_count # DivSteps => md.div_count + 1 \in 1 .. DivSteps
        BY <2>1, DivStepsAssumption
      <3> QED BY <1>2, <1>3, <1>4, <1>7, <2>2, <2>3, <3>1 DEF Computing
    <2> QED BY <1>0, <1>1, <1>2, <1>3, <1>4, <1>7, <2>4 DEF Execution
  <1> QED BY <1>4, <1>5, <1>6, <1>7

\* Every edge of a disciplined program keeps the invariant.
LEMMA PipeStep == PipeInv /\ Disciplined /\ [Next]_vars => PipeInv'
  <1> SUFFICES ASSUME PipeInv, Disciplined, [Next]_vars PROVE PipeInv'
    OBVIOUS
  <1>1. CASE UNCHANGED vars
    <2>1. ControlInv'
      BY ControlStep DEF PipeInv
    <2>2. A' = A /\ B' = B
      BY <1>1 DEF vars, A, B, ForwardA, ForwardB
    <2>3. Registers' /\ Execution'
      BY <1>1, <2>2
      DEF vars, PipeInv, Registers, Execution, Idle, InExecute, Fresh, Computing,
          Computed, Sequential, InLine, JumpTaken
    <2> QED BY <1>1, <2>1, <2>3 DEF vars, PipeInv
  <1>2. CASE Next
    <2> USE <1>2
    <2>1. state \in States
      BY FsmMoves
    <2>2. CASE ~NoRequest
      BY <2>2, TrapNext, CommonNext DEF PipeInv
    <2>3. CASE NoRequest /\ state \in {"boot0", "intr", "intr2", "mret"}
      BY <2>3, BubbleNext, CommonNext DEF PipeInv
    <2>4. CASE NoRequest /\ ~Stall /\ ~Flush
      BY <2>4, DecodingNext, CommonNext DEF PipeInv
    <2>5. CASE NoRequest /\ state = "flush"
      BY <2>5, FinishJumpNext, CommonNext DEF PipeInv
    <2>6. CASE NoRequest /\ state = "md"
      BY <2>6, MulDivNext, CommonNext DEF PipeInv
    <2>7. CASE NoRequest /\ state = "exec" /\ (Stall \/ Flush)
      <3>1. ~Idle
        BY <2>7, StallsFor
      <3>2. WaitForData \/ ex.md_start \/ Penalty
        BY <2>7 DEF Stall, Flush
      <3> QED BY <2>7, <3>1, <3>2, LoadNext, StartNext, JumpNext, ReturnNext, CommonNext
              DEF PipeInv
    <2>8. state \in {"boot1", "wait", "mret2"} => ~Stall /\ ~Flush
      BY DEF PipeInv, Execution, Idle, Stall, Flush, Penalty
    <2> QED BY <2>1, <2>2, <2>3, <2>4, <2>5, <2>6, <2>7, <2>8 DEF States
  <1> QED BY <1>1, <1>2

\* Reset leaves a bubble and the reset vector.
LEMMA PipeInit ==
  ASSUME \A p \in Programs : \A a \in Word : Orderly(p[a])
  PROVE  Init => PipeInv
  <1> SUFFICES ASSUME Init PROVE PipeInv
    OBVIOUS
  <1>1. ControlInv
    BY ControlInit
  <1>2. Registers
    BY NumRegsAssumption DEF Init, Registers, Bubble, Reg
  <1>3. Execution
    BY DEF Init, Execution, Idle, Bubble
  <1> QED BY <1>1, <1>2, <1>3 DEF Init, PipeInv, Bubble

-----------------------------------------------------------------------------
(* Every edge is an instruction, a trap or nothing *)

\* The architecture computes as the core does.
LEMMA IsaWords ==
  \A x, y : /\ ISA!Plus(x, y) = Plus(x, y) /\ ISA!Times(x, y) = Times(x, y)
            /\ ISA!Divide(x, y) = Divide(x, y)
  BY DEF ISA!Plus, Plus, ISA!Times, Times, ISA!Divide, Divide

\* Outside a return the programmer sees the CSRs as they are.
LEMMA ArchCsrs ==
  /\ state \notin {"mret", "mret2"} =>
       ArchMie = csr.mie /\ ArchMpie = csr.mpie /\ ArchMcause = csr.mcause /\ ArchResume = Mepc
  /\ state' \notin {"mret", "mret2"} =>
       /\ ArchMie' = csr'.mie /\ ArchMpie' = csr'.mpie
       /\ ArchMcause' = csr'.mcause /\ ArchResume' = Mepc'
  /\ csr' = csr => Mepc' = Mepc
  BY DEF ArchMie, ArchMpie, ArchMcause, ArchResume, Returning, Mepc

\* An edge that the programmer does not see.
LEMMA Stutters ==
  ASSUME ArchPc' = ArchPc, UNCHANGED <<rom, regs, mem, csr>>,
         state \notin {"mret", "mret2"}, state' \notin {"mret", "mret2"}
  PROVE  UNCHANGED ISA!vars
  BY ArchCsrs DEF ISA!vars

\* The word in the execute stage is the instruction the programmer sees as next.
LEMMA ArchPcInExecute ==
  /\ state \in {"exec", "wait", "md"} /\ ex.op # "nop" => ArchPc = ex.pc
  /\ state' \in {"exec", "wait", "md"} /\ ex'.op # "nop" => ArchPc' = ex'.pc
  BY DEF ArchPc, BubbleInExec

\* What an edge without a request does to the memory and the registers.
LEMMA QuietData ==
  ASSUME Edge
  PROVE  /\ Bus # "write" => mem' = mem
         /\ Stall \/ ~ex.rd_en \/ ~NoRequest => regs' = regs
         /\ rom' = rom
  BY DEF Edge, Memory, RegisterWrite, Retires, Fetch

\* A trap falls between two instructions, and MRET will find the right one; a
\* store that it hits has been done.
LEMMA TrapSeen ==
  ASSUME PipeInv, Disciplined, Next, ~NoRequest
  PROVE  ISA!Interrupt \/ ISA!StoreThenInterrupt \/ ISA!EnvironmentCall
  <1>0. /\ TypeOK /\ Edge /\ RequestsAnswered /\ ex.req # "illegal"
        /\ state \in {"exec", "wait", "flush", "md"} /\ state' = "intr"
    BY TrapNext, FsmMoves DEF PipeInv, ControlInv
  <1>1. regs' = regs /\ rom' = rom /\ (Bus # "write" => mem' = mem)
    BY <1>0, QuietData
  <1>2. Trap
    BY <1>0 DEF Edge, CsrUnit
  <1>3. \/ LicCause = "interrupt" /\ csr.mie
        \/ LicCause = ex.req /\ ex.req \in {"ecall", "ebreak"}
    BY <1>0 DEF NoRequest, InterruptRequest, LicCause
  <1>4. \/ Idle /\ csr.mie /\ state \in {"exec", "flush"}
        \/ InExecute /\ ex.op # "nop" /\ state \in {"exec", "wait", "md"}
    <2>1. state = "flush" => Idle
      BY DEF PipeInv, Execution
    <2>2. state \in {"wait", "md"} => InExecute /\ ex.op # "nop"
      BY DEF PipeInv, Execution, Computing
    <2>3. Idle => csr.mie
      BY <1>3 DEF Idle
    <2> QED BY <1>0, <2>1, <2>2, <2>3, StallsFor
  <1>5. PcToMepc = ArchPc
    <2>1. CASE Idle
      BY <1>4, <2>1 DEF Idle, PcToMepc, SelectPc, ArchPc, BubbleInExec
    <2>2. CASE ~Idle
      <3>1. ex.op # "mret"
        <4>1. state # "exec" => ex.op # "mret"
          BY <1>0, <2>2 DEF PipeInv, Execution, Computing
        <4>2. ex.op = "mret" => ex.req = "mret"
          BY <1>4, <2>2 DEF InExecute
        <4> QED BY <1>3, <4>1, <4>2 DEF Disciplined
      <3> QED BY <1>4, <2>2, <3>1, ArchPcInExecute DEF PcToMepc, SelectPc
    <2> QED BY <2>1, <2>2
  <1>6. Bus \in {"csrrw", "write"} => state = "exec" /\ InExecute /\ ex.bus = Bus
                                      /\ ex.op = (IF Bus = "write" THEN "sw" ELSE "csrrw")
                                      /\ ex.op = rom[ex.pc].op /\ ex.req = "none"
    <2>1. ~Idle => rom[ex.pc] \in Instruction
      BY <1>0 DEF TypeOK, Stage
    <2>2. Bus \in {"csrrw", "write"} => ~Idle /\ ex.bus = Bus
      BY DEF Bus, Idle
    <2>3. state \in {"wait", "md"} => ex.bus \notin {"csrrw", "write"}
      BY DEF PipeInv, Execution, Computing, InExecute, BusOp
    <2> QED BY <1>0, <1>4, <2>1, <2>2, <2>3 DEF InExecute, BusOp, Instruction, Op
  <1>7. MscratchNext = csr.mscratch
    BY <1>3, <1>6 DEF MscratchNext, Disciplined
  <1>8. ISA!Enter(LicCause, IF LicCause \in {"ecall", "ebreak"} THEN Plus(ArchPc, 1) ELSE ArchPc)
    <2>1. ArchPc' = Mtvec
      BY <1>0 DEF ArchPc, BubbleInExec
    <2>2. /\ csr'.mie = FALSE /\ csr'.mpie = csr.mie /\ csr'.mcause = LicCause
          /\ csr'.mepc = ArchPc /\ csr'.mscratch = csr.mscratch
      BY <1>2, <1>5, <1>7 DEF Trap
    <2>3. Mepc' = IF LicCause \in {"ecall", "ebreak"} THEN Plus(ArchPc, 1) ELSE ArchPc
      BY <2>2 DEF Mepc
    <2> QED BY <1>0, <1>1, <2>1, <2>2, <2>3, ArchCsrs DEF ISA!Enter
  <1>9. CASE LicCause = "interrupt" /\ csr.mie
    <2>1. ArchMie /\ ISA!Enter("interrupt", ArchPc)
      BY <1>0, <1>8, <1>9, ArchCsrs
    <2>2. CASE Bus # "write"
      BY <1>1, <2>1, <2>2 DEF ISA!Interrupt
    <2>3. CASE Bus = "write"
      <3>1. ArchPc = ex.pc /\ ex.op = "sw" /\ InExecute
        BY <1>6, <2>3, ArchPcInExecute
      <3>2. mem' = [mem EXCEPT ![Address] = B]
        BY <1>0, <2>3 DEF Edge, Memory
      <3>3. mem' = ISA!Stored
        BY <3>1, <3>2, IsaWords DEF ISA!Stored, ISA!I, ISA!Rs1, ISA!Rs2, InExecute, Address
      <3> QED BY <2>1, <3>1, <3>3 DEF ISA!StoreThenInterrupt, ISA!I, InExecute
    <2> QED BY <2>2, <2>3
  <1>10. CASE LicCause = ex.req /\ ex.req \in {"ecall", "ebreak"}
    <2>1. ~Idle /\ InExecute /\ ex.op # "nop" /\ state = "exec" /\ Bus # "write"
      BY <1>0, <1>4, <1>6, <1>10 DEF RequestsAnswered, Idle
    <2>2. rom[ArchPc].op = ex.req
      BY <1>10, <2>1, ArchPcInExecute DEF InExecute
    <2>3. ISA!Enter(ex.req, Plus(ArchPc, 1)) /\ mem' = mem
      BY <1>1, <1>8, <1>10, <2>1
    <2> QED BY <1>10, <2>2, <2>3, IsaWords DEF ISA!EnvironmentCall, ISA!I
  <1> QED BY <1>3, <1>9, <1>10

\* Fetching, loading and returning to a program are not seen.
LEMMA BubbleSeen ==
  ASSUME PipeInv, Next, NoRequest, state \in {"boot0", "boot1", "intr", "intr2", "mret", "mret2"}
  PROVE  UNCHANGED ISA!vars
  <1>0. TypeOK /\ Edge /\ ~Stall
    BY FsmMoves DEF PipeInv, ControlInv, Stall
  <1>1. Bus = "nop" /\ ~ex.rd_en
    BY DEF PipeInv, Execution, Idle, Bus, Flush
  <1>2. UNCHANGED <<rom, regs, mem>>
    BY <1>0, <1>1, QuietData
  <1>3. CASE state \in {"boot0", "intr", "intr2"}
    <2>1. csr' = csr
      BY <1>0, <1>1, <1>3, QuietCsr
    <2>2. state = "intr" => pc' = Mtvec
      BY <1>0 DEF PipeInv, Execution, Edge, ProgramCounter, NextPc
    <2>3. state \in {"boot0", "intr2"} => pc_fetch' = pc
      BY <1>0 DEF PipeInv, Execution, Idle, Edge, Fetch
    <2>4. state = "intr2" => ~csr.mie /\ ex'.op = "nop"
      <3>1. state = "intr2" => ex' = Bubble(pc_fetch)
        BY <1>0 DEF Edge, Decode, Flush
      <3> QED BY <3>1 DEF PipeInv, ControlInv, RequestsAnswered, Bubble
    <2>5. ArchPc' = ArchPc
      BY <1>3, <2>1, <2>2, <2>3, <2>4, FsmMoves DEF ArchPc, BubbleInExec
    <2> QED BY <1>2, <1>3, <2>1, <2>5, FsmMoves, Stutters
  <1>4. CASE state = "boot1"
    <2>1. csr' = csr
      BY <1>0, <1>1, <1>4, QuietCsr
    <2>2. state' = "exec" /\ ex'.pc = pc_fetch /\ ex'.op # "nop"
      BY <1>0, <1>4, DecodingNext DEF Flush, PipeInv, Execution, Idle, Penalty
    <2>3. ArchPc' = ArchPc
      BY <1>4, <2>2, ArchPcInExecute DEF ArchPc, BubbleInExec
    <2> QED BY <1>2, <1>4, <2>1, <2>2, <2>3, Stutters
  <1>5. CASE state = "mret"
    <2>1. csr' = csr
      BY <1>0, <1>1, <1>5, QuietCsr
    <2>2. state' = "mret2" /\ pc_fetch' = pc
      BY <1>0, <1>5, FsmMoves DEF PipeInv, Execution, Idle, Edge, Fetch
    <2>3. ArchPc' = ArchPc
      BY <1>5, <2>2 DEF ArchPc, BubbleInExec
    <2>4. UNCHANGED <<ArchMie, ArchMpie, ArchMcause, ArchResume>>
      BY <1>5, <2>1, <2>2 DEF ArchMie, ArchMpie, ArchMcause, ArchResume, Returning
    <2> QED BY <1>2, <2>1, <2>3, <2>4 DEF ISA!vars
  <1>6. CASE state = "mret2"
    <2>1. Release /\ MscratchNext = csr.mscratch
      BY <1>0, <1>1, <1>6 DEF Edge, CsrUnit, MscratchNext
    <2>2. state' = "exec" /\ ex'.pc = pc_fetch /\ ex'.op # "nop"
      BY <1>0, <1>6, DecodingNext DEF Flush, PipeInv, Execution, Idle, Penalty
    <2>3. ArchPc' = ArchPc
      BY <1>6, <2>2, ArchPcInExecute DEF ArchPc, BubbleInExec
    <2>4. UNCHANGED <<ArchMie, ArchMpie, ArchMcause, ArchResume>>
      BY <1>6, <2>1, <2>2
      DEF ArchMie, ArchMpie, ArchMcause, ArchResume, Returning, Release, Mepc
    <2> QED BY <1>2, <2>1, <2>3, <2>4 DEF ISA!vars, Release
  <1> QED BY <1>3, <1>4, <1>5, <1>6

\* Executing the jump at from again, its link written, leads to to.
LEMMA JumpsAgain ==
  ASSUME TypeOK, NEW to, JumpTaken(ArchPc, to), ArchPc \in Word, ArchPc' = to,
         UNCHANGED <<rom, regs, mem, csr>>,
         state \notin {"mret", "mret2"}, state' \notin {"mret", "mret2"}
  PROVE  ISA!Branch \/ ISA!Jump
  <1> DEFINE i == rom[ArchPc]
  <1>1. i \in Instruction /\ regs \in [Reg -> Word]
    BY DEF TypeOK
  <1>2. ISA!Trapless
    BY ArchCsrs DEF ISA!Trapless
  <1>3. CASE i.op \in {"beq", "bne"}
    BY <1>2, <1>3, IsaWords DEF JumpTaken, ISA!Branch, ISA!I, ISA!Rs1, ISA!Rs2
  <1>4. CASE i.op \in {"jal", "jalr"}
    <2>1. ISA!Write(i.rd, Plus(ArchPc, 1))
      BY <1>1, <1>4 DEF JumpTaken, ISA!Write, Instruction
    <2> QED BY <1>2, <1>4, <2>1, IsaWords DEF JumpTaken, ISA!Jump, ISA!I, ISA!Rs1
  <1> QED BY <1>3, <1>4 DEF JumpTaken

\* A jump is seen at its edge, or, while a trap may have to come back to it,
\* when its target is decoded; its link is seen at its edge.
LEMMA JumpSeen ==
  ASSUME PipeInv, Next, NoRequest, state = "exec", ~Idle, Penalty, ex.op # "mret"
  PROVE  ISA!Next \/ UNCHANGED ISA!vars
  <1>0. /\ TypeOK /\ Edge /\ InExecute /\ ArchPc = ex.pc /\ ex.pc \in Word
        /\ ex.op \in {"jal", "jalr", "beq", "bne"} /\ ex.bus = "nop"
    BY FsmMoves, StallsFor, FreshAsks, ArchPcInExecute
    DEF PipeInv, ControlInv, TypeOK, Stage
  <1>1. /\ state' = "flush" /\ pc_to_mepc' = ex.pc
        /\ pc' = Plus(IF ex.op = "jalr" THEN A ELSE ex.pc, ex.imm)
        /\ regs' = IF ex.op \in {"jal", "jalr"} /\ ex.rd # 0
                     THEN [regs EXCEPT ![ex.rd] = Plus(ex.pc, 1)] ELSE regs
    BY JumpNext
  <1>2. mem' = mem /\ rom' = rom /\ csr' = csr
    BY <1>0, QuietData, QuietCsr DEF Bus
  <1>3. ISA!Trapless
    BY <1>1, <1>2, ArchCsrs DEF ISA!Trapless
  <1>4. ArchPc' = IF csr.mie THEN ex.pc ELSE pc'
    BY <1>1, <1>2 DEF ArchPc, BubbleInExec
  <1> DEFINE i == rom[ex.pc]
  <1>5. /\ i = ISA!I /\ ex.op = i.op /\ ex.rd = i.rd /\ ex.imm = i.imm
        /\ A = ISA!Rs1 /\ B = ISA!Rs2
    BY <1>0 DEF InExecute, ISA!I, ISA!Rs1, ISA!Rs2
  <1>6. CASE ex.op \in {"jal", "jalr"}
    <2>1. ISA!Write(i.rd, ISA!Plus(ArchPc, 1))
      BY <1>0, <1>1, <1>5, <1>6, IsaWords DEF ISA!Write
    <2>2. CASE csr.mie
      BY <1>0, <1>2, <1>3, <1>4, <1>5, <1>6, <2>1, <2>2 DEF ISA!LinkAhead, ISA!Next
    <2>3. CASE ~csr.mie
      <3>1. ArchPc' = IF i.op = "jal" THEN ISA!Plus(ArchPc, i.imm) ELSE ISA!Plus(ISA!Rs1, i.imm)
        BY <1>0, <1>1, <1>4, <1>5, <1>6, <2>3, IsaWords
      <3> QED BY <1>2, <1>3, <1>5, <1>6, <2>1, <3>1 DEF ISA!Jump, ISA!Next
    <2> QED BY <2>2, <2>3
  <1>7. CASE ex.op \in {"beq", "bne"}
    <2>1. regs' = regs
      BY <1>1, <1>7
    <2>2. CASE csr.mie
      BY <1>0, <1>1, <1>2, <1>4, <2>1, <2>2, Stutters
    <2>3. CASE ~csr.mie
      <3>1. ArchPc' = ISA!Plus(ArchPc, i.imm)
        BY <1>0, <1>1, <1>4, <1>5, <1>7, <2>3, IsaWords
      <3>2. i.op = "beq" <=> ISA!Rs1 = ISA!Rs2
        BY <1>5, <1>7 DEF Penalty
      <3> QED BY <1>2, <1>3, <1>5, <1>7, <2>1, <3>1, <3>2 DEF ISA!Branch, ISA!Next
    <2> QED BY <2>2, <2>3
  <1> QED BY <1>0, <1>6, <1>7

\* The flush cycle is not seen.
LEMMA FinishJumpSeen ==
  ASSUME PipeInv, Next, NoRequest, state = "flush"
  PROVE  UNCHANGED ISA!vars
  <1>0. Edge /\ Idle /\ ~ex.rd_en
    BY FsmMoves DEF PipeInv, Execution, Idle
  <1>1. UNCHANGED <<rom, regs, mem>>
    BY <1>0, QuietData DEF Bus, Flush
  <1>2. /\ state' = "exec" /\ Idle' /\ pc_fetch' = pc /\ pc_to_mepc' = pc_to_mepc
        /\ csr' = csr
    BY FinishJumpNext
  <1>3. ArchPc' = ArchPc
    BY <1>2 DEF ArchPc, BubbleInExec, Idle
  <1> QED BY <1>1, <1>2, <1>3, Stutters

\* The target is decoded.
LEMMA TargetSeen ==
  ASSUME PipeInv, Next, NoRequest, state = "exec", Idle
  PROVE  ISA!Next \/ UNCHANGED ISA!vars
  <1>0. TypeOK /\ Edge /\ ~Stall /\ ~Flush /\ ~ex.rd_en /\ Bus = "nop"
    BY FsmMoves, StallsFor DEF PipeInv, ControlInv, Idle, Bus
  <1>1. state' = "exec" /\ ex'.pc = pc_fetch /\ ex'.op # "nop"
    BY <1>0, DecodingNext
  <1>2. UNCHANGED <<rom, regs, mem, csr>>
    BY <1>0, QuietData, QuietCsr
  <1>3. ArchPc' = pc_fetch
    BY <1>1, ArchPcInExecute
  <1>4. CASE ~csr.mie
    <2>1. ArchPc = pc_fetch
      BY <1>4 DEF ArchPc, BubbleInExec, Idle
    <2> QED BY <1>1, <1>2, <1>3, <2>1, Stutters
  <1>5. CASE csr.mie
    <2>1. ArchPc = pc_to_mepc /\ ArchPc \in Word
      BY <1>0, <1>5 DEF ArchPc, BubbleInExec, Idle, TypeOK
    <2>2. JumpTaken(ArchPc, pc_fetch)
      <3>1. ~InExecute
        BY <1>0 DEF Idle, InExecute, TypeOK, Stage, Instruction, Op
      <3> QED BY <1>5, <2>1, <3>1 DEF PipeInv, Execution
    <2>3. ISA!Branch \/ ISA!Jump
      BY <1>0, <1>1, <1>2, <1>3, <2>1, <2>2, JumpsAgain
    <2> QED BY <2>3 DEF ISA!Next
  <1> QED BY <1>4, <1>5

\* MRET is seen when it loads the saved pc.
LEMMA ReturnSeen ==
  ASSUME PipeInv, Disciplined, Next, NoRequest, state = "exec", ~Idle, ex.op = "mret"
  PROVE  ISA!Return
  <1>0. /\ TypeOK /\ Edge /\ InExecute /\ ArchPc = ex.pc /\ Bus = "nop"
    BY FsmMoves, StallsFor, FreshAsks, ArchPcInExecute
    DEF PipeInv, ControlInv, Bus
  <1>1. state' = "mret" /\ pc' = Mepc /\ regs' = regs /\ csr' = csr /\ ~csr.mie
    BY ReturnNext
  <1>2. mem' = mem /\ rom' = rom
    BY <1>0, QuietData
  <1>3. ArchPc' = ArchResume /\ ~ArchMie /\ ArchMie' = ArchMpie
        /\ ArchMpie' = TRUE /\ ArchMcause' = "none" /\ ArchResume' = 0
    BY <1>1, ArchCsrs
    DEF ArchPc, BubbleInExec, ArchMie, ArchMpie, ArchMcause, ArchResume, Returning
  <1>4. ISA!I.op = "mret"
    BY <1>0 DEF ISA!I, InExecute
  <1> QED BY <1>1, <1>2, <1>3, <1>4 DEF ISA!Return

\* A stalled edge is not seen.
LEMMA StallSeen ==
  ASSUME PipeInv, Next, NoRequest, Stall, state' \in {"exec", "wait", "md"}
  PROVE  UNCHANGED ISA!vars
  <1>0. /\ TypeOK /\ Edge /\ state \in {"exec", "md"} /\ ex.op \in {"lw", "mul", "divu"}
        /\ InExecute
    BY FsmMoves, StallsFor DEF PipeInv, ControlInv, Stall
  <1>1. Bus \in {"nop", "read"}
    BY <1>0 DEF InExecute, Bus, BusOp
  <1>2. UNCHANGED <<rom, regs, mem, csr>>
    BY <1>0, <1>1, QuietData, QuietCsr
  <1>3. ex'.pc = ex.pc /\ ex'.op = ex.op
    BY <1>0, StallNext DEF Stalled, TypeOK, Stage
  <1>4. ArchPc' = ArchPc
    BY <1>0, <1>3, ArchPcInExecute
  <1> QED BY <1>0, <1>2, <1>4, Stutters

\* Every other instruction is seen when its result is written and the next one
\* is decoded.
LEMMA RetireSeen ==
  ASSUME PipeInv, Disciplined, Next, NoRequest, ~Stall, ~Flush,
         state \in {"exec", "wait"}, ~Idle
  PROVE  ISA!Next
  <1>0. /\ TypeOK /\ Edge /\ InExecute /\ InLine /\ (Fresh \/ Computed) /\ ex.op # "nop"
        /\ state = "wait" => Fresh /\ ex.op = "lw"
    BY FsmMoves, StallsFor DEF PipeInv, ControlInv, Execution
  <1> DEFINE i == rom[ex.pc]
  <1>1. state' = "exec" /\ ArchPc = ex.pc /\ ArchPc' = Plus(ex.pc, 1)
    BY <1>0, DecodingNext, ArchPcInExecute DEF InLine
  <1>2. /\ i = ISA!I /\ ex.op = i.op /\ ex.rd = i.rd /\ ex.imm = i.imm
        /\ A = ISA!Rs1 /\ B = ISA!Rs2 /\ i.op \in Op /\ Bus = BusOp(i.op)
    BY <1>0, <1>1 DEF InExecute, ISA!I, ISA!Rs1, ISA!Rs2, TypeOK, Stage, Instruction, Bus
  <1>3. ~Penalty /\ i.op \notin {"ecall", "ebreak", "mret", "jal", "jalr", "wfi", "illegal"}
    <2>1. ~Penalty
      BY DEF Flush
    <2>2. i.op \notin {"ecall", "ebreak"}
      BY <1>0, <1>2 DEF InExecute, NoRequest, InterruptRequest, LicCause
    <2>3. Orderly(i)
      BY <1>0 DEF PipeInv, TypeOK, Stage
    <2> QED BY <1>2, <2>1, <2>2, <2>3 DEF Penalty, Orderly
  <1>4. rom' = rom /\ (Bus # "write" => mem' = mem)
    BY <1>0, QuietData
  <1>5. UserCsr
    BY <1>0 DEF Edge, CsrUnit
  <1>6. ASSUME i.op \notin {"csrrw", "csrsi", "csrci"} PROVE ISA!Trapless
    <2>1. csr' = csr
      BY <1>0, <1>2, <1>6, QuietCsr DEF BusOp
    <2> QED BY <1>1, <1>4, <2>1, ArchCsrs DEF ISA!Trapless
  <1>7. ASSUME ex.rd_en PROVE ISA!Write(i.rd, Result)
    BY <1>0, <1>2, <1>7 DEF Edge, RegisterWrite, Retires, ISA!Write
  <1>8. ASSUME ~ex.rd_en PROVE regs' = regs
    BY <1>0, <1>8, QuietData
  <1>9. CASE i.op \in {"addi", "add", "auipc", "lw", "mul", "divu"}
    <2>1. Result = ISA!Value
      <3>1. CASE i.op \in {"mul", "divu"}
        <4>1. Computed
          BY <1>0, <1>2, <3>1 DEF Fresh, Stall
        <4> QED BY <1>2, <3>1, <4>1, IsaWords DEF Computed, Result, ISA!Value
      <3>2. CASE i.op \in {"addi", "add", "auipc", "lw"}
        BY <1>1, <1>2, <3>2, IsaWords DEF Result, Address, ISA!Value
      <3> QED BY <1>9, <3>1, <3>2
    <2>2. ISA!Write(i.rd, ISA!Value)
      <3>1. CASE ex.rd_en
        BY <1>7, <2>1, <3>1
      <3>2. CASE ~ex.rd_en
        <4>1. i.rd = 0
          BY <1>0, <1>2, <1>9, <3>2 DEF Fresh, Computed, Stall
        <4> QED BY <1>8, <3>2, <4>1 DEF ISA!Write
      <3> QED BY <3>1, <3>2
    <2>3. mem' = mem
      BY <1>2, <1>4, <1>9 DEF BusOp
    <2> QED BY <1>1, <1>2, <1>6, <1>9, <2>2, <2>3, IsaWords DEF ISA!Compute, ISA!Next
  <1>10. CASE i.op = "sw"
    <2>1. ~ex.rd_en
      BY <1>0, <1>2, <1>10 DEF Fresh, Computed
    <2>2. mem' = [mem EXCEPT ![Address] = B]
      BY <1>0, <1>2, <1>10 DEF Edge, Memory, BusOp
    <2>3. mem' = ISA!Stored
      BY <1>2, <2>2, IsaWords DEF Address, ISA!Stored
    <2> QED BY <1>1, <1>2, <1>6, <1>8, <1>10, <2>1, <2>3, IsaWords DEF ISA!Store, ISA!Next
  <1>11. CASE i.op \in {"beq", "bne"}
    <2>1. ~ex.rd_en
      BY <1>0, <1>2, <1>11 DEF Fresh, Computed
    <2>2. mem' = mem
      BY <1>2, <1>4, <1>11 DEF BusOp
    <2>3. ~(i.op = "beq" <=> ISA!Rs1 = ISA!Rs2)
      BY <1>2, <1>3, <1>11 DEF Penalty
    <2> QED BY <1>1, <1>2, <1>6, <1>8, <1>11, <2>1, <2>2, <2>3, IsaWords DEF ISA!Branch, ISA!Next
  <1>12. CASE i.op = "csrrw"
    <2>1. Fresh /\ state = "exec" /\ ~csr.mie /\ Bus = "csrrw"
      BY <1>0, <1>2, <1>12 DEF Computed, Disciplined, BusOp
    <2>2. csr' = [csr EXCEPT !.mscratch = A]
      BY <1>0, <1>5, <2>1 DEF UserCsr, MscratchNext, TypeOK, Csrs
    <2>3. /\ UNCHANGED <<ArchMie, ArchMpie, ArchMcause, ArchResume>> /\ ~ArchMie
          /\ csr'.mscratch = A
      <3>1. /\ csr'.mie = csr.mie /\ csr'.mpie = csr.mpie /\ csr'.mcause = csr.mcause
            /\ csr'.mepc = csr.mepc /\ csr'.mscratch = A
        BY <1>0, <2>2 DEF TypeOK, Csrs
      <3>2. Mepc' = Mepc
        BY <3>1 DEF Mepc
      <3> QED BY <1>1, <2>1, <3>1, <3>2, ArchCsrs
    <2>4. ISA!Write(i.rd, csr.mscratch)
      <3>1. Result = csr.mscratch
        BY <1>2, <1>12 DEF Result
      <3>2. ~ex.rd_en => i.rd = 0
        BY <1>2, <1>12, <2>1 DEF Fresh
      <3> QED BY <1>7, <1>8, <3>1, <3>2 DEF ISA!Write
    <2>5. mem' = mem
      BY <1>4, <2>1
    <2> QED BY <1>1, <1>2, <1>4, <1>12, <2>3, <2>4, <2>5, IsaWords DEF ISA!SwapScratch, ISA!Next
  <1>13. CASE i.op \in {"csrsi", "csrci"}
    <2>1. ~ex.rd_en /\ Bus = i.op
      BY <1>0, <1>2, <1>13 DEF Fresh, Computed, BusOp
    <2>2. csr' = [csr EXCEPT !.mie = (i.op = "csrsi")]
      BY <1>0, <1>5, <1>13, <2>1 DEF UserCsr, MscratchNext, TypeOK, Csrs
    <2>3. /\ csr'.mie = (i.op = "csrsi") /\ csr'.mpie = csr.mpie /\ csr'.mcause = csr.mcause
          /\ csr'.mepc = csr.mepc /\ csr'.mscratch = csr.mscratch
      BY <1>0, <2>2 DEF TypeOK, Csrs
    <2>4. Mepc' = Mepc
      BY <2>3 DEF Mepc
    <2>5. mem' = mem /\ regs' = regs
      BY <1>4, <1>8, <1>13, <2>1
    <2> QED BY <1>0, <1>1, <1>2, <1>4, <1>13, <2>3, <2>4, <2>5, ArchCsrs, IsaWords
            DEF ISA!SetEnable, ISA!Next
  <1> QED BY <1>2, <1>3, <1>9, <1>10, <1>11, <1>12, <1>13 DEF Op

-----------------------------------------------------------------------------

\* Every edge of the core is a step of the architecture or none.
LEMMA IsaStep == PipeInv /\ Disciplined /\ [Next]_vars => [ISA!Next]_ISA!vars
  <1> SUFFICES ASSUME PipeInv, Disciplined, [Next]_vars
               PROVE  ISA!Next \/ UNCHANGED ISA!vars
    OBVIOUS
  <1>1. CASE UNCHANGED vars
    <2>1. UNCHANGED <<ArchPc, ArchMie, ArchMpie, ArchMcause, ArchResume>>
      BY <1>1 DEF vars, ArchPc, BubbleInExec, ArchMie, ArchMpie, ArchMcause, ArchResume,
                  Returning, Mepc
    <2> QED BY <1>1, <2>1 DEF vars, ISA!vars
  <1>2. CASE Next
    <2> USE <1>2
    <2>1. state \in States
      BY FsmMoves
    <2>2. CASE ~NoRequest
      BY <2>2, TrapSeen DEF ISA!Next
    <2>3. CASE NoRequest /\ state \in {"boot0", "boot1", "intr", "intr2", "mret", "mret2"}
      BY <2>3, BubbleSeen
    <2>4. CASE NoRequest /\ state = "flush"
      BY <2>4, FinishJumpSeen
    <2>5. CASE NoRequest /\ state = "md"
      <3>1. state' \in {"exec", "md"} /\ Stall
        BY <2>5, MulDivNext
      <3> QED BY <2>5, <3>1, StallSeen
    <2>6. CASE NoRequest /\ state = "wait"
      <3>1. ~Stall /\ ~Flush /\ ~Idle
        BY <2>6 DEF PipeInv, Execution, Stall, Flush, Penalty, Idle
      <3> QED BY <2>6, <3>1, RetireSeen
    <2>7. CASE NoRequest /\ state = "exec" /\ Idle
      BY <2>7, TargetSeen
    <2>8. CASE NoRequest /\ state = "exec" /\ ~Idle
      <3>1. CASE Penalty
        BY <2>8, <3>1, JumpSeen, ReturnSeen DEF ISA!Next
      <3>2. CASE ~Penalty /\ Stall
        BY <2>8, <3>2, LoadNext, StartNext, StallSeen DEF Stall
      <3>3. CASE ~Penalty /\ ~Stall
        <4>1. ~Flush
          BY <2>8, <3>3 DEF Flush
        <4> QED BY <2>8, <3>3, <4>1, RetireSeen
      <3> QED BY <3>1, <3>2, <3>3
    <2> QED BY <2>1, <2>2, <2>3, <2>4, <2>5, <2>6, <2>7, <2>8 DEF States
  <1> QED BY <1>1, <1>2

\* The core starts where the architecture does.
LEMMA IsaInit == Init => ISA!Init
  BY DEF Init, ISA!Init, ISA!Reg, Reg, ArchPc, BubbleInExec, ArchMie, ArchMpie, ArchMcause,
         ArchResume, Returning, Mepc

\* The core executes its program in order, each instruction once and with the
\* operands of the ones before it, takes interrupts between two instructions and
\* comes back to the right one, for every program that uses none of what
\* Orderly excludes, as long as it swaps CSRs and returns from traps with
\* interrupts disabled (core.vhd:104-1086, csr.vhd:180-270).
THEOREM CoreImplementsIsa ==
  ASSUME \A p \in Programs : \A a \in Word : Orderly(p[a])
  PROVE  Spec /\ []Disciplined => ImplementsIsa
  <1>1. Init => PipeInv
    BY PipeInit
  <1>2. PipeInv /\ Disciplined /\ [Next]_vars => PipeInv'
    BY PipeStep
  <1>3. PipeInv /\ Disciplined /\ [Next]_vars => [ISA!Next]_ISA!vars
    BY IsaStep
  <1> QED BY <1>1, <1>2, <1>3, IsaInit, PTL DEF Spec, ImplementsIsa, ISA!Spec
=============================================================================
