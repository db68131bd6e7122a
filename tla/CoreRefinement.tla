--------------------------- MODULE CoreRefinement ---------------------------
(***************************************************************************)
(* The pipelined core implements the instruction set architecture Isa: the *)
(* refinement mapping, and the properties of the pipeline checked on it.   *)
(***************************************************************************)
EXTENDS Core

\* A bubble reaches exec only while a jump target or the handler is fetched.
BubbleInExec == state = "exec" /\ ex.op = "nop"

\* The instruction the programmer sees as next: the one a trap would have to
\* save.  After a jump that is still the jump for as long as an interrupt can
\* come; while the handler or the MRET target is fetched, that address.
ArchPc ==
  CASE state = "boot0" -> pc
    [] state = "boot1" -> pc_fetch
    [] state = "intr"  -> Mtvec
    [] state = "intr2" -> pc
    [] state = "mret"  -> pc
    [] state = "mret2" -> pc_fetch
    [] state = "flush" /\ csr.mie   -> pc_to_mepc
    [] state = "flush" /\ ~csr.mie  -> pc
    [] BubbleInExec /\ csr.mie      -> pc_to_mepc
    [] BubbleInExec /\ ~csr.mie     -> pc_fetch
    [] OTHER           -> ex.pc

\* From the edge that loads the saved pc, MRET has happened; the CSRs follow
\* two edges later.
Returning  == state \in {"mret", "mret2"}
ArchMie    == IF Returning THEN csr.mpie ELSE csr.mie
ArchMpie   == IF Returning THEN TRUE ELSE csr.mpie
ArchMcause == IF Returning THEN "none" ELSE csr.mcause
ArchResume == IF Returning THEN 0 ELSE Mepc

ISA == INSTANCE Isa WITH
  pc       <- ArchPc,
  mie      <- ArchMie,
  mpie     <- ArchMpie,
  mcause   <- ArchMcause,
  resume   <- ArchResume,
  mscratch <- csr.mscratch

\* What a program must keep to for its instructions to be executed as the
\* architecture says (the runs core_restart, core_zero and core_illegal show
\* why): no WFI, no illegal instruction, no load and no multiplication into x0,
\* no JALR whose link register is also its base,
Orderly(i) ==
  /\ i.op \notin {"wfi", "illegal"}
  /\ i.op \in {"mul", "divu", "lw"} => i.rd # 0
  /\ i.op = "jalr" => i.rd = 0 \/ i.rd # i.rs1

\* and CSRRW and MRET in handlers only, with interrupts disabled.
Disciplined == (state = "exec" /\ ex.op \in {"csrrw", "mret"}) => ~csr.mie

\* Whatever is in flight, and whenever interrupts come, the pipeline executes
\* the program as the architecture says: in order, each instruction once, with
\* its operands forwarded, its jumps flushed and its traps restartable.
ImplementsIsa == ISA!Spec

\* A trap handler that is entered is left again: MRET reaches the release of
\* the interrupt.  (Handlers of the checked programs are straight lines.)
TrapsReturn == (state = "intr") ~> (state = "mret2")

\* A program without loops reaches its end, whatever traps it takes on the way
\* and whatever multiplication or division they interrupt, provided that the
\* handlers negate the request (DOCS/riscv-pipe3-csr-md-lic.tex:721).
ProgramEnds == []<>~line => <>(state = "exec" /\ ex.op = "jal" /\ ex.rd = 0)
-----------------------------------------------------------------------------
(* What the documentation says and the core does not do *)

\* DOCS/riscv-pipe3-csr-md-lic.tex:174, "Reading this register [x0] returns all
\* zero bits": operand A of an instruction that names x0 is zero.
ZeroRegisterReadsZero ==
  state = "exec" /\ ex.op # "nop" /\ ex.rs1 = 0 => A = 0

\* DOCS/riscv-pipe3-csr-md-lic.tex:337, "the current instruction is discarded
\* and must be restarted after return": what an interrupt discards has had no
\* effect, so that the restarted program computes the same (x2 is at most one in
\* the programs of this run), and writes to a device once.
InterruptedIsDiscarded ==
  /\ [](regs[2] <= 1)
  /\ [][ LicCause = "interrupt" => mem' = mem ]_vars

\* universal_handler.c:307 expects to be entered with mcause 2 for an illegal
\* instruction: its first instruction gets executed.
IllegalReachesHandler ==
  (ex.req = "illegal") ~> (state = "exec" /\ ex.op # "nop" /\ ex.pc = Mtvec)
=============================================================================
