------------------------------ MODULE Vectored ------------------------------
(***************************************************************************)
(* The interrupt programs.  In CODE/interrupt_vectored a trap goes through *)
(* the jump table: interrupts to a handler each, exceptions to             *)
(* universal_handler, which saves the registers, answers system calls and  *)
(* breakpoints, and restores.  In CODE/interrupt_direct all traps go to    *)
(* universal_handler, which calls the handlers as functions.  The causes   *)
(* are numbered by the interrupt logic (lic.vhd), the table and the tests  *)
(* by the programs.                                                        *)
(*                                                                         *)
(* A step is a handler, or a part of one when the time is read, or a step  *)
(* of main.  The devices are in the module Interrupts at a finer grain;    *)
(* here they are the levels of their lines, and what usart_puts prints is  *)
(* left out.                                                               *)
(***************************************************************************)
EXTENDS Library

CONSTANTS
  Delta,         \* where external_timer_delta is in the RAM
  EbreakEvery,   \* the calls of gettimeofday for an EBREAK, 400
  LibraryCalls,  \* other system calls the C library makes: [id, a0, a1]
  MaxEvents      \* interrupts of TIMER1, of the USART and of the test pin

ASSUME HandlerAssumption ==
  /\ Delta \in Sdata .. Edata - 1 /\ EbreakEvery \in Nat \ {0}
  /\ \A c \in LibraryCalls : c.a0 \in Int /\ c.a1 \in Nat

Registers == {"a0", "a1", "s0"}
NoRegisters == [r \in Registers |-> 0]

VARIABLES
  regs,      \* registers of the processor
  saved,     \* what universal_handler has pushed on the stack
  csr,       \* mstatus.MIE, mie.MTIE, mcause, mepc
  lines,     \* which of TIMER1, USART and the test pin request an interrupt
  timecmp,   \* TIMECMPH:TIMECMP
  events,
  before     \* the registers at the latest trap, for the properties

InterruptPrograms == {"direct", "vectored"}

vectored == <<regs, saved, csr, lines, timecmp, events, before>>

-----------------------------------------------------------------------------
(* The interrupt logic *)

TimerLine == time >= timecmp

\* Interrupts have the priority, timer first.
Interrupt ==
  CASE csr.mie /\ csr.mtie /\ TimerLine -> 7
    [] csr.mie /\ ~(csr.mtie /\ TimerLine) /\ "usart" \in lines -> 18
    [] csr.mie /\ ~(csr.mtie /\ TimerLine) /\ "usart" \notin lines
         /\ "timer1" \in lines -> 17
    [] csr.mie /\ ~(csr.mtie /\ TimerLine) /\ lines = {"pin"} -> 16
    [] OTHER -> -1

ECALL == 11
EBREAK == 3

\* Mutant: the first core local interrupt is 16, TIMER1's entry.
TableFromSixteen(n) ==
  CASE n = 0  -> "universal_handler"
    [] n = 7  -> "external_timer_handler"
    [] n = 16 -> "timer1_cmpt_handler"
    [] n = 17 -> "usart_handler"
    [] OTHER  -> "default_handler"

handler_jump_table(n) ==
  CASE n = 0  -> "universal_handler"
    [] n = 7  -> "external_timer_handler"
    [] n = 17 -> "timer1_cmpt_handler"
    [] n = 18 -> "usart_handler"
    [] OTHER  -> "default_handler"

\* In vectored mode an interrupt has an entry of its own, an exception the base.
Entry(cause, interrupt) ==
  IF mtvec.to = "handler_jump_table"
  THEN handler_jump_table(IF mtvec.vectored /\ interrupt THEN cause ELSE 0)
  ELSE mtvec.to

NotTraps == <<image, prog, pointer, ram, resets, frame, out>>

Entered(cause, mepc) == [csr EXCEPT !.mie = FALSE, !.mcause = cause, !.mepc = mepc]

\* mepc is where the program goes on.
Trap(cause, interrupt, mepc) ==
  /\ at' = Entry(cause, interrupt)
  /\ csr' = Entered(cause, mepc)
  /\ before' = regs
  /\ UNCHANGED <<NotTraps, mtvec, time, timer, regs, saved, lines, timecmp, events>>

MainSteps == {"main", "mode", "mtie", "mie", "loop", "ecall", "ecalled", "counted", "ebreak"}

InMain == prog \in InterruptPrograms /\ at \in MainSteps

TakeInterrupt == Interrupt # -1 /\ Trap(Interrupt, TRUE, at)

\* After ECALL and EBREAK main goes on with the next instruction.
TakeException ==
  /\ InMain /\ Interrupt = -1
  /\ \/ at = "ecall" /\ Trap(ECALL, FALSE, "ecalled")
     \/ at = "ebreak" /\ Trap(EBREAK, FALSE, "loop")

NoTrap == [mie |-> FALSE, mtie |-> FALSE, mcause |-> 0, mepc |-> "main"]

\* What was pushed is gone.
Return ==
  /\ at' = csr.mepc
  /\ csr' = [csr EXCEPT !.mie = TRUE, !.mcause = 0, !.mepc = "main"]
  /\ saved' = NoRegisters /\ before' = NoRegisters

\* The line of a device rises.
Event ==
  /\ InMain /\ events < MaxEvents
  /\ events' = events + 1
  /\ \E l \in {"timer1", "usart", "pin"} \ lines : lines' = lines \cup {l}
  /\ UNCHANGED <<NotTraps, at, mtvec, time, timer, regs, saved, csr, timecmp, before>>

-----------------------------------------------------------------------------
(* The interrupt handlers *)

\* What the compiler has left in the registers; the services return in a0.
Junk == -2
Clobbered(a0) == [r \in Registers |-> IF r = "a0" THEN a0 ELSE Junk]

\* An interrupt function restores the registers it uses; in direct mode the
\* handler is a plain function.
HandlerReturns ==
  IF prog = "vectored"
  THEN Return /\ UNCHANGED regs
  ELSE at' = "reload_a0" /\ regs' = Clobbered(Junk) /\ UNCHANGED <<csr, saved, before>>

Handles(handler) ==
  /\ prog \in InterruptPrograms /\ at = handler
  /\ UNCHANGED <<NotTraps, mtvec, time, events>>

timer1_cmpt_handler ==
  /\ Handles("timer1_cmpt_handler")
  /\ lines' = lines \ {"timer1"}
  /\ HandlerReturns /\ UNCHANGED <<timer, timecmp>>

CharacterRead == lines \ {"usart"}

usart_handler ==
  /\ Handles("usart_handler")
  /\ lines' = CharacterRead
  /\ HandlerReturns /\ UNCHANGED <<timer, timecmp>>

\* The time is read in a loop like that of gettimeofday, see RdTimeH.
external_timer_handler ==
  /\ Handles("external_timer_handler")
  /\ ReadTime
  /\ UNCHANGED <<regs, csr, saved, before, lines, timecmp>>

SetDeadline ==
  /\ csr.mcause = 7 /\ Handles("timed")
  /\ timecmp' = thetime + ram[Delta]
  /\ timer' = NoTimer
  /\ HandlerReturns /\ UNCHANGED lines

\* It holds the processor.
default_handler ==
  /\ Handles("default_handler")
  /\ at' = "held"
  /\ UNCHANGED <<regs, csr, saved, before, lines, timer, timecmp>>

-----------------------------------------------------------------------------
(* universal_handler *)

call == frame.call

\* The branch for the cause.  In direct mode the interrupts are among them; the
\* test pin is an unknown cause, in whose branch nothing is done.
Branch ==
  CASE csr.mcause = ECALL  -> "service"
    [] csr.mcause = EBREAK -> "debugger"
    [] csr.mcause = 7 /\ prog = "direct"  -> "external_timer_handler"
    [] csr.mcause = 18 /\ prog = "direct" -> "usart_handler"
    [] csr.mcause = 17 /\ prog = "direct" -> "timer1_cmpt_handler"
    [] OTHER -> "reload_a0"

UniversalHandler ==
  /\ prog \in InterruptPrograms /\ at = "universal_handler"
  /\ saved' = regs
  /\ IF csr.mcause = ECALL /\ call = "gettimeofday" THEN ReadTime
     ELSE at' = Branch /\ UNCHANGED timer
  /\ UNCHANGED <<NotTraps, mtvec, time, regs, csr, lines, timecmp, events, before>>

\* brk returns the base of the heap, or the new end if it is below the stack.
Brk(a0) ==
  CASE a0 = 0 -> Returns(EndOfData)
    [] a0 # 0 /\ a0 < StackLimit -> Returns(a0)
    [] OTHER -> Fails(ENOMEM)

\* Mutant: unlink answers like open and close.
ServiceOfFiles(id, a0, a1) ==
  CASE id = "brk" -> Brk(a0)
    [] id \in {"read", "write"} -> Returns(a1)
    [] id \in {"exit", "lseek"} -> Returns(0)
    [] id \in {"open", "close", "unlink"} -> Fails(EBADF)
    [] id \in {"fstat", "stat", "fstatat", "lstat"} -> Stats
    [] id = "link" -> Fails(EMLINK)
    [] id = "access" -> Fails(EACCES)
    [] OTHER -> Fails(ENOSYS)

Service(id, a0, a1) ==
  CASE id = "brk" -> Brk(a0)
    [] id \in {"read", "write"} -> Returns(a1)
    [] id \in {"exit", "lseek"} -> Returns(0)
    [] id \in {"open", "close"} -> Fails(EBADF)
    [] id \in {"fstat", "stat", "fstatat", "lstat"} -> Stats
    [] id = "unlink" -> Fails(ENOENT)
    [] id = "link" -> Fails(EMLINK)
    [] id = "access" -> Fails(EACCES)
    [] OTHER -> Fails(ENOSYS)

InHandler(from, to) ==
  /\ prog \in InterruptPrograms /\ at = from /\ at' = to
  /\ UNCHANGED <<NotTraps, mtvec, time, timer, saved, csr, lines, timecmp, events, before>>

\* For read and write a1 stands for the length, which the code has in a2.  write
\* sends its characters, one after the other; the struct stat is in the frame of
\* the caller.
SystemCall ==
  LET s == Service(call, regs["a0"], regs["a1"]) IN
  /\ prog \in InterruptPrograms /\ at = "service" /\ at' = "restore"
  /\ ram' = IF s.errno = 0 THEN ram ELSE [ram EXCEPT ![Errno] = s.errno]
  /\ frame' = [frame EXCEPT !.st_mode = s.st_mode]
  /\ out' = IF call = "write" THEN [i \in 1 .. regs["a1"] |-> "x"] ELSE out
  /\ regs' = Clobbered(s.ret)
  /\ UNCHANGED <<image, prog, pointer, resets, mtvec, time, timer, saved, csr, lines,
                 timecmp, events, before>>

\* The struct timeval is in main's frame.
TimeOfDay ==
  /\ csr.mcause = ECALL
  /\ prog \in InterruptPrograms /\ at = "timed" /\ at' = "restore"
  /\ frame' = [frame EXCEPT !.tv = _gettimeofday]
  /\ timer' = NoTimer
  /\ regs' = Clobbered(0)
  /\ UNCHANGED <<image, prog, pointer, ram, resets, out, mtvec, time, saved, csr, lines,
                 timecmp, events, before>>

Debugger ==
  /\ InHandler("debugger", "reload_a0")
  /\ regs' = Clobbered(Junk)

\* The exceptions restore a0 in their branches.
ReloadA0 ==
  /\ InHandler("reload_a0", "restore")
  /\ regs' = [regs EXCEPT !["a0"] = saved["a0"]]

\* Mutant: s0 is taken for a register that the compiler saves.
RestoredButS0 == [regs EXCEPT !["a1"] = saved["a1"]]

\* All but a0.
Restored == [r \in Registers |-> IF r = "a0" THEN regs[r] ELSE saved[r]]

Restore ==
  /\ prog \in InterruptPrograms /\ at = "restore"
  /\ regs' = Restored
  /\ Return
  /\ UNCHANGED <<NotTraps, mtvec, time, timer, lines, timecmp, events>>

Handler ==
  \/ timer1_cmpt_handler \/ usart_handler \/ external_timer_handler \/ SetDeadline
  \/ default_handler
  \/ UniversalHandler \/ SystemCall \/ TimeOfDay \/ Debugger \/ ReloadA0 \/ Restore

-----------------------------------------------------------------------------
(* main.c *)

Main(from, to) ==
  /\ InMain /\ Interrupt = -1
  /\ at = from /\ at' = to
  /\ TimePasses
  /\ UNCHANGED <<image, prog, pointer, ram, resets, timer, saved, lines, timecmp,
                 events, before>>

NoTimeval == [sec |-> 0, usec |-> 0]

\* set_mtvec, in two instructions for the vectored mode
SetMtvec ==
  /\ \/ prog = "vectored" /\ Main("main", "mode")
     \/ prog = "direct" /\ Main("main", "mtie")
  /\ mtvec' = [to |-> IF prog = "direct" THEN "universal_handler" ELSE "handler_jump_table",
               vectored |-> FALSE]
  /\ frame' = [ebreak_counter |-> 0, tv |-> NoTimeval, call |-> "none", st_mode |-> 0]
  /\ UNCHANGED <<out, regs, csr>>

SetVectoredMode ==
  /\ Main("mode", "mtie")
  /\ mtvec' = [mtvec EXCEPT !.vectored = TRUE]
  /\ UNCHANGED <<frame, out, regs, csr>>

enable_external_timer_irq ==
  /\ Main("mtie", "mie")
  /\ csr' = [csr EXCEPT !.mtie = TRUE]
  /\ UNCHANGED <<mtvec, frame, out, regs>>

enable_irq ==
  /\ Main("mie", "loop")
  /\ csr' = [csr EXCEPT !.mie = TRUE]
  /\ UNCHANGED <<mtvec, frame, out, regs>>

\* The C library loads the registers for a system call: gettimeofday, or one
\* it makes for itself.  s0 holds a value of main's until the call is over.
CallSystem ==
  /\ Main("loop", "ecall")
  /\ \E c \in LibraryCalls \cup {[id |-> "gettimeofday", a0 |-> 1, a1 |-> 0]} :
       /\ frame' = [frame EXCEPT !.call = c.id]
       /\ regs' = [a0 |-> c.a0, a1 |-> c.a1, s0 |-> 1]
  /\ UNCHANGED <<mtvec, out, csr>>

ShowTime ==
  /\ Main("ecalled", IF call = "gettimeofday" THEN "counted" ELSE "loop")
  /\ frame' = [frame EXCEPT !.tv = NoTimeval, !.call = "none", !.st_mode = 0]
  /\ out' = <<>> /\ regs' = NoRegisters
  /\ UNCHANGED <<mtvec, csr>>

Count ==
  /\ Main("counted", IF frame.ebreak_counter + 1 = EbreakEvery THEN "ebreak" ELSE "loop")
  /\ frame' = [frame EXCEPT !.ebreak_counter = (@ + 1) % EbreakEvery]
  /\ UNCHANGED <<mtvec, out, regs, csr>>

MainLoop ==
  \/ SetMtvec \/ SetVectoredMode \/ enable_external_timer_irq \/ enable_irq
  \/ CallSystem \/ ShowTime \/ Count

InterruptNext == TakeInterrupt \/ TakeException \/ Handler \/ MainLoop

VectoredInit ==
  /\ regs = NoRegisters /\ saved = NoRegisters /\ before = NoRegisters
  /\ csr = NoTrap /\ lines = {} /\ timecmp = 0 /\ events = 0

-----------------------------------------------------------------------------
(* Properties *)

\* The end of a handler.
Finished(label) == prog \in InterruptPrograms /\ at = label /\ at' = csr.mepc

Enders == {"timer1_cmpt_handler", "usart_handler", "timed", "restore"}

\* A trap leaves main's registers as they were, but for the a0 of a system
\* call, whatever handler ran and whatever the compiler put in the registers
\* (universal_handler.c:127-159, 332-392).
RegistersSurvive ==
  [][(\E label \in Enders : Finished(label)) =>
       \A r \in Registers :
         regs'[r] = before[r] \/ (r = "a0" /\ csr.mcause = ECALL)]_<<at, regs, csr>>

\* A program gets the same answer from the trap handler as from the stubs that
\* the other programs are linked with, and the same errno where both set it
\* (universal_handler.c:178-331, syscalls.c:13-72, sys_read_write.c:23-37).
ServicesAgree ==
  [][Finished("restore") /\ csr.mcause = ECALL =>
       /\ call \in DOMAIN stub =>
            /\ regs'["a0"] = stub[call].ret
            /\ stub[call].errno # 0 => ram[Errno] = stub[call].errno
            /\ stub[call].st_mode # 0 => frame.st_mode = stub[call].st_mode
       /\ call = "write" => /\ regs'["a0"] = _write(out, before["a1"]).ret
                            /\ out = _write(out, before["a1"]).sent
       /\ call = "read" => regs'["a0"] = _read(before["a1"]).ret
       /\ call = "brk" /\ regs'["a0"] # -1 =>
            before["a0"] = 0 \/ SbrkFits(before["a0"], 0)]_<<at, regs, csr, out>>

\* What the timer handler sets is external_timer_delta, as the linker
\* initialised it, from the time at which it ran (handlers.c:72-86), although
\* the variable came through the S-records, the ROM and the start-up code.
DeadlineIsAhead ==
  [][csr.mcause = 7 /\ at = "timed" /\ at' \in {csr.mepc, "reload_a0"} =>
       timecmp' - Contents[RomToCopy + Delta - Sdata] \in timer.called .. time]_<<at, timecmp>>

\* Only the test pin, which has no handler of its own, makes the processor stop
\* in a default handler.
StoppedByPin == at = "held" /\ prog = "vectored" /\ csr.mcause = 16

\* With interrupts enabled every request of TIMER1 and the USART is served,
\* since the table counts like the interrupt logic and is in place before
\* interrupts are enabled (universal_handler.c:81-114, main.c:29-45), unless the
\* test pin stops the processor; in direct mode, where the test pin traps for
\* ever, it delays only main.
LinesServed ==
  /\ csr.mie /\ "timer1" \in lines ~> "timer1" \notin lines \/ StoppedByPin
  /\ csr.mie /\ "usart" \in lines ~> "usart" \notin lines \/ StoppedByPin
=============================================================================
