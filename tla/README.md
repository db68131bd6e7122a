# TLA+ verification of riscv-minimal

This directory holds a formal model of the RISC-V microcontroller in this repository:
the three-stage pipelined core with its multiplier and divider, the USART, the interrupt
programs with the devices they drive, the serial upload of programs, the two monitors,
and the way of a program from its S-records through the ROM and the start-up code to its
end on the C library. The modules are checked with TLC and, where a result should hold
for every size and not only for a small instance, proved with TLAPS. Paths are relative
to the root of the repository.

    tlc -workers 2 -config CoreIsa.cfg MCCore.tla       check one run
    tlapm CoreProofs.tla                                check the proofs of a module

## 1. Inventory

### Hardware (`HARDWARE/riscv-pipe3-csr-md-lic.bootloader`)

| part | state | operations | meets |
|---|---|---|---|
| core (`core.vhd`) | control FSM, `pc`, fetch address, decode registers, forwarding registers, register file, multiplier, divider | every process at every clock edge: fetch, decode, execute, retire, stall, flush, trap, return | ROM and RAM (bus), LIC (requests), CSRs |
| LIC (`lic.vhd`) | none | priorities of interrupts and exceptions, `mcause` | core, CSRs |
| CSRs (`csr.vhd`) | `mstatus`, `mie`, `mtvec`, `mepc`, `mcause`, `mscratch`, counters | the user's operation, a trap, a release | core, LIC |
| I/O (`io.vhd`) | System Timer, TIMER1, USART, GPIO | counting, comparing, shifting; reads with side effects | LIC (lines), software (registers) |
| memories, address decoder | RAM, ROM, boot ROM | word, halfword and byte accesses, misalignment | core |

The hard behaviours are all in the core and at its borders. An interrupt may come at any
edge: in a load's wait state, in the flush cycle of a jump, in any iteration of a
division. The FSM, the decode registers and the CSRs *each* decide whether it is taken,
from conditions that are written three times. The instruction that is discarded must be
restartable, so its address must be known and it must not have had an effect. Results
are forwarded around all that.

*Correct* means: the programmer sees instructions take effect one at a time and in
order; an interrupt falls between two instructions; a trap that is recorded is taken; no
request outlives the cycle that answers it; the processor never stops.

The USART adds a hazard of its own: two boards count bits in clocks of their own, from
half a bit after an edge. The divider adds numbers: two digits of the quotient at an
edge, signs taken off and put back, divisor zero.

Two further variants share most of this code: `riscv-pipe3-csr-md-lic` differs in its
reset address, and `riscv-pipe-csr-md-lic` has two stages. `RETIRED` and `OLD` hold
superseded versions.

### Software (`CODE`)

| part | state | operations | meets |
|---|---|---|---|
| `interrupt_direct`, `interrupt_vectored` | the two words of time in a handler, saved registers, heap end, `ebreak_counter` | main loop, trap handler or jump table, one handler per device, system calls | System Timer, TIMER1, USART, CSRs |
| `bootloader` | where it is in a record, memory, `app_start` | boot wait, S-record upload, monitor | USART, `upload` |
| `monitor` | line buffer, byte order | peek, poke, formats | USART, memory |
| `usart_gets` (in seven programs) | buffer, index | insert, erase, ^U, ^C, end of line | terminal, callers |
| `upload` (on the host) | line of the file, timeout | write a line, wait for a newline | bootloader through a serial line |
| `srec2vhdl`, `srec2mif` | address of the first record, table | options, files, S-records to ROM images | files, ROM |
| start-up code (`crt/startup.c` and its copies) | `pStart`, `pdRom` | stack pointer, `mtvec`, bss, data, `main` | ROM, RAM, linker script, resets |
| C library support (`syscalls/`) | `__sbrk_heap_end`, `errno` | `_sbrk`, `_gettimeofday`, `_times`, `_read`, `_write`, stubs | `malloc`, `clock`, CSRs |
| examples | a list, blocks, an array, displays | see the components in `PROJECT.json` | library, GPIO, USART |

The hard behaviours: 64-bit registers read and written by halves while the clock runs;
flags that are set by a device, cleared by a handler and polled by the main program; a
handler between the store and the poll of `usart_putc`; a one-character receive register
without flow control; a protocol whose answer is "some newline"; lost characters and
timeouts; resets in the midst of the copying of the data; a buffer that still holds
earlier lines; a heap that is full; the same system call answered in two places; a clock
that wraps in the midst of a wait.

*Correct* means: a time that is read is a time that was; a deadline that is half written
does not fire; `usart_putc` returns; every request is served; host and board stay in
step, so that what has been answered is in memory; `upload` ends; the ROM is the
program, and `main` finds its data; a command does what its line says; a trap leaves the
registers of `main` alone; a block of the heap is nobody else's.

`PROJECT.json` lists every component with its status, and the hazards with the line
where each one bites and the properties that would catch it going wrong.

## 2. Modules

| module | what | extends |
|---|---|---|
| `Isa` | what the core promises: the instruction set, one instruction per step | |
| `Core` | the three-stage pipeline, one clock edge per step | |
| `CoreRefinement` | the mapping from `Core` to `Isa`; liveness; what the documents say | `Core`, instance of `Isa` |
| `MCCore` | the programs that TLC runs | `CoreRefinement` |
| `CoreProofs` | theorems about `Core`; the pipeline implements `Isa`, for every size and program | `CoreRefinement`, TLAPS |
| `MulDiv`, `MCMulDiv` | the multiplier and the two dividers bit by bit | |
| `MulDivProofs` | both dividers divide and the multiplier multiplies, for every width | `MulDiv`, TLAPS |
| `Usart`, `MCUsart` | transmitter, line and receiver clock by clock, `usart_putc` and `usart_getc` | |
| `UsartProofs` | characters arrive, for every format and all clocks that are near enough | `Usart`, TLAPS |
| `Interrupts` | `CODE/interrupt_direct` on timer, TIMER1, USART, LIC and CSRs | |
| `InterruptsProofs` | theorems about `Interrupts` | `Interrupts`, TLAPS |
| `Loader`, `MCLoader` | `CODE/upload` and `CODE/bootloader` on a serial line | |
| `LoaderProofs` | host and board stay in step, for every file | `Loader`, TLAPS |
| `LineEditor` | `usart_gets` | |
| `Monitor`, `MCMonitor` | the commands of the two monitors | `LineEditor` |
| `MonitorProofs` | the screen shows the line, and a command means its line, for every buffer, every command and every typing | `Monitor`, TLAPS |
| `Image` | `srec2vhdl` and `srec2mif`, with the ROM made from their output | |
| `Startup` | the start-up code with resets, and what it promises | `Image` |
| `StartupProofs` | the ROM is the program, for every S-record file; `main` finds its data, for every layout | `Startup`, TLAPS |
| `Library` | heap, time and system calls | `Startup` |
| `LinkedList`, `Examples`, `Timing` | nine example programs | `Library` |
| `Vectored` | the interrupt programs' trap handlers, register by register, and their `main` | `Library` |
| `Board`, `MCBoard` | the composition: tools, ROM, start-up code, program, devices, reset | `Examples`, `Timing`, `Vectored` |
| `BoardProofs` | what every program relies on, for every layout: registers, data, heap, time, system calls | `Board`, `StartupProofs` |

Definitions commented with "Mutant:" are not used by any specification. Each is a
plausible bug in the definition that follows it, and `PROJECT.json` says which property
it violates when it replaces that definition.

### Core

A step of `Core` is a rising edge of `I_clk`. As in the VHDL every process takes its
next value at once: `Edge` is the conjunction of `Decode`, `ProgramCounter`, `Fetch`,
`SavePc`, `RegisterWrite`, `ForwardSave`, `Memory`, `MulDiv`, `CsrUnit` and
`Peripherals`, each named after the process it stands for. `Next` has one action per
transition of the control FSM (`core.vhd:135-240`), each with the whole edge. The
variable `ex` is the set of decode registers; `A`, `B`, `Penalty`, `Stall`, `Flush`,
`Result` are the combinational signals; `LicCause` and `InterruptRequest` are `lic.vhd`.

Kept in full: every FSM transition, stall and flush conditions, what a trap, a stall and
a flush each do to the decode registers, forwarding (its comparators look at register
numbers only, x0 included), the fetch pair `pc_fetch`/ROM output, the saved pc, the
running and ready signals of multiplier and divider with the divider's counter, the
order of user operation, trap and release in the CSRs.

Abstracted:

- A word has `WordSize` values, there are `NumRegs` registers, an instruction is a
  record. The program is any member of `Programs` and is not self-modified. Addresses
  count instructions, so +4 is +1.
- One operation stands for its class: `addi` and `add` for the ALU, `mul` and `divu` for
  the MD unit, `lw` and `sw` for memory, `beq`/`bne` for branches, `csrrw` on `mscratch`
  for CSR swaps, `csrsi`/`csrci` for setting and clearing `mstatus.MIE`. Byte and
  halfword accesses, misalignment, access errors, the counters and software writes to
  `mepc` and `mcause` are left out; `mtvec` is in direct mode.
- The divider's iterations keep the dividend and form the quotient in the last one
  (`DivSteps` of them, 16 in the hardware); what the iterations compute is in `MulDiv`.
- `line` is "an enabled interrupt source is asserted", a level that the devices change
  at any edge; it rises at most `MaxRises` times.

`Isa` is a machine without a pipeline. It is as liberal as the documentation
(`DOCS/riscv-pipe3-csr-md-lic.tex`, trap handling) requires in two places: the link of a
jump may become visible before the jump (`LinkAhead`) and an interrupted store may have
written already (`StoreThenInterrupt`); both are restarted later. In one it is stricter: CSRRW
and MRET are for handlers, where interrupts are disabled. `CoreRefinement` maps
the pipeline to it. Only `pc` and, in the two cycles of an MRET, the CSRs need a
mapping: `ArchPc` is the address that a trap *would have to save*, which is neither `pc`
nor `pc_fetch` in general. `Orderly` and `Disciplined` collect what a program must keep
to for the core to keep its promise; the findings below show what happens to others.

### Interrupts

A step is one instruction that reads or writes a device or a CSR, or one event of a
device. `main` and `handler` are the two program counters; interrupts preempt `main`,
and nothing preempts a handler (MIE is clear). `csr` holds the CSR bits that matter,
`time` and `cmp` the two-word registers of the System Timer, `match1` the flag of
TIMER1, `usart` the flags RC and TC and whether the transmitter is shifting. `Cause` is
the priority encoder of `lic.vhd`, `Dispatch` the switch of `universal_handler.c`. The
loops of `external_timer_handler` and `gettimeofday` read TIMEH, TIME and TIMEH again as
three steps; TIMECMP is written in four (all ones twice, low, high).

Two facts of the hardware that the C source does not show are in the model: a store that
is executing when a trap is taken has written and is executed again (`TakeTrap`, see the
finding `core_restart`), and a write to USART->DATA at the edge where a frame ends
starts a new frame *with TC set*, while one before it is not seen (`DataWritten`).

Abstracted: the prescaler is the arbitrary distance of ticks; TIMER1's counter is "a
match may happen"; the debugger prints one character; the test pin, the illegal
instruction and the erroneous accesses are left out, and so are the system calls that
only return an error; the return address is abstracted to "MRET after ECALL or EBREAK
goes on behind it".

### Loader

A step is one character: written by the host (a line at a time into `wire`), arriving
(`Arrive`), lost (`Lose`), taken by `usart_getc` (the actions with `Getc`), or sent by
`usart_putc` (`SendChar`). `boot` is where `bootloader.c` is, with the field it is
reading; `mem` and `start` are what it has stored; `up` is where `upload.c` is and its
line. `answers` counts the newlines that upload has not read, because upload skips every
other character. The USART keeps one character: the next overwrites it, and the ghost
variable `overrun` records that.

Abstracted: characters are numbers; the board's texts are shortened to a few characters
with the same newlines; the checksum is any two digits, because the bootloader ignores
it; lines are those that `objcopy` writes. Of the monitor only the echo and the prompt
are kept. An application, whether `J` or the end of the boot wait has started it
(`Running`), prints newlines and other characters at any time, and for ever
(`ApplicationPrints`), as `clock` and `interrupt_direct` do; it makes nothing of what
`upload` writes. `mem` is what the bootloader has stored: what an application stores
itself is left out. The user may start `upload` for such a board, too.
The program is much faster than the line, so a character it waits for is taken before
the next arrives; while it sends, at most `Overlap` characters arrive per character
sent.

### MulDiv

A step is a clock edge of the MD unit, together with what the core does with it:
`StartOperation`, `Wait`, `End`, `Abandon` (a trap in `state_md`) and the trap cycles,
as in `Core`, whose abstraction of the unit this module refines in the numbers.
Registers keep their widths: `Width` is twice `Steps`, 32 and 16 in the hardware, and
the registers of `core.vhd:1155-1366` are numbers below `2^Width`. `fast` is the
generate constant that selects the radix-4 or the radix-2 divider. `ended` says that the
result is the one the core takes. A trap abandons the operation and not the divider,
which goes on counting until the next start resets it.

### Usart

A step is a clock edge; the processes of `io.vhd` take their next values at once as in
`Core`, and the software (`usart_putc` on one board, `usart_getc` on the
other) does one access at an edge or none. `line` fixes the number of clocks per bit on
either side, the formats, the lengths a spike may have, and
for how long `usart_getc` may not have been called (`patience`).
The receiver's synchroniser, half-bit wait, shift, parity and stop states, and the flags
TC, RC, PE, RF and FE with both edges of a load of DATA are kept. Writes to STAT, BAUD
and CTRL during a frame are left out.

### LineEditor and Monitor

A step is a key, or a command. The buffer is an array with whatever earlier lines left
behind the terminator, and the commands look at it as the code does, by positions.
`sprintf` prints through the same buffer. A number is a sequence of digits, a byte a
pair of them. The user types one of `Commands`, with slips and corrections; `Meaning` is
what he expects. `CommandAssumption` says what these lines look like (`Operands`): as in
the help texts (`monitor.c:188-194`), with any number of blanks between the operands, and
an address of at most eight digits; or without operands. What `monitor.c` finds behind
the buffer is any of `Behind`.

### Image, Startup, Library, the programs, Board

`Image` has a step per line of the S-record file: options and files first (`Start`),
then a record each (`VhdlRecord`, `MifRecord`) and the writing of the table. The table
is read back as a ROM, so `RomIsProgram` is about what the processor fetches. What the
tools rely on is written down as `FileAssumption`: a file is a `Listing` of the program,
as `objcopy` makes it, for one of the addresses in `Bases`. TLC finds it true of the
fifteen files of the run, the theorems assume no more.

`Startup` has a step per instruction that matters: each byte of bss cleared, each byte
of data copied. At power-on the RAM is anything, a reset leaves it as it is. A variable of the
program is a byte of the RAM; `Library` puts `__sbrk_heap_end` and `errno` into bss, so
it is the start-up code that makes the heap begin where it should. `malloc` is external:
it cuts blocks from what `_sbrk` gives and asks for as much as it needs or more.
`RdTimeH`, `RdTime`, `RdTimeHAgain` are the instructions of the loop that reads the
time.

`LinkedList`, `Timing` and `Examples` have a step per statement of `main` that a
property can tell from its neighbours. `Vectored` has a step per handler: `Trap` is the
CSRs' trap entry, `Entry` the vector, and `UniversalHandler` saves `Registers` (a0, a1,
and s0 for the callee-saved ones), branches on `mcause`, answers the system call,
reloads a0 and restores. A handler in C leaves `Junk` in the registers it may use. The
devices are the levels of their lines here; `Interrupts` has the same handlers at the
grain of device accesses.

`Board` composes them: `Tools` make the ROM, the processor leaves the reset, `Software`
runs, `Outside` is the user at the switches and the USART, `Event` raises lines, and
`Reset` may come at any time. `StartupSpec` is what the start-up code promises to a
program that keeps out of its way; `Board` implements it, and `StartupProofs` proves
what follows from it.

## 3. Runs

| run | question | states | result |
|---|---|---|---|
| `core_isa` | Does the pipeline implement `Isa`? Three instructions of fourteen kinds in every combination, a handler that jumps and swaps, an interrupt at any edge. | 783 k | holds |
| `core_muldiv` | The same with multiplications, divisions and loads in program *and* handler and two interrupts, where an abandoned division may still be counting; the type, fetch and trap properties; does every trap reach its MRET, and every program without loops its end? | 201 k | holds |
| `core_zero` | Does x0 read zero? | | violated |
| `core_restart` | Is an interrupted instruction discarded? | | violated |
| `core_illegal` | Is the handler of an illegal instruction executed? | | violated |
| `muldiv` | Are products, quotients and remainders right, whatever was abandoned before? | 1.38 M | holds |
| `usart` | Do characters arrive, are none lost, and are changed ones flagged? | 2.89 M | holds |
| `interrupts` | Times not torn, no false match, `usart_putc` returns, requests are served | 75 k | holds |
| `loader` | Host and board in step, nothing overwritten, upload ends | 719 k | holds |
| `loader_greeting` | Does upload's "success" mean that the file is in memory? | | violated |
| `monitor` | Does a command do, and show, what its line says? | 324 k | holds |
| `board` | Twelve programs, from S-records to their end, with a reset | 571 k | holds |

**Properties of the core.** `ImplementsIsa` is the strongest: it says of every edge that
the programmer sees one instruction, one trap, or nothing. `TrapAgreement` says that the
FSM takes every trap that the CSRs record. `FetchCoherent` says that the word being
decoded is the one of the address that travels with it. `RequestsAnswered` says that
traps, returns, stalls and MD starts are asked for only in the FSM state that answers
them. `TrapsReturn` and `ProgramEnds` are liveness.

**Properties of the interrupt program.** `ReadIsBetween`: the two words read are a time
the timer had between the entry of the handler and now, whenever the low word wrapped.
`NoFalseMatch`: while TIMECMP is written by halves the comparison stays false.
`TcIsComing`: whoever polls TC, TC is set or a frame is on its way; `PutcReturns` is its
liveness. `RequestsServed`: RC, the match flag and the timer's comparison are each
negated again by their handlers, in spite of the fixed priorities.

**Properties of the loader.** `AnsweredIsStored`: without losses the memory is, at every
answer, exactly the contents of the lines answered so far; at the end it is the image
and the entry point is set. An application that `J` has started has all of the file. One
that the end of the boot wait has started has nothing of it, also when `!` was on the
wire at that moment, and upload goes on to write lines because it takes the
application's newlines for answers. `NothingOverwritten`: waiting for the answer is what
replaces flow control. `UploadEnds`: with a lost character upload gives up rather than
hang, in a first and in a second attempt, and so it does, or ends, when an application
answers it. The exception is an application that prints for ever and never a newline
(`FallsSilent` and `PrintsLines` are the other cases): every character starts the
timeout of the next read.

**Properties of the MD unit.** `ProductIsRight` and `DivisionIsRight` compare with the
definition of a product and of a division that rounds towards zero, in every case the
instruction set names. A divisor of zero leaves the dividend as the remainder, but not
in the radix-2 divider (see below), for which that line is left out.

**Properties of the USART.** `CharactersIntact`: as sent, in order, no flag, between
boards whose clocks differ, too. `NothingLost`: what `usart_getc` has not returned is
one character and RC says so, although a load clears RC at two edges; after a spike as
long as no character came with an error flag.
`PutcMeansReceived`: when `usart_putc` returns, the other board has the character and
its stop bits are over; this holds for boards of one clock, with a slower receiver
`usart_putc` may return before it. `CorruptionIsFlagged`: whatever one spike does, until
a character comes with an error flag all are as they were sent, with parity and for a
reader who comes before the next start bit is looked at. After the flag nothing is
promised: a receiver that is out of step may go on returning wrong characters whose
parity and stop bit happen to be right.

**Properties of the monitors.** `ScreenShowsLine`: what the user sees is what the caller
gets. `CommandMeansLine`: a command changes the bytes it names to the data of its own
line, and nothing else. `AnswerShowsMemory`: what is printed are those bytes.

**Properties of the board.** `RomIsProgram`: whatever the types of the records, their
lengths and their base. `MainFindsItsData` and `StartupSpec`: whatever a former run
left, wherever the reset fell. `HeapIsSound`: blocks lie between data and stack, inside
what `_sbrk` gave, and do not overlap. `StoresAreInside`: `malloc.c` and `test.c`, which
test nothing for NULL, store inside blocks they have. `MainReturns`: the loops over the
list, and the one that fills the heap, end. `DigitsOfOneReading`, `LedsShowLatest`: an
input that changes meanwhile. `ShownTimeIsTrue`, `IntervalIsLongEnough`,
`DeadlineIsAhead`: times, with the low word wrapping anywhere; the last through a
variable that came from the S-records. `RegistersSurvive`: a trap leaves `main`'s
registers alone but for the a0 of a system call, in both modes. `ServicesAgree`: the
trap handler answers as the stubs do. `LinesServed`: with interrupts enabled each
request finds its handler, unless the test pin, which has none in vectored mode, has
stopped the processor.

### Bounds, and why they are enough

- *Core.* `WordSize` 8 is a ROM with one word that enables interrupts, three free words,
  an end loop and a handler of three: a hazard between two instructions of a three-stage
  pipeline spans at most three. `NumRegs` 4: x0, two for data, one for the handler.
  `DivSteps` 4 and 6 leave room for an interrupt before, in and at the end of a
  division, and 6 for a second division to start in the handler while the first one is
  counting. `MaxRises` 1 or 2: an interrupt, and one that follows its handler. In
  `core_isa` x1 only ever holds code addresses, and JALR's `rd` and `rs1` differ; CSRRW
  is used in handlers only, and MRET with MIE clear, as in `CODE/`; WFI, CSRRW and JALR
  through its own link in the program are in `core_restart`, illegal instructions in
  `core_illegal`.
- *MulDiv.* `Steps` 3, words of six bits: every operation on every pair of words, in
  either divider. An operation that is followed by another one has operands out of
  `Ends` (0, 1, the largest and the smallest signed word, the largest word), and the
  first is abandoned at any cycle, or ends. The theorems go beyond all that.
- *Usart.* 8 clocks to a bit: a spike may have any length up to half a bit and hit at
  any clock; 24 against 25 clocks, either way: the difference that adds up to less than
  half a bit over the longest frame. Nine bits with parity are left out where the
  receiver is the slower one: parity is looked at one clock after the sample, and so
  late in the frame that clock is one too many. Three characters, so that one frame may
  follow another at once and a receiver out of step has a third one to mistake; their
  last bits, parity and first bits can be taken for one another. On the line with spikes
  the reader comes within 8 clocks, one bit; on the others within a frame's time.
- *Monitor.* `Size` 14 holds the longest command and its terminator; two lines, so that
  the second finds the first in the buffer; one slip.
- *Board.* Fifteen files, cut at three places, with records of every type and a base;
  nine command lines, with the errors; RAM of seven bytes that hold 0 or 7 at power-on;
  a heap of thirteen bytes, so that malloc gives up sooner or later, in the midst of the
  four nodes of three bytes if it asks for more than it needs; one reset at any step.
  Time has words of 4 and ends at 5, so that the low word wraps once, in a reading or in
  a wait of 3. `MaxEvents` 2: two lines may request at once. Time advances at most by
  one in a step, so a reading loop cannot be outrun for ever within the bound.
- *Interrupts.* `Word` 3, `Delta` 2, `MaxHigh` 1: the low word wraps, in a reading loop
  too, and the deadline is in either high word. `MaxHits` 1 and `MaxReceived` 2: each
  line is asserted, the USART's also again in its own handler. With `Word` 4 and
  `MaxHigh` 2 (425 k states) the same holds. The bounds on events also say that sources
  are not infinitely fast: a source that is always asserted starves those below it, and
  the processor is much faster than any of the three.
- *Loader.* Three files cover the records that are told apart: a header, data with 2-,
  3- and 4-byte addresses, the three start records, overlapping data, and no data. One
  lost character, two attempts, two arrivals per character sent. `MaxUnread` 1: an
  application prints any number of newlines, the next one when upload has read the last
  (with 2 the same holds, 973 k states); of other characters any number without a bound.

### Fairness, and why the code justifies it

- *Core*: `WF_vars(Next)`, the clock does not stop. Nothing is assumed of the interrupt
  line; `ProgramEnds` has the hypothesis that it is negated again and again, which the
  documentation asks of handlers (`DOCS/riscv-pipe3-csr-md-lic.tex:721`).
- *Interrupts*: the processor executes, and a frame takes a fixed time. Ticks, matches
  and characters need not come.
- *Loader*: the board executes; the line delivers or loses; upload runs, and its reads
  have timeouts (`upload.c:87`). Nobody has to start upload, and no application has to
  print. Deadlock is not checked in
  the two loader runs, since the system does stop: upload is over and the application
  has been started.
- *Board*: the processor executes (`WF_vars(Software)`). Neither the user nor the lines
  nor time have to do anything, and the tools need not be run. Deadlock is not checked:
  programs end (`_exit` loops for ever) and tools fail.
- *MulDiv*, *Usart*, *Monitor* and `core_isa` state safety only. The user of the monitor
  may leave, so there deadlock is not checked either.

### Findings

Four runs have a property that a document of the repository states and the code does not
satisfy; their counterexamples are short.

1. `core_zero` - `mul x0, a, b` followed by an instruction that reads x0: it reads the
   product. The stall branch of the decode registers sets `rd_en` without looking at
   `rd` (`core.vhd:474`; the normal branch does, `core.vhd:817`).
2. `core_restart` - an interrupted instruction is not always discarded. A store has
   written memory (`core.vhd:1433`: a flush switches `O_memaccess` off, a request does
   not) and a CSR access the CSR (`csr.vhd:209`, `226`), and both are executed again:
   harmless for memory, not for a device, nor for a swap. A WFI leaves `select_pc` at 0
   (`core.vhd:754`, `861`), and the address that is saved is the one of the instruction
   before it, which is executed twice. A JALR writes its link before its flush cycle; an
   interrupt in that cycle saves the JALR itself, and when the link register is also the
   base (`jalr ra, ra`, `core.vhd:1012`) it is restarted with the link for its target.
   Each of the four programs of the run alone violates the property.
3. `core_illegal` - the request of an illegal instruction is not withdrawn by the trap
   (`core.vhd:458`), unlike those of ECALL and EBREAK, and is not masked by MIE: the
   trap is taken again at every edge.
4. `loader_greeting` - upload started while the greeting is being sent takes the
   greeting's newlines for answers; the bootloader misses the `!`, and upload reports
   success with nothing in memory.

Disagreements met on the way that have no run:

- The radix-2 divider stores the difference one bit short (`core.vhd:1329`), so a
  remainder by zero loses the highest bit of the dividend; `DivisionIsRight` leaves the
  case out for it.
- The receiver's parity ignores the polarity (`io.vhd:387`; the transmitter has it,
  `io.vhd:231`): with odd parity every good character sets PE. `CleanModes` have no odd
  parity. PE is assigned anew with every frame, so the flag of a character that nobody
  has read is cleared by a good one (`DOCS/riscv-pipe3-csr-md-lic.tex:1280` says that
  only a read or a write clears it). RF is set when a start bit turns out to be none, for
  the character that is coming, but the second edge of a load of the character before
  clears it (`io.vhd:255-265`), and nobody has seen it. For both reasons the reader of
  `CorruptionIsFlagged` has to come in time.
- `monitor.c:141` looks for the end of the address beyond the end of the line, so a
  write command without data takes digits from an earlier line, or from behind the
  buffer; `monitor.c:147` means it to write zero.
- `srec2vhdl`: option q falls through into 0 (`srec2vhdl.c:169-172`). `srec2mif` writes
  `=>` instead of `:` for S2 and S3 records (`srec2mif.c:199`), which no MIF reader
  takes; in the model such a file builds no ROM.
- `universal_handler.c`: `fstatat` takes its buffer from a1; `brk` compares with `<`
  where `_sbrk` compares with `>`, so `brk` refuses the last byte that `_sbrk` grants;
  `close` sets EBADF, the stub sets nothing.
- `interrupt_vectored/usart.c:14` says "Set two stop bits" and stores 0 in CTRL.
- The comments at `CODE/interrupt_direct/handlers.c:56` and `io.vhd:533` say that the
  timer interrupts when TIMECMP >= TIME, the code compares the other way (`io.vhd:534`).
- `DOCS/bootloader.tex:95` says that `upload` "exits with an error message" if it cannot
  contact the bootloader. When `!` comes after the boot wait and the application prints
  lines, upload takes them for the answers to all of its own and reports success with
  nothing stored (`upload.c:180`, `221`); hence `boot.at # "expired"` in
  `DoneIsTransferred`, and the third part of `AnsweredIsStored`. When the application
  prints without newlines (`clock.c:55-66`), upload neither times out nor ends.
- The default timeout of upload is 10 (`upload.c:87`), `DOCS/bootloader.tex:93` says 5;
  the case `v` of upload's options falls through into the next (`upload.c:114`).

## 4. Theorems

`CoreProofs`, for every word size, number of registers, length of division, reset and
trap vector, set of well-formed programs, and number of interrupts (assumptions: the
named `ASSUME`s of `Core`, which only say that these constants are numbers of the right
range):

- `TypeCorrect`: `Spec => []TypeOK`. One lemma per process (`DecodeType`, `FetchTypes`,
  `DataTypes`, `MulDivType`, `CsrType`), on lemmas about word arithmetic.
- `RequestsCorrect`: `Spec => []RequestsAnswered`.
- `FetchCorrect`: `Spec => []FetchCoherent`.
- `TrapsAgree`: `Spec => TrapAgreement`.

The inductive invariant is `ControlInv == TypeOK /\ RequestsAnswered /\ FetchCoherent`.
The parts need each other: the fetch pair parts company when `pc_op` holds the pc
without a stall, and only `RequestsAnswered` says that this happens in `exec` on the way
into a trap; a request is hard outside `exec`, again by `RequestsAnswered`, so the FSM,
which looks at hard requests only there, misses none. `FsmMoves` turns the nineteen
transitions into a function of the state, `StageNext` says what each of the four ways to
load the decode registers asks for, and `RequestsStep` confronts the two.

Of the pipeline, under the same assumptions:

- `CoreImplementsIsa`: `Spec /\ []Disciplined => ImplementsIsa`, if every program of
  `Programs` consists of `Orderly` instructions: no WFI, no illegal instruction, no load
  or MD result into x0, no JALR through its own link.

The hypotheses are what the findings leave. `Orderly` is about the programs alone;
`MCCore` assumes it of the programs of the two runs, so TLC evaluates it. `Disciplined`
(CSRRW and MRET are executed with MIE clear) is about behaviours, since whether an
instruction is in a handler is; the runs show that their programs have it, because
`Isa` has those two steps with MIE clear only. Some such hypothesis is needed: CSRRW
with interrupts enabled can be executed twice (`core_restart`).

The inductive invariant `PipeInv` adds to `ControlInv` what each register of the
pipeline holds relative to the instruction that the programmer sees as next. `Registers`
says that the forwarding register is a copy of the register it stands for. `Execution`
goes by the FSM's state: in `exec` the decode registers are a bubble or the instruction
at `ArchPc` in its first cycle (`Fresh`) or after the MD unit's last one (`Computed`),
in `md` the unit is `Computing` from the operands of that instruction, in `flush` the
jump at `pc_to_mepc` has been taken (`JumpTaken`: executed again it would reach the same
target), and the fetch stage is one or two words ahead (`Sequential`, `InLine`) or on
its way to the target. The lemmas named `...Next` say what an edge does to the pipeline
in each situation, those named `...Seen` which step of `Isa` it is: `TrapSeen` (a trap in
any state, with the address that is saved), `BubbleSeen`, `JumpSeen`, `FinishJumpSeen`,
`TargetSeen`, `ReturnSeen`, `StallSeen` and `RetireSeen`. `IsaStep` puts them together.

`InterruptsProofs`, for every size of the timer's words, every delta and any number of
events (`TimerAssumption`: the delta fits in a word, and the bound of the time lies
below the last value of the high word, that is, the 64-bit time does not wrap):

- `TypesCorrect`, and `ClockCorrect` (`[]ReadIsBetween`), `NoFalseMatches`
  (`[]NoFalseMatch`), `PutcCannotHang` (`[]TcIsComing`).

`ReadIsBetween` is not inductive: `ClockInv` adds what the loop knows after each read.
After the first, the high word lies between entry and now (`HighRead`). After the
second, *if* the high word has not moved since, the pair is a time (`LowRead`); a tick
that moves it makes the condition false for good. So the second read of TIMEH, if it
finds the same word, is the proof. `NoFalseMatch` rests on `CompareAtMax`: the high word
of TIMECMP is all ones between its first and its last store, which no time reaches.

`MulDivProofs`, for words of every even width (assumption: `Steps` is a positive number
and `Power` the powers of two):

- `DivisionCorrect`: `Spec => []DivisionIsRight`, `ProductCorrect`:
  `Spec => []ProductIsRight`, and `TypeCorrect`: `Spec => []TypeOK`, with either divider.

`ProductIsRight` follows from `Multiplying`: while the core waits, the multiplier's
registers hold the extended operands of what was asked, and the product register at the
end their product. `LowWord`, `HighWordCut` and `HighWordUnsigned` say that the words cut
from it are those of the product, on the grounds of `Euclid` and `OneRemainder`.

`DivisionIsRight` speaks of the end only. The inductive invariant adds, for a running
division, that `count` iterations have been done (`Dividing`) and that dividend, partial
remainder and quotient digits `Holds` the equation of a division of the upper digits.
`IterationStep` is that equation for one iteration: a digit of radix 4 (`DigitStep`) or a
bit (`BitStep`). The radix-2 divider stores its difference one bit short
(`core.vhd:1329`); `RemainderFits` says that nothing is lost by it unless the divisor is
zero, since a partial remainder has no more bits than have been used of the dividend. So
for a zero divisor the equation is claimed of the radix-4 divider only, as in
`DivisionIsRight`. `Recombine` and `DivMod` are the arithmetic of shifting two numbers in
one register, `ResultIsRight` the signs. An
abandoned division keeps only its type: `Loaded` sets every register at the next start,
which is why nothing leaks.

`UsartProofs`, for every format, every number of clocks to a bit and every sequence of
characters (`LineAssumption`: BAUD registers hold natural numbers, formats are those of
CTRL, and characters have nine bits):

- `TypeCorrect`: `Spec => []TypeOK`, with disturbed lines, too.
- `CharactersArrive`: `Spec => []CharactersIntact`, if the formats are without odd
  parity. For odd parity the code sets PE for a good character, see the divergences
  above.
- `NoneLost`: `Spec => []NothingLost`, if no line has spikes.
- `PutcReturnsLate`: `Spec => []PutcMeansReceived`, if between equal clocks a bit has six
  clocks or more (BAUD is at least 5): the receiver goes through five states between its
  last sample and rest.
- `NearClocksAreTimely`: what the three have as a hypothesis, `Timely`, is true of clocks
  within four percent of each other.

`Timely` says of each line and each of its formats that the clocks are near enough
(`InTime`): the receiver's sample `k` falls into bit `k` of the frame, parity is looked
at in the parity bit, the stop bit in a stop bit, and the receiver is idle again before a
start bit that follows at once. It is about the constants alone, and says clock by clock
and per format how far apart two boards may be; `NearClocksAreTimely` is the rule of
thumb.

`CharactersIntact` speaks of what `usart_getc` has returned. The inductive invariant says
how it came to be. `Pos` is the clock within the frame that the transmitter is at, read
off its state, timer and shift counter, and `Heard` the clock that the receiver is at, in
the same count. `InPhase` is the heart: a receiver that is not idle has `Heard = Pos`, but
where the transmitter has come to rest before it, or has been started again by a
`usart_putc` that follows at once (`Behind`). On this rest `OnTheLine` (the
transmitter's output and the receiver's synchroniser show the frame one and two clocks
behind `Pos`), `ReceivedBits` (so many bits of the character are in the register), `NoError`,
and `Reading`, which says that the reader, who comes within `Patience`, has loaded DATA
before the next character is complete. `Synchronous` says that a clock on which a bit of
the frame is on the line is one of the frame being sent, `Sampled` what the line has at
each sample, `ReceiverStep` that the receiver stays in phase. All of it holds until a
spike comes (`Undisturbed`); a receiver that a spike has started keeps no time with
anybody.

`StartupProofs`, for every program, every S-record file of it, every command line of the
tools, every layout, every length of the data and every RAM:

- `RomIsRight`: `ImageInit /\ [][ImageNext]_image => []RomIsProgram`.
- `DataInitialised`: `StartupSpec => []MainFindsItsData`. The inductive invariant
  `Progress` says what has been cleared and copied below the pointer; that the ROM holds
  the initial values is `RomIsRight`. `BoardProofs` proves the hypothesis of every
  program.

The assumptions of `RomIsRight` are `ImageAssumption` (the ROM has the program and is no
longer than LEN_CODE; it lies at 0, or beyond the addresses of a ROM at 0) and
`FileAssumption`: each data record has a part of the program, at its address in two,
three or four bytes and in digits of either case; the first one has the beginning, the
next one what comes later, and together they have all of it. Other lines may stand
anywhere, records may be empty, and the program may have gaps. The inductive invariant
`Transcribed` says, while a tool `Reads`, that the work has just what the lines read so
far list (`Got`): the table at the places in the ROM, with the base as the offset and an
end beyond all of it (`TableHas`), the memory initialisation file at the addresses
(`MifHas`). `RecordIs` is the reading of a record, hexadecimal digits and sums included:
it is the record meant. `RecordAdds` says that a record adds its part of the program,
`OneList` that there is but one such part, `AllRead` that nothing is missing at the end,
`Element` where a byte is in a table of bytes, halfwords or words. A memory
initialisation file is read only if all its addresses lie in the ROM, so a program of
another base is refused and never misplaced.

`BoardProofs`, for every layout of the memory, each of the twelve programs, any number of
resets and events, every width of the time and every length of a wait. The assumptions
are the named `ASSUME`s of `Image`, `Startup`, `Library`, `LinkedList`, `Examples`,
`Timing` and `Vectored`: the variables of the library are different bytes of bss,
`external_timer_delta` is in the initialised data, the variables of `global.c` are not
those of the library, the data ends below the stack, and sizes, widths and periods are
positive. The ROM is the one that the tools make of the program's file.

- `ProgramIsInRom`: `Spec => []RomIsProgram`, from `Transcribed`: no step of a program,
  a device or a reset touches what the tools have made.

- `RegistersComeBack`: `Spec => RegistersSurvive`. `TrapControl` says that the vector is
  set before interrupts are enabled, that no handler is interrupted and that each
  returns to an instruction of the loop; `RegistersKept` where the registers of `main`
  are at each label of the handlers: in place in an interrupt function, on the stack
  from `universal_handler` on. `HandlerStep` has a case per handler; `HandlerFinishes`
  says that only a handler leads back to where `main` was interrupted.
- `ProgramsKeepOut`: `Spec => StartupSpec`, the implementation of
  `StartupSpec` step by step, and with it `EveryMainFindsItsData`.
- `HeapStaysSound`: `Spec => []HeapIsSound`. `HeapIsSound` is not inductive. `InOrder`
  adds that all blocks end at or below `Free`, the first byte that `malloc` has not
  given away, and that `_sbrk`'s end lies between data and stack; `HeapKept` that the
  block `malloc.c` is about to reallocate or free is the highest. `MallocGives` is what
  `malloc` does to these, `OrderWithBlock` and `OrderFreed` what a block given and a
  block freed do.
- `StoresStayInside`: `Spec => []StoresAreInside`, if for every size that `malloc` asks
  for beyond its needs the RAM between data and stack holds that, the first block and
  the reallocated one. Nothing in `malloc.c` tests for NULL, so some such hypothesis is
  needed; the RAM of `riscv.ld` has kilobytes for the 220 bytes of `malloc.c`, and the
  constants of `Board.cfg` satisfy it. `Supplied` counts what has been taken, with the
  hole that a moved block leaves.
- `ClockIsRight`: `Spec => []ShownTimeIsTrue`, `IntervalIsRight`:
  `Spec => []IntervalIsLongEnough`, `DeadlineStaysAhead`:
  `Spec => DeadlineIsAhead`. The three rest on `Reading`, which says what the loop
  `rdtimeh, rdtime, rdtimeh, bne` knows after each instruction. `Sexagesimal` and
  `DifferenceOfRests` are the arithmetic: the digits in base 60, and that a difference
  in 32 bits is not more than the difference, however often the clock has wrapped.
  `DeltaKept` says that `external_timer_delta` is still what was in the ROM.
- `ServicesAgreeWithStubs`: `Spec => ServicesAgree`, if the system calls that the library
  makes are those `universal_handler` has a service for. For others (`getpid`, `kill`)
  it answers ENOSYS where the stubs return something else. `ServicesKept` says that the
  call that is answered is the one `main` made, with its registers.
- `LedsAreRight`: `Spec => []LedsShowLatest`, and `DisplaysAreRight`:
  `Spec => []DigitsOfOneReading`, whatever the switches do between the two stores.

Of each part of the invariant the steps of the programs that it is not about, the tools,
the start-up code and a reset change nothing, or it says nothing of where they lead;
the lemmas `...ProgramSteps` reduce a step of `Board` to those of the program that runs.

`MonitorProofs`, for every size of the buffer, every alphabet, every memory, and every set
of commands whose lines are as `CommandAssumption` says:

- `EditorCorrect`, of any caller of `usart_gets` that prints what it likes between two
  lines: the screen shows the line, the line is terminated, and the index stays inside
  the buffer. `ScreenShowsLine` alone is not inductive: an insertion must not hit the
  terminator's place, which `EditorTypeOK` excludes, and `LineTerminated` needs both.
- `CommandsMeanTheirLines`: `Spec => CommandMeansLine`, `AnswersAreRight`:
  `Spec => AnswerShowsMemory`, and `ScreenIsRight`: `Spec => []ScreenShowsLine`.

`MonitorInv` says of the session only that the screen shows the line, that it is
terminated when it has been returned, and that it is then one that the user meant. It says
nothing of what stands behind the terminator, and that is the point: `AddressIs` and
`DataIs` show that for a line with operands `read_address`, `read_data_after_address` and
`parsehex` never look there (`SkipsTo` and `EndsAt` say where their loops stop), and
`OtherLine` that a line without operands is taken for no command, though an earlier one
may still stand behind it. `HasData` leaves out the line for which this is false. What
`Number` makes of the digits is the same function on both sides and is not unfolded.

`LoaderProofs`, for every set of S-record files whose lines fit (`FileAssumption`: at
most sixteen bytes a line, and every byte in the 64 kB of the ROM), however many
characters can arrive while the board sends one (`Overlap`), and for any number of half
seconds, uploads and lost characters:

- `TypeCorrect`: `Spec => []TypeOK`.
- `FileIsStored`: `~Early => (Spec => []AnsweredIsStored)`, `KeptOnTheWay`:
  `~Early => (Spec => []NothingOverwritten)`. `Early` is the constant that lets the user
  start upload while the greeting is being sent; `loader_greeting` shows that the
  theorems do not hold with it.

Neither invariant is inductive. `InStep` says what host and board know of each other
while nothing has been lost. Once the board runs an application (`Running`) they know
nothing of each other; what remains is what the application was started with
(`Departed`): nothing at the end of the boot wait (`ExpiryStep`), the whole file after
`J` (`CommandStep`), and that no later step touches it (`RunningStep`). Before, the board
is `Serving`. Where upload waits for an answer, either the board is about
to give it (`Answering`: the rest of `"?\n"` is in `out`, or its newline is counted, and
nothing is on its way), or it is `Parsing` the line: at some place `p` of the line, the
characters from `p` on are in the register and on the wire (`Unread`), and the board is
at the point that belongs to `p` (`IsAt`) with what it must have kept: the upper digits
of the field it is reading, the bytes that remain, the address, and a memory that holds
the lines before and the bytes of this one up to here. `LineShape` says what stands where
in a line, `DigitRead` that with each character `gethex` has one more digit of the
number, `ByteStored` that patching one byte leads from the contents of `m` bytes to
those of `m + 1`, whatever records overlap, and `DataCount` that the count of a line
without its address and checksum is that of its data. The lemmas `Parse...` are one
action of `bootloader.c` each, `...Step` those of the line, the host and the rest of the
board; `ArriveStep` shows that the register is empty whenever a character arrives.

### Only model-checked

The USART on disturbed lines (`CorruptionIsFlagged`, and `NothingLost` where there are
spikes: of a receiver that a spike has put out of step there are as many cases as clocks
in a frame), and all liveness. Out of the prover's reach altogether: liveness under
fairness and ENABLED, what recursive definitions compute for every input, and modules
with RECURSIVE operators; the modules here have none.

## 5. Not modelled

- Test benches, generated images, `RETIRED` and `OLD`: nothing of the system's state.
- The two-stage core, and the core without boot ROM: other implementations of the same
  `Isa`.
- Byte lanes, misaligned and erroneous accesses, the counters `instret` and `cycle`,
  TIMER1's counter: combinational, or counters that nothing in `CODE/` compares.
- The examples that compute something once and print it (`trig`, `double`, `float`,
  `exp`, `riemann_left`, `basel_problem`, `string`, `sprintf`) or copy inputs to outputs
  (`ioadd`, `structio`, `testio`, `flash`): what could go wrong there is the C library.
- MRET with MIE set: `state_mret` ignores a request that the CSRs take (`core.vhd:235`);
  no software of `CODE/` does it, and the programs of the runs do not.
- A bootloader that loses a character inside a record (`bootloader.c:123` ignores the
  checksum), or whose record has a count below that of its address bytes
  (`bootloader.c:90`), stores garbage; `AnsweredIsStored` is stated for lines that lose
  nothing. `_sbrk` with a negative increment is not used by the modelled `malloc`.
  `GPIOA->POUT ^= 1` in the handlers is a load and a store; `main` does not write POUT.

## 6. What is left

1. `Lic` with the CSRs: all causes, the access errors and the counters. Theorem: the
   cause served is the highest enabled one.
2. `TwoStage`: the second core as another implementation of `Isa`.
3. `Memory`: byte lanes and misalignment.
4. MRET with MIE set, as a run of its own.
5. Proofs: `CorruptionIsFlagged`.
