---------------------------- MODULE BoardProofs ----------------------------
(***************************************************************************)
(* The programs on the start-up code and the library, for every layout of  *)
(* memory and every width of the time, with resets at any step: they keep  *)
(* out of the start-up code's way, and times, heap, registers and system   *)
(* calls are what their properties in Timing, LinkedList, Examples and     *)
(* Vectored say.                                                           *)
(*                                                                         *)
(* The invariant has a part for each thing that a program relies on.  Each *)
(* part is about some of the programs, and a step of another program       *)
(* leaves it alone.                                                        *)
(***************************************************************************)
EXTENDS Board, StartupProofs

-----------------------------------------------------------------------------
(* The inductive invariant *)

\* The steps before main, and those at which a time is being read.
Starting    == {"off", "_start", "bss", "data"}
ReadingTime == {"rdtimeh", "rdtime", "rdtimeh2", "timed"}

\* What the loop knows after each of its three reads.
Reading ==
  /\ time \in Nat
  /\ timer \in [th : Nat, tl : Nat, called : Nat]
  /\ at \in ReadingTime => timer.called <= time
  /\ at = "rdtime" => timer.th <= time \div Word
  /\ at = "rdtimeh2" =>
       /\ timer.th <= time \div Word
       /\ timer.th = time \div Word => thetime \in timer.called .. time
  /\ at = "timed" => thetime \in timer.called .. time

\* What main does with interrupts enabled, and what a trap leads to.
Interruptible == {"loop", "ecall", "ecalled", "counted", "ebreak"}
HandlerSteps  ==
  {"universal_handler", "timer1_cmpt_handler", "usart_handler", "external_timer_handler",
   "default_handler", "held", "service", "debugger", "reload_a0", "restore"} \cup ReadingTime

\* The vector is set before interrupts are enabled, no handler is interrupted,
\* and each returns into main.
TrapControl ==
  prog \in InterruptPrograms =>
    /\ csr \in [mie : BOOLEAN, mtie : BOOLEAN, mcause : Int, mepc : MainSteps]
    /\ at \in Starting \cup MainSteps \cup HandlerSteps
    /\ csr.mie => at \in Interruptible
    /\ at \in HandlerSteps => csr.mepc \in Interruptible
    /\ at = "mode" =>
         prog = "vectored" /\ mtvec = [to |-> "handler_jump_table", vectored |-> FALSE]
    /\ at \in Interruptible \cup HandlerSteps \cup {"mtie", "mie"} =>
         mtvec = IF prog = "direct" THEN [to |-> "universal_handler", vectored |-> FALSE]
                 ELSE [to |-> "handler_jump_table", vectored |-> TRUE]

\* The registers of main are on the stack from universal_handler on, and in
\* place in an interrupt function.
RegistersKept ==
  prog \in InterruptPrograms =>
    /\ regs \in [Registers -> Int] /\ saved \in [Registers -> Int]
    /\ before \in [Registers -> Int]
    /\ at \in HandlerSteps /\ csr.mcause = ECALL => csr.mepc = "ecalled"
    /\ at = "external_timer_handler" => csr.mcause = 7
    /\ at \in {"timer1_cmpt_handler", "usart_handler"} => csr.mcause # ECALL
    /\ at \in ReadingTime => csr.mcause \in {7, ECALL}
    /\ at = "service" => csr.mcause = ECALL /\ regs = before
    /\ at = "universal_handler" => regs = before
    /\ at \in {"timer1_cmpt_handler", "usart_handler", "external_timer_handler"}
             \cup ReadingTime =>
         IF prog = "vectored" /\ csr.mcause # ECALL THEN regs = before ELSE saved = before
    /\ at \in {"service", "debugger", "reload_a0", "restore"} => saved = before
    /\ at = "restore" => csr.mcause = ECALL \/ regs["a0"] = before["a0"]

\* The first byte that malloc has not given away.
Free(memory) ==
  IF memory[SbrkHeapEnd] = NULL THEN EndOfData ELSE memory[SbrkHeapEnd] - memory[MallocTop]

\* What _sbrk has given lies between the data and the stack.
Arena(memory) ==
  /\ memory[MallocTop] \in Nat
  /\ \/ memory[SbrkHeapEnd] = NULL /\ memory[MallocTop] = 0
     \/ memory[SbrkHeapEnd] \in EndOfData .. StackLimit
  /\ EndOfData <= Free(memory)

\* Blocks of these sizes, by their addresses, lie below an address, one behind
\* the other.
Blocked(size, end) ==
  \A a \in DOMAIN size :
    /\ a \in Nat /\ size[a] \in Nat \ {0} /\ EndOfData <= a /\ a + size[a] <= end
    /\ \A b \in DOMAIN size : a < b => a + size[a] <= b

Sizes == [a \in DOMAIN heap |-> SizeOf(a)]

\* The block at p, if there is one, is the highest.
Highest(p, size) ==
  p # NULL => p \in DOMAIN heap /\ heap[p].size = size /\ p + size = Free(ram)

\* What malloc has given lies in order below what is free.
InOrder ==
  /\ Arena(ram) /\ Blocked(Sizes, Free(ram))
  /\ ram[SbrkHeapEnd] = NULL => DOMAIN heap = {}

\* The heap of linked_list, malloc and test; the other programs have none.
HeapKept ==
  /\ at \in Starting \cup {"main"} => DOMAIN heap = {}
  /\ at \notin Starting => InOrder
  /\ prog \notin Allocating \cup {"linked_list"} /\ at \notin Starting =>
       DOMAIN heap = {} /\ ram[SbrkHeapEnd] = NULL
  /\ prog \in Allocating /\ at \in {"get", "store"} =>
       /\ frame \in [block : 1 .. Len(Blocks), p : Int, i : Nat]
       /\ at = "store" => Highest(frame.p, Blocks[frame.block].size)
       /\ at = "get" /\ Blocks[frame.block].call = "realloc" =>
            Highest(frame.p, Blocks[frame.block - 1].size)

-----------------------------------------------------------------------------
(* Arithmetic *)

\* A number is made of its digits, of which there is one pair.
LEMMA Euclid ==
  ASSUME NEW M \in Nat \ {0}, NEW p \in Int
  PROVE  /\ p \div M \in Int /\ p % M \in 0 .. M - 1
         /\ p = ((p \div M) * M) + (p % M)
OBVIOUS

\* The higher digit does not fall when the number rises.
LEMMA DivMonotone ==
  ASSUME NEW M \in Nat \ {0}, NEW p \in Nat, NEW q \in Nat, p <= q
  PROVE  p \div M \in Nat /\ q \div M \in Nat /\ p \div M <= q \div M
<1> DEFINE a == p \div M
           b == q \div M
<1>1. /\ a \in Int /\ p - a * M \in 0 .. M - 1
      /\ b \in Int /\ q - b * M \in 0 .. M - 1
  BY Euclid
<1> HIDE DEF a, b
<1>2. \A x \in Int, y \in Int : x >= y + 1 => x * M >= y * M + M
  <2> SUFFICES ASSUME NEW x \in Int, NEW y \in Int, x >= y + 1 PROVE x * M >= y * M + M
    OBVIOUS
  <2>1. x * M >= (y + 1) * M
    OBVIOUS
  <2> QED
    BY <2>1
<1>3. a <= b
  <2> SUFFICES ASSUME a >= b + 1 PROVE FALSE
    BY <1>1
  <2>1. a * M >= b * M + M
    BY <1>1, <1>2
  <2> QED
    BY <1>1, <2>1
<1>4. a >= 0
  <2> SUFFICES ASSUME 0 >= a + 1 PROVE FALSE
    BY <1>1
  <2>1. 0 * M >= a * M + M
    BY <1>1, <1>2
  <2> QED
    BY <1>1, <2>1
<1> QED
  BY <1>1, <1>3, <1>4 DEF a, b

-----------------------------------------------------------------------------
(* The time *)

\* The first and the last instruction of the loop, and the one between them.
LEMMA ReadingStep ==
  ASSUME Reading, TimeNext
  PROVE  Reading'
<1>1. Word \in Nat \ {0} /\ MaxTime \in Nat
  BY LibraryAssumption
<1>2. time' \in Nat /\ time <= time'
  BY <1>1 DEF Reading, TimeNext, RdTimeH, RdTime, RdTimeHAgain, Instruction, TimePasses
<1>3. /\ time \div Word \in Nat /\ time' \div Word \in Nat
      /\ time \div Word <= time' \div Word
  BY <1>1, <1>2, DivMonotone DEF Reading
<1>4. CASE RdTimeH
  BY <1>2, <1>3, <1>4 DEF Reading, RdTimeH, Instruction, ReadingTime
<1>5. CASE RdTime
  <2>1. time % Word \in Nat /\ time = ((time \div Word) * Word) + (time % Word)
    BY <1>1, Euclid DEF Reading
  <2>2. timer' = [timer EXCEPT !.tl = time % Word] /\ at = "rdtime" /\ at' = "rdtimeh2"
    BY <1>5 DEF RdTime, Instruction
  <2>3. timer.th = time' \div Word => thetime' \in timer.called .. time'
    <3> SUFFICES ASSUME timer.th = time' \div Word PROVE thetime' \in timer.called .. time'
      OBVIOUS
    <3>1. timer.th = time \div Word
      BY <1>3, <2>2 DEF Reading
    <3>2. thetime' = time
      BY <2>1, <2>2, <3>1 DEF Reading, thetime
    <3> QED
      BY <1>2, <2>2, <3>2 DEF Reading, ReadingTime
  <2> QED
    BY <1>2, <1>3, <2>1, <2>2, <2>3 DEF Reading, ReadingTime
<1>6. CASE RdTimeHAgain
  <2>1. timer' = timer /\ at = "rdtimeh2" /\ thetime' = thetime
    BY <1>6 DEF RdTimeHAgain, Instruction, thetime
  <2>2. CASE timer.th = time \div Word
    BY <1>2, <1>6, <2>1, <2>2 DEF Reading, RdTimeHAgain, Instruction, HighUnchanged, ReadingTime
  <2>3. CASE timer.th # time \div Word
    BY <1>2, <1>6, <2>1, <2>3 DEF Reading, RdTimeHAgain, Instruction, HighUnchanged, ReadingTime
  <2> QED
    BY <2>2, <2>3
<1> QED
  BY <1>4, <1>5, <1>6 DEF TimeNext

-----------------------------------------------------------------------------
(* The steps of a program *)

\* Where the examples may be after a step.
ExampleLabels ==
  {"new", "head", "print", "find", "fill", "total", "exit",
   "x+1", "y", "w", "x", "errno", "jaja", "get", "store", "write", "qsort", "read", "show",
   "sending", "receiving", "leds"}

\* A step of linked_list begins and ends in main.
LEMMA LinkedListRuns ==
  ASSUME LinkedListNext
  PROVE  \E from \in ExampleLabels \cup {"main"}, to \in ExampleLabels : Step(from, to)
<1>1. CASE EnterMain
  BY <1>1 DEF EnterMain, ExampleLabels
<1>2. CASE MakeNode
  BY <1>2 DEF MakeNode, ExampleLabels
<1>3. CASE Fill
  BY <1>3 DEF Fill, ExampleLabels
<1>4. CASE FirstNode("head", "print") \/ PrintNode \/ ListPrinted \/ SkipNode \/ ListSearched \/ Total
  BY <1>4 DEF FirstNode, PrintNode, ListPrinted, SkipNode, ListSearched, Total, ExampleLabels
<1> QED
  BY <1>1, <1>2, <1>3, <1>4 DEF LinkedListNext

\* The examples have labels of their own: they neither read the time nor go
\* back to the start.
LEMMA ExampleRuns ==
  ASSUME LinkedListNext \/ ExamplesNext \/ Outside
  PROVE  /\ prog \in Allocating \cup {"linked_list", "global", "qsort_int", "hex_display", "usart"}
         /\ UNCHANGED <<image, prog, pointer, mtvec, resets, time, timer>>
         /\ at \in ExampleLabels \cup {"main"} /\ at' \in ExampleLabels
<1>1. CASE LinkedListNext
  BY <1>1, LinkedListRuns DEF Step
<1>2. CASE WriteHallo
  BY <1>2 DEF WriteHallo, ExampleLabels, Allocating
<1>3. CASE \/ GlobalMain \/ MallocMain \/ GetBlock \/ Store \/ Filled
           \/ SortMain \/ Exchange \/ Sorted
           \/ DisplayMain \/ ReadSwitches \/ Show
           \/ UsartMain \/ Sent \/ Received \/ ShowReceived \/ Outside
  <2>1. \E p \in Allocating \cup {"global", "qsort_int", "hex_display", "usart"},
           from \in ExampleLabels \cup {"main"}, to \in ExampleLabels : Run(p, from, to)
    <3>1. CASE GlobalMain
      BY <3>1 DEF GlobalMain, Assign, ExampleLabels
    <3>2. CASE MallocMain \/ Store \/ Filled
      BY <3>2 DEF MallocMain, Store, Filled, ExampleLabels
    <3>3. CASE GetBlock
      BY <3>3 DEF GetBlock, ExampleLabels
    <3>4. CASE SortMain \/ Exchange \/ Sorted
      BY <3>4 DEF SortMain, Exchange, Sorted, ExampleLabels
    <3>5. CASE DisplayMain \/ ReadSwitches \/ Show \/ UsartMain \/ Sent \/ Received \/ ShowReceived
      BY <3>5 DEF DisplayMain, ReadSwitches, Show, UsartMain, Sent, Received, ShowReceived, ExampleLabels
    <3>6. CASE Outside
      BY <3>6 DEF Outside, Switch, FrameSent, Receive, ExampleLabels
    <3> QED
      BY <1>3, <3>1, <3>2, <3>3, <3>4, <3>5, <3>6
  <2> QED
    BY <2>1 DEF Run
<1> QED
  BY <1>1, <1>2, <1>3 DEF ExamplesNext

\* The steps of the interrupt programs,
LEMMA InterruptProgramSteps ==
  ASSUME prog \in InterruptPrograms, [Next]_vars
  PROVE  \/ Tools \/ Reset \/ UNCHANGED vars
         \/ StartupNext /\ UNCHANGED <<library, heap, vectored>>
         \/ TimeNext /\ UNCHANGED <<heap, vectored>>
         \/ InterruptNext /\ UNCHANGED heap
         \/ Event /\ UNCHANGED heap
<1>1. ~Outside /\ ~LinkedListNext
  BY ExampleRuns DEF InterruptPrograms, Allocating
<1> QED
  BY <1>1 DEF Next, Software, InterruptPrograms

\* of clock and interval,
LEMMA TimingProgramSteps ==
  ASSUME prog \in {"clock", "interval"}, [Next]_vars
  PROVE  \/ Tools \/ Reset \/ UNCHANGED vars
         \/ StartupNext /\ UNCHANGED <<library, heap, vectored>>
         \/ TimeNext /\ UNCHANGED <<heap, vectored>>
         \/ TimingNext /\ UNCHANGED <<heap, vectored>>
<1>1. ~Outside /\ ~LinkedListNext /\ ~ExamplesNext
  BY ExampleRuns DEF Allocating
<1>2. ~Event
  BY DEF Event, InMain, InterruptPrograms
<1> QED
  BY <1>1, <1>2 DEF Next, Software, InterruptPrograms

\* and of the others.
LEMMA ExampleProgramSteps ==
  ASSUME prog \notin InterruptPrograms \cup {"clock", "interval"}, [Next]_vars
  PROVE  \/ Tools \/ Reset \/ UNCHANGED vars
         \/ StartupNext /\ UNCHANGED <<library, heap, vectored>>
         \/ TimeNext /\ UNCHANGED <<heap, vectored>>
         \/ prog = "linked_list" /\ LinkedListNext /\ UNCHANGED vectored
         \/ ExamplesNext /\ UNCHANGED vectored
         \/ Outside /\ UNCHANGED vectored
<1>1. ~Event
  BY DEF Event, InMain
<1> QED
  BY <1>1 DEF Next, Software

\* The start-up code and a reset do not touch what belongs to the program.
LEMMA StartupRuns ==
  ASSUME StartupNext
  PROVE  /\ UNCHANGED <<image, prog, resets>>
         /\ at \in Starting /\ at' \in (Starting \ {"off"}) \cup {"main"}
BY DEF StartupNext, PowerOn, EnterStart, ClearBss, BssCleared, CopyData, CallMain, Starting

-----------------------------------------------------------------------------
(* Traps *)

\* What an interrupt leads to.
LEMMA InterruptCause ==
  ASSUME Interrupt # -1
  PROVE  csr.mie /\ Interrupt \in {7, 16, 17, 18}
BY DEF Interrupt

\* Where an interrupt and an exception enter.
LEMMA EntryOf ==
  ASSUME prog \in InterruptPrograms,
         mtvec = IF prog = "direct" THEN [to |-> "universal_handler", vectored |-> FALSE]
                 ELSE [to |-> "handler_jump_table", vectored |-> TRUE],
         NEW cause \in Int, NEW interrupt \in BOOLEAN
  PROVE  Entry(cause, interrupt) =
           IF prog = "direct" \/ ~interrupt THEN "universal_handler"
           ELSE handler_jump_table(cause)
BY DEF Entry, handler_jump_table, InterruptPrograms

\* A trap leads from main into a handler, with the registers of main.
LEMMA TrapStep ==
  ASSUME prog \in InterruptPrograms, TrapControl, RegistersKept, TakeInterrupt \/ TakeException
  PROVE  /\ TrapControl' /\ RegistersKept'
         /\ at \in Interruptible /\ at' \in HandlerSteps \ ReadingTime
         /\ at' # "restore" /\ at' # "service"
         /\ UNCHANGED <<NotTraps, mtvec, time, timer, lines, timecmp, events>>
         /\ before' = regs
         /\ csr'.mcause = ECALL => at = "ecall"
<1>1. \E cause \in Int, interrupt \in BOOLEAN, mepc \in Interruptible :
        /\ Trap(cause, interrupt, mepc)
        /\ interrupt => cause \in {7, 16, 17, 18}
        /\ cause = ECALL => at = "ecall" /\ mepc = "ecalled"
        /\ at \in Interruptible
  <2>1. CASE TakeInterrupt
    <3>1. /\ Interrupt \in {7, 16, 17, 18} /\ at \in Interruptible
          /\ Trap(Interrupt, TRUE, at)
      BY <2>1, InterruptCause DEF TakeInterrupt, TrapControl
    <3>2. Interrupt \in Int /\ Interrupt # ECALL /\ TRUE \in BOOLEAN
      BY <3>1 DEF ECALL
    <3> QED
      BY <3>1, <3>2
  <2>2. CASE TakeException
    <3>1. CASE at = "ecall" /\ Trap(ECALL, FALSE, "ecalled")
      <4>1. ECALL \in Int /\ FALSE \in BOOLEAN /\ "ecalled" \in Interruptible /\ at \in Interruptible
        BY <3>1 DEF ECALL, Interruptible
      <4> QED
        BY <3>1, <4>1
    <3>2. CASE at = "ebreak" /\ Trap(EBREAK, FALSE, "loop")
      <4>1. /\ EBREAK \in Int /\ EBREAK # ECALL /\ FALSE \in BOOLEAN /\ "loop" \in Interruptible
            /\ at \in Interruptible
        BY <3>2 DEF EBREAK, ECALL, Interruptible
      <4> QED
        BY <3>2, <4>1
    <3> QED
      BY <2>2, <3>1, <3>2 DEF TakeException
  <2> QED
    BY <2>1, <2>2
<1>2. PICK cause \in Int, interrupt \in BOOLEAN, mepc \in Interruptible :
        /\ Trap(cause, interrupt, mepc)
        /\ interrupt => cause \in {7, 16, 17, 18}
        /\ cause = ECALL => at = "ecall" /\ mepc = "ecalled"
        /\ at \in Interruptible
  BY <1>1
<1>3. mtvec = IF prog = "direct" THEN [to |-> "universal_handler", vectored |-> FALSE]
              ELSE [to |-> "handler_jump_table", vectored |-> TRUE]
  BY <1>2 DEF TrapControl
<1>4. Entry(cause, interrupt) = IF prog = "direct" \/ ~interrupt THEN "universal_handler"
                                ELSE handler_jump_table(cause)
  BY <1>3, EntryOf
<1>5. \/ at' = "universal_handler"
      \/ prog = "vectored" /\ at' = "external_timer_handler" /\ cause = 7
      \/ prog = "vectored" /\ at' \in {"timer1_cmpt_handler", "usart_handler"} /\ cause # ECALL
      \/ prog = "vectored" /\ at' = "default_handler"
  <2>1. CASE prog = "direct" \/ ~interrupt
    BY <1>2, <1>4, <2>1 DEF Trap
  <2>2. CASE prog # "direct" /\ interrupt
    BY <1>2, <1>4, <2>2 DEF Trap, handler_jump_table, InterruptPrograms, ECALL
  <2> QED
    BY <2>1, <2>2
<1>6. /\ csr' = [mie |-> FALSE, mtie |-> csr.mtie, mcause |-> cause, mepc |-> mepc]
      /\ before' = regs
      /\ UNCHANGED <<NotTraps, mtvec, time, timer, regs, saved, lines, timecmp, events>>
  BY <1>2 DEF Trap, Entered, TrapControl
<1>7. prog' = prog
  BY <1>6 DEF NotTraps
<1>8. at' \in HandlerSteps \ ReadingTime /\ at' # "restore" /\ at' # "service"
  BY <1>5 DEF HandlerSteps, ReadingTime
<1>9. TrapControl'
  BY <1>2, <1>3, <1>6, <1>7, <1>8 DEF TrapControl, Interruptible, MainSteps, HandlerSteps, ReadingTime
<1>10. RegistersKept'
  BY <1>2, <1>5, <1>6, <1>7 DEF RegistersKept, HandlerSteps, ReadingTime, ECALL
<1> QED
  BY <1>2, <1>6, <1>8, <1>9, <1>10

\* MRET leads back to what was interrupted.
LEMMA ReturnStep ==
  ASSUME prog \in InterruptPrograms, TrapControl, RegistersKept, at \in HandlerSteps,
         Return, UNCHANGED <<prog, mtvec>>, regs' \in [Registers -> Int]
  PROVE  TrapControl' /\ RegistersKept' /\ at' \in Interruptible /\ at' = csr.mepc
<1>1. /\ csr' = [mie |-> TRUE, mtie |-> csr.mtie, mcause |-> 0, mepc |-> "main"]
      /\ at' = csr.mepc /\ at' \in Interruptible
      /\ saved' = NoRegisters /\ before' = NoRegisters
  BY DEF Return, TrapControl
<1>2. NoRegisters \in [Registers -> Int]
  BY DEF NoRegisters
<1>3. TrapControl'
  BY <1>1 DEF TrapControl, Interruptible, MainSteps, HandlerSteps, ReadingTime
<1>4. RegistersKept'
  BY <1>1, <1>2 DEF RegistersKept, Interruptible, HandlerSteps, ReadingTime
<1> QED
  BY <1>1, <1>3, <1>4

\* An interrupt function returns into main, a plain one to universal_handler.
LEMMA HandlerReturnsStep ==
  ASSUME prog \in InterruptPrograms, TrapControl, RegistersKept,
         at \in {"timer1_cmpt_handler", "usart_handler", "timed"}, csr.mcause # ECALL,
         HandlerReturns, UNCHANGED <<prog, mtvec>>
  PROVE  TrapControl' /\ RegistersKept' /\ at' \in Interruptible \cup {"reload_a0"}
<1>1. at \in HandlerSteps
  BY DEF HandlerSteps, ReadingTime
<1>2. CASE prog = "vectored"
  <2>1. Return /\ regs' \in [Registers -> Int]
    BY <1>2 DEF HandlerReturns, RegistersKept
  <2> QED
    BY <1>1, <2>1, ReturnStep
<1>3. CASE prog # "vectored"
  <2>1. /\ at' = "reload_a0" /\ UNCHANGED <<csr, saved, before>>
        /\ regs' = [r \in Registers |-> IF r = "a0" THEN Junk ELSE Junk]
    BY <1>3 DEF HandlerReturns, Clobbered
  <2>2. regs' \in [Registers -> Int]
    BY <2>1 DEF Junk
  <2>3. saved = before
    BY <1>3 DEF RegistersKept, ReadingTime
  <2>4. TrapControl'
    BY <1>1, <2>1 DEF TrapControl, HandlerSteps, Interruptible, MainSteps, Starting, ReadingTime
  <2>5. RegistersKept'
    BY <1>1, <2>1, <2>2, <2>3 DEF RegistersKept, HandlerSteps, ReadingTime
  <2> QED
    BY <2>1, <2>4, <2>5
<1> QED
  BY <1>2, <1>3

\* What system calls return are numbers.
LEMMA ServiceType ==
  ASSUME NEW id, NEW a0 \in Int, NEW a1 \in Int
  PROVE  /\ Service(id, a0, a1).ret \in Int /\ Service(id, a0, a1).errno \in Int
         /\ Service(id, a0, a1).st_mode \in Int
<1>1. EndOfData \in Int
  BY LibraryAssumption
<1> QED
  BY <1>1 DEF Service, Brk, Returns, Fails, Stats, ENOMEM, EBADF, ENOENT, EMLINK, EACCES,
              ENOSYS, S_IFCHR

\* The handlers keep the registers of main.
LEMMA HandlerStep ==
  ASSUME prog \in InterruptPrograms, TrapControl, RegistersKept, Handler
  PROVE  /\ TrapControl' /\ RegistersKept'
         /\ at \in HandlerSteps /\ at' \in HandlerSteps \cup Interruptible
<1>1. at \in HandlerSteps /\ csr.mepc \in Interruptible /\ UNCHANGED <<prog, mtvec>>
  <2>1. at \in HandlerSteps /\ UNCHANGED <<prog, mtvec>>
    BY DEF Handler, timer1_cmpt_handler, usart_handler, external_timer_handler, SetDeadline,
           default_handler, UniversalHandler, SystemCall, TimeOfDay, Debugger, ReloadA0, Restore,
           Handles, InHandler, NotTraps, HandlerSteps, ReadingTime
  <2> QED
    BY <2>1 DEF TrapControl
<1>2. ASSUME UNCHANGED csr, at' \in HandlerSteps
      PROVE  TrapControl'
  BY <1>1, <1>2 DEF TrapControl, HandlerSteps, Interruptible, MainSteps, Starting, ReadingTime
<1>3. Clobbered(Junk) \in [Registers -> Int] /\ Clobbered(0) \in [Registers -> Int]
  BY DEF Clobbered, Junk
<1>4. CASE timer1_cmpt_handler \/ usart_handler \/ SetDeadline
  <2>1. /\ at \in {"timer1_cmpt_handler", "usart_handler", "timed"} /\ HandlerReturns
        /\ csr.mcause # ECALL
    BY <1>4 DEF timer1_cmpt_handler, usart_handler, SetDeadline, Handles, RegistersKept, ECALL
  <2>2. TrapControl' /\ RegistersKept' /\ at' \in Interruptible \cup {"reload_a0"}
    BY <1>1, <2>1, HandlerReturnsStep
  <2> QED
    BY <1>1, <2>2 DEF HandlerSteps
<1>5. CASE external_timer_handler
  <2>1. /\ at = "external_timer_handler" /\ at' = "rdtimeh"
        /\ UNCHANGED <<csr, regs, saved, before>>
    BY <1>5 DEF external_timer_handler, Handles, ReadTime
  <2>2. RegistersKept'
    BY <1>1, <2>1 DEF RegistersKept, HandlerSteps, ReadingTime, ECALL
  <2> QED
    BY <1>1, <1>2, <2>1, <2>2 DEF HandlerSteps, ReadingTime
<1>6. CASE default_handler
  <2>1. at' = "held" /\ UNCHANGED <<csr, regs, saved, before>>
    BY <1>6 DEF default_handler, Handles
  <2>2. RegistersKept'
    BY <1>1, <2>1 DEF RegistersKept, HandlerSteps, ReadingTime
  <2> QED
    BY <1>1, <1>2, <2>1, <2>2 DEF HandlerSteps
<1>7. CASE UniversalHandler
  <2>1. at = "universal_handler" /\ saved' = regs /\ UNCHANGED <<csr, regs, before>>
    BY <1>7 DEF UniversalHandler
  <2>2. IF csr.mcause = ECALL /\ call = "gettimeofday" THEN at' = "rdtimeh" ELSE at' = Branch
    BY <1>7 DEF UniversalHandler, ReadTime
  <2>3. \/ at' = "rdtimeh" /\ csr.mcause = ECALL
        \/ at' = "service" /\ csr.mcause = ECALL
        \/ at' \in {"debugger", "reload_a0"}
        \/ at' = "external_timer_handler" /\ csr.mcause = 7 /\ prog = "direct"
        \/ /\ at' \in {"timer1_cmpt_handler", "usart_handler"} /\ csr.mcause # ECALL
           /\ prog = "direct"
    BY <2>2 DEF Branch, ECALL, EBREAK
  <2>4. RegistersKept'
    BY <1>1, <2>1, <2>3 DEF RegistersKept, HandlerSteps, ReadingTime, ECALL
  <2>5. at' \in HandlerSteps
    BY <2>3 DEF HandlerSteps, ReadingTime
  <2> QED
    BY <1>1, <1>2, <2>1, <2>4, <2>5
<1>8. CASE SystemCall
  <2>1. /\ at = "service" /\ at' = "restore" /\ UNCHANGED <<csr, saved, before>>
        /\ regs' = Clobbered(Service(call, regs["a0"], regs["a1"]).ret)
    BY <1>8 DEF SystemCall
  <2>2. regs' \in [Registers -> Int]
    <3>1. Service(call, regs["a0"], regs["a1"]).ret \in Int
      BY ServiceType DEF RegistersKept, Registers
    <3> QED
      BY <2>1, <3>1 DEF Clobbered, Junk
  <2>3. RegistersKept'
    BY <1>1, <2>1, <2>2 DEF RegistersKept, HandlerSteps, ReadingTime
  <2> QED
    BY <1>1, <1>2, <2>1, <2>3 DEF HandlerSteps
<1>9. CASE TimeOfDay
  <2>1. /\ at = "timed" /\ at' = "restore" /\ UNCHANGED <<csr, saved, before>>
        /\ regs' = Clobbered(0) /\ csr.mcause = ECALL
    BY <1>9 DEF TimeOfDay
  <2>2. RegistersKept'
    BY <1>1, <1>3, <2>1 DEF RegistersKept, HandlerSteps, ReadingTime
  <2> QED
    BY <1>1, <1>2, <2>1, <2>2 DEF HandlerSteps
<1>10. CASE Debugger
  <2>1. /\ at = "debugger" /\ at' = "reload_a0" /\ UNCHANGED <<csr, saved, before>>
        /\ regs' = Clobbered(Junk)
    BY <1>10 DEF Debugger, InHandler
  <2>2. RegistersKept'
    BY <1>1, <1>3, <2>1 DEF RegistersKept, HandlerSteps, ReadingTime
  <2> QED
    BY <1>1, <1>2, <2>1, <2>2 DEF HandlerSteps
<1>11. CASE ReloadA0
  <2>1. /\ at = "reload_a0" /\ at' = "restore" /\ UNCHANGED <<csr, saved, before>>
        /\ regs' = [regs EXCEPT !["a0"] = saved["a0"]]
    BY <1>11 DEF ReloadA0, InHandler
  <2>2. regs' \in [Registers -> Int] /\ regs'["a0"] = saved["a0"]
    BY <2>1 DEF RegistersKept, Registers
  <2>3. RegistersKept'
    BY <1>1, <2>1, <2>2 DEF RegistersKept, HandlerSteps, ReadingTime
  <2> QED
    BY <1>1, <1>2, <2>1, <2>3 DEF HandlerSteps
<1>12. CASE Restore
  <2>1. at = "restore" /\ regs' = Restored /\ Return
    BY <1>12 DEF Restore
  <2>2. regs' \in [Registers -> Int]
    BY <2>1 DEF Restored, RegistersKept
  <2> QED
    BY <1>1, <2>1, <2>2, ReturnStep
<1> QED
  BY <1>4, <1>5, <1>6, <1>7, <1>8, <1>9, <1>10, <1>11, <1>12 DEF Handler

\* The steps of main.
LEMMA MainStep ==
  ASSUME prog \in InterruptPrograms, TrapControl, RegistersKept, MainLoop
  PROVE  /\ TrapControl' /\ RegistersKept'
         /\ at \in MainSteps /\ at' \in MainSteps \ {"main"}
         /\ UNCHANGED <<image, prog, pointer, ram, resets, timer>>
<1>1. PICK from \in MainSteps, to \in MainSteps \ {"main"} : Main(from, to)
  <2>1. CASE SetMtvec \/ SetVectoredMode \/ enable_external_timer_irq \/ enable_irq
    BY <2>1 DEF SetMtvec, SetVectoredMode, enable_external_timer_irq, enable_irq, MainSteps
  <2>2. CASE CallSystem \/ ShowTime \/ Count
    BY <2>2 DEF CallSystem, ShowTime, Count, MainSteps
  <2> QED
    BY <2>1, <2>2 DEF MainLoop
<1>2. /\ at \in MainSteps /\ at' \in MainSteps \ {"main"}
      /\ UNCHANGED <<image, prog, pointer, ram, resets, timer, saved, before>>
  BY <1>1 DEF Main
<1>3. /\ csr' \in [mie : BOOLEAN, mtie : BOOLEAN, mcause : Int, mepc : MainSteps]
      /\ csr'.mie => at' \in Interruptible
      /\ at' = "mode" =>
           prog = "vectored" /\ mtvec' = [to |-> "handler_jump_table", vectored |-> FALSE]
      /\ at' \in Interruptible \cup {"mtie", "mie"} =>
           mtvec' = IF prog = "direct" THEN [to |-> "universal_handler", vectored |-> FALSE]
                    ELSE [to |-> "handler_jump_table", vectored |-> TRUE]
  <2> USE DEF Main, TrapControl, Interruptible, MainSteps, HandlerSteps, ReadingTime
  <2>1. CASE SetMtvec
    BY <2>1 DEF SetMtvec, InterruptPrograms
  <2>2. CASE SetVectoredMode
    <3>1. /\ at = "mode" /\ at' = "mtie" /\ csr' = csr /\ mtvec' = [mtvec EXCEPT !.vectored = TRUE]
          /\ mtvec = [to |-> "handler_jump_table", vectored |-> FALSE] /\ prog = "vectored"
      BY <2>2 DEF SetVectoredMode
    <3>2. mtvec' = [to |-> "handler_jump_table", vectored |-> TRUE]
      BY <3>1
    <3> QED
      BY <3>1, <3>2
  <2>3. CASE enable_external_timer_irq
    BY <2>3 DEF enable_external_timer_irq
  <2>4. CASE enable_irq
    BY <2>4 DEF enable_irq
  <2>5. CASE CallSystem
    BY <2>5 DEF CallSystem
  <2>6. CASE ShowTime \/ Count
    BY <2>6 DEF ShowTime, Count
  <2> QED
    BY <2>1, <2>2, <2>3, <2>4, <2>5, <2>6 DEF MainLoop
<1>4. regs' \in [Registers -> Int]
  <2>1. CASE CallSystem
    <3>1. PICK c \in LibraryCalls \cup {[id |-> "gettimeofday", a0 |-> 1, a1 |-> 0]} :
            regs' = [a0 |-> c.a0, a1 |-> c.a1, s0 |-> 1]
      BY <2>1 DEF CallSystem
    <3>2. c.a0 \in Int /\ c.a1 \in Int
      BY HandlerAssumption
    <3> QED
      BY <3>1, <3>2 DEF Registers
  <2>2. CASE ~CallSystem
    BY <2>2 DEF MainLoop, SetMtvec, SetVectoredMode, enable_external_timer_irq, enable_irq,
                ShowTime, Count, RegistersKept, NoRegisters
  <2> QED
    BY <2>1, <2>2
<1>5. at' \notin HandlerSteps
  BY <1>2 DEF MainSteps, HandlerSteps, ReadingTime
<1>6. TrapControl'
  BY <1>2, <1>3, <1>5 DEF TrapControl
<1>7. RegistersKept'
  BY <1>2, <1>4, <1>5 DEF RegistersKept, HandlerSteps
<1> QED
  BY <1>2, <1>6, <1>7

\* The program that was built is not exchanged.
LEMMA ProgKept ==
  ASSUME [Next]_vars
  PROVE  prog' = prog
<1>1. CASE Tools \/ Reset \/ Event
  BY <1>1 DEF Tools, Reset, ResetCore, ResetTo, Event, NotTraps
<1>2. CASE StartupNext \/ LinkedListNext \/ ExamplesNext \/ Outside
  BY <1>2, StartupRuns, ExampleRuns
<1>3. CASE TimeNext \/ TimingNext
  BY <1>3 DEF TimeNext, RdTimeH, RdTime, RdTimeHAgain, Instruction, TimingNext, ClockNext,
              IntervalNext, ClockMain, ClockTimed, ClockShow, IntervalMain, Current, Wait,
              FiveSecondsElapsed, Does, Calls
<1>4. CASE TakeInterrupt \/ TakeException
  BY <1>4 DEF TakeInterrupt, TakeException, Trap, NotTraps
<1>5. CASE Handler
  BY <1>5 DEF Handler, timer1_cmpt_handler, usart_handler, external_timer_handler, SetDeadline,
              default_handler, UniversalHandler, SystemCall, TimeOfDay, Debugger, ReloadA0,
              Restore, Handles, InHandler, NotTraps
<1>6. CASE MainLoop
  BY <1>6 DEF MainLoop, SetMtvec, SetVectoredMode, enable_external_timer_irq, enable_irq,
              CallSystem, ShowTime, Count, Main
<1>7. CASE UNCHANGED vars
  BY <1>7 DEF vars, startup
<1> QED
  BY <1>1, <1>2, <1>3, <1>4, <1>5, <1>6, <1>7 DEF Next, Software, InterruptNext

\* Traps and registers, in every step.
LEMMA TrapsStep ==
  ASSUME TrapControl, RegistersKept, [Next]_vars
  PROVE  TrapControl' /\ RegistersKept'
<1>1. CASE prog \notin InterruptPrograms
  BY <1>1, ProgKept DEF TrapControl, RegistersKept
<1>2. CASE prog \in InterruptPrograms
  <2> USE <1>2
  <2>1. CASE Tools \/ UNCHANGED vars \/ (Event /\ UNCHANGED heap)
    <3>1. UNCHANGED <<prog, at, mtvec, regs, saved, csr, before>>
      BY <2>1 DEF Tools, vars, startup, vectored, Event, NotTraps
    <3> QED
      BY <3>1 DEF TrapControl, RegistersKept
  <2>2. CASE Reset
    <3>1. /\ at' = "_start" /\ prog' = prog /\ csr' = NoTrap
          /\ regs' = NoRegisters /\ saved' = NoRegisters /\ before' = NoRegisters
      BY <2>2 DEF Reset, ResetCore, ResetTo, DevicesReset
    <3>2. csr' \in [mie : BOOLEAN, mtie : BOOLEAN, mcause : Int, mepc : MainSteps] /\ ~csr'.mie
      BY <3>1 DEF NoTrap, MainSteps
    <3>3. NoRegisters \in [Registers -> Int]
      BY DEF NoRegisters
    <3> QED
      BY <3>1, <3>2, <3>3 DEF TrapControl, RegistersKept, Starting, Interruptible, HandlerSteps,
                              ReadingTime
  <2>3. CASE StartupNext /\ UNCHANGED <<library, heap, vectored>>
    <3>1. /\ UNCHANGED <<prog, regs, saved, csr, before>>
          /\ at \in Starting /\ at' \in (Starting \ {"off"}) \cup {"main"}
      BY <2>3, StartupRuns DEF vectored
    <3> QED
      BY <3>1 DEF TrapControl, RegistersKept, Starting, Interruptible, HandlerSteps, MainSteps,
                  ReadingTime
  <2>4. CASE TimeNext /\ UNCHANGED <<heap, vectored>>
    <3>1. /\ UNCHANGED <<prog, mtvec, regs, saved, csr, before>>
          /\ at \in ReadingTime /\ at' \in ReadingTime
      BY <2>4 DEF vectored, TimeNext, RdTimeH, RdTime, RdTimeHAgain, Instruction, ReadingTime
    <3> QED
      BY <3>1 DEF TrapControl, RegistersKept, Starting, Interruptible, HandlerSteps, MainSteps,
                  ReadingTime
  <2>5. CASE InterruptNext
    BY <2>5, TrapStep, HandlerStep, MainStep DEF InterruptNext
  <2> QED
    BY <2>1, <2>2, <2>3, <2>4, <2>5, InterruptProgramSteps
<1> QED
  BY <1>1, <1>2

\* Only a handler leads back to where main was interrupted.
LEMMA HandlerFinishes ==
  ASSUME TrapControl, RegistersKept, [Next]_vars, NEW label \in Enders, Finished(label)
  PROVE  /\ Handler /\ prog \in InterruptPrograms /\ at = label /\ at' = csr.mepc
         /\ at \in HandlerSteps /\ at' \in Interruptible
         /\ csr \in [mie : BOOLEAN, mtie : BOOLEAN, mcause : Int, mepc : MainSteps] /\ ~csr.mie
<1>1. /\ prog \in InterruptPrograms /\ at = label /\ at' = csr.mepc
      /\ at \in HandlerSteps /\ at' \in Interruptible
      /\ csr \in [mie : BOOLEAN, mtie : BOOLEAN, mcause : Int, mepc : MainSteps] /\ ~csr.mie
  BY DEF Finished, Enders, HandlerSteps, ReadingTime, TrapControl, Interruptible
<1>2. at \notin MainSteps /\ at \notin Starting /\ at' \notin Starting \cup HandlerSteps
  BY <1>1 DEF HandlerSteps, ReadingTime, MainSteps, Starting, Interruptible
<1>3. ~Reset /\ ~StartupNext /\ ~Event /\ ~MainLoop /\ ~TakeInterrupt /\ ~TakeException
  BY <1>1, <1>2, StartupRuns, MainStep, TrapStep DEF Reset, ResetCore, ResetTo, Event, InMain, Starting,
     HandlerSteps, Interruptible, MainSteps, ReadingTime
<1>4. ~Tools /\ ~UNCHANGED vars /\ ~TimeNext
  BY <1>1, <1>2 DEF Tools, vars, startup, TimeNext, RdTimeH, RdTime, RdTimeHAgain, Instruction,
     HandlerSteps, Interruptible, MainSteps, ReadingTime
<1> QED
  BY <1>1, <1>3, <1>4, InterruptProgramSteps DEF InterruptNext

\* At the end of a handler the registers are those of main.
LEMMA RegistersReturn ==
  ASSUME TrapControl, RegistersKept, [Next]_vars, NEW label \in Enders, Finished(label),
         NEW r \in Registers
  PROVE  regs'[r] = before[r] \/ (r = "a0" /\ csr.mcause = ECALL)
<1>1. /\ Handler /\ prog \in InterruptPrograms /\ at = label /\ at' = csr.mepc
      /\ at \in HandlerSteps /\ at' \in Interruptible
      /\ csr \in [mie : BOOLEAN, mtie : BOOLEAN, mcause : Int, mepc : MainSteps] /\ ~csr.mie
  BY HandlerFinishes
<1>2. at' \notin HandlerSteps
  BY <1>1 DEF HandlerSteps, ReadingTime, Interruptible
<1>6. CASE Restore
  <2>1. regs'[r] = IF r = "a0" THEN regs[r] ELSE saved[r]
    BY <1>6 DEF Restore, Restored
  <2>2. at = "restore"
    BY <1>6 DEF Restore
  <2> QED
    BY <1>1, <2>1, <2>2 DEF RegistersKept
<1>7. CASE timer1_cmpt_handler \/ usart_handler \/ SetDeadline
  <2>1. /\ at \in {"timer1_cmpt_handler", "usart_handler", "timed"} /\ HandlerReturns
        /\ csr.mcause # ECALL
    BY <1>1, <1>7 DEF timer1_cmpt_handler, usart_handler, SetDeadline, Handles, RegistersKept, ECALL
  <2>2. prog = "vectored" /\ regs' = regs
    BY <1>1, <2>1 DEF HandlerReturns, Interruptible
  <2> QED
    BY <1>1, <2>1, <2>2 DEF RegistersKept, ReadingTime
<1>8. CASE ~Restore /\ ~timer1_cmpt_handler /\ ~usart_handler /\ ~SetDeadline
  <2>1. at' \in HandlerSteps
    BY <1>1, <1>8 DEF Handler, external_timer_handler, default_handler, UniversalHandler,
       SystemCall, TimeOfDay, Debugger, ReloadA0, InHandler, Handles, ReadTime, Branch,
       HandlerSteps, ReadingTime, Enders
  <2> QED
    BY <1>2, <2>1
<1> QED
  BY <1>6, <1>7, <1>8

-----------------------------------------------------------------------------
(* The programs and the start-up code *)

\* A step of a program is none of the start-up code.
LEMMA ProgramSteps ==
  ASSUME TrapControl, RegistersKept,
         \/ TimeNext \/ TimingNext \/ LinkedListNext \/ ExamplesNext \/ Outside
         \/ prog \in InterruptPrograms /\ InterruptNext
  PROVE  /\ {at, at'} \cap Starting = {} /\ at' # "main"
         /\ UNCHANGED <<image, prog, pointer, resets>>
<1>1. CASE TimeNext \/ TimingNext
  BY <1>1 DEF TimeNext, RdTimeH, RdTime, RdTimeHAgain, Instruction, TimingNext, ClockNext,
              IntervalNext, ClockMain, ClockTimed, ClockShow, IntervalMain, Current, Wait,
              FiveSecondsElapsed, Does, Calls, ReadTime, Starting
<1>2. CASE LinkedListNext \/ ExamplesNext \/ Outside
  BY <1>2, ExampleRuns DEF ExampleLabels, Starting
<1>3. CASE prog \in InterruptPrograms /\ (TakeInterrupt \/ TakeException)
  BY <1>3, TrapStep DEF NotTraps, Interruptible, HandlerSteps, ReadingTime, Starting
<1>4. CASE prog \in InterruptPrograms /\ MainLoop
  BY <1>4, MainStep DEF MainSteps, Starting
<1>5. CASE prog \in InterruptPrograms /\ Handler
  <2>1. UNCHANGED <<image, prog, pointer, resets>>
    BY <1>5 DEF Handler, timer1_cmpt_handler, usart_handler, external_timer_handler, SetDeadline,
       default_handler, UniversalHandler, SystemCall, TimeOfDay, Debugger, ReloadA0, Restore,
       Handles, InHandler, NotTraps
  <2> QED
    BY <1>5, <2>1, HandlerStep DEF Interruptible, HandlerSteps, ReadingTime, Starting
<1> QED
  BY <1>1, <1>2, <1>3, <1>4, <1>5 DEF InterruptNext

\* So the start-up code sees what it expects of a program.
LEMMA StartupSees ==
  ASSUME Progress, TrapControl, RegistersKept, [Next]_vars, ram' \in [Ram -> Int]
  PROVE  [MakeRom \/ StartupNext \/ ResetCore \/ ProgramRuns]_startup
<1>1. CASE Tools
  <2>1. at = "off"
    BY <1>1 DEF Tools, ImageNext, Start, SkipLine, VhdlRecord, MifRecord, ReadLine, VhdlWritten,
                MifWritten, Written, Progress
  <2> QED
    BY <1>1, <2>1 DEF Tools, MakeRom
<1>2. CASE Reset
  BY <1>2 DEF Reset
<1>3. CASE StartupNext
  BY <1>3
<1>4. CASE \/ TimeNext \/ TimingNext \/ LinkedListNext \/ ExamplesNext \/ Outside
           \/ prog \in InterruptPrograms /\ InterruptNext
  BY <1>4, ProgramSteps DEF ProgramRuns, Starting
<1>5. CASE Event
  BY <1>5 DEF Event, NotTraps, startup
<1>6. CASE UNCHANGED vars
  BY <1>6 DEF vars
<1> QED
  BY <1>1, <1>2, <1>3, <1>4, <1>5, <1>6 DEF Next, Software

-----------------------------------------------------------------------------
(* The heap *)

\* The variables of malloc and _sbrk are three numbers in the RAM.
LEMMA HeapVariables ==
  /\ SbrkHeapEnd \in Ram /\ MallocTop \in Ram /\ Errno \in Ram
  /\ SbrkHeapEnd # MallocTop /\ SbrkHeapEnd # Errno /\ MallocTop # Errno
  /\ EndOfData \in Nat \ {0} /\ StackLimit \in Nat /\ EndOfData <= StackLimit
  /\ Slack \subseteq Nat
BY LibraryAssumption, Layout DEF Ram

\* malloc gives the bytes behind those it has given, or none.
LEMMA MallocGives ==
  ASSUME ram \in [Ram -> Int], Arena(ram), NEW size \in Nat \ {0}, NEW m \in malloc(size)
  PROVE  /\ m.ram \in [Ram -> Int] /\ Arena(m.ram) /\ m.block \in Int
         /\ m.block = NULL => Free(m.ram) = Free(ram)
         /\ m.block # NULL => m.block = Free(ram) /\ Free(m.ram) = m.block + size
         /\ m.ram[SbrkHeapEnd] # NULL
<1>1. CASE ram[MallocTop] >= size
  <2>0. malloc(size) = {[block |-> ram[SbrkHeapEnd] - ram[MallocTop],
                         ram   |-> [ram EXCEPT ![MallocTop] = @ - size]]}
    BY <1>1 DEF malloc
  <2>1. /\ m.block = ram[SbrkHeapEnd] - ram[MallocTop]
        /\ m.ram = [ram EXCEPT ![MallocTop] = ram[MallocTop] - size]
    BY <2>0
  <2>2. /\ m.ram[MallocTop] = ram[MallocTop] - size /\ m.ram[SbrkHeapEnd] = ram[SbrkHeapEnd]
        /\ ram[SbrkHeapEnd] \in Int /\ ram[MallocTop] \in Int
    BY <2>1, HeapVariables
  <2>3. ram[SbrkHeapEnd] # NULL
    BY <1>1, HeapVariables DEF Arena, NULL
  <2>4. m.ram \in [Ram -> Int]
    BY <2>1, <2>2, HeapVariables
  <2> QED
    BY <1>1, <2>1, <2>2, <2>3, <2>4, HeapVariables DEF Arena, Free, NULL
<1>2. CASE ~(ram[MallocTop] >= size)
  <2> DEFINE need == size - ram[MallocTop]
             end == IF ram[SbrkHeapEnd] = NULL THEN EndOfData ELSE ram[SbrkHeapEnd]
  <2>0. malloc(size) =
          {LET r == _sbrk(need + more) IN
             IF r.ret = -1 THEN [block |-> NULL, ram |-> r.ram]
             ELSE [block |-> r.ret - ram[MallocTop],
                   ram   |-> [r.ram EXCEPT ![MallocTop] = more]] : more \in Slack}
    BY <1>2 DEF malloc
  <2>1. PICK more \in Slack :
          m = LET r == _sbrk(need + more) IN
                IF r.ret = -1 THEN [block |-> NULL, ram |-> r.ram]
                ELSE [block |-> r.ret - ram[MallocTop],
                      ram   |-> [r.ram EXCEPT ![MallocTop] = more]]
    BY <2>0
  <2>2. /\ ram[SbrkHeapEnd] \in Int /\ ram[MallocTop] \in Nat /\ more \in Nat
        /\ end \in EndOfData .. StackLimit /\ need \in Nat \ {0}
    BY <1>2, HeapVariables DEF Arena
  <2>3. Free(ram) = end - ram[MallocTop]
    BY <2>2, HeapVariables DEF Free, Arena, NULL
  <2>4. CASE SbrkFits(end, need + more)
    <3>1. /\ m.block = end - ram[MallocTop]
          /\ m.ram = [[ram EXCEPT ![SbrkHeapEnd] = end + (need + more)] EXCEPT ![MallocTop] = more]
      BY <2>1, <2>2, <2>4, HeapVariables DEF _sbrk
    <3>2. /\ m.ram[SbrkHeapEnd] = end + (need + more) /\ m.ram[MallocTop] = more
          /\ m.ram \in [Ram -> Int]
      BY <2>2, <3>1, HeapVariables
    <3>3. end + (need + more) <= StackLimit
      BY <2>4 DEF SbrkFits
    <3>4. m.ram[SbrkHeapEnd] # NULL /\ Free(m.ram) = (end + (need + more)) - more
      BY <2>2, <3>2, HeapVariables DEF Free, NULL
    <3>5. Free(m.ram) = m.block + size
      BY <2>2, <3>1, <3>4
    <3>6. Arena(m.ram)
      BY <2>2, <2>3, <3>1, <3>2, <3>3, <3>5, HeapVariables DEF Arena
    <3>7. m.block # NULL /\ m.block \in Int
      BY <2>2, <2>3, <3>1, HeapVariables DEF Arena, NULL
    <3> QED
      BY <2>3, <3>1, <3>2, <3>4, <3>5, <3>6, <3>7
  <2>5. CASE ~SbrkFits(end, need + more)
    <3>1. /\ m.block = NULL
          /\ m.ram = [[ram EXCEPT ![SbrkHeapEnd] = end] EXCEPT ![Errno] = ENOMEM]
      BY <2>1, <2>5 DEF _sbrk
    <3>2. /\ m.ram[SbrkHeapEnd] = end /\ m.ram[MallocTop] = ram[MallocTop]
          /\ m.ram \in [Ram -> Int]
      BY <2>2, <3>1, HeapVariables DEF ENOMEM
    <3>3. end # NULL
      BY <2>2, HeapVariables DEF NULL
    <3>4. Free(m.ram) = end - ram[MallocTop]
      BY <3>2, <3>3 DEF Free
    <3>5. Arena(m.ram)
      BY <2>2, <2>3, <3>2, <3>4 DEF Arena
    <3> QED
      BY <2>3, <3>1, <3>2, <3>3, <3>4, <3>5 DEF NULL
  <2> QED
    BY <2>4, <2>5
<1> QED
  BY <1>1, <1>2

\* A block more behind the others.
LEMMA BlockAdded ==
  ASSUME NEW size, NEW end \in Nat, Blocked(size, end), EndOfData <= end,
         NEW n \in Nat \ {0}, NEW size2, DOMAIN size2 = DOMAIN size \cup {end},
         size2[end] = n, \A a \in DOMAIN size : size2[a] = size[a]
  PROVE  Blocked(size2, end + n)
BY HeapVariables DEF Blocked

\* A block less; if it was the highest, its bytes are free again.
LEMMA BlockRemoved ==
  ASSUME NEW size, NEW end \in Nat, Blocked(size, end), NEW p \in DOMAIN size,
         NEW size2, DOMAIN size2 = DOMAIN size \ {p},
         \A a \in DOMAIN size2 : size2[a] = size[a]
  PROVE  /\ Blocked(size2, end)
         /\ p + size[p] = end => Blocked(size2, p)
BY HeapVariables DEF Blocked

\* What does not touch the variables of malloc leaves the heap in order.
LEMMA OrderKept ==
  ASSUME InOrder, UNCHANGED <<prog, heap>>, ram'[SbrkHeapEnd] = ram[SbrkHeapEnd],
         ram'[MallocTop] = ram[MallocTop]
  PROVE  InOrder'
BY DEF InOrder, Arena, Free, Sizes, SizeOf

\* A block from malloc, perhaps instead of another.
LEMMA OrderWithBlock ==
  ASSUME ram \in [Ram -> Int], InOrder, NEW n \in Nat \ {0}, NEW m \in malloc(n), m.block # NULL,
         ram'[SbrkHeapEnd] = m.ram[SbrkHeapEnd], ram'[MallocTop] = m.ram[MallocTop],
         NEW Kept \in SUBSET DOMAIN heap, DOMAIN heap' = Kept \cup {m.block},
         SizeOf(m.block)' = n, \A a \in Kept : SizeOf(a)' = SizeOf(a)
  PROVE  InOrder' /\ m.block + n = Free(ram')
<1> DEFINE kept == [a \in Kept |-> SizeOf(a)]
<1>1. /\ Arena(m.ram) /\ m.ram[SbrkHeapEnd] # NULL
      /\ m.block = Free(ram) /\ Free(m.ram) = m.block + n /\ m.block \in Int
  BY MallocGives DEF InOrder
<1>2. Arena(ram') /\ Free(ram') = Free(m.ram)
  BY <1>1 DEF Arena, Free
<1>3. m.block \in Nat /\ EndOfData <= m.block
  BY <1>1, HeapVariables DEF InOrder, Arena
<1>4. Blocked(kept, m.block)
  BY <1>1 DEF InOrder, Blocked, Sizes
<1>5. Blocked(Sizes', m.block + n)
  <2>1. DOMAIN Sizes' = DOMAIN kept \cup {m.block}
    BY DEF Sizes
  <2>2. Sizes'[m.block] = n
    BY DEF Sizes
  <2>3. \A a \in DOMAIN kept : Sizes'[a] = kept[a]
    BY DEF Sizes
  <2> HIDE DEF kept
  <2> QED
    BY <1>3, <1>4, <2>1, <2>2, <2>3, BlockAdded
<1> QED
  BY <1>1, <1>2, <1>5 DEF InOrder

\* The blocks of malloc.c and test.c: what is reallocated is the block before,
\* which is not freed.
LEMMA BlockFacts ==
  ASSUME prog \in Allocating
  PROVE  /\ Len(Blocks) \in {1, 5}
         /\ \A i \in 1 .. Len(Blocks) :
              /\ Blocks[i].size \in Nat \ {0}
              /\ Blocks[i].call = "realloc" =>
                   /\ i - 1 \in 1 .. Len(Blocks) /\ ~Blocks[i - 1].freed
                   /\ Blocks[i].size >= Blocks[i - 1].size
         /\ Blocks[1].call # "realloc"
<1>1. /\ Hundred \in Nat \ {0} /\ Hundred \div 2 \in Nat \ {0}
      /\ Realloced \in Nat \ {0} /\ Hundred <= Realloced
  BY ExamplesAssumption
<1>2. (Hundred \div SizeOfInt) * SizeOfInt = Hundred
  <2>1. Hundred % SizeOfInt = 0 /\ SizeOfInt \in Nat \ {0} /\ Hundred \in Int
    BY ExamplesAssumption
  <2>2. Hundred = ((Hundred \div SizeOfInt) * SizeOfInt) + (Hundred % SizeOfInt)
        /\ Hundred \div SizeOfInt \in Int
    BY <2>1, Euclid
  <2> QED
    BY <2>1, <2>2
<1>3. CASE prog = "test"
  BY <1>1, <1>3 DEF Blocks, Block
<1>4. CASE prog # "test"
  <2> DEFINE b == <<
    Block("malloc", Hundred, 1, Stores(1), TRUE),
    Block("malloc", Hundred \div 2, 1, Stores(1) \div 2, TRUE),
    Block("malloc", Hundred, SizeOfInt, Stores(SizeOfInt), FALSE),
    Block("realloc", Realloced, SizeOfInt, Stores(SizeOfInt), TRUE),
    Block("calloc", (Hundred \div SizeOfInt) * SizeOfInt, SizeOfInt, Stores(SizeOfInt), FALSE)>>
  <2>1. Blocks = b
    BY <1>4 DEF Blocks
  <2>2. /\ Len(b) = 5
        /\ b[1].size = Hundred /\ b[2].size = Hundred \div 2 /\ b[3].size = Hundred
        /\ b[4].size = Realloced /\ b[5].size = (Hundred \div SizeOfInt) * SizeOfInt
        /\ b[1].call = "malloc" /\ b[2].call = "malloc" /\ b[3].call = "malloc"
        /\ b[4].call = "realloc" /\ b[5].call = "calloc" /\ ~b[3].freed
    BY DEF Block
  <2>3. 1 .. Len(b) = {1, 2, 3, 4, 5}
    BY <2>2
  <2> HIDE DEF b
  <2> QED
    BY <1>1, <1>2, <2>1, <2>2, <2>3
<1> QED
  BY <1>3, <1>4

\* No memory is left.
LEMMA OrderWithout ==
  ASSUME ram \in [Ram -> Int], InOrder, NEW n \in Nat \ {0}, NEW m \in malloc(n), m.block = NULL,
         UNCHANGED <<prog, heap>>, ram' = m.ram
  PROVE  InOrder' /\ Free(ram') = Free(ram)
<1>1. Arena(ram') /\ ram'[SbrkHeapEnd] # NULL /\ Free(ram') = Free(ram)
  BY MallocGives DEF InOrder
<1> QED
  BY <1>1 DEF InOrder, Sizes, SizeOf

\* linked_list only adds nodes.
LEMMA ListHeapStep ==
  ASSUME ram \in [Ram -> Int], HeapKept, LinkedListNext
  PROVE  HeapKept' /\ ram' \in [Ram -> Int]
<1>1. /\ prog = "linked_list" /\ prog' = prog /\ prog \notin Allocating
      /\ at \notin Starting /\ at' \notin Starting \cup {"main"}
  BY LinkedListRuns DEF Step, ExampleLabels, Starting, Allocating
<1>2. InOrder
  BY <1>1 DEF HeapKept
<1>3. SizeOfNode \in Nat \ {0} /\ ListHead # SbrkHeapEnd /\ ListHead # MallocTop
  BY ListAssumption
<1>4. SUFFICES InOrder' /\ ram' \in [Ram -> Int]
  BY <1>1 DEF HeapKept
<1>5. CASE UNCHANGED <<ram, heap>>
  BY <1>1, <1>2, <1>5, OrderKept
<1>6. CASE MakeNode
  <2>1. PICK m \in malloc(SizeOfNode) : CannotAllocate(m) \/ NewNode(m)
    BY <1>6 DEF MakeNode
  <2>2. m.ram \in [Ram -> Int] /\ m.block \in Int
    BY <1>2, <1>3, MallocGives DEF InOrder
  <2>3. CASE CannotAllocate(m)
    <3>1. m.block = NULL /\ ram' = m.ram /\ heap' = heap
      BY <2>3 DEF CannotAllocate
    <3> QED
      BY <1>1, <1>2, <1>3, <2>2, <3>1, OrderWithout
  <2>4. CASE NewNode(m)
    <3>1. m.block # NULL /\ DOMAIN heap' = DOMAIN heap \cup {m.block}
      BY <2>4 DEF NewNode, Given
    <3>2. ram' = m.ram \/ ram' = [m.ram EXCEPT ![ListHead] = m.block]
      BY <2>4 DEF NewNode
    <3>3. /\ ram' \in [Ram -> Int]
          /\ ram'[SbrkHeapEnd] = m.ram[SbrkHeapEnd] /\ ram'[MallocTop] = m.ram[MallocTop]
      BY <1>3, <2>2, <3>2, HeapVariables
    <3>4. SizeOf(m.block)' = SizeOfNode /\ \A a \in DOMAIN heap : SizeOf(a)' = SizeOf(a)
      BY <1>1 DEF SizeOf
    <3> QED
      BY <1>2, <1>3, <3>1, <3>3, <3>4, OrderWithBlock
  <2> QED
    BY <2>1, <2>3, <2>4
<1>7. CASE Fill
  <2>1. PICK m \in malloc(SizeOfNode) :
          /\ ram' = m.ram
          /\ heap' = IF m.block = NULL THEN heap ELSE Given(heap, m.block, Node(""))
    BY <1>7 DEF Fill
  <2>2. m.ram \in [Ram -> Int]
    BY <1>2, <1>3, MallocGives DEF InOrder
  <2>3. CASE m.block = NULL
    BY <1>1, <1>2, <1>3, <2>1, <2>2, <2>3, OrderWithout
  <2>4. CASE m.block # NULL
    <3>1. DOMAIN heap' = DOMAIN heap \cup {m.block}
      BY <2>1, <2>4 DEF Given
    <3>2. SizeOf(m.block)' = SizeOfNode /\ \A a \in DOMAIN heap : SizeOf(a)' = SizeOf(a)
      BY <1>1 DEF SizeOf
    <3> QED
      BY <1>2, <1>3, <2>1, <2>2, <2>4, <3>1, <3>2, OrderWithBlock
  <2> QED
    BY <2>3, <2>4
<1> QED
  BY <1>5, <1>6, <1>7 DEF LinkedListNext, EnterMain, FirstNode, PrintNode, ListPrinted, SkipNode,
                          ListSearched, Total

\* A block of malloc.c or test.c.  One that is reallocated is the highest, or
\* is given up.
LEMMA BlockGiven ==
  ASSUME ram \in [Ram -> Int], HeapKept, GetBlock
  PROVE  HeapKept' /\ ram' \in [Ram -> Int]
<1> DEFINE b == Blocks[frame.block]
<1>1. /\ prog \in Allocating /\ prog' = prog /\ prog # "linked_list"
      /\ at = "get" /\ at' = "store"
  BY DEF GetBlock, Run, Allocating
<1>2. /\ InOrder /\ frame \in [block : 1 .. Len(Blocks), p : Int, i : Nat]
      /\ b.call = "realloc" => Highest(frame.p, Blocks[frame.block - 1].size)
  BY <1>1 DEF HeapKept, Starting
<1>3. /\ b.size \in Nat \ {0} /\ frame.block \in 1 .. Len(Blocks)
      /\ b.call = "realloc" => /\ b.size >= Blocks[frame.block - 1].size
                               /\ Blocks[frame.block - 1].size \in Nat
  BY <1>1, <1>2, BlockFacts
<1>4. PICK m \in IF b.call = "realloc" /\ frame.p \in DOMAIN heap THEN realloc(frame.p, b.size)
                 ELSE malloc(b.size) :
        /\ ram' = m.ram
        /\ heap' = IF m.block = NULL THEN heap
                   ELSE Given(IF b.call = "realloc" THEN Others(frame.p) ELSE heap,
                              m.block, [size |-> b.size])
        /\ frame' = [frame EXCEPT !.p = m.block, !.i = 0]
  BY DEF GetBlock
<1> DEFINE Kept == IF b.call = "realloc" THEN DOMAIN heap \ {frame.p} ELSE DOMAIN heap
<1>5. ASSUME m.block # NULL
      PROVE  /\ DOMAIN heap' = Kept \cup {m.block} /\ Kept \in SUBSET DOMAIN heap
             /\ heap'[m.block].size = b.size /\ SizeOf(m.block)' = b.size
             /\ \A a \in Kept : a # m.block => SizeOf(a)' = SizeOf(a)
  BY <1>1, <1>4, <1>5 DEF Given, Others, SizeOf
<1>6. Blocks' = Blocks
  BY <1>1 DEF Blocks, Stores
<1>7. SUFFICES /\ InOrder' /\ ram' \in [Ram -> Int] /\ m.block \in Int
               /\ m.block # NULL => m.block + b.size = Free(ram')
  <2>1. frame'.p = m.block /\ frame'.block = frame.block
        /\ frame' \in [block : 1 .. Len(Blocks), p : Int, i : Nat]
    BY <1>2, <1>4, <1>7
  <2>2. m.block # NULL => /\ m.block \in DOMAIN heap' /\ heap'[m.block].size = b.size
                          /\ m.block + b.size = Free(ram')
    BY <1>5, <1>7
  <2>3. Highest(frame.p, Blocks[frame.block].size)'
    BY <1>6, <2>1, <2>2 DEF Highest
  <2>4. frame' \in [block : 1 .. Len(Blocks'), p : Int, i : Nat]
    BY <1>6, <2>1
  <2> QED
    BY <1>1, <1>7, <2>3, <2>4 DEF HeapKept, Starting
<1>8. CASE m \in malloc(b.size)
  <2>1. /\ m.ram \in [Ram -> Int] /\ m.block \in Int
        /\ m.block = NULL \/ m.block = Free(ram)
    BY <1>2, <1>3, <1>8, MallocGives DEF InOrder
  <2>2. CASE m.block = NULL
    BY <1>1, <1>2, <1>3, <1>4, <1>8, <2>1, <2>2, OrderWithout
  <2>3. CASE m.block # NULL
    <3>1. m.block \notin Kept
      <4>1. SUFFICES m.block \notin DOMAIN heap
        OBVIOUS
      <4>2. \A a \in DOMAIN heap : a + SizeOf(a) <= Free(ram) /\ a \in Nat /\ SizeOf(a) \in Nat \ {0}
        BY <1>2 DEF InOrder, Blocked, Sizes
      <4> QED
        BY <2>1, <2>3, <4>2
    <3>2. \A a \in Kept : SizeOf(a)' = SizeOf(a)
      BY <1>5, <2>3, <3>1
    <3> HIDE DEF Kept
    <3> QED
      BY <1>2, <1>3, <1>4, <1>5, <1>8, <2>1, <2>3, <3>2, OrderWithBlock
  <2> QED
    BY <2>2, <2>3
<1>9. CASE m \notin malloc(b.size)
  <2> DEFINE p == frame.p
             extra == b.size - heap[p].size
  <2>1. /\ b.call = "realloc" /\ p \in DOMAIN heap /\ ram[MallocTop] >= extra
        /\ m = [block |-> p, ram |-> [ram EXCEPT ![MallocTop] = @ - extra]]
    BY <1>9 DEF realloc
  <2>2. p \in Nat \ {0} /\ EndOfData <= p /\ Sizes[p] = heap[p].size /\ heap[p].size \in Nat \ {0}
    BY <1>1, <1>2, <2>1, HeapVariables DEF InOrder, Blocked, Sizes, SizeOf
  <2>3. /\ p + heap[p].size = Free(ram) /\ Free(ram) \in Nat
        /\ extra \in Nat /\ p + b.size = Free(ram) + extra
    <3>1. /\ p + heap[p].size = Free(ram) /\ heap[p].size <= b.size
      BY <1>2, <1>3, <2>1, <2>2 DEF Highest, NULL
    <3>2. b.size \in Nat /\ p \in Nat /\ heap[p].size \in Nat
      BY <1>3, <2>2
    <3> HIDE DEF p, b
    <3> QED
      BY <3>1, <3>2
  <2>4. ram[SbrkHeapEnd] # NULL /\ ram[SbrkHeapEnd] \in EndOfData .. StackLimit
        /\ ram[MallocTop] \in Nat
    BY <1>2, <2>1 DEF InOrder, Arena
  <2>5. Free(ram') = Free(ram) + extra /\ Arena(ram') /\ ram' \in [Ram -> Int]
        /\ ram'[SbrkHeapEnd] = ram[SbrkHeapEnd]
    <3>1. ram' = [ram EXCEPT ![MallocTop] = @ - extra] /\ ram[MallocTop] >= extra
      BY <1>4, <2>1
    <3> HIDE DEF extra
    <3>2. /\ ram' \in [Ram -> Int] /\ ram'[SbrkHeapEnd] = ram[SbrkHeapEnd]
          /\ ram'[MallocTop] = ram[MallocTop] - extra
      BY <2>3, <2>4, <3>1, HeapVariables
    <3>3. Free(ram') = Free(ram) + extra
      BY <2>3, <2>4, <3>2, HeapVariables DEF Free
    <3>4. EndOfData <= Free(ram)
      BY <1>2 DEF InOrder, Arena
    <3> QED
      BY <2>3, <2>4, <3>1, <3>2, <3>3, <3>4, HeapVariables DEF Arena
  <2>8. Blocked(Sizes', p + b.size)
    <3> DEFINE others == [a \in DOMAIN heap \ {p} |-> SizeOf(a)]
    <3>1. Blocked(others, p)
      <4>1. /\ Blocked(Sizes, Free(ram)) /\ p \in DOMAIN Sizes
            /\ DOMAIN others = DOMAIN Sizes \ {p} /\ \A a \in DOMAIN others : others[a] = Sizes[a]
        BY <1>2, <2>1 DEF InOrder, Sizes
      <4>2. Free(ram) \in Nat /\ p + Sizes[p] = Free(ram)
        BY <2>2, <2>3
      <4> HIDE DEF others, p
      <4> QED
        BY <4>1, <4>2, BlockRemoved
    <3>2. /\ DOMAIN Sizes' = DOMAIN others \cup {p} /\ Sizes'[p] = b.size
          /\ \A a \in DOMAIN others : Sizes'[a] = others[a]
      BY <1>5, <2>1, <2>2 DEF Sizes, NULL
    <3> HIDE DEF others, p
    <3> QED
      BY <1>3, <2>2, <3>1, <3>2, BlockAdded
  <2> QED
    <3>1. m.block = p /\ p \in Int
      BY <2>1, <2>2
    <3>2. Blocked(Sizes', Free(ram'))
      BY <2>3, <2>5, <2>8
    <3> HIDE DEF extra, p, b
    <3> QED
      BY <2>3, <2>4, <2>5, <3>1, <3>2 DEF InOrder
<1> QED
  BY <1>8, <1>9

\* The highest block is freed: what is behind the others is free again.
LEMMA OrderFreed ==
  ASSUME ram \in [Ram -> Int], prog \in Allocating, prog' = prog, InOrder,
         NEW p \in Int, p # NULL, NEW n \in Nat \ {0}, Highest(p, n),
         ram' = Freed(ram, p), heap' = Others(p)
  PROVE  InOrder' /\ ram' \in [Ram -> Int] /\ Free(ram') = p
<1>1. /\ p \in DOMAIN heap /\ heap[p].size = n /\ p + n = Free(ram)
      /\ ram[SbrkHeapEnd] # NULL /\ ram[SbrkHeapEnd] \in EndOfData .. StackLimit
      /\ ram[MallocTop] \in Nat
  BY DEF Highest, InOrder, Arena
<1>2. Sizes[p] = n /\ p \in Nat /\ EndOfData <= p
  BY <1>1 DEF InOrder, Blocked, Sizes, SizeOf, Allocating
<1>3. ram' = [ram EXCEPT ![MallocTop] = ram[MallocTop] + n]
  BY <1>1 DEF Freed, Free
<1>4. /\ ram' \in [Ram -> Int] /\ ram'[SbrkHeapEnd] = ram[SbrkHeapEnd]
      /\ ram'[MallocTop] = ram[MallocTop] + n
  BY <1>1, <1>3, HeapVariables
<1>5. Free(ram') = p
  BY <1>1, <1>2, <1>4, HeapVariables DEF Free
<1>6. Arena(ram')
  BY <1>1, <1>2, <1>4, <1>5, HeapVariables DEF Arena
<1>7. Blocked(Sizes', p)
  <2>1. /\ Blocked(Sizes, Free(ram)) /\ p \in DOMAIN Sizes /\ Free(ram) \in Nat
        /\ DOMAIN Sizes' = DOMAIN Sizes \ {p} /\ \A a \in DOMAIN Sizes' : Sizes'[a] = Sizes[a]
    BY <1>1, <1>2 DEF InOrder, Sizes, Others, SizeOf
  <2> QED
    BY <1>1, <1>2, <2>1, BlockRemoved
<1> QED
  BY <1>1, <1>4, <1>5, <1>6, <1>7 DEF InOrder

\* malloc.c and test.c.
LEMMA AllocatingHeapStep ==
  ASSUME ram \in [Ram -> Int], HeapKept, MallocMain \/ GetBlock \/ Store \/ Filled
  PROVE  HeapKept' /\ ram' \in [Ram -> Int]
<1>1. /\ prog \in Allocating /\ prog' = prog /\ prog # "linked_list"
      /\ at \notin Starting /\ at' \notin Starting \cup {"main"}
  BY DEF MallocMain, GetBlock, Store, Filled, Run, Allocating, Starting
<1>2. InOrder
  BY <1>1 DEF HeapKept
<1>3. Blocks' = Blocks
  BY <1>1 DEF Blocks, Stores
<1>4. Len(Blocks) \in {1, 5} /\ Blocks[1].call # "realloc"
  BY <1>1, BlockFacts
<1>5. CASE MallocMain
  <2>1. /\ at' = "get" /\ frame' = [block |-> 1, p |-> NULL, i |-> 0] /\ UNCHANGED <<ram, heap>>
    BY <1>5 DEF MallocMain, Run
  <2>2. InOrder'
    BY <1>1, <1>2, <2>1, OrderKept
  <2>3. frame' \in [block : 1 .. Len(Blocks), p : Int, i : Nat] /\ frame'.block = 1
    BY <1>4, <2>1 DEF NULL
  <2> QED
    BY <1>1, <1>3, <1>4, <2>1, <2>2, <2>3 DEF HeapKept, Starting
<1>6. CASE GetBlock
  BY <1>6, BlockGiven
<1>7. CASE Store
  <2>1. /\ at = "store" /\ at' = "store" /\ frame' = [frame EXCEPT !.i = @ + 1]
        /\ UNCHANGED <<ram, heap>>
    BY <1>7 DEF Store, Run
  <2>2. /\ frame \in [block : 1 .. Len(Blocks), p : Int, i : Nat]
        /\ Highest(frame.p, Blocks[frame.block].size)
    BY <1>1, <2>1 DEF HeapKept
  <2>3. frame' \in [block : 1 .. Len(Blocks), p : Int, i : Nat]
        /\ frame'.p = frame.p /\ frame'.block = frame.block
    BY <2>1, <2>2
  <2>4. Highest(frame.p, Blocks[frame.block].size)'
    BY <1>3, <2>1, <2>2, <2>3 DEF Highest, Free
  <2>5. InOrder'
    BY <1>1, <1>2, <2>1, OrderKept
  <2> QED
    BY <1>1, <1>3, <2>1, <2>3, <2>4, <2>5 DEF HeapKept, Starting
<1>8. CASE Filled
  <2> DEFINE b == Blocks[frame.block]
  <2>1. /\ at = "store"
        /\ \/ at' = "get" /\ frame.block < Len(Blocks)
           \/ at' \in {"write", "exit"}
        /\ frame' = [frame EXCEPT !.block = IF @ < Len(Blocks) THEN @ + 1 ELSE @]
        /\ IF b.freed /\ frame.p # NULL
           THEN ram' = Freed(ram, frame.p) /\ heap' = Others(frame.p)
           ELSE UNCHANGED <<ram, heap>>
    BY <1>8 DEF Filled, Run
  <2>2. frame \in [block : 1 .. Len(Blocks), p : Int, i : Nat] /\ Highest(frame.p, b.size)
    BY <1>1, <2>1 DEF HeapKept
  <2>3. b.size \in Nat \ {0}
    BY <1>1, <2>2, BlockFacts
  <2>4. InOrder' /\ ram' \in [Ram -> Int]
    <3>1. CASE b.freed /\ frame.p # NULL
      <4>1. ram' = Freed(ram, frame.p) /\ heap' = Others(frame.p)
        BY <2>1, <3>1
      <4>2. frame.p \in Int
        BY <2>2
      <4> HIDE DEF b
      <4> QED
        BY <1>1, <1>2, <2>2, <2>3, <3>1, <4>1, <4>2, OrderFreed
    <3>2. CASE ~(b.freed /\ frame.p # NULL)
      BY <1>1, <1>2, <2>1, <3>2, OrderKept
    <3> QED
      BY <3>1, <3>2
  <2>5. ASSUME at' = "get"
        PROVE  /\ frame' \in [block : 1 .. Len(Blocks), p : Int, i : Nat]
               /\ Blocks[frame'.block].call = "realloc" =>
                    Highest(frame.p, Blocks[frame.block - 1].size)'
    <3>1. frame.block < Len(Blocks) /\ frame.block \in Nat /\ Len(Blocks) \in Nat
      BY <1>4, <2>1, <2>2, <2>5
    <3>2. /\ frame' \in [block : 1 .. Len(Blocks), p : Int, i : Nat]
          /\ frame'.block = frame.block + 1 /\ frame'.p = frame.p
      BY <2>1, <2>2, <3>1
    <3>3. ASSUME Blocks[frame'.block].call = "realloc"
          PROVE  Highest(frame.p, Blocks[frame.block - 1].size)'
      <4>1. ~b.freed
        BY <1>1, <3>1, <3>2, <3>3, BlockFacts
      <4>2. UNCHANGED <<ram, heap>>
        BY <2>1, <4>1
      <4>3. (frame.block + 1) - 1 = frame.block
        BY <3>1
      <4> QED
        BY <1>3, <2>2, <3>2, <4>2, <4>3 DEF Highest, Free
    <3> QED
      BY <3>2, <3>3
  <2> QED
    BY <1>1, <1>3, <2>1, <2>4, <2>5 DEF HeapKept, Starting
<1> QED
  BY <1>5, <1>6, <1>7, <1>8

\* A step that has nothing to do with the heap.
LEMMA HeapLeft ==
  ASSUME HeapKept, UNCHANGED <<prog, heap>>, at \notin Starting, at' \notin Starting \cup {"main"},
         prog \in Allocating => at' \notin {"get", "store"},
         ram'[SbrkHeapEnd] = ram[SbrkHeapEnd], ram'[MallocTop] = ram[MallocTop]
  PROVE  HeapKept'
<1>1. InOrder'
  BY OrderKept DEF HeapKept
<1> QED
  BY <1>1 DEF HeapKept

\* global.c writes to its own variables.
LEMMA GlobalWrites ==
  ASSUME ram \in [Ram -> Int], GlobalMain
  PROVE  /\ ram' \in [Ram -> Int] /\ UNCHANGED heap
         /\ ram'[SbrkHeapEnd] = ram[SbrkHeapEnd] /\ ram'[MallocTop] = ram[MallocTop]
<1>1. /\ Sdata \notin {SbrkHeapEnd, MallocTop} /\ Edata - 1 \notin {SbrkHeapEnd, MallocTop}
      /\ Sbss \notin {SbrkHeapEnd, MallocTop} /\ Ebss - 1 \notin {SbrkHeapEnd, MallocTop}
      /\ Errno \notin {SbrkHeapEnd, MallocTop}
  <2>1. Sbss \notin {SbrkHeapEnd, MallocTop} /\ Ebss - 1 \notin {SbrkHeapEnd, MallocTop}
    BY ExamplesAssumption
  <2>2. /\ SbrkHeapEnd \in Sbss .. Ebss - 1 /\ MallocTop \in Sbss .. Ebss - 1
        /\ Errno \notin {SbrkHeapEnd, MallocTop}
    BY LibraryAssumption
  <2> QED
    BY <2>1, <2>2, Layout
<1> DEFINE Writes(a) == \E v : ram' = [ram EXCEPT ![a] = v] /\ (a \in Ram => v \in Int)
<1>2. \E a \in {Sdata, Edata - 1, Sbss, Ebss - 1, Errno} : Writes(a)
  <2>1. CASE ram' = [ram EXCEPT ![Errno] = -1] \/ ram' = [ram EXCEPT ![Errno] = 0]
    <3>1. Writes(Errno)
      BY <2>1
    <3> QED
      BY <3>1
  <2>2. CASE ram' = [ram EXCEPT ![Sdata] = ram[Sdata] + 1] \/ ram' = [ram EXCEPT ![Sdata] = C]
    <3>1. Writes(Sdata)
      BY <2>2 DEF C
    <3> QED
      BY <3>1
  <2>0. x12345678 \in Int /\ x90abcdef \in Int
    BY SMT DEF x12345678, x90abcdef
  <2>3. CASE ram' = [ram EXCEPT ![Sbss] = x12345678]
    <3>1. Writes(Sbss)
      BY <2>0, <2>3
    <3> QED
      BY <3>1
  <2>4. CASE ram' = [ram EXCEPT ![Ebss - 1] = x90abcdef]
    <3>1. Writes(Ebss - 1)
      BY <2>0, <2>4
    <3> QED
      BY <3>1
  <2>5. CASE ram' = [ram EXCEPT ![Edata - 1] = ram[Edata - 1] + 1]
    <3> DEFINE v == ram[Edata - 1] + 1
    <3>1. ram' = [ram EXCEPT ![Edata - 1] = v] /\ (Edata - 1 \in Ram => v \in Int)
      BY <2>5
    <3> HIDE DEF v
    <3>2. Writes(Edata - 1)
      BY <3>1
    <3> QED
      BY <3>2
  <2> HIDE DEF Writes
  <2> QED
    BY <2>1, <2>2, <2>3, <2>4, <2>5 DEF GlobalMain, Assign
<1>3. PICK a \in {Sdata, Edata - 1, Sbss, Ebss - 1, Errno} : Writes(a)
  BY <1>2
<1>4. a \notin {SbrkHeapEnd, MallocTop}
  BY <1>1
<1>5. heap' = heap
  BY DEF GlobalMain, Assign
<1> QED
  BY <1>3, <1>4, <1>5, HeapVariables

\* The interrupt programs set errno, and nothing else that the library has.
LEMMA InterruptWrites ==
  ASSUME ram \in [Ram -> Int], prog \in InterruptPrograms, TrapControl, RegistersKept, InterruptNext
  PROVE  /\ ram' \in [Ram -> Int]
         /\ \A a \in Ram \ {Errno} : ram'[a] = ram[a]
<1>1. CASE SystemCall
  <2> DEFINE s == Service(call, regs["a0"], regs["a1"])
  <2>1. s.errno \in Int
    <3>1. at = "service" /\ regs["a0"] \in Int /\ regs["a1"] \in Int
      BY <1>1 DEF SystemCall, RegistersKept, Registers
    <3> QED
      BY <3>1, ServiceType
  <2>2. ram' = IF s.errno = 0 THEN ram ELSE [ram EXCEPT ![Errno] = s.errno]
    BY <1>1 DEF SystemCall
  <2> HIDE DEF s
  <2> QED
    BY <2>1, <2>2
<1>2. CASE ~SystemCall
  <2>1. ram' = ram
    <3>1. CASE TakeInterrupt \/ TakeException
      BY <3>1, TrapStep DEF NotTraps
    <3>2. CASE MainLoop
      BY <3>2, MainStep
    <3>3. CASE Handler
      BY <1>2, <3>3 DEF Handler, timer1_cmpt_handler, usart_handler, external_timer_handler,
         SetDeadline, default_handler, UniversalHandler, TimeOfDay, Debugger, ReloadA0, Restore,
         Handles, InHandler, NotTraps
    <3> QED
      BY <3>1, <3>2, <3>3 DEF InterruptNext
  <2> QED
    BY <2>1
<1> QED
  BY <1>1, <1>2

\* The heap in every step of a program,
LEMMA ProgramHeapStep ==
  ASSUME ram \in [Ram -> Int], TrapControl, RegistersKept, HeapKept,
         \/ TimeNext /\ UNCHANGED <<heap, vectored>>
         \/ prog \in InterruptPrograms /\ InterruptNext /\ UNCHANGED heap
         \/ prog \in {"clock", "interval"} /\ TimingNext /\ UNCHANGED <<heap, vectored>>
         \/ prog = "linked_list" /\ LinkedListNext /\ UNCHANGED vectored
         \/ prog \notin InterruptPrograms /\ ExamplesNext /\ UNCHANGED vectored
         \/ Outside /\ UNCHANGED vectored
  PROVE  HeapKept' /\ ram' \in [Ram -> Int]
<1>1. /\ {at, at'} \cap Starting = {} /\ at' # "main" /\ prog' = prog
  BY ProgramSteps
<1>2. CASE TimeNext /\ UNCHANGED <<heap, vectored>>
  <2>1. ram' = ram /\ at' \in ReadingTime
    BY <1>2 DEF TimeNext, RdTimeH, RdTime, RdTimeHAgain, Instruction, ReadingTime
  <2> QED
    BY <1>1, <1>2, <2>1, HeapLeft DEF ReadingTime
<1>3. CASE prog \in InterruptPrograms /\ InterruptNext /\ UNCHANGED heap
  BY <1>1, <1>3, InterruptWrites, HeapVariables, HeapLeft DEF InterruptPrograms, Allocating
<1>4. CASE prog \in {"clock", "interval"} /\ TimingNext /\ UNCHANGED <<heap, vectored>>
  <2>1. ram' = ram
    BY <1>4 DEF TimingNext, ClockNext, IntervalNext, ClockMain, ClockTimed, ClockShow,
                IntervalMain, Current, Wait, FiveSecondsElapsed, Does, Calls
  <2> QED
    BY <1>1, <1>4, <2>1, HeapLeft DEF Allocating
<1>5. CASE LinkedListNext
  BY <1>5, ListHeapStep
<1>6. CASE ExamplesNext
  <2>1. CASE MallocMain \/ GetBlock \/ Store \/ Filled
    BY <2>1, AllocatingHeapStep
  <2>2. CASE GlobalMain
    <3>1. prog = "global"
      BY <2>2 DEF GlobalMain, Assign, Run
    <3> QED
      BY <1>1, <2>2, <3>1, GlobalWrites, HeapLeft DEF Allocating
  <2>3. CASE WriteHallo
    BY <1>1, <2>3, HeapLeft DEF WriteHallo
  <2>4. CASE SortMain \/ Exchange \/ Sorted \/ DisplayMain \/ ReadSwitches \/ Show
             \/ UsartMain \/ Sent \/ Received \/ ShowReceived
    <3>1. UNCHANGED <<ram, heap>> /\ prog \notin Allocating
      BY <2>4 DEF SortMain, Exchange, Sorted, DisplayMain, ReadSwitches, Show, UsartMain, Sent,
                  Received, ShowReceived, Run, Allocating
    <3> QED
      BY <1>1, <3>1, HeapLeft
  <2> QED
    BY <1>6, <2>1, <2>2, <2>3, <2>4 DEF ExamplesNext
<1>7. CASE Outside
  <2>1. UNCHANGED <<ram, heap>> /\ prog \notin Allocating
    BY <1>7 DEF Outside, Switch, FrameSent, Receive, Run, Allocating
  <2> QED
    BY <1>1, <2>1, HeapLeft
<1> QED
  BY <1>2, <1>3, <1>4, <1>5, <1>6, <1>7

\* and in every other.
LEMMA HeapStep ==
  ASSUME Progress, TrapControl, RegistersKept, HeapKept, RomIsProgram, [Next]_vars
  PROVE  HeapKept' /\ ram' \in [Ram -> Int]
<1>1. ram \in [Ram -> Int]
  BY DEF Progress
<1>2. CASE Tools \/ UNCHANGED vars \/ (Event /\ UNCHANGED heap)
  <2>1. UNCHANGED <<prog, at, ram, heap, frame>>
    BY <1>2 DEF Tools, vars, startup, library, Event, NotTraps
  <2> QED
    BY <1>1, <2>1 DEF HeapKept, InOrder, Arena, Free, Sizes, SizeOf, Highest, Blocks, Stores
<1>3. CASE Reset
  <2>1. /\ at' = "_start" /\ heap' = <<>> /\ ram' = ram
    BY <1>3 DEF Reset, ResetCore, ResetTo, DevicesReset
  <2>2. DOMAIN heap' = {}
    BY <2>1
  <2> QED
    BY <1>1, <2>1, <2>2 DEF HeapKept, Starting
<1>4. CASE StartupNext /\ UNCHANGED <<library, heap, vectored>>
  <2>1. at \in Starting /\ at' \in Starting \cup {"main"} /\ DOMAIN heap' = {}
    BY <1>4, StartupRuns DEF HeapKept
  <2>2. ram' \in [Ram -> Int]
    BY <1>4, ProgressStep DEF Progress
  <2>3. at' \notin Starting => ram'[SbrkHeapEnd] = 0 /\ ram'[MallocTop] = 0
    <3>1. SUFFICES ASSUME at' \notin Starting PROVE ram'[SbrkHeapEnd] = 0 /\ ram'[MallocTop] = 0
      OBVIOUS
    <3>2. at = "data" /\ ram' = ram
      BY <1>4, <3>1 DEF StartupNext, PowerOn, EnterStart, ClearBss, BssCleared, CopyData,
                        CallMain, Starting
    <3> QED
      BY <3>2, LibraryAssumption DEF Progress, Cleared
  <2>4. at' \notin Starting => InOrder'
    BY <2>1, <2>3, HeapVariables DEF InOrder, Arena, Blocked, Sizes, Free, NULL
  <2>5. at' \notin {"get", "store"}
    BY <2>1 DEF Starting
  <2> QED
    BY <2>1, <2>2, <2>3, <2>4, <2>5 DEF HeapKept, NULL
<1> QED
  BY <1>1, <1>2, <1>3, <1>4, ProgramHeapStep DEF Next, Software

-----------------------------------------------------------------------------
(* Theorems: registers, start-up code and heap *)

\* At power-on no program has run.
LEMMA InitTraps ==
  ASSUME Init
  PROVE  TrapControl /\ RegistersKept
<1>1. /\ at = "off" /\ csr = NoTrap
      /\ regs = NoRegisters /\ saved = NoRegisters /\ before = NoRegisters
  BY DEF Init, StartupInit, VectoredInit
<1>2. NoRegisters \in [Registers -> Int]
  BY DEF NoRegisters
<1>3. csr \in [mie : BOOLEAN, mtie : BOOLEAN, mcause : Int, mepc : MainSteps] /\ ~csr.mie
  BY <1>1 DEF NoTrap, MainSteps
<1> QED
  BY <1>1, <1>2, <1>3 DEF TrapControl, RegistersKept, Starting, Interruptible, HandlerSteps,
                          ReadingTime

\* In both interrupt programs, in every mode of the trap vector and from every
\* trap, main gets back its registers, but for the a0 that a system call returns
\* (universal_handler.c:127-159, 332-392), whatever the handlers and the
\* compiler do to them and wherever resets hit.
THEOREM RegistersComeBack ==
  Spec => RegistersSurvive
<1>1. TrapControl /\ RegistersKept /\ [Next]_vars => (TrapControl /\ RegistersKept)'
  BY TrapsStep
<1>2. TrapControl /\ RegistersKept /\ [Next]_vars =>
        [(\E label \in Enders : Finished(label)) =>
           \A r \in Registers :
             regs'[r] = before[r] \/ (r = "a0" /\ csr.mcause = ECALL)]_<<at, regs, csr>>
  BY RegistersReturn
<1>3. Init => TrapControl /\ RegistersKept
  BY InitTraps
<1> QED
  BY <1>1, <1>2, <1>3, PTL DEF Spec, RegistersSurvive

\* What the start-up code and the heap rely on.
Memory == Progress /\ TrapControl /\ RegistersKept /\ HeapKept

\* Before power-on there is nothing to rely on.
LEMMA InitMemory ==
  ASSUME Init
  PROVE  Memory
<1>1. /\ at = "off" /\ heap = <<>> /\ ram = [a \in Ram |-> 0]
  BY DEF Init, StartupInit
<1>2. DOMAIN heap = {}
  BY <1>1
<1>3. HeapKept
  BY <1>1, <1>2 DEF HeapKept, Starting
<1>4. Progress
  BY <1>1 DEF Progress
<1> QED
  BY <1>3, <1>4, InitTraps DEF Memory

\* Every step keeps it, and is one that the start-up code expects.
LEMMA MemoryStep ==
  ASSUME Memory, RomIsProgram, [Next]_vars
  PROVE  Memory' /\ [MakeRom \/ StartupNext \/ ResetCore \/ ProgramRuns]_startup
<1>1. TrapControl' /\ RegistersKept'
  BY TrapsStep DEF Memory
<1>2. HeapKept' /\ ram' \in [Ram -> Int]
  BY HeapStep DEF Memory
<1>3. [MakeRom \/ StartupNext \/ ResetCore \/ ProgramRuns]_startup
  BY <1>2, StartupSees DEF Memory
<1>4. Progress'
  BY <1>3, ProgressStep DEF Memory
<1> QED
  BY <1>1, <1>2, <1>3, <1>4 DEF Memory

\* Every program, with its handlers, system calls and heap, keeps to what the
\* start-up code expects of it (startup.c:23-78): it does not go back into the
\* start-up code, and nothing but that code calls main.
THEOREM ProgramsKeepOut ==
  Spec => StartupSpec
<1>1. Memory /\ Transcribed /\ [Next]_vars =>
        /\ (Memory /\ Transcribed)'
        /\ [MakeRom \/ StartupNext \/ ResetCore \/ ProgramRuns]_startup
  BY MemoryStep, RomStays DEF Transcribed
<1>2. Init => Memory /\ Transcribed
  BY InitMemory, ToolsInit DEF Init
<1>3. Init => ImageInit /\ StartupInit
  BY DEF Init
<1> QED
  BY <1>1, <1>2, <1>3, PTL DEF Spec, StartupSpec

\* So main of every one of them finds its data, after every reset
\* (startup.c:55-70).
THEOREM EveryMainFindsItsData ==
  Spec => []MainFindsItsData
BY ProgramsKeepOut, DataInitialised, PTL

\* What the processor executes is the program, whatever the programs do with the RAM
\* and however often they are reset: the ROM is made once, by one of the tools
\* (srec2vhdl.c:145-369, srec2mif.c:166-251).
THEOREM ProgramIsInRom ==
  Spec => []RomIsProgram
<1>1. Transcribed /\ [MakeRom \/ StartupNext \/ ResetCore \/ ProgramRuns]_startup
        => RomIsProgram /\ Transcribed'
  BY RomStays
<1>2. Transcribed => RomIsProgram
  BY DEF Transcribed
<1> QED
  BY <1>1, <1>2, ProgramsKeepOut, ToolsInit, PTL DEF StartupSpec

\* What malloc has given to linked_list, malloc.c and test.c lies above the data
\* and below the reserved stack, inside what _sbrk has given, and no two blocks
\* overlap (sys_sbrk.c:28-38, linked_list.c:154-162, malloc.c:8-49), for every
\* size of blocks and of memory, whatever malloc asks for beyond its needs.
THEOREM HeapStaysSound ==
  Spec => []HeapIsSound
<1>1. Memory /\ RomIsProgram /\ [Next]_vars => Memory'
  BY MemoryStep
<1>2. Init => Memory
  BY InitMemory
<1>3. Memory => HeapIsSound
  <2> SUFFICES ASSUME Memory, Running PROVE HeapIsSound
    BY DEF HeapIsSound
  <2>1. InOrder
    BY DEF Memory, HeapKept, Running, Starting
  <2>2. \A a \in DOMAIN heap : Sizes[a] = SizeOf(a)
    BY DEF Sizes
  <2>3. DOMAIN heap # {} => Free(ram) = ram[SbrkHeapEnd] - ram[MallocTop]
    BY <2>1 DEF InOrder, Free
  <2>4. DOMAIN Sizes = DOMAIN heap
    BY DEF Sizes
  <2> QED
    BY <2>1, <2>2, <2>3, <2>4 DEF InOrder, Arena, Blocked, HeapIsSound
<1> QED
  BY <1>1, <1>2, <1>3, ProgramIsInRom, PTL DEF Spec

-----------------------------------------------------------------------------
(* Theorems: the time *)

\* A number has one pair of digits.
LEMMA OneDivision ==
  ASSUME NEW M \in Nat \ {0}, NEW k \in Int, NEW low \in 0 .. M - 1
  PROVE  (k * M + low) \div M = k /\ (k * M + low) % M = low
<1> DEFINE p == k * M + low
           d == p \div M
           r == p % M
<1>0. d \in Int /\ r \in 0 .. M - 1 /\ p = d * M + r
  BY Euclid
<1> HIDE DEF d, r
<1>1. (k - d) * M = r - low
  BY <1>0
<1>2. CASE k - d >= 1
  <2>1. (k - d) * M >= M
    BY <1>0, <1>2
  <2> QED
    BY <1>0, <1>1, <2>1
<1>3. CASE k - d <= -1
  <2>1. (d - k) * M >= M /\ (d - k) * M = low - r
    BY <1>0, <1>1, <1>3
  <2> QED
    BY <1>0, <2>1
<1>4. CASE k = d
  BY <1>0, <1>1, <1>4 DEF r, d
<1> QED
  BY <1>0, <1>2, <1>3, <1>4

\* The digits of a natural number are natural numbers.
LEMMA NaturalDigits ==
  ASSUME NEW M \in Nat \ {0}, NEW p \in Nat
  PROVE  /\ p \div M \in Nat /\ p % M \in 0 .. M - 1
         /\ p = ((p \div M) * M) + (p % M)
<1>1. p \div M \in Nat
  BY DivMonotone
<1> QED
  BY <1>1, Euclid

\* Hours, minutes and seconds are the seconds, in base Sixty.
LEMMA Sexagesimal ==
  ASSUME NEW S \in Nat \ {0}, NEW sec \in Nat
  PROVE  /\ (sec \div (S * S)) * S + ((sec \div S) % S) = sec \div S
         /\ sec \div (S * S) \in Nat /\ (sec \div S) % S \in Nat /\ sec % S \in Nat
         /\ ((sec \div S) * S) + (sec % S) = sec
<1> DEFINE m == sec \div S
           s == sec % S
           h == m \div S
           n == m % S
<1>1. m \in Nat /\ s \in 0 .. S - 1 /\ sec = m * S + s
  BY NaturalDigits
<1> HIDE DEF m, s
<1>2. h \in Nat /\ n \in 0 .. S - 1 /\ m = h * S + n
  BY <1>1, NaturalDigits
<1> HIDE DEF h, n
<1>3. n * S + s \in 0 .. (S * S) - 1
  <2>1. n * S <= (S - 1) * S /\ n * S >= 0
    BY <1>2
  <2> QED
    BY <1>1, <1>2, <2>1
<1>4. sec = h * (S * S) + (n * S + s) /\ S * S \in Nat \ {0}
  BY <1>1, <1>2
<1>5. sec \div (S * S) = h
  <2> DEFINE M == S * S
             low == n * S + s
  <2>1. M \in Nat \ {0} /\ low \in 0 .. M - 1 /\ sec = h * M + low
    BY <1>3, <1>4
  <2> HIDE DEF M, low
  <2>2. sec \div M = h
    BY <1>2, <2>1, OneDivision
  <2> QED
    BY <2>2 DEF M
<1>6. h * S + n = m /\ m * S + s = sec /\ h \in Nat /\ n \in Nat /\ s \in Nat
  BY <1>1, <1>2
<1>7. m = sec \div S /\ s = sec % S /\ n = (sec \div S) % S
  BY DEF m, s, n
<1> QED
  BY <1>5, <1>6, <1>7

\* The difference of two numbers of Word values is right, if it is not negative,
\* and never more.
LEMMA DifferenceOfRests ==
  ASSUME NEW M \in Nat \ {0}, NEW a \in Nat, NEW b \in Nat, b <= a
  PROVE  ((a % M) - (b % M)) % M <= a - b
<1> DEFINE x == (a % M) - (b % M)
           ka == a \div M
           kb == b \div M
           q == (a - b) \div M
           r == (a - b) % M
<1>1. /\ ka \in Int /\ a % M \in 0 .. M - 1 /\ a = ka * M + (a % M)
      /\ kb \in Int /\ b % M \in 0 .. M - 1 /\ b = kb * M + (b % M)
  BY Euclid
<1>2. /\ q \in Nat /\ r \in 0 .. M - 1 /\ a - b = q * M + r
  <2>1. a - b \in Nat
    OBVIOUS
  <2> QED
    BY <2>1, NaturalDigits
<1>3. x = (q - ka + kb) * M + r
  <2> HIDE DEF ka, kb, q, r
  <2>1. x = (a - b) - ka * M + kb * M
    BY <1>1
  <2> QED
    BY <1>1, <1>2, <2>1
<1>4. x % M = r
  <2> DEFINE k == q - ka + kb
  <2>1. k \in Int /\ x = k * M + r
    BY <1>1, <1>2, <1>3
  <2> HIDE DEF k, x, r
  <2> QED
    BY <1>2, <2>1, OneDivision
<1>5. q * M >= 0
  BY <1>2
<1> QED
  BY <1>2, <1>4, <1>5

\* Outside of the loop nothing is known about what was read; it begins with the
\* time of the call.
LEMMA NotReading ==
  ASSUME time' \in Nat, timer' \in [th : Nat, tl : Nat, called : Nat],
         at' \notin ReadingTime \/ (at' = "rdtimeh" /\ timer'.called <= time')
  PROVE  Reading'
BY DEF Reading, ReadingTime

\* A call that begins to read the time has read nothing yet.
LEMMA ReadingBegins ==
  ASSUME time \in Nat, ReadTime, time' = time
  PROVE  Reading'
<1>1. timer' = [th |-> 0, tl |-> 0, called |-> time]
  BY DEF ReadTime, NoTimer
<1>2. timer' \in [th : Nat, tl : Nat, called : Nat] /\ timer'.called <= time' /\ time' \in Nat
  BY <1>1
<1>3. at' = "rdtimeh"
  BY DEF ReadTime
<1> QED
  BY <1>2, <1>3, NotReading

\* A moment that passes is one.
LEMMA TimeGoesOn ==
  ASSUME time \in Nat, TimePasses
  PROVE  time' \in Nat /\ time <= time'
BY DEF TimePasses

\* No program but the loop itself disturbs the reading of the time.
LEMMA ReadingKept ==
  ASSUME Reading, TrapControl, RegistersKept, [Next]_vars
  PROVE  Reading'
<1>1. time \in Nat /\ timer \in [th : Nat, tl : Nat, called : Nat]
  BY DEF Reading
<1>2. NoTimer \in [th : Nat, tl : Nat, called : Nat]
  BY DEF NoTimer
<1>3. CASE Tools \/ UNCHANGED vars \/ Event
  <2>1. UNCHANGED <<at, time, timer>>
    BY <1>3 DEF Tools, vars, startup, library, Event
  <2> QED
    BY <2>1 DEF Reading, thetime
<1>4. CASE Reset
  BY <1>2, <1>4, NotReading DEF Reset, DevicesReset, ResetCore, ResetTo, ReadingTime
<1>5. CASE StartupNext /\ UNCHANGED <<library, heap, vectored>>
  BY <1>1, <1>5, StartupRuns, NotReading DEF library, Starting, ReadingTime
<1>6. CASE TimeNext
  BY <1>6, ReadingStep
<1>7. CASE LinkedListNext \/ ExamplesNext \/ Outside
  BY <1>1, <1>7, ExampleRuns, NotReading DEF ExampleLabels, ReadingTime
<1>8. CASE TimingNext
  <2>1. CASE Calls("clock", "gettimeofday") \/ Calls("interval", "clock") \/ Calls("interval", "wait")
    BY <1>1, <2>1, ReadingBegins DEF Calls
  <2>2. CASE ClockMain \/ ClockTimed \/ ClockShow \/ IntervalMain \/ Current \/ Wait
             \/ FiveSecondsElapsed
    <3>1. TimePasses /\ timer' = timer /\ at' \notin ReadingTime
      BY <2>2 DEF ClockMain, ClockTimed, ClockShow, IntervalMain, Current, Wait,
                  FiveSecondsElapsed, Does, ReadingTime
    <3> QED
      BY <1>1, <3>1, TimeGoesOn, NotReading
  <2> QED
    BY <1>8, <2>1, <2>2 DEF TimingNext, ClockNext, IntervalNext
<1>9. CASE prog \in InterruptPrograms /\ InterruptNext
  <2>1. CASE TakeInterrupt \/ TakeException
    BY <1>1, <1>9, <2>1, TrapStep, NotReading
  <2>2. CASE MainLoop
    <3>1. timer' = timer /\ at' \in MainSteps
      BY <1>9, <2>2, MainStep
    <3>2. TimePasses
      BY <2>2 DEF MainLoop, SetMtvec, SetVectoredMode, enable_external_timer_irq, enable_irq,
                  CallSystem, ShowTime, Count, Main
    <3> QED
      BY <1>1, <3>1, <3>2, TimeGoesOn, NotReading DEF MainSteps, ReadingTime
  <2>3. CASE Handler
    <3>1. time' = time /\ (timer' \in {timer, NoTimer} \/ ReadTime)
      BY <2>3 DEF Handler, timer1_cmpt_handler, usart_handler, external_timer_handler,
         SetDeadline, default_handler, UniversalHandler, SystemCall, TimeOfDay, Debugger, ReloadA0,
         Restore, Handles, InHandler
    <3>2. ReadTime \/ at' \notin ReadingTime
      <4>1. csr.mepc \notin ReadingTime
        BY <1>9, <2>3, HandlerStep DEF TrapControl, Interruptible, ReadingTime
      <4> QED
        BY <2>3, <4>1 DEF Handler, timer1_cmpt_handler, usart_handler, external_timer_handler,
           SetDeadline, default_handler, UniversalHandler, SystemCall, TimeOfDay, Debugger,
           ReloadA0, Restore, HandlerReturns, Return, Branch, Handles, InHandler, ReadingTime
    <3> QED
      BY <1>1, <1>2, <3>1, <3>2, ReadingBegins, NotReading
  <2> QED
    BY <1>9, <2>1, <2>2, <2>3 DEF InterruptNext
<1> QED
  BY <1>3, <1>4, <1>5, <1>6, <1>7, <1>8, <1>9 DEF Next, Software

\* What the programs that read the time rely on.
Timed == TrapControl /\ RegistersKept /\ Reading

\* Before power-on no time is read.
LEMMA InitTimed ==
  ASSUME Init
  PROVE  Timed
<1>1. at = "off" /\ time = 0 /\ timer = [th |-> 0, tl |-> 0, called |-> 0]
  BY DEF Init, StartupInit, LibraryInit, NoTimer
<1> QED
  BY <1>1, InitTraps DEF Timed, Reading, ReadingTime

\* Every step keeps what the reading of the time relies on.
LEMMA TimedStep ==
  ASSUME Timed, [Next]_vars
  PROVE  Timed'
BY TrapsStep, ReadingKept DEF Timed

\* What clock.c has computed is the time that was read.
LEMMA ClockStep ==
  ASSUME Timed, ShownTimeIsTrue, [Next]_vars
  PROVE  ShownTimeIsTrue'
<1> SUFFICES ASSUME prog' = "clock", at' = "show"
    PROVE  (((frame.hour * Sixty + frame.min) * Sixty + frame.sec) * PerSecond + frame.usec
              \in timer.called .. time)'
  BY DEF ShownTimeIsTrue
<1>1. prog = "clock"
  BY ProgKept
<1>2. CASE Tools \/ UNCHANGED vars
  BY <1>1, <1>2 DEF Tools, vars, startup, library, ShownTimeIsTrue
<1>3. CASE ClockTimed
  <2> DEFINE sec == _gettimeofday.sec
             usec == _gettimeofday.usec
  <2>1. /\ at = "timed" /\ timer' = timer /\ TimePasses
        /\ frame' = [hour |-> sec \div (Sixty * Sixty), min |-> (sec \div Sixty) % Sixty,
                     sec |-> Seconds(sec), usec |-> usec]
    BY <1>3 DEF ClockTimed, Does
  <2>2. time \in Nat /\ timer \in [th : Nat, tl : Nat, called : Nat]
        /\ thetime \in timer.called .. time
    BY <2>1 DEF Timed, Reading
  <2>3. time' \in Nat /\ time <= time'
    BY <2>1, <2>2, TimeGoesOn
  <2>4. thetime \in Nat
    BY <2>2
  <2>5. /\ sec \in Nat /\ usec \in Nat /\ sec * PerSecond + usec = thetime
    <3>1. PerSecond \in Nat \ {0}
      BY LibraryAssumption
    <3>2. sec = thetime \div PerSecond /\ usec = thetime % PerSecond
      BY DEF _gettimeofday
    <3> HIDE DEF sec, usec
    <3> QED
      BY <2>4, <3>1, <3>2, NaturalDigits
  <2> HIDE DEF sec, usec
  <2>6. (frame'.hour * Sixty + frame'.min) * Sixty + frame'.sec = sec
    <3>1. Sixty \in Nat \ {0}
      BY TimingAssumption
    <3>2. /\ frame'.hour = sec \div (Sixty * Sixty) /\ frame'.min = (sec \div Sixty) % Sixty
          /\ frame'.sec = sec % Sixty
      BY <2>1 DEF Seconds
    <3>3. frame'.hour * Sixty + frame'.min = sec \div Sixty
      BY <2>5, <3>1, <3>2, Sexagesimal
    <3> QED
      BY <2>5, <3>1, <3>2, <3>3, Sexagesimal
  <2>7. frame'.usec = usec
    BY <2>1
  <2> QED
    BY <2>1, <2>2, <2>3, <2>5, <2>6, <2>7
<1>4. CASE ~ClockTimed /\ ~Tools /\ ~UNCHANGED vars
  <2>1. ~Reset /\ ~TimeNext
    BY DEF Reset, ResetCore, ResetTo, TimeNext, RdTimeH, RdTime, RdTimeHAgain, Instruction
  <2>2. ~StartupNext
    BY StartupRuns DEF Starting
  <2>3. ~TimingNext
    BY <1>1, <1>4 DEF TimingNext, ClockNext, IntervalNext, ClockMain, ClockShow, IntervalMain,
       Current, Wait, FiveSecondsElapsed, Does, Calls, ReadTime
  <2> QED
    BY <1>1, <1>4, <2>1, <2>2, <2>3, TimingProgramSteps
<1> QED
  BY <1>2, <1>3, <1>4

\* Hours, minutes, seconds and microseconds that clock.c shows are a time between
\* the call of gettimeofday and now (sys_gettimeofday.c:24-36, clock.c:56-64), for
\* every width of the time's halves, every number of clocks in a second and
\* wherever the low half wraps between the reads.
THEOREM ClockIsRight ==
  Spec => []ShownTimeIsTrue
<1>1. Timed /\ ShownTimeIsTrue /\ [Next]_vars => (Timed /\ ShownTimeIsTrue)'
  BY TimedStep, ClockStep
<1>2. Init => Timed /\ ShownTimeIsTrue
  <2>1. Init => at = "off"
    BY DEF Init, StartupInit
  <2> QED
    BY <2>1, InitTimed DEF ShownTimeIsTrue
<1> QED
  BY <1>1, <1>2, PTL DEF Spec

\* clock() was read between the call that began the wait and a moment.
ReadBefore(t) == frame.since \in Nat /\ \E s \in frame.since .. t : frame.current = s % Word

\* What interval knows about current while it waits.
Waiting ==
  prog = "interval" =>
    /\ at \in Starting \cup {"main", "clock"} => frame = NoFrame
    /\ at = "wait" => ReadBefore(time)
    /\ at \in ReadingTime /\ frame # NoFrame => ReadBefore(timer.called)
    /\ IntervalIsLongEnough

\* clock() is the low half of the time that was read.
LEMMA ClockIsLow ==
  ASSUME thetime \in Nat
  PROVE  clock = thetime % Word
<1> DEFINE r == thetime % Word
<1>1. Word \in Nat \ {0} /\ r \in 0 .. Word - 1
  BY LibraryAssumption, NaturalDigits
<1>2. clock = (r + 0 + 0 + 0) % Word
  BY DEF clock, _times
<1> HIDE DEF r
<1>3. r + 0 + 0 + 0 = 0 * Word + r /\ (0 * Word + r) % Word = r
  BY <1>1, OneDivision
<1> QED
  BY <1>2, <1>3 DEF r

\* A difference of the 32-bit clocks that is long enough is one of the times.
LEMMA LongEnough ==
  ASSUME Timed, at = "timed", ReadBefore(timer.called), Elapsed
  PROVE  time - frame.since >= FiveSeconds
<1>1. /\ time \in Nat /\ timer.called \in Nat /\ thetime \in timer.called .. time
  BY DEF Timed, Reading
<1>2. PICK s \in frame.since .. timer.called : frame.current = s % Word
  BY DEF ReadBefore
<1>3. frame.since \in Nat /\ s \in Nat /\ frame.since <= s /\ s <= thetime /\ thetime \in Nat
  BY <1>1, <1>2 DEF ReadBefore
<1>4. Word \in Nat \ {0} /\ FiveSeconds \in Nat
  BY LibraryAssumption, TimingAssumption
<1>5. clock = thetime % Word
  BY <1>3, ClockIsLow
<1>6. ((thetime % Word) - (s % Word)) % Word >= FiveSeconds
  BY <1>2, <1>5 DEF Elapsed
<1>7. ((thetime % Word) - (s % Word)) % Word <= thetime - s
  BY <1>3, <1>4, DifferenceOfRests
<1>8. ((thetime % Word) - (s % Word)) % Word \in Int
  <2>1. thetime % Word \in Int /\ s % Word \in Int
    BY <1>3, <1>4, NaturalDigits
  <2> QED
    BY <1>4, <2>1, Euclid
<1> HIDE DEF thetime
<1> QED
  BY <1>1, <1>3, <1>4, <1>6, <1>7, <1>8

\* Every step keeps what interval knows of the time at which it began to wait.
LEMMA WaitingStep ==
  ASSUME Timed, Waiting, [Next]_vars
  PROVE  Waiting'
<1> SUFFICES ASSUME prog' = "interval" PROVE Waiting'
  BY DEF Waiting
<1>0. prog = "interval" /\ time \in Nat /\ timer \in [th : Nat, tl : Nat, called : Nat]
  BY ProgKept DEF Timed, Reading
<1>1. CASE Tools \/ UNCHANGED vars
  BY <1>0, <1>1 DEF Tools, vars, startup, library, Waiting, ReadBefore, IntervalIsLongEnough
<1>2. CASE Reset
  BY <1>2 DEF Reset, ResetCore, ResetTo, DevicesReset, Waiting, IntervalIsLongEnough, ReadingTime
<1>3. CASE StartupNext /\ UNCHANGED <<library, heap, vectored>>
  <2>1. /\ at \in Starting /\ at' \in Starting \cup {"main"} /\ frame' = frame
    BY <1>3, StartupRuns DEF library
  <2> QED
    BY <1>0, <2>1 DEF Waiting, IntervalIsLongEnough, Starting, ReadingTime
<1>4. CASE TimeNext
  <2>1. at \in ReadingTime /\ at' \in ReadingTime /\ frame' = frame /\ timer'.called = timer.called
    BY <1>0, <1>4 DEF TimeNext, RdTimeH, RdTime, RdTimeHAgain, Instruction, ReadingTime
  <2> QED
    BY <1>0, <2>1 DEF Waiting, ReadBefore, IntervalIsLongEnough, Starting, ReadingTime
<1>5. CASE TimingNext
  <2>1. CASE IntervalMain
    BY <1>0, <2>1 DEF IntervalMain, Does, Waiting, IntervalIsLongEnough, ReadingTime, Starting
  <2>2. CASE Calls("interval", "clock") \/ Calls("interval", "wait")
    <3>1. /\ at \in {"clock", "wait"} /\ at' = "rdtimeh" /\ frame' = frame /\ time' = time
          /\ timer'.called = time
      BY <2>2 DEF Calls, ReadTime, NoTimer
    <3> QED
      BY <1>0, <3>1 DEF Waiting, ReadBefore, IntervalIsLongEnough, ReadingTime, Starting
  <2>3. CASE Current
    <3>1. /\ at = "timed" /\ at' = "wait" /\ TimePasses
          /\ frame' = [current |-> clock, since |-> timer.called]
      BY <2>3 DEF Current, Does
    <3>2. time' \in Nat /\ time <= time'
      BY <1>0, <3>1, TimeGoesOn
    <3>3. thetime \in timer.called .. time'
      BY <1>0, <3>1, <3>2 DEF Timed, Reading
    <3>4. clock = thetime % Word
      BY <1>0, <3>3, ClockIsLow
    <3>5. /\ frame'.since = timer.called /\ frame'.since \in Nat
          /\ \E s \in frame'.since .. time' : frame'.current = s % Word
      BY <1>0, <3>1, <3>3, <3>4
    <3> QED
      BY <3>1, <3>5 DEF Waiting, ReadBefore, IntervalIsLongEnough, ReadingTime, Starting
  <2>4. CASE Wait
    <3>1. /\ at = "timed" /\ frame # NoFrame /\ frame' = frame /\ TimePasses
          /\ at' = IF Elapsed THEN "elapsed" ELSE "wait"
      BY <2>4 DEF Wait, Does
    <3>2. time' \in Nat /\ time <= time' /\ timer.called <= time /\ timer.called \in Nat
      BY <1>0, <3>1, TimeGoesOn DEF Timed, Reading, ReadingTime
    <3>3. ReadBefore(timer.called)
      BY <1>0, <3>1 DEF Waiting, ReadingTime
    <3>4. ReadBefore(time)'
      <4>1. PICK s \in frame.since .. timer.called : frame.current = s % Word
        BY <3>3 DEF ReadBefore
      <4>2. frame.since \in Nat /\ s \in frame'.since .. time' /\ frame'.current = s % Word
        BY <1>0, <3>1, <3>2, <3>3, <4>1 DEF ReadBefore
      <4> QED
        BY <3>1, <4>2 DEF ReadBefore
    <3>5. Elapsed => time' - frame'.since >= FiveSeconds
      <4>1. SUFFICES ASSUME Elapsed PROVE time' - frame'.since >= FiveSeconds
        OBVIOUS
      <4>2. time - frame.since >= FiveSeconds
        BY <3>1, <3>3, <4>1, LongEnough
      <4> QED
        BY <1>0, <3>1, <3>2, <3>3, <4>2, TimingAssumption DEF ReadBefore
    <3> QED
      BY <3>1, <3>4, <3>5 DEF Waiting, IntervalIsLongEnough, ReadingTime, Starting
  <2>5. CASE FiveSecondsElapsed
    BY <2>5 DEF FiveSecondsElapsed, Does, Waiting, IntervalIsLongEnough, ReadingTime, Starting
  <2> QED
    BY <1>0, <1>5, <2>1, <2>2, <2>3, <2>4, <2>5 DEF TimingNext, ClockNext, IntervalNext, ClockMain,
       ClockTimed, ClockShow, Does, Calls
<1> QED
  BY <1>0, <1>1, <1>2, <1>3, <1>4, <1>5, TimingProgramSteps

\* When interval prints that five seconds have elapsed they have, although
\* clock() has only the low half of the time and may wrap in the midst of a wait
\* (interval.c:63-72, sys_times.c:22-32), for every width of the clock.
THEOREM IntervalIsRight ==
  Spec => []IntervalIsLongEnough
<1>1. Timed /\ Waiting /\ [Next]_vars => (Timed /\ Waiting)'
  BY TimedStep, WaitingStep
<1>2. Init => Timed /\ Waiting
  <2>1. Init => at = "off" /\ frame = NoFrame
    BY DEF Init, StartupInit, LibraryInit
  <2> QED
    BY <2>1, InitTimed DEF Waiting, IntervalIsLongEnough, ReadingTime
<1>3. Waiting => IntervalIsLongEnough
  BY DEF Waiting, IntervalIsLongEnough
<1> QED
  BY <1>1, <1>2, <1>3, PTL DEF Spec

-----------------------------------------------------------------------------
(* Theorems: what the interrupt programs set and answer *)

\* Only the interrupt programs trap, and external_timer_delta is what the linker
\* initialised.
DeltaKept ==
  /\ prog \notin InterruptPrograms => csr.mcause = 0
  /\ prog \in InterruptPrograms /\ at \notin Starting =>
       ram[Delta] = Contents[RomToCopy + Delta - Sdata]

\* The variable is part of the initialised data, and none of the library's.
LEMMA DeltaFacts ==
  /\ Delta \in Ram \ {Errno} /\ Contents[RomToCopy + Delta - Sdata] \in Int
<1>1. Delta \in Sdata .. Edata - 1 /\ Errno \in Sbss .. Ebss - 1
  BY HandlerAssumption, LibraryAssumption
<1>2. RomToCopy + Delta - Sdata \in DOMAIN Contents
  BY <1>1, Layout
<1> QED
  BY <1>1, <1>2, Layout, ConstantFacts DEF Ram

\* No step changes it after the start-up code has copied it.
LEMMA DeltaStep ==
  ASSUME Memory, Memory', DeltaKept, [Next]_vars
  PROVE  DeltaKept'
<1>1. CASE prog \notin InterruptPrograms
  <2>1. prog' = prog
    BY ProgKept
  <2>2. csr' = csr \/ csr' = NoTrap
    BY <1>1 DEF Next, Software, Tools, vars, vectored, Reset, DevicesReset, Event, InMain
  <2> QED
    BY <1>1, <2>1, <2>2 DEF DeltaKept, NoTrap
<1>2. CASE prog \in InterruptPrograms
  <2> USE <1>2
  <2>1. prog' = prog
    BY ProgKept
  <2> SUFFICES ASSUME at' \notin Starting PROVE ram'[Delta] = Contents[RomToCopy + Delta - Sdata]
    BY <2>1 DEF DeltaKept
  <2>2. CASE Tools \/ UNCHANGED vars \/ (Event /\ UNCHANGED heap)
    BY <2>2 DEF DeltaKept, Tools, vars, startup, Event, NotTraps
  <2>3. CASE Reset
    BY <2>3 DEF Reset, ResetCore, ResetTo, Starting
  <2>4. CASE StartupNext
    <3>1. at' = "main"
      BY <2>4, StartupRuns
    <3> QED
      BY <3>1, HandlerAssumption DEF Memory, Progress, Copied
  <2>5. CASE TimeNext
    BY <2>5 DEF DeltaKept, TimeNext, RdTimeH, RdTime, RdTimeHAgain, Instruction, Starting
  <2>6. CASE InterruptNext
    <3>1. at \notin Starting
      BY <2>6, ProgramSteps DEF Memory
    <3>2. ram'[Delta] = ram[Delta]
      BY <2>6, InterruptWrites, DeltaFacts DEF Memory, Progress
    <3> QED
      BY <3>1, <3>2 DEF DeltaKept
  <2> QED
    BY <2>2, <2>3, <2>4, <2>5, <2>6, InterruptProgramSteps
<1> QED
  BY <1>1, <1>2

\* The handler adds it to a time it has read.
LEMMA DeadlineSet ==
  ASSUME Memory, Timed, DeltaKept, [Next]_vars,
         csr.mcause = 7, at = "timed", at' \in {csr.mepc, "reload_a0"}
  PROVE  timecmp' - Contents[RomToCopy + Delta - Sdata] \in timer.called .. time
<1>1. prog \in InterruptPrograms /\ at \in HandlerSteps /\ csr.mepc \in Interruptible
  BY DEF DeltaKept, Timed, TrapControl, HandlerSteps, ReadingTime
<1>2. at' \notin ReadingTime \cup {"_start", "restore"}
  BY <1>1 DEF Interruptible, ReadingTime
<1>3. ~Reset /\ ~StartupNext /\ ~Event /\ ~MainLoop /\ ~TakeInterrupt /\ ~TakeException
  BY <1>1, StartupRuns, MainStep, TrapStep DEF Timed, Reset, ResetCore, ResetTo, Event, InMain, Starting,
     Interruptible, MainSteps
<1>4. ~Tools /\ ~UNCHANGED vars /\ ~TimeNext
  BY <1>2 DEF Tools, vars, startup, TimeNext, RdTimeH, RdTime, RdTimeHAgain, Instruction, ReadingTime
<1>5. SetDeadline
  BY <1>1, <1>2, <1>3, <1>4, InterruptProgramSteps DEF InterruptNext, Handler, timer1_cmpt_handler,
     usart_handler, external_timer_handler, default_handler, UniversalHandler, SystemCall,
     TimeOfDay, Debugger, ReloadA0, Restore, Handles, InHandler, ECALL
<1>6. timecmp' = thetime + ram[Delta]
  BY <1>5 DEF SetDeadline
<1>7. /\ time \in Nat /\ timer.called \in Nat /\ thetime \in timer.called .. time
  BY DEF Timed, Reading
<1>8. ram[Delta] = Contents[RomToCopy + Delta - Sdata] /\ ram[Delta] \in Int
  BY <1>1, DeltaFacts DEF DeltaKept, Starting
<1> HIDE DEF thetime
<1> QED
  BY <1>6, <1>7, <1>8

\* The deadline that the timer handler sets is external_timer_delta, as the linker
\* initialised it, after a time at which the handler ran (handlers.c:72-86), in
\* both interrupt programs and after every reset: the handlers and the system
\* calls leave the variable alone, and the loop that reads the time is right
\* although the low half may wrap within it.
THEOREM DeadlineStaysAhead ==
  Spec => DeadlineIsAhead
<1>1. Memory /\ RomIsProgram /\ [Next]_vars => Memory'
  BY MemoryStep
<1>2. Timed /\ [Next]_vars => Timed'
  BY TimedStep
<1>3. Memory /\ Memory' /\ DeltaKept /\ [Next]_vars => DeltaKept'
  BY DeltaStep
<1>4. Init => Memory /\ Timed /\ DeltaKept
  <2>1. Init => at = "off" /\ csr.mcause = 0
    BY DEF Init, StartupInit, VectoredInit, NoTrap
  <2> QED
    BY <2>1, InitMemory, InitTimed DEF DeltaKept, Starting
<1>5. Memory /\ Timed /\ DeltaKept /\ [Next]_vars =>
        [csr.mcause = 7 /\ at = "timed" /\ at' \in {csr.mepc, "reload_a0"} =>
           timecmp' - Contents[RomToCopy + Delta - Sdata] \in timer.called .. time]_<<at, timecmp>>
  BY DeadlineSet
<1> QED
  BY <1>1, <1>2, <1>3, <1>4, <1>5, ProgramIsInRom, PTL DEF Spec, DeadlineIsAhead

\* The system calls that universal_handler has a service for.
Answered == {"brk", "read", "write", "exit", "lseek", "open", "close", "fstat", "stat", "fstatat",
             "lstat", "unlink", "link", "access"}

\* The registers of a system call.
Asked(r) == call \in Answered \cup {"gettimeofday"} /\ r["a1"] \in Nat

\* A service has been done for the registers of main.
Done ==
  LET s == Service(call, before["a0"], before["a1"])
  IN /\ regs["a0"] = s.ret
     /\ s.errno # 0 => ram[Errno] = s.errno
     /\ frame.st_mode = s.st_mode
     /\ call = "write" => out = [i \in 1 .. before["a1"] |-> "x"]

\* The system call that main makes is the one that is answered.
ServicesKept ==
  prog \in InterruptPrograms /\ at \notin Starting \cup {"main"} =>
    /\ frame \in [ebreak_counter : Int, tv : [sec : Int, usec : Int],
                  call : Answered \cup {"gettimeofday", "none"}, st_mode : Int]
    /\ at = "ecall" => Asked(regs)
    /\ at \in HandlerSteps /\ (csr.mcause = ECALL \/ csr.mepc = "ecall") => Asked(before)
    /\ at = "service" => call # "gettimeofday"
    /\ at \in ReadingTime /\ csr.mcause = ECALL => call = "gettimeofday"
    /\ at \in {"debugger", "reload_a0"} => csr.mcause # ECALL
    /\ at = "restore" /\ csr.mcause = ECALL /\ call # "gettimeofday" => Done

\* The steps that take a trap,
LEMMA ServicesTrap ==
  ASSUME prog \in InterruptPrograms, TrapControl, RegistersKept, ServicesKept,
         TakeInterrupt \/ TakeException
  PROVE  ServicesKept'
<1>1. /\ at \in Interruptible /\ at' \in HandlerSteps \ ReadingTime
      /\ at' # "restore" /\ at' # "service" /\ before' = regs
      /\ frame' = frame /\ prog' = prog
      /\ csr'.mcause = ECALL => at = "ecall"
  BY TrapStep DEF NotTraps
<1>2. csr'.mepc = "ecall" => at = "ecall"
  BY DEF TakeInterrupt, TakeException, Trap, Entered, TrapControl
<1>3. at' \notin {"debugger", "reload_a0"}
  <2>1. \E cause \in Int, interrupt \in BOOLEAN : at' = Entry(cause, interrupt)
    <3>1. CASE TakeInterrupt
      <4>1. Interrupt \in Int /\ TRUE \in BOOLEAN /\ at' = Entry(Interrupt, TRUE)
        BY <3>1, InterruptCause DEF TakeInterrupt, Trap
      <4> QED
        BY <4>1
    <3>2. CASE TakeException
      <4>1. ECALL \in Int /\ EBREAK \in Int /\ FALSE \in BOOLEAN
        BY DEF ECALL, EBREAK
      <4>2. at' = Entry(ECALL, FALSE) \/ at' = Entry(EBREAK, FALSE)
        BY <3>2 DEF TakeException, Trap
      <4> QED
        BY <4>1, <4>2
    <3> QED
      BY <3>1, <3>2
  <2>2. PICK cause \in Int, interrupt \in BOOLEAN : at' = Entry(cause, interrupt)
    BY <2>1
  <2>3. mtvec = IF prog = "direct" THEN [to |-> "universal_handler", vectored |-> FALSE]
                ELSE [to |-> "handler_jump_table", vectored |-> TRUE]
    BY <1>1 DEF TrapControl
  <2>4. at' = IF prog = "direct" \/ ~interrupt THEN "universal_handler"
              ELSE handler_jump_table(cause)
    BY <2>2, <2>3, EntryOf
  <2> QED
    BY <2>4 DEF handler_jump_table
<1>4. at \notin Starting \cup {"main"} /\ at' # "ecall"
  BY <1>1 DEF Interruptible, Starting, HandlerSteps
<1> QED
  BY <1>1, <1>2, <1>3, <1>4 DEF ServicesKept, Asked, call

\* the steps of the handlers,
LEMMA ServicesHandler ==
  ASSUME prog \in InterruptPrograms, ram \in [Ram -> Int], TrapControl, RegistersKept, Reading,
         ServicesKept, Handler
  PROVE  ServicesKept'
<1>1. /\ at \in HandlerSteps /\ at \notin Starting \cup {"main"} /\ prog' = prog
      /\ csr \in [mie : BOOLEAN, mtie : BOOLEAN, mcause : Int, mepc : MainSteps]
      /\ csr.mepc \in Interruptible
  <2>1. at \in HandlerSteps /\ prog' = prog
    BY HandlerStep, ProgramSteps DEF InterruptNext
  <2> QED
    BY <2>1 DEF TrapControl, HandlerSteps, ReadingTime, Starting
<1>2. ASSUME Return, frame' = frame, regs'["a1"] = before["a1"]
      PROVE  ServicesKept'
  <2>1. /\ at' = csr.mepc /\ at' \notin HandlerSteps /\ csr'.mcause = 0
    BY <1>1, <1>2 DEF Return, Interruptible, HandlerSteps, ReadingTime
  <2>2. at' = "ecall" => Asked(before)
    BY <1>1, <2>1 DEF ServicesKept
  <2> QED
    BY <1>1, <1>2, <2>1, <2>2 DEF ServicesKept, Asked, call, HandlerSteps, ReadingTime
<1>3. ASSUME UNCHANGED <<csr, frame, before>>, at' \in HandlerSteps,
             at' = "service" => call # "gettimeofday",
             at' \in ReadingTime /\ csr.mcause = ECALL => call = "gettimeofday",
             at' \in {"debugger", "reload_a0"} => csr.mcause # ECALL,
             at' = "restore" => csr.mcause # ECALL
      PROVE  ServicesKept'
  BY <1>1, <1>3 DEF ServicesKept, Asked, call, HandlerSteps, ReadingTime
<1>4. CASE timer1_cmpt_handler \/ usart_handler \/ SetDeadline
  <2>1. /\ at \in {"timer1_cmpt_handler", "usart_handler", "timed"} /\ HandlerReturns
        /\ csr.mcause # ECALL /\ frame' = frame
    BY <1>4 DEF timer1_cmpt_handler, usart_handler, SetDeadline, Handles, RegistersKept, ECALL,
                NotTraps
  <2>2. CASE prog = "vectored"
    <3>1. Return /\ regs' = before
      BY <2>1, <2>2 DEF HandlerReturns, RegistersKept, ReadingTime
    <3> QED
      BY <1>2, <2>1, <3>1
  <2>3. CASE prog # "vectored"
    <3>1. at' = "reload_a0" /\ UNCHANGED <<csr, before>>
      BY <2>1, <2>3 DEF HandlerReturns
    <3> QED
      BY <1>3, <2>1, <3>1 DEF HandlerSteps, ReadingTime
  <2> QED
    BY <2>2, <2>3
<1>5. CASE external_timer_handler
  <2>1. at = "external_timer_handler" /\ at' = "rdtimeh" /\ UNCHANGED <<csr, before, frame>>
    BY <1>5 DEF external_timer_handler, Handles, ReadTime, NotTraps
  <2>2. csr.mcause # ECALL
    BY <2>1 DEF RegistersKept, ECALL
  <2> QED
    BY <1>3, <2>1, <2>2 DEF HandlerSteps, ReadingTime
<1>6. CASE default_handler
  <2>1. at' = "held" /\ UNCHANGED <<csr, before, frame>>
    BY <1>6 DEF default_handler, Handles, NotTraps
  <2> QED
    BY <1>3, <2>1 DEF HandlerSteps, ReadingTime
<1>7. CASE UniversalHandler
  <2>1. /\ UNCHANGED <<csr, before, frame>>
        /\ IF csr.mcause = ECALL /\ call = "gettimeofday" THEN at' = "rdtimeh" ELSE at' = Branch
    BY <1>7 DEF UniversalHandler, ReadTime, NotTraps
  <2> QED
    BY <1>3, <2>1 DEF Branch, ECALL, EBREAK, HandlerSteps, ReadingTime
<1>8. CASE SystemCall
  <2> DEFINE s == Service(call, regs["a0"], regs["a1"])
  <2>1. /\ at = "service" /\ at' = "restore" /\ UNCHANGED <<csr, before>>
        /\ ram' = IF s.errno = 0 THEN ram ELSE [ram EXCEPT ![Errno] = s.errno]
        /\ frame' = [frame EXCEPT !.st_mode = s.st_mode]
        /\ out' = IF call = "write" THEN [i \in 1 .. regs["a1"] |-> "x"] ELSE out
        /\ regs' = Clobbered(s.ret)
    BY <1>8 DEF SystemCall
  <2>2. regs = before /\ csr.mcause = ECALL /\ regs["a0"] \in Int /\ regs["a1"] \in Int
    BY <2>1 DEF RegistersKept, Registers
  <2>3. s = Service(call, before["a0"], before["a1"]) /\ s.st_mode \in Int
    BY <2>2, ServiceType
  <2>4. /\ frame \in [ebreak_counter : Int, tv : [sec : Int, usec : Int],
                      call : Answered \cup {"gettimeofday", "none"}, st_mode : Int]
        /\ Asked(before)
    BY <1>1, <2>1, <2>2 DEF ServicesKept
  <2> HIDE DEF s
  <2>5. /\ frame' \in [ebreak_counter : Int, tv : [sec : Int, usec : Int],
                       call : Answered \cup {"gettimeofday", "none"}, st_mode : Int]
        /\ call' = call /\ frame'.st_mode = s.st_mode
    BY <2>1, <2>3, <2>4 DEF call
  <2>6. regs'["a0"] = s.ret /\ (s.errno # 0 => ram'[Errno] = s.errno)
    BY <2>1, HeapVariables DEF Clobbered, Registers
  <2>7. Done'
    BY <2>1, <2>2, <2>3, <2>5, <2>6 DEF Done
  <2>8. Asked(before)'
    BY <2>1, <2>4, <2>5 DEF Asked
  <2> QED
    BY <2>1, <2>5, <2>7, <2>8 DEF ServicesKept, ReadingTime
<1>9. CASE TimeOfDay
  <2>1. /\ at = "timed" /\ at' = "restore" /\ csr.mcause = ECALL /\ UNCHANGED <<csr, before>>
        /\ frame' = [frame EXCEPT !.tv = _gettimeofday]
    BY <1>9 DEF TimeOfDay
  <2>2. /\ frame \in [ebreak_counter : Int, tv : [sec : Int, usec : Int],
                      call : Answered \cup {"gettimeofday", "none"}, st_mode : Int]
        /\ call = "gettimeofday" /\ Asked(before)
    BY <1>1, <2>1 DEF ServicesKept, HandlerSteps, ReadingTime
  <2>3. _gettimeofday \in [sec : Int, usec : Int]
    <3>1. thetime \in Nat /\ PerSecond \in Nat \ {0}
      BY <2>1, LibraryAssumption DEF Reading
    <3>2. thetime \div PerSecond \in Int /\ thetime % PerSecond \in Int
      BY <3>1, NaturalDigits
    <3> QED
      BY <3>2 DEF _gettimeofday
  <2>4. /\ frame' \in [ebreak_counter : Int, tv : [sec : Int, usec : Int],
                       call : Answered \cup {"gettimeofday", "none"}, st_mode : Int]
        /\ call' = call
    BY <2>1, <2>2, <2>3 DEF call
  <2>5. Asked(before)' /\ call' = "gettimeofday"
    BY <2>1, <2>2, <2>4 DEF Asked
  <2> QED
    BY <2>1, <2>4, <2>5 DEF ServicesKept, ReadingTime
<1>10. CASE Debugger
  <2>1. at = "debugger" /\ at' = "reload_a0" /\ UNCHANGED <<csr, before, frame>>
    BY <1>10 DEF Debugger, InHandler, NotTraps
  <2>2. csr.mcause # ECALL
    BY <1>1, <2>1 DEF ServicesKept
  <2> QED
    BY <1>3, <2>1, <2>2 DEF HandlerSteps, ReadingTime
<1>11. CASE ReloadA0
  <2>1. at = "reload_a0" /\ at' = "restore" /\ UNCHANGED <<csr, before, frame>>
    BY <1>11 DEF ReloadA0, InHandler, NotTraps
  <2>2. csr.mcause # ECALL
    BY <1>1, <2>1 DEF ServicesKept
  <2> QED
    BY <1>3, <2>1, <2>2 DEF HandlerSteps, ReadingTime
<1>12. CASE Restore
  <2>1. at = "restore" /\ regs' = Restored /\ Return /\ frame' = frame
    BY <1>12 DEF Restore, NotTraps
  <2>2. regs'["a1"] = before["a1"]
    BY <2>1 DEF Restored, RegistersKept, Registers
  <2> QED
    BY <1>2, <2>1, <2>2
<1> QED
  BY <1>4, <1>5, <1>6, <1>7, <1>8, <1>9, <1>10, <1>11, <1>12 DEF Handler

\* the steps of main,
LEMMA ServicesMain ==
  ASSUME prog \in InterruptPrograms, TrapControl, RegistersKept, ServicesKept, MainLoop,
         \A c \in LibraryCalls : c.id \in Answered
  PROVE  ServicesKept'
<1> DEFINE Frames == [ebreak_counter : Int, tv : [sec : Int, usec : Int],
                      call : Answered \cup {"gettimeofday", "none"}, st_mode : Int]
<1>1. /\ at \in MainSteps /\ at' \in MainSteps \ {"main"} /\ prog' = prog
      /\ at' \notin HandlerSteps
  BY MainStep DEF MainSteps, HandlerSteps, ReadingTime
<1>2. at # "main" => frame \in Frames
  BY <1>1 DEF ServicesKept, MainSteps, Starting
<1>3. SUFFICES frame' \in Frames /\ (at' = "ecall" => Asked(regs)')
  BY <1>1 DEF ServicesKept, HandlerSteps, ReadingTime
<1>4. NoTimeval \in [sec : Int, usec : Int]
  BY DEF NoTimeval
<1>5. CASE SetMtvec
  <2>1. /\ at' # "ecall"
        /\ frame' = [ebreak_counter |-> 0, tv |-> NoTimeval, call |-> "none", st_mode |-> 0]
    BY <1>5 DEF SetMtvec, Main
  <2> QED
    BY <1>4, <2>1
<1>6. CASE SetVectoredMode \/ enable_external_timer_irq \/ enable_irq
  <2>1. at # "main" /\ at' # "ecall" /\ frame' = frame
    BY <1>6 DEF SetVectoredMode, enable_external_timer_irq, enable_irq, Main
  <2> QED
    BY <1>2, <2>1
<1>7. CASE CallSystem
  <2>1. PICK c \in LibraryCalls \cup {[id |-> "gettimeofday", a0 |-> 1, a1 |-> 0]} :
          frame' = [frame EXCEPT !.call = c.id] /\ regs' = [a0 |-> c.a0, a1 |-> c.a1, s0 |-> 1]
    BY <1>7 DEF CallSystem
  <2>2. at # "main"
    BY <1>7 DEF CallSystem, Main
  <2>3. c.id \in Answered \cup {"gettimeofday"} /\ c.a1 \in Nat
    BY HandlerAssumption
  <2>4. frame' \in Frames /\ frame'.call = c.id /\ regs'["a1"] = c.a1
    BY <1>2, <2>1, <2>2, <2>3
  <2> QED
    BY <2>3, <2>4 DEF Asked, call
<1>8. CASE ShowTime
  <2>1. /\ at # "main" /\ at' # "ecall"
        /\ frame' = [frame EXCEPT !.tv = NoTimeval, !.call = "none", !.st_mode = 0]
    BY <1>8 DEF ShowTime, Main
  <2>2. frame' = [ebreak_counter |-> frame.ebreak_counter, tv |-> NoTimeval,
                  call |-> "none", st_mode |-> 0]
    BY <1>2, <2>1
  <2> QED
    BY <1>2, <1>4, <2>1, <2>2
<1>9. CASE Count
  <2>1. /\ at # "main" /\ at' # "ecall"
        /\ frame' = [frame EXCEPT !.ebreak_counter = (@ + 1) % EbreakEvery]
    BY <1>9 DEF Count, Main
  <2>2. (frame.ebreak_counter + 1) % EbreakEvery \in Int
    BY <1>2, <2>1, HandlerAssumption, Euclid
  <2> QED
    BY <1>2, <2>1, <2>2
<1> QED
  BY <1>5, <1>6, <1>7, <1>8, <1>9 DEF MainLoop

\* and all the others.
LEMMA ServicesStep ==
  ASSUME Memory, Timed, ServicesKept, [Next]_vars, \A c \in LibraryCalls : c.id \in Answered
  PROVE  ServicesKept'
<1>1. CASE prog \notin InterruptPrograms
  BY <1>1, ProgKept DEF ServicesKept
<1>2. CASE prog \in InterruptPrograms
  <2> USE <1>2
  <2>1. CASE Tools \/ UNCHANGED vars
    <3>1. UNCHANGED <<prog, at, ram, frame, out, regs, csr, before>>
      BY <2>1 DEF Tools, vars, startup, library, vectored
    <3> QED
      BY <3>1 DEF ServicesKept, Asked, Done, call
  <2>2. CASE Event /\ UNCHANGED heap
    <3>1. UNCHANGED <<prog, at, ram, frame, out, regs, csr, before>>
      BY <2>2 DEF Event, NotTraps
    <3> QED
      BY <3>1 DEF ServicesKept, Asked, Done, call
  <2>3. CASE Reset
    BY <2>3 DEF Reset, ResetCore, ResetTo, ServicesKept, Starting
  <2>4. CASE StartupNext
    BY <2>4, StartupRuns DEF ServicesKept, Starting
  <2>5. CASE TimeNext /\ UNCHANGED <<heap, vectored>>
    <3>1. /\ UNCHANGED <<prog, ram, frame, out, regs, csr, before>>
          /\ at \in ReadingTime /\ at' \in ReadingTime
      BY <2>5 DEF vectored, TimeNext, RdTimeH, RdTime, RdTimeHAgain, Instruction, ReadingTime
    <3>2. at \in HandlerSteps /\ at \notin Starting \cup {"main"}
          /\ at' \notin {"ecall", "service", "debugger", "reload_a0", "restore"}
      BY <3>1 DEF HandlerSteps, ReadingTime, Starting
    <3> QED
      BY <3>1, <3>2 DEF ServicesKept, Asked, call
  <2>6. CASE InterruptNext
    BY <2>6, ServicesTrap, ServicesHandler, ServicesMain DEF Memory, Progress, Timed, InterruptNext
  <2> QED
    BY <2>1, <2>2, <2>3, <2>4, <2>5, <2>6, InterruptProgramSteps
<1> QED
  BY <1>1, <1>2

\* At the end of a system call the registers hold the answer of its service.
LEMMA ServiceDone ==
  ASSUME Memory, Timed, ServicesKept, [Next]_vars, Finished("restore"), csr.mcause = ECALL
  PROVE  /\ Asked(before) /\ regs'["a0"] = regs["a0"]
         /\ call # "gettimeofday" => Done
<1>1. /\ Handler /\ prog \in InterruptPrograms /\ at = "restore" /\ at \in HandlerSteps
  BY HandlerFinishes DEF Enders, Timed
<1>2. Asked(before) /\ (call # "gettimeofday" => Done)
  BY <1>1 DEF ServicesKept, Starting
<1>3. Restore
  BY <1>1 DEF Handler, timer1_cmpt_handler, usart_handler, external_timer_handler, SetDeadline,
              default_handler, Handles, UniversalHandler, SystemCall, TimeOfDay, Debugger,
              ReloadA0, InHandler
<1>4. regs'["a0"] = regs["a0"]
  BY <1>3 DEF Restore, Restored, Registers
<1> QED
  BY <1>2, <1>4

\* What was written is what the stub would have sent.
LEMMA AllWritten ==
  ASSUME NEW n \in Nat, NEW buffer, buffer = [i \in 1 .. n |-> "x"]
  PROVE  SubSeq(buffer, 1, n) = buffer
<1>1. buffer \in Seq({"x"}) /\ Len(buffer) = n
  BY SMT
<1>2. /\ SubSeq(buffer, 1, n) \in Seq({"x"}) /\ Len(SubSeq(buffer, 1, n)) = n
      /\ \A i \in 1 .. n : SubSeq(buffer, 1, n)[i] = buffer[i]
  BY <1>1, SMT
<1> QED
  BY <1>1, <1>2, SMT

\* A program gets the same answer from universal_handler as from the stubs of
\* syscalls.c and sys_read_write.c, and the same errno where both set it, for
\* every call that the handler has a service for.
THEOREM ServicesAgreeWithStubs ==
  ASSUME \A c \in LibraryCalls : c.id \in Answered
  PROVE  Spec => ServicesAgree
<1>1. Memory /\ RomIsProgram /\ [Next]_vars => Memory'
  BY MemoryStep
<1>2. Timed /\ [Next]_vars => Timed'
  BY TimedStep
<1>3. Memory /\ Timed /\ ServicesKept /\ [Next]_vars => ServicesKept'
  BY ServicesStep
<1>4. Init => Memory /\ Timed /\ ServicesKept
  <2>1. Init => at = "off"
    BY DEF Init, StartupInit
  <2> QED
    BY <2>1, InitMemory, InitTimed DEF ServicesKept, Starting
<1>5. Memory /\ Timed /\ ServicesKept /\ [Next]_vars =>
        [Finished("restore") /\ csr.mcause = ECALL =>
           /\ call \in DOMAIN stub =>
                /\ regs'["a0"] = stub[call].ret
                /\ stub[call].errno # 0 => ram[Errno] = stub[call].errno
                /\ stub[call].st_mode # 0 => frame.st_mode = stub[call].st_mode
           /\ call = "write" => /\ regs'["a0"] = _write(out, before["a1"]).ret
                                /\ out = _write(out, before["a1"]).sent
           /\ call = "read" => regs'["a0"] = _read(before["a1"]).ret
           /\ call = "brk" /\ regs'["a0"] # -1 =>
                before["a0"] = 0 \/ SbrkFits(before["a0"], 0)]_<<at, regs, csr, out>>
  <2> SUFFICES ASSUME Memory, Timed, ServicesKept, [Next]_vars, Finished("restore"),
                      csr.mcause = ECALL
               PROVE  /\ call \in DOMAIN stub =>
                           /\ regs'["a0"] = stub[call].ret
                           /\ stub[call].errno # 0 => ram[Errno] = stub[call].errno
                           /\ stub[call].st_mode # 0 => frame.st_mode = stub[call].st_mode
                      /\ call = "write" => /\ regs'["a0"] = _write(out, before["a1"]).ret
                                           /\ out = _write(out, before["a1"]).sent
                      /\ call = "read" => regs'["a0"] = _read(before["a1"]).ret
                      /\ call = "brk" /\ regs'["a0"] # -1 =>
                           before["a0"] = 0 \/ SbrkFits(before["a0"], 0)
    OBVIOUS
  <2> DEFINE s == Service(call, before["a0"], before["a1"])
  <2>1. /\ call \in Answered \cup {"gettimeofday"} /\ before["a1"] \in Nat
        /\ regs'["a0"] = regs["a0"] /\ (call # "gettimeofday" => Done)
    BY ServiceDone DEF Asked
  <2>2. CASE call = "gettimeofday"
    BY <2>2 DEF stub
  <2>3. CASE call = "write"
    <3>1. /\ regs'["a0"] = before["a1"] /\ out = [i \in 1 .. before["a1"] |-> "x"]
      BY <2>1, <2>3 DEF Done, Service, Returns
    <3> QED
      BY <2>1, <2>3, <3>1, AllWritten DEF stub, _write
  <2>4. CASE call = "read"
    BY <2>1, <2>4 DEF stub, Done, Service, Returns, _read
  <2>5. CASE call = "brk"
    <3>1. regs'["a0"] # -1 => before["a0"] = 0 \/ before["a0"] < StackLimit
      BY <2>1, <2>5 DEF Done, Service, Brk, Fails
    <3>2. before["a0"] \in Int /\ StackLimit \in Nat
      <4>1. prog \in InterruptPrograms /\ at \in HandlerSteps
        BY HandlerFinishes DEF Timed, Enders
      <4> QED
        BY <4>1, LibraryAssumption DEF Timed, RegistersKept, Registers
    <3> QED
      BY <2>5, <3>1, <3>2 DEF stub, SbrkFits
  <2>6. CASE call \in Answered \ {"write", "read", "brk"}
    <3>1. regs'["a0"] = s.ret /\ (s.errno # 0 => ram[Errno] = s.errno) /\ frame.st_mode = s.st_mode
      BY <2>1, <2>6 DEF Answered, Done
    <3>2. call \in DOMAIN stub => s = stub[call] \/ (call \in {"open", "close"} /\ s = Fails(EBADF))
      BY <2>6 DEF Answered, stub, Service
    <3>3. call \in {"open", "close"} => stub[call] = Returns(-1)
      BY DEF stub
    <3> HIDE DEF s
    <3> QED
      BY <2>6, <3>1, <3>2, <3>3 DEF Returns, Fails
  <2> QED
    BY <2>1, <2>2, <2>3, <2>4, <2>5, <2>6
<1> QED
  BY <1>1, <1>2, <1>3, <1>4, <1>5, ProgramIsInRom, PTL DEF Spec, ServicesAgree

-----------------------------------------------------------------------------
(* Theorems: the example programs *)

\* What the flag RC announces is the latest character, and so is what the
\* program has seen and will show.
Receiving ==
  prog = "usart" /\ at \notin Starting \cup {"main"} =>
    /\ frame \in [data : Nat, tc : BOOLEAN, rc : BOOLEAN, leds : Nat, latest : Nat]
    /\ frame.rc \/ at = "leds" => frame.data = frame.latest /\ frame.data \in Characters
    /\ LedsShowLatest

\* The steps of usart.c and of the USART; the others change nothing of it.
LEMMA ReceivingStep ==
  ASSUME Receiving, [Next]_vars
  PROVE  Receiving'
<1>1. prog' = prog
  BY ProgKept
<1>2. CASE prog # "usart"
  BY <1>1, <1>2 DEF Receiving
<1>3. CASE prog = "usart"
  <2> USE <1>1, <1>3
  <2> DEFINE Frames == [data : Nat, tc : BOOLEAN, rc : BOOLEAN, leds : Nat, latest : Nat]
  <2>1. CASE Tools \/ UNCHANGED vars
    <3>1. UNCHANGED <<at, frame>>
      BY <2>1 DEF Tools, vars, startup, library
    <3> QED
      BY <3>1 DEF Receiving, LedsShowLatest
  <2>2. CASE Reset \/ StartupNext
    BY <2>2, StartupRuns DEF Reset, ResetCore, ResetTo, Receiving, Starting
  <2>3. CASE TimeNext
    <3>1. /\ frame' = frame /\ at \notin Starting \cup {"main"} /\ at' \notin {"leds", "exit"}
      BY <2>3 DEF TimeNext, RdTimeH, RdTime, RdTimeHAgain, Instruction, Starting
    <3> QED
      BY <3>1 DEF Receiving, LedsShowLatest
  <2>4. CASE UsartMain
    <3>1. /\ at' = "sending"
          /\ frame' = [data |-> 0, tc |-> FALSE, rc |-> FALSE, leds |-> 0, latest |-> 0]
      BY <2>4 DEF UsartMain, Run
    <3> QED
      BY <3>1 DEF Receiving, LedsShowLatest
  <2>5. CASE Sent \/ Received \/ ShowReceived \/ FrameSent \/ Receive
    <3>1. at \in {"sending", "receiving", "leds"}
      BY <2>5 DEF Sent, Received, ShowReceived, FrameSent, Receive, Run
    <3>2. /\ frame \in Frames
          /\ frame.rc \/ at = "leds" => frame.data = frame.latest /\ frame.data \in Characters
      BY <3>1 DEF Receiving, Starting
    <3>3. CASE Sent \/ Received
      <4>1. frame' = frame /\ at' # "exit" /\ (at' = "leds" => frame.rc)
        BY <3>3 DEF Sent, Received, ReceivedSeen, Run
      <4> QED
        BY <3>2, <4>1 DEF Receiving, LedsShowLatest
    <3>4. CASE FrameSent
      <4>1. frame' = [frame EXCEPT !.tc = TRUE] /\ at' = at
        BY <3>4 DEF FrameSent, Run
      <4> QED
        BY <3>1, <3>2, <4>1 DEF Receiving, LedsShowLatest
    <3>5. CASE Receive
      <4>1. PICK c \in Characters : frame' = [frame EXCEPT !.data = c, !.rc = TRUE, !.latest = c]
        BY <3>5 DEF Receive
      <4>2. c \in Nat /\ at' = at
        BY <3>5, ExamplesAssumption DEF Receive, Run
      <4>3. /\ frame' \in Frames /\ frame'.data = c /\ frame'.latest = c
        BY <3>2, <4>1, <4>2
      <4> QED
        BY <3>1, <4>2, <4>3 DEF Receiving, LedsShowLatest
    <3>6. CASE ShowReceived
      <4>1. /\ at = "leds" /\ at' = "exit"
            /\ frame' = [frame EXCEPT !.leds = frame.data, !.rc = FALSE]
        BY <3>6 DEF ShowReceived, Run
      <4>2. /\ frame' \in Frames /\ ~frame'.rc
            /\ frame'.leds = frame.data /\ frame'.latest = frame.latest
        BY <3>2, <4>1
      <4> QED
        BY <3>2, <4>1, <4>2 DEF Receiving, LedsShowLatest
    <3> QED
      BY <2>5, <3>3, <3>4, <3>5, <3>6
  <2>6. ~LinkedListNext \/ prog = "linked_list"
    BY DEF LinkedListNext, Step, EnterMain, MakeNode, Fill, FirstNode, PrintNode, ListPrinted,
           SkipNode, ListSearched, Total
  <2>7. CASE ExamplesNext \/ Outside
    <3>1. UsartMain \/ Sent \/ Received \/ ShowReceived \/ FrameSent \/ Receive
      BY <2>7 DEF ExamplesNext, Outside, GlobalMain, Assign, MallocMain, GetBlock, Store, Filled,
                  WriteHallo, SortMain, Exchange, Sorted, DisplayMain, ReadSwitches, Show, Switch,
                  Run, Allocating
    <3> QED
      BY <2>4, <2>5, <3>1
  <2> QED
    BY <2>1, <2>2, <2>3, <2>6, <2>7, ExampleProgramSteps DEF InterruptPrograms
<1> QED
  BY <1>2, <1>3

\* The LEDs show the latest character that was received (usart.c:17-27),
\* whatever was received and lost before, whenever it came.
THEOREM LedsAreRight ==
  Spec => []LedsShowLatest
<1>1. Receiving /\ [Next]_vars => Receiving'
  BY ReceivingStep
<1>2. Init => Receiving
  BY DEF Init, StartupInit, Receiving, Starting
<1>3. Receiving => LedsShowLatest
  BY DEF Receiving, LedsShowLatest, Starting
<1> QED
  BY <1>1, <1>2, <1>3, PTL DEF Spec

\* Every digit lights its segments.
LEMMA DigitLit ==
  ASSUME NEW d \in 0 .. 15
  PROVE  Lit(Display(d)) = Segments[d + 1] /\ Display(d) # 127
<1>1. \/ d = 0 \/ d = 1 \/ d = 2 \/ d = 3 \/ d = 4 \/ d = 5 \/ d = 6 \/ d = 7
      \/ d = 8 \/ d = 9 \/ d = 10 \/ d = 11 \/ d = 12 \/ d = 13 \/ d = 14 \/ d = 15
  OBVIOUS
<1> QED
  BY <1>1 DEF Display, hex, Lit, BitValue, Segments

\* What the program has read is two digits, and what it shows are those of its
\* reading, until it reads again.
Displaying ==
  prog = "hex_display" /\ at \in {"read", "show"} =>
    /\ frame \in [pin : Nat, value : 0 .. 255, pout : [out1 : Nat, out0 : Nat]]
    /\ DigitsOfOneReading

\* The steps of hex_display.c and of the user at the switches.
LEMMA DisplayingStep ==
  ASSUME Displaying, [Next]_vars
  PROVE  Displaying'
<1>1. prog' = prog
  BY ProgKept
<1>2. CASE prog # "hex_display"
  BY <1>1, <1>2 DEF Displaying
<1>3. CASE prog = "hex_display"
  <2> USE <1>1, <1>3
  <2> DEFINE Frames == [pin : Nat, value : 0 .. 255, pout : [out1 : Nat, out0 : Nat]]
  <2>1. CASE Tools \/ UNCHANGED vars
    <3>1. UNCHANGED <<at, frame>>
      BY <2>1 DEF Tools, vars, startup, library
    <3> QED
      BY <3>1 DEF Displaying, DigitsOfOneReading
  <2>2. CASE Reset \/ StartupNext
    BY <2>2, StartupRuns DEF Reset, ResetCore, ResetTo, Displaying, Starting
  <2>3. CASE TimeNext
    <3>1. at' \notin {"read", "show"}
      BY <2>3 DEF TimeNext, RdTimeH, RdTime, RdTimeHAgain, Instruction
    <3> QED
      BY <3>1 DEF Displaying
  <2>4. CASE DisplayMain
    <3>1. PICK pin \in SwitchValues : frame' = [pin |-> pin, value |-> 0, pout |-> Dark]
      BY <2>4 DEF DisplayMain
    <3>2. pin \in Nat /\ Dark \in [out1 : Nat, out0 : Nat]
      BY ExamplesAssumption DEF Dark
    <3>3. frame' \in Frames /\ frame'.pout = Dark
      <4> HIDE DEF Dark
      <4> QED
        BY <3>1, <3>2
    <3> QED
      BY <3>3 DEF Displaying, DigitsOfOneReading
  <2>5. CASE Switch \/ ReadSwitches \/ Show
    <3>1. at \in {"read", "show"} /\ frame \in Frames /\ DigitsOfOneReading
      BY <2>5 DEF Switch, ReadSwitches, Show, Run, Displaying
    <3>2. CASE Switch
      <4>1. PICK pin \in SwitchValues : frame' = [frame EXCEPT !.pin = pin]
        BY <3>2 DEF Switch
      <4>2. pin \in Nat /\ at' = at
        BY <3>2, ExamplesAssumption DEF Switch, Run
      <4>3. frame' \in Frames /\ frame'.value = frame.value /\ frame'.pout = frame.pout
        BY <3>1, <4>1, <4>2
      <4> QED
        BY <3>1, <4>2, <4>3 DEF Displaying, DigitsOfOneReading
    <3>3. CASE ReadSwitches
      <4>1. at' = "show" /\ frame' = [frame EXCEPT !.value = frame.pin % 256]
        BY <3>3 DEF ReadSwitches, Run
      <4>2. frame' \in Frames
        BY <3>1, <4>1
      <4> QED
        BY <4>1, <4>2 DEF Displaying, DigitsOfOneReading
    <3>4. CASE Show
      <4>1. at' = "read" /\ frame' = [frame EXCEPT !.pout = Shown(frame.value)]
        BY <3>4 DEF Show, Run
      <4> DEFINE v == frame.value
      <4>2. v \in 0 .. 255 /\ v \div 16 \in 0 .. 15 /\ v % 16 \in 0 .. 15
        BY <3>1
      <4>3. \A d \in 0 .. 15 : Display(d) \in Nat
        BY DEF Display, hex
      <4>4. Shown(v) = [out1 |-> Display(v \div 16), out0 |-> Display(v % 16)]
        BY Zenon DEF Shown
      <4> HIDE DEF v
      <4>5. Shown(v) \in [out1 : Nat, out0 : Nat]
        BY <4>2, <4>3, <4>4
      <4>6. /\ Lit(Shown(v).out1) = Segments[(v \div 16) + 1]
            /\ Lit(Shown(v).out0) = Segments[(v % 16) + 1]
        BY <4>2, <4>4, DigitLit
      <4>7. frame' \in Frames /\ frame'.value = v /\ frame'.pout = Shown(v)
        BY <3>1, <4>1, <4>5 DEF v
      <4> QED
        BY <4>1, <4>6, <4>7, Zenon DEF Displaying, DigitsOfOneReading
    <3> QED
      BY <2>5, <3>2, <3>3, <3>4
  <2>6. ~LinkedListNext \/ prog = "linked_list"
    BY DEF LinkedListNext, Step, EnterMain, MakeNode, Fill, FirstNode, PrintNode, ListPrinted,
           SkipNode, ListSearched, Total
  <2>7. CASE ExamplesNext \/ Outside
    <3>1. DisplayMain \/ Switch \/ ReadSwitches \/ Show
      BY <2>7 DEF ExamplesNext, Outside, GlobalMain, Assign, MallocMain, GetBlock, Store, Filled,
                  WriteHallo, SortMain, Exchange, Sorted, UsartMain, Sent, Received,
                  ShowReceived, FrameSent, Receive, Run, Allocating
    <3> QED
      BY <2>4, <2>5, <3>1
  <2> QED
    BY <2>1, <2>2, <2>3, <2>6, <2>7, ExampleProgramSteps DEF InterruptPrograms
<1> QED
  BY <1>2, <1>3

\* The displays show the two digits of one reading of the switches
\* (hex_display.c:7-21), whenever the user changes them.
THEOREM DisplaysAreRight ==
  Spec => []DigitsOfOneReading
<1>1. Displaying /\ [Next]_vars => Displaying'
  BY DisplayingStep
<1>2. Init => Displaying
  BY DEF Init, StartupInit, Displaying
<1>3. Displaying => DigitsOfOneReading
  BY DEF Displaying, DigitsOfOneReading
<1> QED
  BY <1>1, <1>2, <1>3, PTL DEF Spec

\* What malloc.c may have kept when it asks for a block: the block that is
\* reallocated, or the hole that it leaves.
KeptBefore(block) == IF block <= 3 THEN 0 ELSE Hundred

\* malloc.c and test.c have their blocks, and know how much they have taken.
Supplied ==
  prog \in Allocating =>
    /\ at = "main" => Free(ram) = EndOfData
    /\ at = "get" =>
         /\ Free(ram) <= EndOfData + KeptBefore(frame.block)
         /\ Blocks[frame.block].call = "realloc" => frame.p # NULL
    /\ at = "store" =>
         /\ frame.p # NULL
         /\ Free(ram) <= EndOfData + KeptBefore(frame.block) + Blocks[frame.block].size

\* The loops stay inside their blocks, and all blocks together are not more than
\* the first and the reallocated one.
LEMMA BlocksFit ==
  ASSUME prog \in Allocating, NEW k \in 1 .. Len(Blocks)
  PROVE  LET b == Blocks[k]
         IN /\ b.size \in Nat \ {0} /\ b.width \in Nat \ {0} /\ b.stores \in Nat
            /\ b.stores * b.width <= b.size
            /\ KeptBefore(k) + b.size <= Hundred + Realloced
            /\ k < Len(Blocks) =>
                 KeptBefore(k) + (IF b.freed THEN 0 ELSE b.size) <= KeptBefore(k + 1)
<1>1. /\ Hundred \in Nat \ {0} /\ Realloced \in Nat /\ Hundred <= Realloced
      /\ SizeOfInt \in Nat \ {0} /\ Hundred % SizeOfInt = 0
  BY ExamplesAssumption
<1>2. /\ Stores(SizeOfInt) \in Nat /\ (Hundred \div SizeOfInt) * SizeOfInt = Hundred
      /\ Stores(SizeOfInt) * SizeOfInt = Hundred
  <2>1. Hundred \div SizeOfInt \in Nat
    BY <1>1, DivMonotone
  <2>2. Hundred = ((Hundred \div SizeOfInt) * SizeOfInt) + (Hundred % SizeOfInt)
    BY <1>1, Euclid
  <2> QED
    BY <1>1, <2>1, <2>2 DEF Stores
<1>3. /\ Stores(1) = Hundred /\ Hundred \div 2 \in Nat \ {0} /\ Hundred \div 2 <= Hundred
      /\ Stores(1) \div 2 = Hundred \div 2
  BY <1>1, ExamplesAssumption DEF Stores
<1>4. Blocks[k].size \in Nat \ {0}
  BY BlockFacts
<1> DEFINE half == Hundred \div 2
           ints == Stores(SizeOfInt)
<1>5. CASE prog = "test"
  <2>1. Blocks[1] = Block("malloc", Hundred, 1, 1, FALSE) /\ Len(Blocks) = 1
    BY <1>5 DEF Blocks
  <2>2. k = 1
    BY <2>1
  <2> QED
    BY <1>1, <2>1, <2>2 DEF Block, KeptBefore
<1>6. CASE prog # "test"
  <2>1. /\ Len(Blocks) = 5
        /\ Blocks[1] = Block("malloc", Hundred, 1, Hundred, TRUE)
        /\ Blocks[2] = Block("malloc", half, 1, half, TRUE)
        /\ Blocks[3] = Block("malloc", Hundred, SizeOfInt, ints, FALSE)
        /\ Blocks[4] = Block("realloc", Realloced, SizeOfInt, ints, TRUE)
        /\ Blocks[5] = Block("calloc", Hundred, SizeOfInt, ints, FALSE)
    BY <1>2, <1>3, <1>6 DEF Blocks
  <2>2. /\ half \in Nat \ {0} /\ half <= Hundred /\ ints \in Nat /\ ints * SizeOfInt = Hundred
    BY <1>2, <1>3
  <2> HIDE DEF half, ints
  <2>3. CASE k = 1
    BY <1>1, <2>1, <2>2, <2>3 DEF Block, KeptBefore
  <2>4. CASE k = 2
    BY <1>1, <2>1, <2>2, <2>4 DEF Block, KeptBefore
  <2>5. CASE k = 3
    BY <1>1, <2>1, <2>2, <2>5 DEF Block, KeptBefore
  <2>6. CASE k = 4
    BY <1>1, <2>1, <2>2, <2>6 DEF Block, KeptBefore
  <2>7. CASE k = 5
    BY <1>1, <2>1, <2>2, <2>7 DEF Block, KeptBefore
  <2> QED
    BY <2>1, <2>3, <2>4, <2>5, <2>6, <2>7
<1> QED
  BY <1>5, <1>6

\* malloc fails only when there is not enough between the data and the stack.
LEMMA MallocSucceeds ==
  ASSUME ram \in [Ram -> Int], Arena(ram), NEW size \in Nat \ {0}, NEW m \in malloc(size),
         \A more \in Slack : Free(ram) + size + more <= StackLimit
  PROVE  m.block # NULL
<1>1. CASE ram[MallocTop] >= size
  <2>1. m.block = ram[SbrkHeapEnd] - ram[MallocTop]
    BY <1>1 DEF malloc
  <2>2. ram[SbrkHeapEnd] # NULL
    BY <1>1, HeapVariables DEF Arena, NULL
  <2>3. m.block = Free(ram)
    BY <2>1, <2>2 DEF Free
  <2> QED
    BY <2>3, HeapVariables DEF Arena, NULL
<1>2. CASE ~(ram[MallocTop] >= size)
  <2> DEFINE need == size - ram[MallocTop]
             end == IF ram[SbrkHeapEnd] = NULL THEN EndOfData ELSE ram[SbrkHeapEnd]
  <2>1. PICK more \in Slack :
          m = LET r == _sbrk(need + more) IN
                IF r.ret = -1 THEN [block |-> NULL, ram |-> r.ram]
                ELSE [block |-> r.ret - ram[MallocTop],
                      ram   |-> [r.ram EXCEPT ![MallocTop] = more]]
    BY <1>2 DEF malloc
  <2>2. /\ ram[SbrkHeapEnd] \in Int /\ ram[MallocTop] \in Nat /\ more \in Nat
        /\ end \in EndOfData .. StackLimit
    BY HeapVariables DEF Arena
  <2>3. Free(ram) = end - ram[MallocTop]
    BY <2>2, HeapVariables DEF Free, Arena, NULL
  <2>4. Free(ram) + size + more <= StackLimit
    OBVIOUS
  <2> DEFINE room == need + more
  <2>5. end + room <= StackLimit
    BY <2>2, <2>3, <2>4
  <2> HIDE DEF room
  <2>6. _sbrk(room).ret = end
    BY <2>5 DEF _sbrk, SbrkFits
  <2>7. m.block = end - ram[MallocTop]
    BY <2>1, <2>2, <2>6, HeapVariables DEF room
  <2> QED
    BY <2>3, <2>7, HeapVariables DEF Arena, NULL
<1> QED
  BY <1>1, <1>2

\* A block that malloc.c or test.c asks for is given.
LEMMA BlockSupplied ==
  ASSUME ram \in [Ram -> Int], HeapKept, HeapKept', Supplied, GetBlock,
         \A more \in Slack : EndOfData + Hundred + Realloced + more <= StackLimit
  PROVE  Supplied'
<1> DEFINE b == Blocks[frame.block]
<1>1. /\ prog \in Allocating /\ prog' = prog /\ at = "get" /\ at' = "store"
  BY DEF GetBlock, Run, Allocating
<1>2. /\ InOrder /\ frame \in [block : 1 .. Len(Blocks), p : Int, i : Nat]
      /\ b.call = "realloc" => Highest(frame.p, Blocks[frame.block - 1].size)
      /\ Free(ram) <= EndOfData + KeptBefore(frame.block)
      /\ b.call = "realloc" => frame.p # NULL
  BY <1>1 DEF HeapKept, Supplied, Starting
<1>3. /\ b.size \in Nat \ {0} /\ KeptBefore(frame.block) + b.size <= Hundred + Realloced
      /\ KeptBefore(frame.block) \in Nat
  BY <1>1, <1>2, BlocksFit, ExamplesAssumption DEF KeptBefore
<1>4. PICK m \in IF b.call = "realloc" /\ frame.p \in DOMAIN heap THEN realloc(frame.p, b.size)
                 ELSE malloc(b.size) :
        frame' = [frame EXCEPT !.p = m.block, !.i = 0]
  BY DEF GetBlock
<1>5. Blocks' = Blocks /\ frame'.block = frame.block /\ frame'.p = m.block
  BY <1>1, <1>2, <1>4 DEF Blocks, Stores
<1>6. Free(ram) \in Nat /\ EndOfData \in Nat /\ StackLimit \in Nat
  <2>1. /\ ram[SbrkHeapEnd] \in Int /\ ram[MallocTop] \in Int /\ EndOfData <= Free(ram)
    BY <1>2, HeapVariables DEF InOrder, Arena
  <2> QED
    BY <2>1, HeapVariables DEF Free
<1>7. m.block # NULL /\ m.block \in Int /\ m.block <= Free(ram)
  <2>1. CASE m \in malloc(b.size)
    <3>1. \A more \in Slack : Free(ram) + b.size + more <= StackLimit
      <4> SUFFICES ASSUME NEW more \in Slack PROVE Free(ram) + b.size + more <= StackLimit
        OBVIOUS
      <4>1. EndOfData + Hundred + Realloced + more <= StackLimit
        OBVIOUS
      <4>2. more \in Nat /\ Hundred \in Nat /\ Realloced \in Nat
        BY HeapVariables, ExamplesAssumption
      <4> DEFINE kept == KeptBefore(frame.block)
                 size == b.size
      <4> HIDE DEF kept, size
      <4>3. /\ Free(ram) <= EndOfData + kept /\ kept + size <= Hundred + Realloced
            /\ kept \in Nat /\ size \in Nat
        BY <1>2, <1>3 DEF kept, size
      <4>4. Free(ram) + size + more <= StackLimit
        BY <1>6, <4>1, <4>2, <4>3
      <4> QED
        BY <4>4 DEF size
    <3>2. m.block # NULL
      BY <1>2, <1>3, <2>1, <3>1, MallocSucceeds DEF InOrder
    <3>3. m.block = Free(ram)
      BY <1>2, <1>3, <2>1, <3>2, MallocGives DEF InOrder
    <3> QED
      BY <1>6, <3>2, <3>3
  <2>2. CASE m \notin malloc(b.size)
    <3>1. b.call = "realloc" /\ frame.p \in DOMAIN heap /\ m.block = frame.p
      BY <2>2 DEF realloc
    <3>2. frame.p # NULL /\ frame.p + Blocks[frame.block - 1].size = Free(ram) /\ frame.p \in Int
      BY <1>2, <3>1 DEF Highest
    <3>3. Blocks[frame.block - 1].size \in Nat
      BY <1>1, <1>2, <3>1, BlockFacts
    <3> QED
      BY <1>6, <3>1, <3>2, <3>3
  <2> QED
    BY <2>1, <2>2
<1>8. m.block + b.size = Free(ram')
  BY <1>1, <1>5, <1>7 DEF HeapKept, Highest
<1>9. Free(ram') <= EndOfData + KeptBefore(frame.block) + b.size
  <2> DEFINE kept == KeptBefore(frame.block)
             size == b.size
  <2> HIDE DEF kept, size
  <2>1. /\ Free(ram) <= EndOfData + kept /\ kept \in Nat /\ size \in Nat
        /\ m.block + size = Free(ram')
    BY <1>2, <1>3, <1>8 DEF kept, size
  <2>2. Free(ram') <= EndOfData + kept + size
    BY <1>6, <1>7, <2>1
  <2> QED
    BY <2>2 DEF kept, size
<1>10. Blocks[frame.block]' = b /\ KeptBefore(frame.block)' = KeptBefore(frame.block)
  BY <1>5 DEF KeptBefore
<1> QED
  BY <1>1, <1>5, <1>7, <1>9, <1>10 DEF Supplied

\* The other steps of malloc.c and test.c.
LEMMA AllocatingSupplied ==
  ASSUME ram \in [Ram -> Int], HeapKept, Supplied, MallocMain \/ Store \/ Filled
  PROVE  Supplied'
<1>1. /\ prog \in Allocating /\ prog' = prog /\ at \notin Starting
  BY DEF MallocMain, Store, Filled, Run, Allocating, Starting
<1>2. Blocks' = Blocks
  BY <1>1 DEF Blocks, Stores
<1>3. Len(Blocks) \in {1, 5} /\ Blocks[1].call # "realloc"
  BY <1>1, BlockFacts
<1>4. EndOfData \in Nat /\ Hundred \in Nat
  BY HeapVariables, ExamplesAssumption
<1>5. CASE MallocMain
  <2>1. /\ at = "main" /\ at' = "get" /\ frame' = [block |-> 1, p |-> NULL, i |-> 0] /\ ram' = ram
    BY <1>5 DEF MallocMain, Run
  <2>2. Free(ram') = EndOfData /\ KeptBefore(frame.block)' = 0 /\ frame'.block = 1
    BY <1>1, <2>1 DEF Supplied, KeptBefore
  <2> QED
    BY <1>1, <1>2, <1>3, <1>4, <2>1, <2>2 DEF Supplied
<1>6. CASE Store
  <2>1. /\ at = "store" /\ at' = "store" /\ frame' = [frame EXCEPT !.i = @ + 1]
        /\ UNCHANGED <<ram, heap>>
    BY <1>6 DEF Store, Run
  <2>2. frame \in [block : 1 .. Len(Blocks), p : Int, i : Nat]
    BY <1>1, <2>1 DEF HeapKept
  <2>3. frame'.block = frame.block /\ frame'.p = frame.p
    BY <2>1, <2>2
  <2> QED
    BY <1>1, <1>2, <2>1, <2>3 DEF Supplied, KeptBefore, Free
<1>7. CASE Filled
  <2> DEFINE b == Blocks[frame.block]
  <2>1. /\ at = "store"
        /\ \/ at' = "get" /\ frame.block < Len(Blocks)
           \/ at' \in {"write", "exit"}
        /\ frame' = [frame EXCEPT !.block = IF @ < Len(Blocks) THEN @ + 1 ELSE @]
        /\ IF b.freed /\ frame.p # NULL
           THEN ram' = Freed(ram, frame.p) /\ heap' = Others(frame.p)
           ELSE UNCHANGED <<ram, heap>>
    BY <1>7 DEF Filled, Run
  <2>2. /\ frame \in [block : 1 .. Len(Blocks), p : Int, i : Nat] /\ Highest(frame.p, b.size)
        /\ frame.p # NULL /\ Free(ram) <= EndOfData + KeptBefore(frame.block) + b.size
        /\ InOrder
    BY <1>1, <2>1 DEF HeapKept, Supplied
  <2>3. SUFFICES ASSUME at' = "get"
                 PROVE  /\ Free(ram') <= EndOfData + KeptBefore(frame.block + 1)
                        /\ frame'.block = frame.block + 1 /\ frame'.p = frame.p
    <3>1. at' = "get" =>
            /\ Free(ram') <= EndOfData + KeptBefore(frame'.block)
            /\ frame'.p # NULL
      BY <2>2, <2>3
    <3> QED
      BY <1>1, <2>1, <3>1 DEF Supplied, KeptBefore
  <2>4. frame.block < Len(Blocks) /\ frame.block \in Nat /\ Len(Blocks) \in Nat
    BY <1>3, <2>1, <2>2, <2>3
  <2>5. frame'.block = frame.block + 1 /\ frame'.p = frame.p
    BY <2>1, <2>2, <2>4
  <2> DEFINE kept == KeptBefore(frame.block)
             next == KeptBefore(frame.block + 1)
  <2>6. /\ b.size \in Nat \ {0} /\ kept \in Nat /\ next \in Nat
        /\ kept + (IF b.freed THEN 0 ELSE b.size) <= next
    BY <1>1, <1>4, <2>2, <2>4, BlocksFit DEF KeptBefore
  <2>7. Free(ram') <= EndOfData + next
    <3>1. CASE b.freed
      <4>1. Free(ram') = frame.p
        <5>1. ram' = Freed(ram, frame.p) /\ heap' = Others(frame.p) /\ frame.p \in Int
          BY <2>1, <2>2, <3>1
        <5> HIDE DEF b
        <5> QED
          BY <1>1, <2>2, <2>6, <5>1, OrderFreed
      <4>2. frame.p + b.size = Free(ram) /\ frame.p \in Int
        BY <2>2 DEF Highest
      <4> DEFINE size == b.size
      <4>3. /\ size \in Nat /\ frame.p + size <= EndOfData + kept + size /\ kept <= next
        BY <2>2, <2>6, <3>1, <4>2
      <4> HIDE DEF size, kept, next
      <4> QED
        BY <1>4, <2>6, <4>1, <4>2, <4>3
    <3>2. CASE ~b.freed
      <4>1. Free(ram') = Free(ram)
        BY <2>1, <3>2
      <4> DEFINE size == b.size
      <4>2. size \in Nat /\ Free(ram) <= EndOfData + kept + size /\ kept + size <= next
        BY <2>2, <2>6, <3>2
      <4>3. Free(ram) \in Int
        BY <2>2, HeapVariables DEF InOrder, Arena, Free
      <4> HIDE DEF size, kept, next
      <4> QED
        BY <1>4, <2>6, <4>1, <4>2, <4>3
    <3> QED
      BY <3>1, <3>2
  <2> QED
    BY <2>5, <2>7
<1> QED
  BY <1>5, <1>6, <1>7

\* Other steps leave what malloc.c has, or begin again with the whole heap.
LEMMA SuppliedStep ==
  ASSUME Memory, HeapKept', Supplied, [Next]_vars,
         \A more \in Slack : EndOfData + Hundred + Realloced + more <= StackLimit
  PROVE  Supplied'
<1>1. prog' = prog
  BY ProgKept
<1>2. CASE prog \notin Allocating
  BY <1>1, <1>2 DEF Supplied
<1>3. CASE prog \in Allocating
  <2> USE <1>1, <1>3
  <2>0. ram \in [Ram -> Int] /\ HeapKept
    BY DEF Memory, Progress
  <2>1. CASE Tools \/ UNCHANGED vars
    <3>1. UNCHANGED <<at, ram, frame>>
      BY <2>1 DEF Tools, vars, startup, library
    <3> QED
      BY <3>1 DEF Supplied, Free, KeptBefore, Blocks, Stores
  <2>2. CASE Reset
    BY <2>2 DEF Reset, ResetCore, ResetTo, Supplied
  <2>3. CASE StartupNext
    <3>1. at' \in Starting \cup {"main"}
      BY <2>3, StartupRuns
    <3>2. at' = "main" => at = "data" /\ ram' = ram
      BY <2>3 DEF StartupNext, PowerOn, EnterStart, ClearBss, BssCleared, CopyData, CallMain
    <3>3. at' = "main" => ram'[SbrkHeapEnd] = NULL
      BY <3>2, LibraryAssumption DEF Memory, Progress, Cleared, NULL
    <3> QED
      BY <3>1, <3>3 DEF Supplied, Free, Starting
  <2>4. CASE TimeNext
    BY <2>4 DEF TimeNext, RdTimeH, RdTime, RdTimeHAgain, Instruction, Supplied
  <2>5. CASE ExamplesNext \/ Outside \/ (prog = "linked_list" /\ LinkedListNext)
    <3>1. MallocMain \/ GetBlock \/ Store \/ Filled \/ WriteHallo
      BY <2>5 DEF ExamplesNext, Outside, GlobalMain, Assign, SortMain, Exchange, Sorted,
                  DisplayMain, ReadSwitches, Show, Switch, UsartMain, Sent, Received,
                  ShowReceived, FrameSent, Receive, Run, Allocating
    <3>2. CASE WriteHallo
      BY <3>2 DEF WriteHallo, Supplied
    <3> QED
      BY <2>0, <3>1, <3>2, BlockSupplied, AllocatingSupplied
  <2> QED
    BY <2>1, <2>2, <2>3, <2>4, <2>5, ExampleProgramSteps DEF InterruptPrograms, Allocating
<1> QED
  BY <1>2, <1>3

\* Where the RAM between the data and the reserved stack holds what malloc.c
\* asks for, malloc.c and test.c, which test no pointer for NULL, store only to
\* bytes of a block that they have (malloc.c:8-49, test.c:9-11), after resets at
\* any time too.
THEOREM StoresStayInside ==
  ASSUME \A more \in Slack : EndOfData + Hundred + Realloced + more <= StackLimit
  PROVE  Spec => []StoresAreInside
<1>1. Memory /\ RomIsProgram /\ [Next]_vars => Memory'
  BY MemoryStep
<1>2. Memory /\ Memory' /\ Supplied /\ [Next]_vars => Supplied'
  BY SuppliedStep DEF Memory
<1>3. Init => Memory /\ Supplied
  <2>1. Init => at = "off"
    BY DEF Init, StartupInit
  <2> QED
    BY <2>1, InitMemory DEF Supplied
<1>4. Memory /\ Supplied => StoresAreInside
  <2> SUFFICES ASSUME Memory, Supplied, prog \in Allocating, at = "store",
                      frame.i < Blocks[frame.block].stores
               PROVE  /\ frame.p \in DOMAIN heap
                      /\ (frame.i + 1) * Blocks[frame.block].width <= heap[frame.p].size
    BY DEF StoresAreInside
  <2> DEFINE stores == Blocks[frame.block].stores
             width == Blocks[frame.block].width
             size == Blocks[frame.block].size
             i == frame.i
  <2>1. /\ frame \in [block : 1 .. Len(Blocks), p : Int, i : Nat]
        /\ Highest(frame.p, size) /\ frame.p # NULL
    BY DEF Memory, HeapKept, Supplied
  <2>2. /\ stores \in Nat /\ width \in Nat \ {0} /\ size \in Nat
        /\ stores * width <= size /\ i \in Nat /\ i + 1 <= stores
    BY <2>1, BlocksFit
  <2>3. frame.p \in DOMAIN heap /\ heap[frame.p].size = size
    BY <2>1 DEF Highest
  <2> HIDE DEF stores, width, size, i
  <2>4. (i + 1) * width <= stores * width
    BY <2>2
  <2>5. (i + 1) * width <= size
    BY <2>2, <2>4
  <2> QED
    BY <2>3, <2>5 DEF i, width
<1> QED
  BY <1>1, <1>2, <1>3, <1>4, ProgramIsInRom, PTL DEF Spec
=============================================================================
