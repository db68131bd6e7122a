------------------------------ MODULE Examples ------------------------------
(***************************************************************************)
(* Small programs: CODE/global changes its data, CODE/malloc fills blocks  *)
(* of the heap, CODE/syscalls takes one and writes a text, CODE/qsort_int  *)
(* sorts an array with the C library, CODE/hex_display shows the switches  *)
(* on two displays, CODE/usart sends them and shows what it receives.      *)
(* None of them tests what the library and the start-up code give it.      *)
(***************************************************************************)
EXTENDS LinkedList

CONSTANTS
  Hundred, SizeOfInt,   \* malloc(100), and sizeof(int) at that scale
  Realloced,            \* realloc(pint, 120)
  SwitchValues,         \* what GPIOA->PIN may be
  Characters            \* what may be received

ASSUME ExamplesAssumption ==
  /\ Hundred \in Nat \ {0, 1} /\ SizeOfInt \in Nat \ {0} /\ Hundred % SizeOfInt = 0
  /\ Realloced \in Nat /\ Realloced >= Hundred
  /\ SwitchValues \cup Characters \subseteq Nat
  /\ {Sbss, Ebss - 1} \cap {SbrkHeapEnd, Errno, MallocTop} = {}   \* y and w of global.c

\* A step of the main of a program.
Run(program, from, to) ==
  /\ prog = program /\ at = from /\ at' = to
  /\ UNCHANGED <<image, prog, pointer, mtvec, resets, out, time, timer>>

-----------------------------------------------------------------------------
(* global.c: x and jaja have initial values, y, w and errno are zero *)

C == 10
x12345678 == 305419896
x90abcdef == -1867788817

Assign(from, to, variable, value) ==
  /\ Run("global", from, to)
  /\ ram' = [ram EXCEPT ![variable] = value]
  /\ UNCHANGED <<frame, heap>>

GlobalMain ==
  \/ Assign("main", "x+1", Errno, -1)
  \/ Assign("x+1", "y", Sdata, ram[Sdata] + 1)
  \/ Assign("y", "w", Sbss, x12345678)
  \/ Assign("w", "x", Ebss - 1, x90abcdef)
  \/ Assign("x", "errno", Sdata, C)
  \/ Assign("errno", "jaja", Errno, 0)
  \/ Assign("jaja", "exit", Edata - 1, ram[Edata - 1] + 1)

-----------------------------------------------------------------------------
(* malloc.c: five blocks, each filled in a loop; test.c of CODE/syscalls: one
   block, of which the first character is set *)

\* Mutant: the loop over the integers goes once too far.
StoresToTheLast(width) ==
  IF width = 1 THEN Hundred ELSE Hundred \div width + 1

Stores(width) == Hundred \div width

Block(call, size, width, stores, freed) ==
  [call |-> call, size |-> size, width |-> width, stores |-> stores, freed |-> freed]

Blocks ==
  IF prog = "test" THEN <<Block("malloc", Hundred, 1, 1, FALSE)>> ELSE <<
  Block("malloc", Hundred, 1, Stores(1), TRUE),
  Block("malloc", Hundred \div 2, 1, Stores(1) \div 2, TRUE),
  Block("malloc", Hundred, SizeOfInt, Stores(SizeOfInt), FALSE),
  Block("realloc", Realloced, SizeOfInt, Stores(SizeOfInt), TRUE),
  Block("calloc", (Hundred \div SizeOfInt) * SizeOfInt, SizeOfInt, Stores(SizeOfInt), FALSE)>>

Allocating == {"malloc", "test"}

MallocMain ==
  /\ prog \in Allocating /\ Run(prog, "main", "get")
  /\ frame' = [block |-> 1, p |-> NULL, i |-> 0]
  /\ UNCHANGED <<ram, heap>>

\* free gives the highest block back to the end of the heap.
Freed(memory, a) ==
  IF a + heap[a].size = memory[SbrkHeapEnd] - memory[MallocTop]
  THEN [memory EXCEPT ![MallocTop] = @ + heap[a].size]
  ELSE memory

Others(a) == [b \in DOMAIN heap \ {a} |-> heap[b]]

\* realloc extends the highest block, or moves it, which leaves a hole.
realloc(a, size) ==
  LET extra == size - heap[a].size
  IN malloc(size) \cup
       IF ram[MallocTop] >= extra
       THEN {[block |-> a, ram |-> [ram EXCEPT ![MallocTop] = @ - extra]]} ELSE {}

\* Nothing tests for NULL.
GetBlock ==
  /\ prog \in Allocating /\ Run(prog, "get", "store")
  /\ LET b == Blocks[frame.block] IN
     \E m \in IF b.call = "realloc" /\ frame.p \in DOMAIN heap THEN realloc(frame.p, b.size)
              ELSE malloc(b.size) :
       /\ ram' = m.ram
       /\ heap' = IF m.block = NULL THEN heap
                  ELSE Given(IF b.call = "realloc" THEN Others(frame.p) ELSE heap,
                             m.block, [size |-> b.size])
       /\ frame' = [frame EXCEPT !.p = m.block, !.i = 0]

Store ==
  /\ prog \in Allocating /\ Run(prog, "store", "store") /\ frame.i < Blocks[frame.block].stores
  /\ frame' = [frame EXCEPT !.i = @ + 1]
  /\ UNCHANGED <<ram, heap>>

Filled ==
  /\ prog \in Allocating
  /\ \/ Run(prog, "store", "get") /\ frame.block < Len(Blocks)
     \/ Run(prog, "store", IF prog = "test" THEN "write" ELSE "exit") /\ frame.block = Len(Blocks)
  /\ frame.i = Blocks[frame.block].stores
  /\ IF Blocks[frame.block].freed /\ frame.p # NULL
     THEN ram' = Freed(ram, frame.p) /\ heap' = Others(frame.p)
     ELSE UNCHANGED <<ram, heap>>
  /\ frame' = [frame EXCEPT !.block = IF @ < Len(Blocks) THEN @ + 1 ELSE @]

Hallo == <<"H", "a", "l", "l", "o">>

WriteHallo ==
  /\ prog = "test" /\ at = "write" /\ at' = "exit"
  /\ out' = _write(Hallo, Len(Hallo)).sent
  /\ UNCHANGED <<image, prog, pointer, ram, mtvec, resets, frame, time, timer, heap>>

-----------------------------------------------------------------------------
(* qsort.c *)

Array == <<80, 48, 32, 16, 96, 160, 64, 176>>

compare(num1, num2) ==
  CASE num1 > num2 -> 1
    [] num1 = num2 -> 0
    [] OTHER -> -1

SortMain ==
  /\ Run("qsort_int", "main", "qsort")
  /\ frame' = [arr |-> Array]
  /\ UNCHANGED <<ram, heap>>

\* qsort exchanges what compare says is in the wrong order.
Exchange ==
  /\ Run("qsort_int", "qsort", "qsort")
  /\ \E i \in 1 .. Len(frame.arr) - 1 :
       /\ compare(frame.arr[i], frame.arr[i + 1]) > 0
       /\ frame' = [frame EXCEPT !.arr[i] = frame.arr[i + 1], !.arr[i + 1] = frame.arr[i]]
  /\ UNCHANGED <<ram, heap>>

Sorted ==
  /\ Run("qsort_int", "qsort", "exit")
  /\ \A i \in 1 .. Len(frame.arr) - 1 : compare(frame.arr[i], frame.arr[i + 1]) <= 0
  /\ UNCHANGED <<ram, frame, heap>>

-----------------------------------------------------------------------------
(* hex_display.c: a segment is lit by a 0; bit 0 is the one on top, 6 the middle *)

hex == <<64, 121, 36, 48, 25, 18, 2, 120, 0, 16, 8, 3, 70, 33, 6, 14>>

Display(value) == hex[value + 1]

Dark == [out1 |-> 127, out0 |-> 127]

DisplayMain ==
  /\ Run("hex_display", "main", "read")
  /\ \E pin \in SwitchValues : frame' = [pin |-> pin, value |-> 0, pout |-> Dark]
  /\ UNCHANGED <<ram, heap>>

\* The user sets the switches.
Switch ==
  /\ \/ Run("hex_display", "read", "read") \/ Run("hex_display", "show", "show")
  /\ \E pin \in SwitchValues : frame' = [frame EXCEPT !.pin = pin]
  /\ UNCHANGED <<ram, heap>>

ReadSwitches ==
  /\ Run("hex_display", "read", "show")
  /\ frame' = [frame EXCEPT !.value = frame.pin % 256]
  /\ UNCHANGED <<ram, heap>>

\* Mutant: the switches are read again for the second digit.
ShownOfTwoReadings(value) ==
  [out1 |-> Display(value \div 16), out0 |-> Display(frame.pin % 16)]

Shown(value) == [out1 |-> Display(value \div 16), out0 |-> Display(value % 16)]

Show ==
  /\ Run("hex_display", "show", "read")
  /\ frame' = [frame EXCEPT !.pout = Shown(frame.value)]
  /\ UNCHANGED <<ram, heap>>

-----------------------------------------------------------------------------
(* usart.c, with the data register and the flags TC and RC of the USART *)

UsartMain ==
  /\ Run("usart", "main", "sending")
  /\ frame' = [data |-> 0, tc |-> FALSE, rc |-> FALSE, leds |-> 0, latest |-> 0]
  /\ UNCHANGED <<ram, heap>>

FrameSent ==
  /\ Run("usart", at, at) /\ at \in {"sending", "receiving", "leds"} /\ ~frame.tc
  /\ frame' = [frame EXCEPT !.tc = TRUE]
  /\ UNCHANGED <<ram, heap>>

\* A character replaces one that has not been read.
Receive ==
  /\ Run("usart", at, at) /\ at \in {"sending", "receiving", "leds"}
  /\ \E c \in Characters :
       frame' = [frame EXCEPT !.data = c, !.rc = TRUE, !.latest = c]
  /\ UNCHANGED <<ram, heap>>

Sent ==
  /\ Run("usart", "sending", "receiving") /\ frame.tc
  /\ UNCHANGED <<ram, frame, heap>>

\* Mutant: the wrong flag is tested, TC for RC.
TransmittedSeen == frame.tc

ReceivedSeen == frame.rc

Received ==
  /\ Run("usart", "receiving", "leds") /\ ReceivedSeen
  /\ UNCHANGED <<ram, frame, heap>>

ShowReceived ==
  /\ Run("usart", "leds", "exit")
  /\ frame' = [frame EXCEPT !.leds = frame.data, !.rc = FALSE]
  /\ UNCHANGED <<ram, heap>>

ExamplesNext ==
  \/ GlobalMain
  \/ MallocMain \/ GetBlock \/ Store \/ Filled \/ WriteHallo
  \/ SortMain \/ Exchange \/ Sorted
  \/ DisplayMain \/ ReadSwitches \/ Show
  \/ UsartMain \/ Sent \/ Received \/ ShowReceived

\* The user and the USART.
Outside == Switch \/ FrameSent \/ Receive

-----------------------------------------------------------------------------
(* Properties *)

\* malloc.c and test.c store to a block only while they have it, and inside it,
\* although they test no pointer for NULL, after a reset in the midst of an
\* earlier run as well (malloc.c:8-49, test.c:9-11).
StoresAreInside ==
  (prog \in Allocating /\ at = "store" /\ frame.i < Blocks[frame.block].stores) =>
    /\ frame.p \in DOMAIN heap
    /\ (frame.i + 1) * Blocks[frame.block].width <= heap[frame.p].size

Segments == <<
  {0, 1, 2, 3, 4, 5}, {1, 2}, {0, 1, 3, 4, 6}, {0, 1, 2, 3, 6},
  {1, 2, 5, 6}, {0, 2, 3, 5, 6}, {0, 2, 3, 4, 5, 6}, {0, 1, 2},
  {0, 1, 2, 3, 4, 5, 6}, {0, 1, 2, 3, 5, 6}, {0, 1, 2, 4, 5, 6}, {2, 3, 4, 5, 6},
  {0, 3, 4, 5}, {1, 2, 3, 4, 6}, {0, 3, 4, 5, 6}, {0, 4, 5, 6}>>
BitValue == <<1, 2, 4, 8, 16, 32, 64>>
Lit(display) == {segment \in 0 .. 6 : (display \div BitValue[segment + 1]) % 2 = 0}

\* The displays show the two digits of one reading of the switches, however the
\* switches are changed meanwhile (hex_display.c:7-21).
DigitsOfOneReading ==
  (prog = "hex_display" /\ at = "read" /\ frame.pout # Dark) =>
    /\ Lit(frame.pout.out1) = Segments[(frame.value \div 16) + 1]
    /\ Lit(frame.pout.out0) = Segments[(frame.value % 16) + 1]

\* The LEDs show a character that was received, and the latest one, also when it
\* came while the switches were still being sent (usart.c:17-27).
LedsShowLatest ==
  (prog = "usart" /\ at = "exit") => frame.leds = frame.latest /\ frame.leds \in Characters
=============================================================================
