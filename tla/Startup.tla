------------------------------ MODULE Startup ------------------------------
(***************************************************************************)
(* The start-up code: crt/startup.c of the examples and those of the       *)
(* interrupt programs and the bootloader.  The ROM is made by the tools of *)
(* Image, the RAM holds anything at power-on and whatever the program has  *)
(* left there at a reset, which may come at any time.                      *)
(*                                                                         *)
(* The layout is that of ld/riscv.ld: initialised data, whose initial      *)
(* values lie in the ROM, then the data that starts as zero, then the heap *)
(* up to the reserved stack.                                               *)
(***************************************************************************)
EXTENDS Image

CONSTANTS
  Programs,     \* the names of the programs
  Sdata, Edata, Sbss, Ebss,   \* _sdata, _edata, _sbss, _ebss
  RomToCopy,    \* _start_of_rom_to_copy
  Garbage,      \* what a byte of the RAM may be at power-on
  MaxResets

ASSUME LayoutAssumption ==
  /\ {Sdata, Edata, Sbss, Ebss, RomToCopy} \subseteq Nat
  /\ Sdata <= Edata /\ Edata <= Sbss /\ Sbss <= Ebss
  /\ RomToCopy .. RomToCopy + Edata - Sdata - 1 \subseteq DOMAIN Contents

ASSUME GarbageAssumption == Garbage \subseteq Int

Ram == Sdata .. Ebss - 1

VARIABLES
  prog,      \* the program that was built
  at,        \* the next instruction
  pointer,   \* pStart and pdRom
  ram,       \* the data, a byte for a variable
  mtvec,     \* the trap vector, [to, vectored]
  resets

startup == <<image, prog, at, pointer, ram, mtvec, resets>>

-----------------------------------------------------------------------------

NoVector == [to |-> "reset", vectored |-> FALSE]

\* The processor leaves its reset.
PowerOn ==
  /\ at = "off" /\ stage = "built"
  /\ at' = "_start"
  /\ ram' \in [Ram -> Garbage]
  /\ UNCHANGED <<image, prog, pointer, mtvec, resets>>

\* These programs have a handler that catches traps before main.
Catching == {"direct", "vectored", "bootloader"}

\* The stack pointer and mtvec.
EnterStart ==
  /\ at = "_start"
  /\ at' = "bss" /\ pointer' = [start |-> Sbss, rom |-> RomToCopy]
  /\ mtvec' = IF prog \in Catching
              THEN [to |-> "pre_init_universal_handler", vectored |-> FALSE] ELSE mtvec
  /\ UNCHANGED <<image, prog, ram, resets>>

ClearBss ==
  /\ at = "bss" /\ pointer.start < Ebss
  /\ ram' = [ram EXCEPT ![pointer.start] = 0]
  /\ pointer' = [pointer EXCEPT !.start = @ + 1]
  /\ UNCHANGED <<image, prog, at, mtvec, resets>>

BssCleared ==
  /\ at = "bss" /\ ~(pointer.start < Ebss)
  /\ at' = "data" /\ pointer' = [pointer EXCEPT !.start = Sdata]
  /\ UNCHANGED <<image, prog, ram, mtvec, resets>>

\* Mutant: one byte too few is copied.
MoreThanOneToCopy == pointer.start < Edata - 1

MoreToCopy == pointer.start < Edata

CopyData ==
  /\ at = "data" /\ MoreToCopy
  /\ ram' = [ram EXCEPT ![pointer.start] = rom[pointer.rom]]
  /\ pointer' = [start |-> pointer.start + 1, rom |-> pointer.rom + 1]
  /\ UNCHANGED <<image, prog, at, mtvec, resets>>

NoPointer == [start |-> 0, rom |-> 0]

\* __libc_init_array() calls the constructors, of which there are none; the
\* bootloader does not call it.
CallMain ==
  /\ at = "data" /\ ~MoreToCopy
  /\ at' = "main" /\ pointer' = NoPointer
  /\ UNCHANGED <<image, prog, ram, mtvec, resets>>

\* The reset button.  What else a reset does is the programs' part.
ResetTo(step) ==
  /\ at # "off" /\ resets < MaxResets
  /\ resets' = resets + 1
  /\ at' = step /\ pointer' = NoPointer /\ mtvec' = NoVector
  /\ UNCHANGED <<image, prog, ram>>

ResetCore == ResetTo("_start")

-----------------------------------------------------------------------------

StartupInit ==
  /\ prog \in Programs
  /\ at = "off" /\ pointer = NoPointer /\ mtvec = NoVector
  /\ ram = [a \in Ram |-> 0]
  /\ resets = 0

StartupNext == PowerOn \/ EnterStart \/ ClearBss \/ BssCleared \/ CopyData \/ CallMain

-----------------------------------------------------------------------------
(* Properties *)

\* What the tools and the programs do with the variables of the start-up code.
MakeRom == at = "off" /\ ImageNext /\ UNCHANGED <<prog, at, pointer, ram, mtvec, resets>>

ProgramRuns ==
  /\ {at, at'} \cap {"off", "_start", "bss", "data"} = {} /\ at' # "main"
  /\ UNCHANGED <<image, prog, pointer, resets>>
  /\ ram' \in [Ram -> Int]

\* The start-up code promises its data to any program that keeps to this: the
\* start-up code runs only after a reset, and nothing but a reset leads back
\* into it or to the call of main (startup.c:23-78).
StartupSpec ==
  /\ ImageInit /\ StartupInit
  /\ [][MakeRom \/ StartupNext \/ ResetCore \/ ProgramRuns]_startup

\* When main is called its data have the values the linker gave them, whatever
\* the RAM held and wherever a reset interrupted an earlier start or run
\* (startup.c:55-70).
MainFindsItsData ==
  at = "main" =>
    /\ \A a \in Sdata .. Edata - 1 : ram[a] = Contents[RomToCopy + a - Sdata]
    /\ \A a \in Sbss .. Ebss - 1 : ram[a] = 0
=============================================================================
