------------------------------- MODULE Board -------------------------------
(***************************************************************************)
(* A program from its S-records to its end: the tools make the ROM, the    *)
(* start-up code runs, and then one of the programs linked_list, global,   *)
(* malloc, syscalls, qsort_int, hex_display, usart, clock, interval,       *)
(* interrupt_direct and interrupt_vectored on the C library; the           *)
(* bootloader's main is in the modules Loader and Monitor.  A reset may    *)
(* come at any time.                                                       *)
(***************************************************************************)
EXTENDS Examples, Timing, Vectored

vars == <<startup, library, heap, vectored>>

\* A reset clears the registers of the core and of the devices; the RAM stays.
DevicesReset ==
  /\ frame' = NoFrame /\ out' = <<>> /\ time' = 0 /\ timer' = NoTimer
  /\ heap' = <<>>
  /\ regs' = NoRegisters /\ saved' = NoRegisters /\ before' = NoRegisters
  /\ csr' = NoTrap /\ lines' = {} /\ timecmp' = 0 /\ events' = 0

\* Mutant: the reset address is behind the instructions that set the pointers.
ResetPastStart == ResetTo("bss") /\ DevicesReset

Reset == ResetCore /\ DevicesReset

Init ==
  /\ ImageInit /\ StartupInit /\ LibraryInit /\ heap = <<>> /\ VectoredInit

Tools ==
  /\ ImageNext
  /\ UNCHANGED <<prog, at, pointer, ram, mtvec, resets, library, heap, vectored>>

Software ==
  \/ StartupNext /\ UNCHANGED <<library, heap, vectored>>
  \/ TimeNext /\ UNCHANGED <<heap, vectored>>
  \/ prog \in InterruptPrograms /\ InterruptNext /\ UNCHANGED heap
  \/ prog \in {"clock", "interval"} /\ TimingNext /\ UNCHANGED <<heap, vectored>>
  \/ prog = "linked_list" /\ LinkedListNext /\ UNCHANGED vectored
  \/ prog \notin InterruptPrograms /\ ExamplesNext /\ UNCHANGED vectored

Next ==
  \/ Tools \/ Software \/ Reset
  \/ Event /\ UNCHANGED heap
  \/ Outside /\ UNCHANGED vectored

Spec == Init /\ [][Next]_vars

\* The processor runs.
FairSpec == Spec /\ WF_vars(Software)
=============================================================================
