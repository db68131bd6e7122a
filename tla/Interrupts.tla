----------------------------- MODULE Interrupts -----------------------------
(***************************************************************************)
(* The program CODE/interrupt_direct on its devices: the main loop, the    *)
(* trap handler (universal_handler.c, handlers.c), the interrupt logic     *)
(* (lic.vhd, csr.vhd) and the System Timer, TIMER1 and USART (io.vhd).      *)
(*                                                                         *)
(* A step is one instruction that reads or writes a device or a CSR, or    *)
(* one event of a device; the devices run on while the processor executes, *)
(* so any number of events fit between two instructions.                   *)
(***************************************************************************)
EXTENDS Naturals

CONSTANTS
  Word,         \* values of one half of the System Timer, 2^32
  Delta,        \* external_timer_delta
  MaxHigh,      \* bound of TIMEH
  MaxHits,      \* bound of the compare matches of TIMER1
  MaxReceived   \* bound of the characters received

\* The 64-bit time never comes near its end.
ASSUME TimerAssumption ==
  /\ Word \in Nat /\ Delta \in 1 .. Word - 1
  /\ MaxHigh \in Nat /\ MaxHigh + 1 < Word
  /\ MaxHits \in Nat /\ MaxReceived \in Nat

VARIABLES
  main,      \* main.c: the next instruction
  handler,   \* the trap handler: the next instruction, or "none"
  csr,       \* mstatus.MIE and MPIE, mie.MTIE, mcause
  read,      \* the registers timeh and time (th and tl) of a handler
  entry,     \* the time at which the handler was entered
  time,      \* TIMEH:TIME
  cmp,       \* TIMECMPH:TIMECMP
  match1,    \* TIMER1->STAT bit 4
  usart,     \* [rc, tc]: USART->STAT bits 2 and 4; sending: the transmitter is busy
  hits, received

vars == <<main, handler, csr, read, entry, time, cmp, match1, usart, hits, received>>

-----------------------------------------------------------------------------
(* 64-bit times as two words *)

Half  == 0 .. Word - 1
Times == [hi : Half, lo : Half]
Zero  == [hi |-> 0, lo |-> 0]

Leq(s, t) == s.hi < t.hi \/ (s.hi = t.hi /\ s.lo <= t.lo)

\* Mutant: no carry into TIMEH.
SuccNoCarry(t) == [t EXCEPT !.lo = @ + 1]

Succ(t) == IF t.lo = Word - 1 THEN [hi |-> t.hi + 1, lo |-> 0]
                              ELSE [t EXCEPT !.lo = @ + 1]

\* cur_time += external_timer_delta
Deadline(t) ==
  IF t.lo + Delta < Word THEN [t EXCEPT !.lo = @ + Delta]
                         ELSE [hi |-> t.hi + 1, lo |-> t.lo + Delta - Word]

-----------------------------------------------------------------------------
(* The devices *)

Match == Leq(cmp, time)

Processor == <<main, handler, csr, read, entry>>

Tick ==
  /\ Succ(time).hi <= MaxHigh
  /\ time' = Succ(time)
  /\ UNCHANGED <<Processor, cmp, match1, usart, hits, received>>

Hit ==
  /\ hits < MaxHits
  /\ hits' = hits + 1 /\ match1' = TRUE
  /\ UNCHANGED <<Processor, time, cmp, usart, received>>

\* The character replaces one that has not been read.
Receive ==
  /\ received < MaxReceived
  /\ received' = received + 1 /\ usart' = [usart EXCEPT !.rc = TRUE]
  /\ UNCHANGED <<Processor, time, cmp, match1, hits>>

FrameSent ==
  /\ usart.sending
  /\ usart' = [usart EXCEPT !.sending = FALSE, !.tc = TRUE]
  /\ UNCHANGED <<Processor, time, cmp, match1, hits, received>>

\* Mutant: the start of a frame is not seen by an idle transmitter.
NeverStarted == {[usart EXCEPT !.tc = FALSE]}

\* Writing USART->DATA clears TC and starts a frame; while one is being sent
\* the start is not seen, but at the very edge that ends it TC is set and the
\* new frame is started.
DataWritten ==
  {[usart EXCEPT !.tc = FALSE, !.sending = TRUE]}
    \cup {u \in {[usart EXCEPT !.tc = TRUE]} : u.sending}

Clock == <<time, cmp>>
Others == <<hits, received>>

-----------------------------------------------------------------------------
(* Traps *)

\* What the interrupt logic asks for, by its priorities.
Cause ==
  CASE csr.mie /\ csr.mtie /\ Match -> "timer"
    [] csr.mie /\ ~(csr.mtie /\ Match) /\ usart.rc -> "usart"
    [] csr.mie /\ ~(csr.mtie /\ Match) /\ ~usart.rc /\ match1 -> "timer1"
    [] OTHER -> IF main \in {"ecall", "ebreak"} THEN main ELSE "none"

\* Where universal_handler goes for it.
Dispatch(cause) ==
  CASE cause = "timer"  -> "timeh"   [] cause = "usart" -> "stat"
    [] cause = "timer1" -> "stat1"   [] cause = "ecall" -> "rdtimeh"
    [] OTHER -> "debugger"

\* A store that is being executed when the trap is taken has written, and will
\* be executed again.
TakeTrap ==
  /\ handler = "none" /\ Cause # "none"
  /\ handler' = Dispatch(Cause)
  /\ csr' = [csr EXCEPT !.mie = FALSE, !.mpie = csr.mie, !.mcause = Cause]
  /\ entry' = time
  /\ \/ usart' = usart
     \/ main = "send" /\ usart' \in DataWritten
  /\ UNCHANGED <<main, read, Clock, match1, Others>>

\* Mutant: interrupts stay disabled.
MretKeepsMie(c) == [c EXCEPT !.mpie = TRUE, !.mcause = "none"]

Released(c) == [c EXCEPT !.mie = c.mpie, !.mpie = TRUE, !.mcause = "none"]

\* After ECALL and EBREAK the return address is that of the next instruction.
Mret ==
  /\ handler = "mret"
  /\ handler' = "none" /\ csr' = Released(csr)
  /\ main' = CASE csr.mcause = "ecall"  -> "send"
               [] csr.mcause = "ebreak" -> "ecall"
               [] OTHER -> main
  /\ read' = Zero /\ entry' = Zero
  /\ UNCHANGED <<Clock, match1, usart, Others>>

-----------------------------------------------------------------------------
(* The handlers: an instruction that touches no device is not a step *)

\* The handler is at the instruction at, and goes on to next.
Handle(at, next) ==
  /\ handler = at /\ handler' = next
  /\ UNCHANGED <<main, csr, entry, time, Others>>

\* Mutant: timeh is not read a second time.
NoSecondRead(th) == TRUE

Unchanged(th) == th = time.hi

\* The loops of external_timer_handler and of gettimeofday read the time alike.
ReadHigh ==
  /\ Handle("timeh", "time") \/ Handle("rdtimeh", "rdtime")
  /\ read' = [read EXCEPT !.hi = time.hi]
  /\ UNCHANGED <<cmp, match1, usart>>

ReadLow ==
  /\ Handle("time", "timeh2") \/ Handle("rdtime", "rdtimeh2")
  /\ read' = [read EXCEPT !.lo = time.lo]
  /\ UNCHANGED <<cmp, match1, usart>>

ReadHighAgain ==
  /\ \/ Handle("timeh2", IF Unchanged(read.hi) THEN "maxh" ELSE "timeh")
     \/ Handle("rdtimeh2", IF Unchanged(read.hi) THEN "mret" ELSE "rdtimeh")
  /\ UNCHANGED <<cmp, match1, usart, read>>

\* Mutant: TIMECMPH keeps its value while TIMECMP is written.
MaxHighSkipped(c) == c

\* TIMECMPH = -1
HighAtMax(c) == [c EXCEPT !.hi = Word - 1]

StoreMaxHigh ==
  /\ Handle("maxh", "max")
  /\ cmp' = HighAtMax(cmp)
  /\ UNCHANGED <<match1, usart, read>>

StoreMaxLow ==
  /\ Handle("max", "cmp")
  /\ cmp' = [cmp EXCEPT !.lo = Word - 1]
  /\ UNCHANGED <<match1, usart, read>>

StoreLow ==
  /\ Handle("cmp", "cmph")
  /\ cmp' = [cmp EXCEPT !.lo = Deadline(read).lo]
  /\ UNCHANGED <<match1, usart, read>>

StoreHigh ==
  /\ Handle("cmph", "mret")
  /\ cmp' = [cmp EXCEPT !.hi = Deadline(read).hi]
  /\ UNCHANGED <<match1, usart, read>>

UsartStatus ==
  /\ Handle("stat", IF usart.rc THEN "data" ELSE "mret")
  /\ UNCHANGED <<cmp, match1, usart, read>>

\* Mutant: the status register is written 0 instead (handlers.c:97).
StatusZero(u) == [u EXCEPT !.rc = FALSE, !.tc = FALSE]

\* Reading USART->DATA clears the receive flags.
DataRead(u) == [u EXCEPT !.rc = FALSE]

UsartData ==
  /\ Handle("data", "mret")
  /\ usart' = DataRead(usart)
  /\ UNCHANGED <<cmp, match1, read>>

\* TIMER1->STAT &= ~(1<<4), a load and a store.
Timer1Load ==
  /\ Handle("stat1", "clear1")
  /\ UNCHANGED <<cmp, match1, usart, read>>

Timer1Store ==
  /\ Handle("clear1", "mret")
  /\ match1' = FALSE
  /\ UNCHANGED <<cmp, usart, read>>

\* debugger() prints a text with usart_putc, here one character.
DebuggerSend ==
  /\ Handle("debugger", "wait")
  /\ usart' \in DataWritten
  /\ UNCHANGED <<cmp, match1, read>>

DebuggerWait ==
  /\ Handle("wait", IF usart.tc THEN "mret" ELSE "wait")
  /\ UNCHANGED <<cmp, match1, usart, read>>

Handler ==
  \/ ReadHigh \/ ReadLow \/ ReadHighAgain
  \/ StoreMaxHigh \/ StoreMaxLow \/ StoreLow \/ StoreHigh
  \/ UsartStatus \/ UsartData \/ Timer1Load \/ Timer1Store
  \/ DebuggerSend \/ DebuggerWait \/ Mret

-----------------------------------------------------------------------------
(* main.c *)

\* An instruction of main is executed when no trap is requested.
Execute(at) ==
  /\ handler = "none" /\ Cause = "none" /\ main = at
  /\ UNCHANGED <<handler, read, entry, Clock, match1, Others>>

EnableTimerIrq ==
  /\ Execute("mtie") /\ main' = "mie"
  /\ csr' = [csr EXCEPT !.mtie = TRUE] /\ UNCHANGED usart

EnableIrq ==
  /\ Execute("mie") /\ main' = "ecall"
  /\ csr' = [csr EXCEPT !.mie = TRUE] /\ UNCHANGED usart

Send ==
  /\ Execute("send") /\ main' = "wait"
  /\ usart' \in DataWritten /\ UNCHANGED csr

\* while ((USART->STAT & 0x10) == 0); then another character, the EBREAK or
\* the next gettimeofday.
Wait ==
  /\ Execute("wait")
  /\ IF usart.tc THEN main' \in {"send", "ebreak", "ecall"} ELSE main' = main
  /\ UNCHANGED <<csr, usart>>

Main == EnableTimerIrq \/ EnableIrq \/ Send \/ Wait

-----------------------------------------------------------------------------

\* The devices have been set up; events may have happened since.
Init ==
  /\ main = "mtie" /\ handler = "none"
  /\ csr = [mie |-> FALSE, mpie |-> FALSE, mtie |-> FALSE, mcause |-> "none"]
  /\ read = Zero /\ entry = Zero /\ time = Zero /\ cmp = Zero
  /\ match1 = FALSE
  /\ usart = [rc |-> FALSE, tc |-> FALSE, sending |-> FALSE]
  /\ hits = 0 /\ received = 0

Instruction == TakeTrap \/ Handler \/ Main

Next == Tick \/ Hit \/ Receive \/ FrameSent \/ Instruction

Spec == Init /\ [][Next]_vars

\* The processor runs, and a frame takes a fixed time.
FairSpec == Spec /\ WF_vars(Instruction) /\ WF_vars(FrameSent)

-----------------------------------------------------------------------------
(* Properties *)

Labels == {"none", "timeh", "time", "timeh2", "maxh", "max", "cmp", "cmph", "stat",
           "data", "stat1", "clear1", "rdtimeh", "rdtime", "rdtimeh2", "debugger",
           "wait", "mret"}

Causes == {"none", "timer", "usart", "timer1", "ecall", "ebreak"}

\* The types of the variables (io.vhd and csr.vhd registers).
TypeOK ==
  /\ main \in {"mtie", "mie", "ecall", "send", "wait", "ebreak"}
  /\ handler \in Labels
  /\ csr \in [mie : BOOLEAN, mpie : BOOLEAN, mtie : BOOLEAN, mcause : Causes]
  /\ read \in Times /\ entry \in Times /\ time \in Times /\ cmp \in Times
  /\ match1 \in BOOLEAN
  /\ usart \in [rc : BOOLEAN, tc : BOOLEAN, sending : BOOLEAN]
  /\ hits \in 0 .. MaxHits /\ received \in 0 .. MaxReceived

HasRead ==
  \/ handler \in {"maxh", "max", "cmp", "cmph"}
  \/ handler = "mret" /\ csr.mcause \in {"timer", "ecall"}

\* The two words read by the loops of universal_handler.c:221 and handlers.c:65
\* belong together: they are a time the timer had between the entry of the
\* handler and now, whenever the low word wrapped.
ReadIsBetween == HasRead => Leq(entry, read) /\ Leq(read, time)

\* While external_timer_handler writes the two words of TIMECMP (handlers.c:75),
\* no mixture of an old and a new word matches: the interrupt stays negated from
\* the first store until the last.
NoFalseMatch == handler \in {"max", "cmp", "cmph"} => ~Match

\* usart_putc cannot wait for a TC that never comes (handlers.c:97): while it
\* polls, in main or in the debugger, TC is set or a frame is being sent.
TcIsComing == main = "wait" \/ handler = "wait" => usart.tc \/ usart.sending

\* Every usart_putc of main returns, whatever traps interrupt it and although
\* its store may be executed twice.
PutcReturns == main = "wait" ~> main # "wait"

Enabled == main \notin {"mtie", "mie"}

\* With interrupts enabled every request is answered: the flags that raise the
\* lines of the three devices are negated by their handlers.
RequestsServed ==
  /\ Enabled /\ usart.rc ~> ~usart.rc
  /\ Enabled /\ match1 ~> ~match1
  /\ Enabled /\ Match ~> ~Match
=============================================================================
