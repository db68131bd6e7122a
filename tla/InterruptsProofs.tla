-------------------------- MODULE InterruptsProofs --------------------------
(***************************************************************************)
(* Proofs about the interrupt program, for every size of the timer's words, *)
(* every delta and any number of events.  The inductive invariant says, for *)
(* each place in the two reading loops, what the words read so far have to  *)
(* do with the time at entry and the time now.                              *)
(***************************************************************************)
EXTENDS Interrupts, TLAPS

TimerLoop == {"timeh", "time", "timeh2", "maxh", "max", "cmp", "cmph"}
ClockLoop == {"rdtimeh", "rdtime", "rdtimeh2"}
UsartPart == {"stat", "data"}
Timer1Part == {"stat1", "clear1"}
DebugPart == {"debugger", "wait"}

\* mcause is the one that universal_handler dispatched on.
CauseFits ==
  /\ handler \in TimerLoop => csr.mcause = "timer"
  /\ handler \in ClockLoop => csr.mcause = "ecall"
  /\ handler \in UsartPart => csr.mcause = "usart"
  /\ handler \in Timer1Part => csr.mcause = "timer1"
  /\ handler \in DebugPart => csr.mcause = "ebreak"

\* The bounds of the times the timer has had.
TimesBounded == time.hi <= MaxHigh /\ read.hi <= MaxHigh /\ entry.hi <= MaxHigh

EntryPassed == handler # "none" => Leq(entry, time)

HighRead == handler \in {"time", "timeh2", "rdtime", "rdtimeh2"} =>
              entry.hi <= read.hi /\ read.hi <= time.hi

\* If the high word has not changed since it was read, the pair was a time.
LowRead == handler \in {"timeh2", "rdtimeh2"} /\ read.hi = time.hi =>
             Leq(entry, read) /\ Leq(read, time)

CompareAtMax == handler \in {"max", "cmp", "cmph"} => cmp.hi = Word - 1

ClockInv ==
  /\ TypeOK /\ CauseFits /\ TimesBounded /\ EntryPassed /\ HighRead /\ LowRead
  /\ ReadIsBetween /\ CompareAtMax

-----------------------------------------------------------------------------
(* Times *)

\* Leq is transitive on times.
LEMMA LeqTransitive ==
  ASSUME NEW r \in Times, NEW s \in Times, NEW t \in Times, Leq(r, s), Leq(s, t)
  PROVE  Leq(r, t)
<1>1. /\ r.hi \in Nat /\ r.lo \in Nat /\ s.hi \in Nat /\ s.lo \in Nat
      /\ t.hi \in Nat /\ t.lo \in Nat
  BY TimerAssumption DEF Times, Half
<1> QED BY <1>1 DEF Leq

\* A tick that stays in the bound yields a later time.
LEMMA SuccLater ==
  ASSUME NEW t \in Times, Succ(t).hi <= MaxHigh
  PROVE  Succ(t) \in Times /\ Leq(t, Succ(t)) /\ t.hi <= Succ(t).hi
                           /\ (t.hi = Succ(t).hi => t.lo < Succ(t).lo)
<1>1. t = [hi |-> t.hi, lo |-> t.lo] /\ t.hi \in 0 .. Word - 1 /\ t.lo \in 0 .. Word - 1
  BY DEF Times, Half
<1>2. CASE t.lo = Word - 1
  <2>1. Succ(t) = [hi |-> t.hi + 1, lo |-> 0] BY <1>2 DEF Succ
  <2> QED BY <1>1, <2>1, TimerAssumption DEF Times, Half, Leq
<1>3. CASE t.lo # Word - 1
  <2>1. Succ(t) = [hi |-> t.hi, lo |-> t.lo + 1] BY <1>1, <1>3 DEF Succ
  <2> QED BY <1>1, <1>3, <2>1, TimerAssumption DEF Times, Half, Leq
<1> QED BY <1>2, <1>3

\* The deadline of a time within the bound is a time.
LEMMA DeadlineIsTime ==
  ASSUME NEW t \in Times, t.hi <= MaxHigh
  PROVE  Deadline(t) \in Times
<1>1. t = [hi |-> t.hi, lo |-> t.lo] /\ t.hi \in 0 .. Word - 1 /\ t.lo \in 0 .. Word - 1
  BY DEF Times, Half
<1>2. CASE t.lo + Delta < Word
  <2>1. Deadline(t) = [hi |-> t.hi, lo |-> t.lo + Delta] BY <1>1, <1>2 DEF Deadline
  <2> QED BY <1>1, <1>2, <2>1, TimerAssumption DEF Times, Half
<1>3. CASE ~(t.lo + Delta < Word)
  <2>1. Deadline(t) = [hi |-> t.hi + 1, lo |-> t.lo + Delta - Word] BY <1>3 DEF Deadline
  <2> QED BY <1>1, <1>3, <2>1, TimerAssumption DEF Times, Half
<1> QED BY <1>2, <1>3

\* The initial state.
LEMMA InitInv == Init => ClockInv
<1> SUFFICES ASSUME Init PROVE ClockInv OBVIOUS
<1>1. Zero \in Times /\ Zero.hi = 0 BY TimerAssumption DEF Zero, Times, Half
<1>2. TypeOK
  <2>1. csr \in [mie : BOOLEAN, mpie : BOOLEAN, mtie : BOOLEAN, mcause : Causes]
    BY DEF Init, Causes
  <2>2. usart \in [rc : BOOLEAN, tc : BOOLEAN, sending : BOOLEAN] BY DEF Init
  <2>3. match1 \in BOOLEAN BY DEF Init
  <2>4. hits \in 0 .. MaxHits /\ received \in 0 .. MaxReceived
    BY TimerAssumption DEF Init
  <2>5. main \in {"mtie", "mie", "ecall", "send", "wait", "ebreak"} /\ handler \in Labels
    BY DEF Init, Labels
  <2> QED BY <1>1, <2>1, <2>2, <2>3, <2>4, <2>5 DEF Init, TypeOK
<1>3. TimesBounded BY <1>1, TimerAssumption DEF Init, TimesBounded
<1>4. CauseFits /\ EntryPassed /\ HighRead /\ LowRead /\ ReadIsBetween /\ CompareAtMax
  BY DEF Init, CauseFits, EntryPassed, HighRead, LowRead, ReadIsBetween, HasRead,
         CompareAtMax, TimerLoop, ClockLoop, UsartPart, Timer1Part, DebugPart
<1> QED BY <1>2, <1>3, <1>4 DEF ClockInv

-----------------------------------------------------------------------------
(* Steps *)

\* The devices do not touch the processor; only the time moves, forward.
LEMMA TickStep == ASSUME ClockInv, Tick PROVE ClockInv'
<1>1. /\ time \in Times /\ time' \in Times /\ Leq(time, time') /\ time.hi <= time'.hi
      /\ time'.hi <= MaxHigh
  BY SuccLater DEF ClockInv, TypeOK, Tick
<1>2. TypeOK' BY <1>1 DEF ClockInv, TypeOK, Tick, Processor
<1>3. CauseFits' /\ CompareAtMax'
  BY DEF ClockInv, CauseFits, CompareAtMax, Tick, Processor
<1>4. TimesBounded' BY <1>1 DEF ClockInv, TimesBounded, Tick, Processor
<1>5. entry \in Times /\ read \in Times /\ read' = read /\ entry' = entry
      /\ handler' = handler /\ csr' = csr
  BY DEF ClockInv, TypeOK, Tick, Processor
<1>6. EntryPassed'
  BY <1>1, <1>5, LeqTransitive DEF ClockInv, EntryPassed
<1>7. /\ time.hi \in Nat /\ time'.hi \in Nat /\ entry.hi \in Nat /\ read.hi \in Nat
  BY <1>1, <1>5 DEF Times, Half
<1>8. HighRead' BY <1>1, <1>5, <1>7 DEF ClockInv, HighRead
<1>9. LowRead'
  <2> SUFFICES ASSUME handler \in {"timeh2", "rdtimeh2"}, read.hi = time'.hi
               PROVE  Leq(entry, read) /\ Leq(read, time')
    BY <1>5 DEF LowRead
  <2>1. read.hi <= time.hi BY DEF ClockInv, HighRead
  <2>2. read.hi = time.hi BY <1>1, <1>7, <2>1
  <2>3. Leq(entry, read) /\ Leq(read, time) BY <2>2 DEF ClockInv, LowRead
  <2> QED BY <1>1, <1>5, <2>3, LeqTransitive
<1>10. ReadIsBetween'
  <2> SUFFICES ASSUME HasRead PROVE Leq(entry, read) /\ Leq(read, time')
    BY <1>5 DEF ReadIsBetween, HasRead
  <2>1. Leq(entry, read) /\ Leq(read, time) BY DEF ClockInv, ReadIsBetween
  <2> QED BY <1>1, <1>5, <2>1, LeqTransitive
<1> QED BY <1>2, <1>3, <1>4, <1>6, <1>8, <1>9, <1>10 DEF ClockInv

\* The other events leave the times and the processor alone.
LEMMA EventStep == ASSUME ClockInv, Hit \/ Receive \/ FrameSent PROVE ClockInv'
<1>1. /\ UNCHANGED <<main, handler, csr, read, entry, time, cmp>>
  BY DEF Hit, Receive, FrameSent, Processor
<1>2. /\ match1' \in BOOLEAN
      /\ usart' \in [rc : BOOLEAN, tc : BOOLEAN, sending : BOOLEAN]
      /\ hits' \in 0 .. MaxHits /\ received' \in 0 .. MaxReceived
  <2>1. match1' \in BOOLEAN BY DEF ClockInv, TypeOK, Hit, Receive, FrameSent
  <2>2. usart' \in [rc : BOOLEAN, tc : BOOLEAN, sending : BOOLEAN]
    BY DEF ClockInv, TypeOK, Hit, Receive, FrameSent
  <2>3. hits' \in 0 .. MaxHits /\ received' \in 0 .. MaxReceived
    BY TimerAssumption DEF ClockInv, TypeOK, Hit, Receive, FrameSent
  <2> QED BY <2>1, <2>2, <2>3
<1>3. TypeOK' BY <1>1, <1>2 DEF ClockInv, TypeOK
<1> QED
  BY <1>1, <1>3 DEF ClockInv, CauseFits, TimesBounded, EntryPassed, HighRead, LowRead,
                    ReadIsBetween, HasRead, CompareAtMax

\* What writing and reading USART->DATA do to the flags.
LEMMA UsartTypes ==
  ASSUME TypeOK
  PROVE  /\ DataWritten \subseteq [rc : BOOLEAN, tc : BOOLEAN, sending : BOOLEAN]
         /\ DataRead(usart) \in [rc : BOOLEAN, tc : BOOLEAN, sending : BOOLEAN]
  BY DEF TypeOK, DataWritten, DataRead

\* Main's instructions are executed outside the handler.
LEMMA MainStep == ASSUME ClockInv, Main PROVE ClockInv'
<1>1. /\ handler = "none" /\ handler' = "none"
      /\ UNCHANGED <<read, entry, time, cmp, match1, hits, received>>
  BY DEF Main, EnableTimerIrq, EnableIrq, Send, Wait, Execute, Clock, Others
<1>2. main' \in {"mtie", "mie", "ecall", "send", "wait", "ebreak"}
  BY DEF ClockInv, TypeOK, Main, EnableTimerIrq, EnableIrq, Send, Wait
<1>3. csr' \in [mie : BOOLEAN, mpie : BOOLEAN, mtie : BOOLEAN, mcause : Causes]
  BY DEF ClockInv, TypeOK, Main, EnableTimerIrq, EnableIrq, Send, Wait
<1>4. usart' \in [rc : BOOLEAN, tc : BOOLEAN, sending : BOOLEAN]
  BY UsartTypes DEF ClockInv, TypeOK, Main, EnableTimerIrq, EnableIrq, Send, Wait
<1>5. TypeOK' BY <1>1, <1>2, <1>3, <1>4 DEF ClockInv, TypeOK
<1> QED
  BY <1>1, <1>5 DEF ClockInv, CauseFits, TimesBounded, EntryPassed, HighRead, LowRead,
    ReadIsBetween, HasRead, CompareAtMax, TimerLoop, ClockLoop, UsartPart, Timer1Part,
    DebugPart

\* The interrupt logic names one of the causes.
LEMMA CauseType == ASSUME TypeOK PROVE Cause \in Causes
  BY DEF TypeOK, Cause, Causes

\* A trap starts the part of the handler that belongs to its cause.
LEMMA TrapStep == ASSUME ClockInv, TakeTrap PROVE ClockInv'
<1>1. Cause \in Causes \ {"none"}
  BY CauseType DEF ClockInv, TakeTrap
<1>2. /\ handler' = Dispatch(Cause) /\ entry' = time
      /\ UNCHANGED <<main, read, time, cmp, match1, hits, received>>
  BY DEF TakeTrap, Clock, Others
<1>3. csr' \in [mie : BOOLEAN, mpie : BOOLEAN, mtie : BOOLEAN, mcause : Causes]
      /\ csr'.mcause = Cause
  BY <1>1 DEF ClockInv, TypeOK, TakeTrap
<1>4. usart' \in [rc : BOOLEAN, tc : BOOLEAN, sending : BOOLEAN]
  BY UsartTypes DEF ClockInv, TypeOK, TakeTrap
<1>5. /\ handler' \in {"timeh", "stat", "stat1", "rdtimeh", "debugger"}
      /\ CauseFits'
  BY <1>1, <1>2, <1>3
  DEF Dispatch, Causes, CauseFits, TimerLoop, ClockLoop, UsartPart, Timer1Part, DebugPart
<1>6. TypeOK' BY <1>2, <1>3, <1>4, <1>5 DEF ClockInv, TypeOK, Labels
<1>7. Leq(time, time)
  <2>1. time.hi \in Nat /\ time.lo \in Nat BY DEF ClockInv, TypeOK, Times, Half
  <2> QED BY <2>1 DEF Leq
<1>8. EntryPassed' BY <1>2, <1>7 DEF EntryPassed
<1>9. TimesBounded' BY <1>2 DEF ClockInv, TimesBounded
<1> QED
  BY <1>5, <1>6, <1>8, <1>9
  DEF ClockInv, HighRead, LowRead, ReadIsBetween, HasRead, CompareAtMax

\* Leaving the handler.
LEMMA MretStep == ASSUME ClockInv, Mret PROVE ClockInv'
<1>1. /\ handler' = "none" /\ read' = Zero /\ entry' = Zero
      /\ UNCHANGED <<time, cmp, match1, usart, hits, received>>
  BY DEF Mret, Clock, Others
<1>2. Zero \in Times /\ Zero.hi = 0 BY TimerAssumption DEF Zero, Times, Half
<1>3. csr' \in [mie : BOOLEAN, mpie : BOOLEAN, mtie : BOOLEAN, mcause : Causes]
  BY DEF ClockInv, TypeOK, Mret, Released, Causes
<1>4. main' \in {"mtie", "mie", "ecall", "send", "wait", "ebreak"}
  <2>1. CASE csr.mcause = "ecall"  BY <2>1 DEF Mret
  <2>2. CASE csr.mcause = "ebreak" BY <2>2 DEF Mret
  <2>3. CASE csr.mcause \notin {"ecall", "ebreak"} BY <2>3 DEF Mret, ClockInv, TypeOK
  <2> QED BY <2>1, <2>2, <2>3
<1>5. TypeOK' BY <1>1, <1>2, <1>3, <1>4 DEF ClockInv, TypeOK, Labels
<1>6. TimesBounded' BY <1>1, <1>2, TimerAssumption DEF ClockInv, TimesBounded
<1> QED
  BY <1>1, <1>5, <1>6 DEF ClockInv, CauseFits, EntryPassed, HighRead, LowRead,
    ReadIsBetween, HasRead, CompareAtMax, TimerLoop, ClockLoop, UsartPart, Timer1Part,
    DebugPart

-----------------------------------------------------------------------------
(* The handlers *)

\* What an instruction of a handler leaves alone.
LEMMA HandleFrame ==
  ASSUME NEW at, NEW next, Handle(at, next)
  PROVE  /\ handler = at /\ handler' = next
         /\ UNCHANGED <<main, csr, entry, time, hits, received>>
  BY DEF Handle, Others

\* A step that neither reads the time nor writes TIMECMP, between two places of
\* one part of the handler, keeps the invariant.
LEMMA QuietStep ==
  ASSUME ClockInv,
         UNCHANGED <<main, csr, read, entry, time, cmp, hits, received>>,
         match1' \in BOOLEAN,
         usart' \in [rc : BOOLEAN, tc : BOOLEAN, sending : BOOLEAN],
         handler \in UsartPart \cup Timer1Part \cup DebugPart,
         \/ handler' \in UsartPart /\ handler \in UsartPart
         \/ handler' \in Timer1Part /\ handler \in Timer1Part
         \/ handler' \in DebugPart /\ handler \in DebugPart
         \/ handler' = "mret"
  PROVE  ClockInv'
<1>1. handler' \in {"stat", "data", "stat1", "clear1", "debugger", "wait", "mret"}
  BY DEF UsartPart, Timer1Part, DebugPart
<1>2. csr.mcause \in {"usart", "timer1", "ebreak"}
  BY DEF ClockInv, CauseFits, UsartPart, Timer1Part, DebugPart
<1>3. handler # "none" BY DEF UsartPart, Timer1Part, DebugPart
<1>4. TypeOK' BY <1>1 DEF ClockInv, TypeOK, Labels
<1>5. CauseFits'
  BY DEF ClockInv, CauseFits, TimerLoop, ClockLoop, UsartPart, Timer1Part, DebugPart
<1>6. EntryPassed' BY <1>3 DEF ClockInv, EntryPassed
<1>7. TimesBounded' BY DEF ClockInv, TimesBounded
<1>8. HighRead' /\ LowRead' /\ CompareAtMax' /\ ReadIsBetween'
  BY <1>1, <1>2 DEF HighRead, LowRead, CompareAtMax, ReadIsBetween, HasRead
<1> QED BY <1>4, <1>5, <1>6, <1>7, <1>8 DEF ClockInv

\* The USART's, TIMER1's and the debugger's parts are such steps.
LEMMA DeviceStep ==
  ASSUME ClockInv,
         \/ UsartStatus \/ UsartData \/ Timer1Load \/ Timer1Store
         \/ DebuggerSend \/ DebuggerWait
  PROVE  ClockInv'
<1> USE QuietStep, UsartTypes
<1>0. /\ usart \in [rc : BOOLEAN, tc : BOOLEAN, sending : BOOLEAN]
      /\ match1 \in BOOLEAN /\ TypeOK
  BY DEF ClockInv, TypeOK
<1>1. CASE UsartStatus
  BY <1>0, <1>1 DEF UsartStatus, Handle, Others, UsartPart
<1>2. CASE UsartData
  BY <1>0, <1>2 DEF UsartData, Handle, Others, UsartPart
<1>3. CASE Timer1Load
  BY <1>0, <1>3 DEF Timer1Load, Handle, Others, Timer1Part
<1>4. CASE Timer1Store
  BY <1>0, <1>4 DEF Timer1Store, Handle, Others, Timer1Part
<1>5. CASE DebuggerSend
  BY <1>0, <1>5 DEF DebuggerSend, Handle, Others, DebugPart
<1>6. CASE DebuggerWait
  BY <1>0, <1>6 DEF DebuggerWait, Handle, Others, DebugPart
<1> QED BY <1>1, <1>2, <1>3, <1>4, <1>5, <1>6

\* The first read of the high word.
LEMMA ReadHighStep == ASSUME ClockInv, ReadHigh PROVE ClockInv'
<1>1. /\ \/ handler = "timeh" /\ handler' = "time"
         \/ handler = "rdtimeh" /\ handler' = "rdtime"
      /\ UNCHANGED <<main, csr, entry, time, cmp, match1, usart, hits, received>>
      /\ read' = [read EXCEPT !.hi = time.hi]
  BY DEF ReadHigh, Handle, Others
<1>2. read \in Times /\ time \in Times /\ entry \in Times /\ Leq(entry, time)
  BY <1>1 DEF ClockInv, TypeOK, EntryPassed
<1>3. read' \in Times /\ read'.hi = time.hi
  BY <1>1, <1>2 DEF Times
<1>4. entry.hi <= time.hi
  BY <1>2, TimerAssumption DEF Leq, Times, Half
<1>5. time.hi <= time.hi BY <1>2, TimerAssumption DEF Times, Half
<1>6. TypeOK' BY <1>1, <1>3 DEF ClockInv, TypeOK, Labels
<1>7. CauseFits'
  BY <1>1 DEF ClockInv, CauseFits, TimerLoop, ClockLoop, UsartPart, Timer1Part, DebugPart
<1>8. EntryPassed' /\ TimesBounded'
  BY <1>1, <1>2, <1>3 DEF ClockInv, EntryPassed, TimesBounded
<1>9. HighRead' BY <1>1, <1>3, <1>4, <1>5 DEF HighRead
<1>10. LowRead' /\ ReadIsBetween' /\ CompareAtMax'
  BY <1>1 DEF LowRead, ReadIsBetween, HasRead, CompareAtMax
<1> QED BY <1>6, <1>7, <1>8, <1>9, <1>10 DEF ClockInv

\* The read of the low word: if the high word still stands the pair is the time
\* now, if not the second read of the high word will differ.
LEMMA ReadLowStep == ASSUME ClockInv, ReadLow PROVE ClockInv'
<1>1. /\ \/ handler = "time" /\ handler' = "timeh2"
         \/ handler = "rdtime" /\ handler' = "rdtimeh2"
      /\ UNCHANGED <<main, csr, entry, time, cmp, match1, usart, hits, received>>
      /\ read' = [read EXCEPT !.lo = time.lo]
  BY DEF ReadLow, Handle, Others
<1>2. read \in Times /\ time \in Times /\ entry \in Times /\ Leq(entry, time)
  BY <1>1 DEF ClockInv, TypeOK, EntryPassed
<1>3. read' \in Times /\ read'.hi = read.hi /\ read'.lo = time.lo
  BY <1>1, <1>2 DEF Times
<1>6. TypeOK' BY <1>1, <1>3 DEF ClockInv, TypeOK, Labels
<1>7. CauseFits'
  BY <1>1 DEF ClockInv, CauseFits, TimerLoop, ClockLoop, UsartPart, Timer1Part, DebugPart
<1>8. EntryPassed' /\ TimesBounded'
  BY <1>1, <1>2, <1>3 DEF ClockInv, EntryPassed, TimesBounded
<1>9. HighRead' BY <1>1, <1>3 DEF ClockInv, HighRead
<1>10. LowRead'
  <2> SUFFICES ASSUME read'.hi = time.hi PROVE Leq(entry, read') /\ Leq(read', time)
    BY <1>1 DEF LowRead
  <2>1. read'.hi = time.hi /\ read'.lo = time.lo BY <1>3
  <2> QED BY <1>2, <2>1, TimerAssumption DEF Leq, Times, Half
<1>11. ReadIsBetween' /\ CompareAtMax'
  BY <1>1 DEF ReadIsBetween, HasRead, CompareAtMax
<1> QED BY <1>6, <1>7, <1>8, <1>9, <1>10, <1>11 DEF ClockInv

\* The second read of the high word ends the loop only when it has not changed.
LEMMA ReadAgainStep == ASSUME ClockInv, ReadHighAgain PROVE ClockInv'
<1>1. /\ \/ handler = "timeh2" /\ handler' = IF Unchanged(read.hi) THEN "maxh" ELSE "timeh"
         \/ handler = "rdtimeh2" /\ handler' = IF Unchanged(read.hi) THEN "mret" ELSE "rdtimeh"
      /\ UNCHANGED <<main, csr, entry, read, time, cmp, match1, usart, hits, received>>
  BY DEF ReadHighAgain, Handle, Others
<1>2. TypeOK' BY <1>1 DEF ClockInv, TypeOK, Labels
<1>3. CauseFits'
  BY <1>1 DEF ClockInv, CauseFits, TimerLoop, ClockLoop, UsartPart, Timer1Part, DebugPart
<1>4. EntryPassed' /\ TimesBounded'
  BY <1>1 DEF ClockInv, EntryPassed, TimesBounded
<1>5. HighRead' /\ LowRead' /\ CompareAtMax'
  BY <1>1 DEF HighRead, LowRead, CompareAtMax
<1>6. ReadIsBetween'
  BY <1>1 DEF ClockInv, LowRead, Unchanged, ReadIsBetween, HasRead
<1> QED BY <1>2, <1>3, <1>4, <1>5, <1>6 DEF ClockInv

\* The four stores of external_timer_handler.
LEMMA StoreStep ==
  ASSUME ClockInv, StoreMaxHigh \/ StoreMaxLow \/ StoreLow \/ StoreHigh
  PROVE  ClockInv'
<1>1. /\ UNCHANGED <<main, csr, entry, read, time, match1, usart, hits, received>>
      /\ handler \in {"maxh", "max", "cmp", "cmph"}
      /\ handler' \in {"max", "cmp", "cmph", "mret"}
  BY DEF StoreMaxHigh, StoreMaxLow, StoreLow, StoreHigh, Handle, Others
<1>2. cmp \in Times /\ read \in Times /\ read.hi <= MaxHigh
  BY DEF ClockInv, TypeOK, TimesBounded
<1>3. Deadline(read).hi \in Half /\ Deadline(read).lo \in Half
  BY <1>2, DeadlineIsTime DEF Times
<1>4. Word - 1 \in Half BY TimerAssumption DEF Half
<1>5. cmp' \in Times
  BY <1>2, <1>3, <1>4
  DEF StoreMaxHigh, StoreMaxLow, StoreLow, StoreHigh, HighAtMax, Times
<1>6. TypeOK' BY <1>1, <1>5 DEF ClockInv, TypeOK, Labels
<1>7. CauseFits'
  BY <1>1 DEF ClockInv, CauseFits, TimerLoop, ClockLoop, UsartPart, Timer1Part, DebugPart
<1>8. EntryPassed' /\ TimesBounded' /\ HighRead' /\ LowRead'
  BY <1>1 DEF ClockInv, EntryPassed, TimesBounded, HighRead, LowRead
<1>9. ReadIsBetween'
  BY <1>1 DEF ClockInv, ReadIsBetween, HasRead
<1>10. CompareAtMax'
  <2>1. CASE StoreMaxHigh
    BY <1>2, <2>1 DEF StoreMaxHigh, HighAtMax, CompareAtMax, Times
  <2>2. CASE StoreMaxLow
    BY <1>2, <2>2 DEF ClockInv, StoreMaxLow, Handle, CompareAtMax, Times
  <2>3. CASE StoreLow
    BY <1>2, <2>3 DEF ClockInv, StoreLow, Handle, CompareAtMax, Times
  <2>4. CASE StoreHigh BY <2>4 DEF StoreHigh, Handle, CompareAtMax
  <2> QED BY <2>1, <2>2, <2>3, <2>4
<1> QED BY <1>6, <1>7, <1>8, <1>9, <1>10 DEF ClockInv

-----------------------------------------------------------------------------
(* The theorems *)

\* Every step keeps the invariant.
LEMMA NextInv == ASSUME ClockInv, [Next]_vars PROVE ClockInv'
<1>1. CASE Tick BY <1>1, TickStep
<1>2. CASE Hit \/ Receive \/ FrameSent BY <1>2, EventStep
<1>3. CASE TakeTrap BY <1>3, TrapStep
<1>4. CASE Main BY <1>4, MainStep
<1>5. CASE Handler
  <2>1. CASE Mret BY <2>1, MretStep
  <2>2. CASE ReadHigh BY <2>2, ReadHighStep
  <2>3. CASE ReadLow BY <2>3, ReadLowStep
  <2>4. CASE ReadHighAgain BY <2>4, ReadAgainStep
  <2>5. CASE StoreMaxHigh \/ StoreMaxLow \/ StoreLow \/ StoreHigh BY <2>5, StoreStep
  <2>6. CASE \/ UsartStatus \/ UsartData \/ Timer1Load \/ Timer1Store
             \/ DebuggerSend \/ DebuggerWait
    BY <2>6, DeviceStep
  <2> QED BY <1>5, <2>1, <2>2, <2>3, <2>4, <2>5, <2>6 DEF Handler
<1>6. CASE UNCHANGED vars
  BY <1>6 DEF vars, ClockInv, TypeOK, CauseFits, TimesBounded, EntryPassed, HighRead,
    LowRead, ReadIsBetween, HasRead, CompareAtMax
<1> QED BY <1>1, <1>2, <1>3, <1>4, <1>5, <1>6 DEF Next, Instruction

\* The invariant holds always.
LEMMA ClockInvariant == Spec => []ClockInv
  BY InitInv, NextInv, PTL DEF Spec

\* The variables keep their types.
THEOREM TypesCorrect == Spec => []TypeOK
<1>1. ClockInv => TypeOK BY DEF ClockInv
<1> QED BY <1>1, ClockInvariant, PTL

\* The pairs read by both loops (universal_handler.c:221, handlers.c:65) are
\* times between the entry of the handler and now, for every word size.
THEOREM ClockCorrect == Spec => []ReadIsBetween
<1>1. ClockInv => ReadIsBetween BY DEF ClockInv
<1> QED BY <1>1, ClockInvariant, PTL

\* From the first store to the last one the timer does not match (handlers.c:75).
THEOREM NoFalseMatches == Spec => []NoFalseMatch
<1>1. ASSUME ClockInv PROVE NoFalseMatch
  <2>1. /\ time.hi \in Nat /\ cmp.hi \in Nat /\ time.hi <= MaxHigh
        /\ (handler \in {"max", "cmp", "cmph"} => cmp.hi = Word - 1)
    BY <1>1 DEF ClockInv, TypeOK, TimesBounded, CompareAtMax, Times, Half
  <2> QED BY <2>1, TimerAssumption DEF NoFalseMatch, Match, Leq
<1> QED BY <1>1, ClockInvariant, PTL

\* No step of a poll takes the coming TC away: the reading of DATA leaves TC, and
\* every write of DATA leaves a frame being sent.
LEMMA TcStep == ASSUME ClockInv, TcIsComing, [Next]_vars PROVE TcIsComing'
<1>1. \A u \in DataWritten : u.tc \/ u.sending
  BY DEF DataWritten, ClockInv, TypeOK
<1>2. usart \in [rc : BOOLEAN, tc : BOOLEAN, sending : BOOLEAN]
  BY DEF ClockInv, TypeOK
<1>3. CASE Tick \/ Hit \/ UNCHANGED vars
  BY <1>3 DEF Tick, Hit, Processor, vars, TcIsComing
<1>4. CASE Receive
  BY <1>2, <1>4 DEF Receive, Processor, TcIsComing
<1>5. CASE FrameSent
  BY <1>2, <1>5 DEF FrameSent, TcIsComing
<1>6. CASE TakeTrap
  <2>1. Cause \in Causes BY CauseType DEF ClockInv
  <2>2. handler' # "wait" /\ main' = main /\ (usart' = usart \/ usart' \in DataWritten)
    BY <1>6, <2>1 DEF TakeTrap, Dispatch, Causes
  <2> QED BY <1>1, <2>2 DEF TcIsComing
<1>7. CASE Main
  <2>1. CASE EnableTimerIrq \/ EnableIrq
    BY <2>1 DEF EnableTimerIrq, EnableIrq, Execute, TcIsComing
  <2>2. CASE Send BY <1>1, <2>2 DEF Send, Execute, TcIsComing
  <2>3. CASE Wait BY <2>3 DEF Wait, Execute, TcIsComing
  <2> QED BY <1>7, <2>1, <2>2, <2>3 DEF Main
<1>8. CASE Handler
  <2>1. CASE Mret
    <3>1. main' \in {main, "send", "ecall"} BY <2>1 DEF Mret
    <3> QED BY <2>1, <3>1 DEF Mret, TcIsComing
  <2>2. CASE \/ ReadHigh \/ ReadLow \/ ReadHighAgain
             \/ StoreMaxHigh \/ StoreMaxLow \/ StoreLow \/ StoreHigh
             \/ UsartStatus \/ Timer1Load \/ Timer1Store \/ DebuggerWait
    <3>1. main' = main /\ usart' = usart /\ (handler' = "wait" => handler = "wait")
      BY <2>2 DEF ReadHigh, ReadLow, ReadHighAgain, StoreMaxHigh, StoreMaxLow, StoreLow,
                  StoreHigh, UsartStatus, Timer1Load, Timer1Store, DebuggerWait, Handle
    <3> QED BY <3>1 DEF TcIsComing
  <2>3. CASE UsartData
    BY <1>2, <2>3 DEF UsartData, DataRead, Handle, TcIsComing
  <2>4. CASE DebuggerSend
    BY <1>1, <2>4 DEF DebuggerSend, Handle, TcIsComing
  <2> QED BY <1>8, <2>1, <2>2, <2>3, <2>4 DEF Handler
<1> QED BY <1>3, <1>4, <1>5, <1>6, <1>7, <1>8 DEF Next, Instruction

\* usart_putc never polls for a TC that is not coming (handlers.c:97).
THEOREM PutcCannotHang == Spec => []TcIsComing
<1>1. Init => TcIsComing BY DEF Init, TcIsComing
<1> QED BY <1>1, TcStep, ClockInvariant, PTL DEF Spec
=============================================================================
