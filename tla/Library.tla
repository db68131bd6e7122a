------------------------------ MODULE Library ------------------------------
(***************************************************************************)
(* What the C library needs of the board, the files of CODE/*/syscalls:    *)
(* memory for the heap, the time, and the system calls of an operating     *)
(* system that is not there.  The programs call them as functions; the     *)
(* vectored interrupt program answers the same calls in its trap handler.  *)
(*                                                                         *)
(* A variable of the library has an address in the RAM, so that it is the  *)
(* start-up code that sets it to zero.                                     *)
(***************************************************************************)
EXTENDS Startup

CONSTANTS
  SbrkHeapEnd, Errno,   \* where __sbrk_heap_end and errno are
  MallocTop,            \* where malloc keeps the size of what is left of the heap
  EndOfData,            \* _end
  StackLimit,           \* __stack_pointer$ - __stack_size
  Slack,                \* what malloc may ask for beyond what it needs
  Word,                 \* values of a half of the time, 2^32
  PerSecond,            \* clocks per second, 1000000
  MaxTime

ASSUME LibraryAssumption ==
  /\ {SbrkHeapEnd, Errno, MallocTop} \subseteq Sbss .. Ebss - 1
  /\ SbrkHeapEnd # Errno /\ SbrkHeapEnd # MallocTop /\ Errno # MallocTop
  /\ {EndOfData, StackLimit} \subseteq Nat
  /\ Ebss <= EndOfData /\ EndOfData <= StackLimit
  /\ Slack \subseteq Nat /\ Word \in Nat \ {0} /\ PerSecond \in Nat \ {0} /\ MaxTime \in Nat

VARIABLES
  frame,     \* the local variables of main
  out,       \* what has been printed last
  time,      \* TIMEH:TIME, the microseconds since power-on
  timer      \* the registers th and tl of the call that reads the time, and
             \* the time at which it was called

library == <<frame, out, time, timer>>

-----------------------------------------------------------------------------
(* Memory *)

NULL == 0
ENOENT == 2
EBADF  == 9
ECHILD == 10
EAGAIN == 11
ENOMEM == 12
EACCES == 13
EINVAL == 22
EMLINK == 31
ENOSYS == 88
S_IFCHR == 8192

\* Mutant: the heap may grow to the top of the stack's reserve, 2 bytes here.
SbrkFitsStack(end, incr) == end + incr <= StackLimit + 2

SbrkFits(end, incr) == end + incr <= StackLimit

\* What is returned, and the RAM.
_sbrk(incr) ==
  LET end == IF ram[SbrkHeapEnd] = NULL THEN EndOfData ELSE ram[SbrkHeapEnd]
  IN IF SbrkFits(end, incr)
     THEN [ret |-> end, ram |-> [ram EXCEPT ![SbrkHeapEnd] = end + incr]]
     ELSE [ret |-> -1, ram |-> [ram EXCEPT ![SbrkHeapEnd] = end, ![Errno] = ENOMEM]]

\* The C library's malloc cuts blocks from the end of the heap, which it
\* extends by what it needs or more.
malloc(size) ==
  IF ram[MallocTop] >= size
  THEN {[block |-> ram[SbrkHeapEnd] - ram[MallocTop],
         ram   |-> [ram EXCEPT ![MallocTop] = @ - size]]}
  ELSE LET need == size - ram[MallocTop] IN
       {LET s == _sbrk(need + more) IN
          IF s.ret = -1 THEN [block |-> NULL, ram |-> s.ram]
          ELSE [block |-> s.ret - ram[MallocTop],
                ram   |-> [s.ram EXCEPT ![MallocTop] = more]] : more \in Slack}

-----------------------------------------------------------------------------
(* Time *)

NoTimer == [th |-> 0, tl |-> 0, called |-> 0]

\* A moment passes, or too little to count.
TimePasses == time' \in {t \in {time, time + 1} : t <= MaxTime}

\* The call of gettimeofday or times.
ReadTime ==
  /\ at' = "rdtimeh"
  /\ timer' = [NoTimer EXCEPT !.called = time]

Instruction(from, to) ==
  /\ at = from /\ at' = to
  /\ TimePasses
  /\ UNCHANGED <<image, prog, pointer, ram, mtvec, resets, frame, out>>

RdTimeH ==
  /\ Instruction("rdtimeh", "rdtime")
  /\ timer' = [timer EXCEPT !.th = time \div Word]

RdTime ==
  /\ Instruction("rdtime", "rdtimeh2")
  /\ timer' = [timer EXCEPT !.tl = time % Word]

\* Mutant: the high word is not read again.
HighNotCompared(tt) == TRUE

HighUnchanged(tt) == tt = timer.th

\* rdtimeh into tt, and bne back to the first rdtimeh
RdTimeHAgain ==
  /\ Instruction("rdtimeh2", IF HighUnchanged(time \div Word) THEN "timed" ELSE "rdtimeh")
  /\ UNCHANGED timer

thetime == timer.th * Word + timer.tl

_gettimeofday == [sec |-> thetime \div PerSecond, usec |-> thetime % PerSecond]

\* clock() is the sum of the four times of times(), in a 32-bit clock_t.
_times == [tms_utime |-> thetime % Word, tms_stime |-> 0,
           tms_cutime |-> 0, tms_cstime |-> 0]
clock == (_times.tms_utime + _times.tms_stime + _times.tms_cutime + _times.tms_cstime) % Word

TimeNext == RdTimeH \/ RdTime \/ RdTimeHAgain

-----------------------------------------------------------------------------
(* Files and processes *)

Returns(ret) == [ret |-> ret, errno |-> 0, st_mode |-> 0]
Fails(errno) == [ret |-> -1, errno |-> errno, st_mode |-> 0]
Stats        == [ret |-> 0, errno |-> 0, st_mode |-> S_IFCHR]

\* The stubs of syscalls.c.
stub == [
  getpid |-> Returns(1),       kill   |-> Fails(EINVAL),  close  |-> Returns(-1),
  fstat  |-> Stats,            isatty |-> Returns(1),     lseek  |-> Returns(0),
  open   |-> Returns(-1),      wait   |-> Fails(ECHILD),  unlink |-> Fails(ENOENT),
  stat   |-> Stats,            link   |-> Fails(EMLINK),  fork   |-> Fails(EAGAIN),
  execve |-> Fails(ENOMEM)]

\* _write sends n characters of the buffer, with __io_putchar; _read fills a
\* buffer with n characters from __io_getchar.
_write(buf, n) == [ret |-> n, sent |-> SubSeq(buf, 1, n)]
_read(n) == [ret |-> n]

-----------------------------------------------------------------------------

NoFrame == [none |-> 0]

LibraryInit ==
  /\ frame = NoFrame /\ out = <<>>
  /\ time = 0 /\ timer = NoTimer
=============================================================================
