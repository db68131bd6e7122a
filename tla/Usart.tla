------------------------------- MODULE Usart -------------------------------
(***************************************************************************)
(* The USART of HARDWARE/riscv-pipe3-csr-md-lic.bootloader/io.vhd, edge by *)
(* edge: the transmitter of one board, the line, the receiver of another   *)
(* board, and the functions of usart.c at both ends.  The other modules    *)
(* have characters that are sent and received in one step; this one shows  *)
(* that they arrive, and what the flags say when the line is disturbed.    *)
(***************************************************************************)
EXTENDS Integers, Sequences, FiniteSets

CONSTANTS
  Lines,    \* what two boards and the line between them may be:
            \*   [modes, contents of CTRL at both ends: [size, parity, stop],
            \*    tx and rx, contents of the BAUD registers,
            \*    spikes, lengths in clocks of a spike that inverts the line once,
            \*    patience, clocks within which getc has been called for a character]
  Chars,    \* what putc gets: nine bits, lowest first
  MaxChars

\* What CTRL and BAUD can say.
ASSUME LineAssumption ==
  /\ \A l \in Lines :
       /\ l.tx \in Nat /\ l.rx \in Nat /\ l.patience \in Nat /\ l.spikes \subseteq Nat
       /\ l.modes \subseteq [size : 7 .. 9, parity : {"none", "even", "odd"}, stop : 1 .. 2]
  /\ Chars \subseteq [1 .. 9 -> 0 .. 1]
  /\ MaxChars \in Nat

VARIABLES
  line, mode,     \* as usart_init left them
  tx,             \* [state, start, buffer, timer, count, line]
  rx,             \* [state, buffer, timer, count, sync]
  stat,           \* the flags of both boards' STAT
  data,           \* the receiver's data register
  spike,          \* [left, done]
  sender, reader, \* where putc and getc are
  waited,         \* clocks since getc could have seen RC
  sent, got,      \* characters given to putc, and returned by getc with the flags
  delivered       \* number of times RC was set

board  == <<tx, rx, stat, data, spike, delivered>>
vars == <<line, mode, board, sender, reader, waited, sent, got>>

TransmitFlags == {"TC"}
ReceiveFlags  == {"PE", "RC", "RF", "FE"}
Bits == {0, 1}

-----------------------------------------------------------------------------
(* Frames *)

HasParity == mode.parity # "none"
Zeroes == [i \in 1 .. mode.size |-> 0]
Odd(bits) == Cardinality({i \in DOMAIN bits : bits[i] = 1}) % 2

\* The lower bits of a word.
Carried(c) == SubSeq(c, 1, mode.size)

ParityBit(c) == (Odd(Carried(c)) + (IF mode.parity = "odd" THEN 1 ELSE 0)) % 2

\* Of the 32 bits those that can come out; the others are ones, as those shifted in.
BufferWidth == 12

\* A start bit, the data and the parity; ones are the stop bits.
Framed(c) ==
  LET bits == <<0>> \o Carried(c) \o (IF HasParity THEN <<ParityBit(c)>> ELSE << >>)
  IN  bits \o [i \in 1 .. BufferWidth - Len(bits) |-> 1]

\* Mutant: the stop bit is left out.
ShiftsButStop == mode.size + (IF HasParity THEN 1 ELSE 0) + (mode.stop - 1)

\* The bits of a frame but one.
Shifts == mode.size + 1 + (IF HasParity THEN 1 ELSE 0) + (mode.stop - 1)

FrameTime == (Shifts + 1) * (line.tx + 1)

\* Nobody comes later than a frame's time.
Patience == IF line.patience < FrameTime THEN line.patience ELSE FrameTime

-----------------------------------------------------------------------------
(* The transmitter *)

Written == sender = "store"
Shifting == tx.state = "iter" /\ tx.timer = 0 /\ tx.count > 0

TransmitterState ==
  CASE tx.state = "idle" -> IF tx.start THEN "iter" ELSE "idle"
    [] tx.state = "iter" -> IF tx.timer = 0 /\ tx.count = 0 THEN "ready" ELSE "iter"
    [] tx.state = "ready" -> "idle"

TransmitterTimer ==
  CASE (tx.state = "idle" /\ tx.start) \/ Shifting -> line.tx
    [] tx.state = "iter" /\ tx.timer > 0 -> tx.timer - 1
    [] OTHER -> tx.timer

TransmitterCount ==
  CASE tx.state = "idle" /\ tx.start -> Shifts
    [] Shifting -> tx.count - 1
    [] OTHER -> tx.count

TransmitterEdge ==
  tx' = [state  |-> TransmitterState,
         start  |-> Written,
         buffer |-> IF Shifting THEN Append(Tail(tx.buffer), 1)
                    ELSE IF Written THEN Framed(sent[Len(sent)]) ELSE tx.buffer,
         timer  |-> TransmitterTimer,
         count  |-> TransmitterCount,
         line   |-> IF tx.state = "iter" THEN tx.buffer[1] ELSE 1]

-----------------------------------------------------------------------------
(* The line *)

RxD == IF spike.left > 0 THEN 1 - tx.line ELSE tx.line

LineEdge ==
  \/ /\ ~spike.done
     /\ \E n \in line.spikes : spike' = [left |-> n, done |-> TRUE]
  \/ spike' = [spike EXCEPT !.left = IF @ > 0 THEN @ - 1 ELSE 0]

-----------------------------------------------------------------------------
(* The receiver *)

Expired == rx.timer = 0
Sampling == rx.state = "iter" /\ Expired /\ rx.count > 0

\* The start bit is still there in the middle.
StartSeen == rx.state = "wait" /\ Expired /\ rx.sync = 0

ReceiverState ==
  CASE rx.state = "idle" -> IF rx.sync = 0 THEN "wait" ELSE "idle"
    [] rx.state = "wait" -> IF ~Expired THEN "wait" ELSE IF StartSeen THEN "iter" ELSE "fail"
    [] rx.state = "iter" -> IF ~Expired \/ rx.count > 0 THEN "iter"
                            ELSE IF HasParity THEN "parity" ELSE "ready"
    [] rx.state = "parity" -> "parity2"
    [] rx.state = "parity2" -> IF Expired THEN "ready" ELSE "parity2"
    [] rx.state \in {"ready", "fail"} -> "idle"

\* Mutant: no time at all.
NoTime == 0

HalfBit == line.rx \div 2

ReceiverTimer ==
  CASE rx.state = "idle" /\ rx.sync = 0 -> HalfBit
    [] StartSeen \/ Sampling \/ rx.state = "parity" -> line.rx
    [] rx.state \in {"wait", "iter", "parity2"} /\ ~Expired -> rx.timer - 1
    [] OTHER -> rx.timer

ReceiverEdge ==
  rx' = [state  |-> ReceiverState,
         buffer |-> CASE StartSeen -> Zeroes
                      [] Sampling -> Append(Tail(rx.buffer), rx.sync)
                      [] OTHER -> rx.buffer,
         timer  |-> ReceiverTimer,
         count  |-> CASE StartSeen -> mode.size
                      [] Sampling -> rx.count - 1
                      [] OTHER -> rx.count,
         sync   |-> RxD]

-----------------------------------------------------------------------------
(* Flags and data *)

\* A load keeps the data register selected at two edges.
\* Mutant: reading the status clears the flags as well.
DataOrStatusRead == reader \in {"poll", "first", "second"}

DataRead == reader \in {"first", "second"}

\* Mutant: the parity bit is left out of the check.
ParityOfData == rx.state = "parity" /\ Odd(rx.buffer) = 1

ParityError == rx.state = "parity" /\ (Odd(rx.buffer) + rx.sync) % 2 = 1

Received == rx.state = "ready"

Cleared ==
  (IF Written THEN {"TC"} ELSE {}) \cup (IF DataRead THEN ReceiveFlags ELSE {})
    \cup (IF rx.state = "parity" THEN {"PE"} ELSE {})

Set ==
  {f \in TransmitFlags \cup ReceiveFlags :
     CASE f = "TC" -> tx.state = "ready"
       [] f = "PE" -> ParityError
       [] f = "RC" -> Received
       [] f = "FE" -> Received /\ rx.sync = 0
       [] f = "RF" -> rx.state = "fail"}

FlagsEdge ==
  /\ stat' = (stat \ Cleared) \cup Set
  /\ data' = IF Received THEN rx.buffer ELSE data
  /\ delivered' = IF Received THEN delivered + 1 ELSE delivered

ClockEdge ==
  TransmitterEdge /\ LineEdge /\ ReceiverEdge /\ FlagsEdge /\ UNCHANGED <<line, mode>>

-----------------------------------------------------------------------------
(* putc *)

\* putc is called.
Call ==
  /\ sender = "idle" /\ Len(sent) < MaxChars
  /\ \E c \in Chars : sent' = Append(sent, c)
  /\ sender' = "store"

NoCall == sender = "idle" /\ UNCHANGED <<sender, sent>>

Store == sender = "store" /\ sender' = "poll" /\ UNCHANGED sent

Putc ==
  /\ sender = "poll"
  /\ sender' = IF "TC" \in stat THEN "idle" ELSE "poll"
  /\ UNCHANGED sent

-----------------------------------------------------------------------------
(* getc: whoever calls it comes to read a character within a frame's time. *)

Poll ==
  /\ reader = "poll" /\ waited < Patience
  /\ waited' = IF "RC" \in stat THEN waited + 1 ELSE 0
  /\ UNCHANGED <<reader, got>>

CharacterSeen ==
  /\ reader = "poll" /\ "RC" \in stat
  /\ reader' = "first" /\ waited' = 0
  /\ UNCHANGED got

Load ==
  /\ reader = "first"
  /\ got' = Append(got, [char |-> data, flags |-> stat \cap {"PE", "RF", "FE"}])
  /\ reader' = "second" /\ UNCHANGED waited

LoadEnds ==
  /\ reader = "second" /\ reader' = "poll" /\ UNCHANGED <<waited, got>>

-----------------------------------------------------------------------------

Init ==
  /\ line \in Lines /\ mode \in line.modes
  /\ tx = [state |-> "idle", start |-> FALSE, buffer |-> [i \in 1 .. BufferWidth |-> 0],
           timer |-> 0, count |-> 0, line |-> 1]
  /\ rx = [state |-> "idle", buffer |-> Zeroes, timer |-> 0, count |-> 0, sync |-> 1]
  /\ stat = {} /\ data = Zeroes
  /\ spike = [left |-> 0, done |-> FALSE]
  /\ sender = "idle" /\ reader = "poll" /\ waited = 0
  /\ sent = << >> /\ got = << >> /\ delivered = 0

Next ==
  /\ Call \/ NoCall \/ Store \/ Putc
  /\ Poll \/ CharacterSeen \/ Load \/ LoadEnds
  /\ ClockEdge

Spec == Init /\ [][Next]_vars

-----------------------------------------------------------------------------
(* Properties *)

TypeOK ==
  /\ line \in Lines /\ mode \in line.modes
  /\ tx \in [state : {"idle", "iter", "ready"}, start : BOOLEAN, timer : 0 .. line.tx,
             buffer : [1 .. BufferWidth -> Bits], count : 0 .. BufferWidth, line : Bits]
  /\ rx \in [state : {"idle", "wait", "iter", "parity", "parity2", "ready", "fail"},
             buffer : [1 .. mode.size -> Bits], timer : 0 .. line.rx,
             count : 0 .. mode.size, sync : Bits]
  /\ stat \subseteq TransmitFlags \cup ReceiveFlags
  /\ data \in [1 .. mode.size -> Bits] /\ waited \in 0 .. Patience
  /\ spike \in [left : Nat, done : BOOLEAN] /\ (~spike.done => spike.left = 0)
  /\ sender \in {"idle", "store", "poll"} /\ reader \in {"poll", "first", "second"}
  /\ sent \in Seq(Chars) /\ (sender # "idle" => sent # <<>>) /\ delivered \in Nat
  /\ got \in Seq([char : [1 .. mode.size -> Bits], flags : SUBSET ReceiveFlags])

\* On a line that nothing disturbs, every character arrives as it was sent, in
\* order and with no error flag, in every format but odd parity, between boards
\* whose clocks differ, for a caller of getc that comes at any moment within a
\* frame's time (io.vhd:202-440).
CharactersIntact ==
  ~spike.done => \A i \in 1 .. Len(got) : got[i] = [char |-> Carried(sent[i]), flags |-> {}]

\* No character has been returned with an error flag yet.
Unflagged == \A i \in 1 .. Len(got) : got[i].flags = {}

\* Nothing is invented, by a spike neither until a character comes with an error
\* flag, and no character is lost between the flag and the two edges at which a
\* load clears it: what getc has not returned is one character, and RC says so
\* (io.vhd:255-265, 412-431).
NothingLost ==
  (~spike.done \/ Unflagged) =>
    /\ Len(got) <= delivered /\ delivered <= Len(sent)
    /\ Len(got) < delivered => delivered = Len(got) + 1 /\ "RC" \in stat

\* Between boards of one clock: when putc returns, the character is in the other
\* board's data register, and its stop bits have been on the line in full, so that
\* the next one may start at once or BAUD and CTRL change (io.vhd:304-309,
\* usart.c:31-33).
PutcMeansReceived ==
  (sender = "idle" /\ line.tx = line.rx /\ ~spike.done) =>
    delivered = Len(sent) /\ tx.state = "idle" /\ rx.state = "idle"

\* One spike of up to half a bit, whenever it hits: until a character comes with an
\* error flag, all are as they were sent, with parity and if getc has read a
\* character before the next start bit is looked at.  If it reads later, the RF of
\* a start bit that was hit may be cleared at the second edge of the load
\* (io.vhd:255-265, 331-437).
CorruptionIsFlagged ==
  Unflagged => \A i \in 1 .. Len(got) : got[i].char = Carried(sent[i])
=============================================================================
