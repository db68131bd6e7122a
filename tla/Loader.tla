------------------------------- MODULE Loader -------------------------------
(***************************************************************************)
(* Uploading an S-record file: CODE/upload/upload.c on the host,           *)
(* CODE/bootloader/bootloader.c on the board, and the serial line between. *)
(*                                                                         *)
(* Every character is a step.  The board's USART keeps one received        *)
(* character: the next one overwrites it.  The program is far faster than  *)
(* the line, so a character it is waiting for is taken before another can  *)
(* arrive; while it sends (usart_putc waits for the end of each character) *)
(* it takes nothing.                                                       *)
(*                                                                         *)
(* A character is a number: 0 .. 15 the hexadecimal digits, the rest the   *)
(* letters the protocol tells apart.  Texts of the board are shortened: a  *)
(* word is one character, and "\r\n" one newline.                          *)
(***************************************************************************)
EXTENDS Naturals, Sequences

CONSTANTS
  Files,      \* the S-record files that may be uploaded
  Early,      \* may the upload be started before the greeting has been sent?
  Overlap,    \* characters that can arrive while the board sends one
  MaxLost,    \* characters the line may lose
  MaxUnread,  \* newlines an application has sent that upload has not read
  MaxStars,   \* half seconds of the boot wait
  MaxRuns     \* times the user starts the upload program

\* A line of the file, with what objcopy puts into it.
Record == [type : 0 .. 9, addr : Nat, data : Seq(Nat)]

\* objcopy writes at most sixteen bytes a line, and the ROM has 64 kB.
Fits(r) ==
  /\ r.addr < 65536 /\ r.addr + Len(r.data) <= 65536 /\ Len(r.data) <= 16
  /\ \A i \in 1 .. Len(r.data) : r.data[i] < 256

ASSUME FileAssumption ==
  Files \subseteq Seq(Record) /\ \A f \in Files : \A l \in 1 .. Len(f) : Fits(f[l])

\* The address has AddrDigits digits.
AddrDigits(type) == CASE type \in {1, 9} -> 4 [] type \in {2, 8} -> 6 [] OTHER -> 8

VARIABLES
  file,      \* the file being uploaded
  up,        \* upload.c: where it is, and the line it is working on
  runs,      \* how often upload has been started
  wire,      \* characters written by upload that have not arrived
  answers,   \* newlines sent by the board that upload has not read; it skips
             \* every other character
  lost,      \* characters lost on the line
  rx,        \* USART: [full, char], the received character
  overrun,   \* has a received character been overwritten before it was read?
  during,    \* characters that arrived while the current one is sent
  out,       \* what the board still has to send before it reads again
  boot,      \* bootloader.c: where it is, and the field it is reading
  mem,       \* the bytes written to the ROM or the RAM
  start,     \* app_start
  stars      \* half seconds waited

vars == <<file, up, runs, wire, answers, lost, rx, overrun, during, out, boot,
          mem, start, stars>>

Bang == 16  Quest == 17  Nl == 18  LetterS == 19  LetterJ == 20  Hash == 21
Text == 22     \* any other character

-----------------------------------------------------------------------------
(* The file: what a line looks like *)

Weight == <<1, 16, 256, 4096, 65536, 1048576, 16777216, 268435456>>
Hex(v, n) == [i \in 1 .. n |-> (v \div Weight[n - i + 1]) % 16]

HexBytes(bytes) ==
  [i \in 1 .. 2 * Len(bytes) |->
     IF i % 2 = 1 THEN bytes[(i + 1) \div 2] \div 16 ELSE bytes[i \div 2] % 16]

\* The count covers the address, the data and the checksum; the checksum is
\* ignored by the bootloader, any two digits stand for it.
Line(r) ==
  <<LetterS, r.type>>
    \o Hex(AddrDigits(r.type) \div 2 + Len(r.data) + 1, 2)
    \o Hex(r.addr, AddrDigits(r.type))
    \o HexBytes(r.data)
    \o <<15, 10, Nl>>

IsData(r)  == r.type \in {1, 2, 3}
IsStart(r) == r.type \in {7, 8, 9}

\* The bytes of the first n lines and of the first m bytes of the next one;
\* a later byte for the same address replaces an earlier one.
Places(n, m) ==
  {p \in (1 .. Len(file)) \X (1 .. 16) :
     /\ IsData(file[p[1]]) /\ p[2] <= Len(file[p[1]].data)
     /\ p[1] <= n \/ (p[1] = n + 1 /\ p[2] <= m)}

AddrOf(p) == file[p[1]].addr + p[2] - 1
ByteOf(p) == file[p[1]].data[p[2]]
Later(p, q) == p[1] > q[1] \/ (p[1] = q[1] /\ p[2] > q[2])

Contents(places) ==
  [a \in {AddrOf(p) : p \in places} |->
     ByteOf(CHOOSE p \in places :
              /\ AddrOf(p) = a
              /\ \A q \in places : AddrOf(q) = a => ~Later(q, p))]

Image == Contents(Places(Len(file), 0))

\* The start address in the first n lines.
Entry(n) ==
  IF \E l \in 1 .. n : IsStart(file[l])
    THEN file[CHOOSE l \in 1 .. n :
                IsStart(file[l]) /\ \A k \in l + 1 .. n : ~IsStart(file[k])].addr
    ELSE 0

-----------------------------------------------------------------------------
(* The line and the USART *)

\* The bootloader has started the application: for upload, or after the boot wait.
Running == boot.at \in {"jumped", "expired"}

Reading == out = <<>> /\ ~Running

\* A character that the board waits for is taken before the next arrives.
Arrive ==
  /\ wire # <<>>
  /\ IF out = <<>> THEN Reading => ~rx.full ELSE during < Overlap
  /\ rx' = [full |-> TRUE, char |-> Head(wire)]
  /\ overrun' = (overrun \/ (rx.full /\ ~Running))
  /\ during' = IF out = <<>> THEN during ELSE during + 1
  /\ wire' = Tail(wire)
  /\ UNCHANGED <<file, up, runs, answers, lost, out, boot, mem, start, stars>>

Lose ==
  /\ lost < MaxLost /\ wire # <<>>
  /\ lost' = lost + 1
  /\ wire' = Tail(wire)
  /\ UNCHANGED <<file, up, runs, answers, rx, overrun, during, out, boot, mem,
                 start, stars>>

\* usart_putc: the character is sent, and waited for.  What is sent while no
\* upload program has the port open is dropped.
Listening == up.at \in {"contact", "answer", "final"}

SendChar ==
  /\ out # <<>>
  /\ answers' = IF Listening /\ Head(out) = Nl THEN answers + 1 ELSE answers
  /\ out' = Tail(out)
  /\ during' = 0
  /\ boot' = IF boot.at = "greet" /\ Len(out) = 1 THEN [boot EXCEPT !.at = "wait"]
             ELSE boot
  /\ UNCHANGED <<file, up, runs, wire, lost, rx, overrun, mem, start, stars>>

-----------------------------------------------------------------------------
(* bootloader.c *)

C == rx.char

\* usart_getc: the board is at one of the points in at and takes a character.
Getc(at) ==
  /\ boot.at \in at
  /\ Reading /\ rx.full
  /\ rx' = [rx EXCEPT !.full = FALSE]
  /\ UNCHANGED <<file, up, runs, wire, answers, lost, overrun, during, stars>>

\* Going on to read n digits of a field.
Field(at, n) == [boot EXCEPT !.at = at, !.left = n, !.val = 0]

Go(at) == [boot EXCEPT !.at = at]

\* Only the low 16 bits of an address select a byte.
Low16(n) == n % 65536

\* gethex: a character that is no digit counts as zero.
Digit(c) == IF c \in 0 .. 15 THEN c ELSE 0
Value == Low16(16 * boot.val + Digit(C))

BootStar ==
  /\ boot.at = "wait" /\ Reading /\ ~rx.full
  /\ stars < MaxStars
  /\ stars' = stars + 1
  /\ out' = <<Text>>
  /\ UNCHANGED <<file, up, runs, wire, answers, lost, rx, overrun, during, boot,
                 mem, start>>

BootExpires ==
  /\ boot.at = "wait" /\ Reading /\ ~rx.full
  /\ stars = MaxStars
  /\ boot' = Go("expired")
  /\ UNCHANGED <<file, up, runs, wire, answers, lost, rx, overrun, during, out,
                 mem, start, stars>>

Acknowledge == out' = <<Quest, Nl>>
Prompt      == <<Nl, Text>>

\* A key hit: '!' enters the upload, anything else the monitor.
KeyHit ==
  /\ Getc({"wait"})
  /\ \/ C = Bang /\ boot' = Go("command") /\ Acknowledge
     \/ C # Bang /\ boot' = Go("monitor") /\ out' = Prompt
  /\ UNCHANGED <<mem, start>>

Command ==
  /\ Getc({"command"})
  /\ \/ C = LetterS /\ boot' = Go("type") /\ out' = <<>>
     \/ C = LetterJ /\ boot' = Go("jumped") /\ out' = <<>>
     \/ C = Hash /\ boot' = Go("monitor") /\ out' = Prompt
     \/ C \notin {LetterS, LetterJ, Hash} /\ boot' = boot /\ Acknowledge
  /\ UNCHANGED <<mem, start>>

RecordType ==
  /\ Getc({"type"})
  /\ boot' = CASE C \in {1, 2, 3} -> [Field("count", 2) EXCEPT !.width = AddrDigits(C)]
               [] C \in {7, 8, 9} -> [Field("skipcount", 2) EXCEPT !.width = AddrDigits(C)]
               [] OTHER           -> Go("eol")
  /\ UNCHANGED <<out, mem, start>>

ReadDigit ==
  /\ Getc({"count", "skipcount", "address", "entry", "byte"})
  /\ boot.left > 1
  /\ boot' = [boot EXCEPT !.left = @ - 1, !.val = Value]
  /\ UNCHANGED <<out, mem, start>>

\* Mutant: the checksum is counted as data.
CountWithChecksum(digits, n) == Low16(65536 + n - (digits \div 2))

\* The unsigned number of data bytes: the count without address and checksum.
DataBytes(digits, n) == Low16(65536 + n - ((digits \div 2) + 1))

EndCount ==
  /\ Getc({"count"}) /\ boot.left = 1
  /\ boot' = [Field("address", boot.width) EXCEPT
                !.bytes = DataBytes(boot.width, Value)]
  /\ UNCHANGED <<out, mem, start>>

EndAddress ==
  /\ Getc({"address"}) /\ boot.left = 1
  /\ boot' = [Field(IF boot.bytes = 0 THEN "eol" ELSE "byte", 2) EXCEPT
                !.addr = Value]
  /\ UNCHANGED <<out, mem, start>>

\* The byte is patched into its word: the other three keep their values.
EndByte ==
  /\ Getc({"byte"}) /\ boot.left = 1
  /\ mem' = [a \in DOMAIN mem \cup {boot.addr} |-> IF a = boot.addr THEN Value ELSE mem[a]]
  /\ boot' = [Field(IF boot.bytes = 1 THEN "eol" ELSE "byte", 2) EXCEPT
                !.addr = Low16(@ + 1), !.bytes = @ - 1]
  /\ UNCHANGED <<out, start>>

EndSkippedCount ==
  /\ Getc({"skipcount"}) /\ boot.left = 1
  /\ boot' = Field("entry", boot.width)
  /\ UNCHANGED <<out, mem, start>>

EndEntry ==
  /\ Getc({"entry"}) /\ boot.left = 1
  /\ boot' = [Field("starteol", 0) EXCEPT !.val = Value]
  /\ UNCHANGED <<out, mem, start>>

\* Mutant: the answer is given without reading the rest of the line.
AnswerBeforeEol(c) == TRUE

EndsLine(c) == c = Nl

RestOfLine ==
  /\ Getc({"eol", "starteol"})
  /\ \/ /\ EndsLine(C)
        /\ boot' = Go("command") /\ Acknowledge
        /\ start' = IF boot.at = "starteol" THEN boot.val ELSE start
     \/ ~EndsLine(C) /\ boot' = boot /\ UNCHANGED <<out, start>>
  /\ mem' = mem

\* The monitor echoes a character; a line of upload's is no command of its.
Monitor ==
  /\ Getc({"monitor"})
  /\ out' = IF C = Nl THEN <<Nl, Text, Nl, Text>> ELSE <<C>>
  /\ UNCHANGED <<boot, mem, start>>

\* The application prints what it likes and when, or nothing (main of clock.c and
\* of interrupt_direct: some newlines at once, then the time for ever, with no
\* newline at all).  It knows nothing of the upload, which hears it all the same.
ApplicationPrints ==
  /\ Running /\ out = <<>>
  /\ \/ out' = <<Text>>
     \/ answers < MaxUnread /\ out' = <<Nl>>
  /\ UNCHANGED <<file, up, runs, wire, answers, lost, rx, overrun, during, boot,
                 mem, start, stars>>

Bootloader ==
  \/ SendChar \/ BootStar \/ BootExpires \/ KeyHit \/ Command \/ RecordType
  \/ ReadDigit \/ EndCount \/ EndAddress \/ EndByte \/ EndSkippedCount
  \/ EndEntry \/ RestOfLine \/ Monitor

-----------------------------------------------------------------------------
(* upload.c *)

Target == <<lost, rx, overrun, during, out, boot, mem, start, stars>>

\* Nothing is on its way, and the board waits for a character.
Quiet == wire = <<>> /\ out = <<>> /\ (Reading => ~rx.full)

\* The port is opened and '!' is written, whatever the board is doing.  The user
\* may start it again, once all is quiet.
Start ==
  /\ ~Listening /\ runs < MaxRuns
  /\ runs > 0 => Quiet
  /\ Early \/ boot.at # "greet"
  /\ \E jump \in BOOLEAN : up' = [at |-> "contact", line |-> 0, jump |-> jump]
  /\ runs' = runs + 1
  /\ wire' = Append(wire, Bang)
  /\ answers' = 0
  /\ UNCHANGED <<file, Target>>

\* Reading up to a newline.  After the answer, the next line or the end marker is
\* written.
ReadNewline ==
  /\ Listening /\ answers > 0
  /\ answers' = answers - 1
  /\ \/ /\ up.at # "final" /\ up.line < Len(file)
        /\ up' = [up EXCEPT !.at = "answer", !.line = @ + 1]
        /\ wire' = wire \o Line(file[up.line + 1])
     \/ /\ up.at # "final" /\ up.line = Len(file)
        /\ up' = [up EXCEPT !.at = "final"]
        /\ wire' = Append(wire, IF up.jump THEN LetterJ ELSE Hash)
     \/ /\ up.at = "final"
        /\ up' = [up EXCEPT !.at = "done"]
        /\ wire' = wire
  /\ UNCHANGED <<file, runs, Target>>

\* Mutant: the read after the end marker has no timeout.
WaitsForAnswer == up.at \in {"contact", "answer"}

MayTimeOut == Listening

\* A read times out, not a line: every character of the board begins it anew.  The
\* timeout is far longer than anything the bootloader does, but not than its
\* waiting for a character that does not come, nor than an application's silence.
Timeout ==
  /\ MayTimeOut /\ answers = 0
  /\ Quiet
  /\ boot.at \notin {"greet", "wait"}
  /\ up' = [up EXCEPT !.at = "failed"]
  /\ UNCHANGED <<file, runs, wire, answers, Target>>

Upload == Start \/ ReadNewline \/ Timeout

Greeting == <<Nl, Text, Text, Nl>>

Init ==
  /\ file \in Files
  /\ up = [at |-> "idle", line |-> 0, jump |-> FALSE] /\ runs = 0
  /\ wire = <<>> /\ answers = 0 /\ lost = 0
  /\ rx = [full |-> FALSE, char |-> Text] /\ overrun = FALSE /\ during = 0
  /\ out = Greeting
  /\ boot = [at |-> "greet", width |-> 0, left |-> 0, val |-> 0, addr |-> 0,
             bytes |-> 0]
  /\ mem = <<>> /\ start = 0 /\ stars = 0

Next == Arrive \/ Lose \/ Bootloader \/ ApplicationPrints \/ Upload

\* The board and a running upload program make progress, and a character on
\* the line arrives (or is lost); nobody has to start the upload.
Fairness ==
  /\ WF_vars(Arrive \/ Lose)
  /\ WF_vars(Bootloader)
  /\ WF_vars(ReadNewline \/ Timeout)

Spec == Init /\ [][Next]_vars
FairSpec == Spec /\ Fairness

-----------------------------------------------------------------------------
(* Properties *)

\* On a line that loses nothing the two programs stay in step: while the board
\* answers a line exactly the lines before it, and a part of it, are in the memory;
\* when all are answered the whole file is, and app_start is set.  An application
\* that upload has started has all of the file.  One that was started after the boot
\* wait has nothing of it, whatever upload takes its newlines for: upload may then
\* write lines, and report success, but the ROM is as it was.
AnsweredIsStored ==
  lost = 0 =>
    /\ (up.at = "answer" /\ ~Running) =>
         mem \in {Contents(Places(up.line - 1, m)) : m \in 0 .. 16}
    /\ (up.at \in {"final", "done"} /\ ~Running) \/ boot.at = "jumped" =>
         mem = Image /\ start = Entry(Len(file))
    /\ boot.at = "expired" => mem = <<>> /\ start = 0

\* The USART keeps one character and there is no flow control: that upload
\* waits for "?\n" is what keeps it from writing while the board sends.
NothingOverwritten == lost = 0 => ~overrun

\* An application falls silent, or goes on printing lines.
FallsSilent == <>[](Running => out = <<>>)
PrintsLines == []<>(Running /\ out = <<Nl>>)

\* Whatever is lost, and whatever application answers in the bootloader's place,
\* upload does not hang, for its reads have a timeout: but if an application goes on
\* printing for ever and never prints a newline (clock.c:55-66), no read ends.
UploadEnds ==
  FallsSilent \/ PrintsLines =>
    (up.at = "contact" ~> up.at \in {"done", "failed"})

\* CODE/upload/README.md:6, "After reset, the bootloader waits for about 5
\* seconds [...] for upload to contact. Start the upload program within these 5
\* seconds and the S-record file will be transferred": when upload has
\* reported no error and the board has taken all it wrote, the file is in the
\* memory, if the wait was not over before '!' came.
DoneIsTransferred ==
  up.at = "done" /\ Quiet /\ boot.at # "expired" =>
    mem = Image /\ start = Entry(Len(file))
=============================================================================
