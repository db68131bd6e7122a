------------------------------ MODULE Monitor ------------------------------
(***************************************************************************)
(* The two monitors: CODE/monitor/monitor.c, a program of its own, and the *)
(* one that the bootloader (CODE/bootloader/bootloader.c) falls into.      *)
(* Both read lines with usart_gets and peek and poke the memory.           *)
(*                                                                         *)
(* The commands look at the buffer as the code does, by pointers into the  *)
(* array, so that what an earlier line left behind the terminator is in    *)
(* the model.  A number is a sequence of hexadecimal digits, and a byte a  *)
(* pair of them: a word is the last eight digits, which is what the shifts *)
(* and the multiplications by 16 leave in 32 bits.                         *)
(***************************************************************************)
EXTENDS LineEditor, SequencesExt

CONSTANTS
  Commands,    \* what the user wants: [line, op, width, addr, data], the line
               \* typed for it, "w", "r" or "other", and the operands
  MaxLines,    \* how many of them
  MaxEdits,    \* slips and corrections
  Behind,      \* the digits that may be found in the memory behind the buffer
  MemTop,      \* the addresses 0 .. MemTop are memory
  DumpWords    \* words that dw and n show, 16 in the code

Digits == <<"0", "1", "2", "3", "4", "5", "6", "7", "8", "9", "a", "b", "c", "d",
            "e", "f">>
HexDigits == Range(Digits)
Space == " "

VARIABLES
  prog,     \* which of the two monitors runs
  mem,      \* the memory, a byte at a time
  little,   \* monitor.c: little
  addr,     \* bootloader.c: addr
  shown,    \* the bytes or the text that the last command has printed
  lines, edits

Lines == {c.line : c \in Commands}

vars == <<editor, prog, mem, little, addr, shown, lines, edits>>

-----------------------------------------------------------------------------
(* Looking at the buffer *)

\* The first position from i on that holds one of the characters; Size, just
\* behind the buffer, if there is none.
First(i, chars) ==
  CHOOSE j \in i .. Size :
    /\ j = Size \/ buffer[j] \in chars
    /\ \A k \in i .. j - 1 : buffer[k] \notin chars

NonSpace == (Printable \cup {Nul}) \ {Space}
strlen == First(0, {Nul})

\* The digits among the characters from i up to j.
HexBetween(i, j) ==
  LET at == {k \in i .. j - 1 : buffer[k] \in HexDigits}
  IN [n \in 1 .. Cardinality(at) |->
        buffer[CHOOSE k \in at : Cardinality(at \cap (i .. k)) = n]]

Word(ds) == LET all == [i \in 1 .. 8 |-> "0"] \o ds
            IN SubSeq(all, Len(all) - 7, Len(all))
Byte(word, k) == SubSeq(word, 7 - 2 * k, 8 - 2 * k)     \* 0 is the lowest
Number(ds) == FoldLeft(LAMBDA n, d : 16 * n + IndexFirstSubSeq(<<d>>, Digits) - 1, 0, ds)

\* Mutant: a space does not end the address.
AddressToEndOfLine ==
  LET s == First(2, NonSpace) IN HexBetween(s, First(s, {Nul}))

\* Digits of a number, other characters are skipped.
read_address ==
  LET s == First(2, NonSpace) IN HexBetween(s, First(s, {Nul, Space}))

\* The search for the end of the address does not look for the end of the
\* line.  What stands behind the buffer can be anything.
read_data_after_address ==
  LET s     == First(2, NonSpace)
      space == First(s, {Space})
      data  == First(space, NonSpace)
  IN CASE buffer[s] = Nul -> {<<>>}
       [] buffer[s] # Nul /\ space < Size -> {HexBetween(data, First(data, {Nul}))}
       [] OTHER -> Behind

\* bootloader/util.c: digits up to the first other character, and where it is
parsehex(i) ==
  LET s == First(i, NonSpace)
      e == First(s, (Printable \cup {Nul}) \ HexDigits)
  IN [v |-> HexBetween(s, e), end |-> e]

Width == [w |-> 4, h |-> 2, b |-> 1]

StartsWith(text) == \A i \in 1 .. Len(text) : buffer[i - 1] = text[i]

\* The lines that the help texts describe: r or w, the width, an address and, for
\* w, the data, with blanks in between.  An address has no more digits than a word.
Letters(c) == c.line[1] = c.op /\ c.line[2] \in DOMAIN Width /\ c.width = Width[c.line[2]]
Consists(line, i, j, chars) == \A k \in i .. j : line[k] \in chars

Operands(c) ==
  LET line == c.line  n == Len(c.line)
  IN \E f, e \in 4 .. n :
       /\ Consists(line, 3, f - 1, {Space})
       /\ e \in f .. f + 7 /\ Consists(line, f, e, HexDigits)
       /\ c.addr = Number(SubSeq(line, f, e))
       /\ \/ e = n /\ c.data = <<>>
          \/ \E g \in e + 2 .. n :
               /\ Consists(line, e + 1, g - 1, {Space}) /\ Consists(line, g, n, HexDigits)
               /\ c.op = "w" /\ c.data = SubSeq(line, g, n)

NoOperands(line) ==
  \/ Len(line) < 3
  \/ line[1] \notin {"r", "w"}
  \/ line[2] \notin DOMAIN Width

ASSUME CommandAssumption ==
  \A c \in Commands :
    \/ c.op \in {"r", "w"} /\ Len(c.line) >= 4 /\ Letters(c) /\ Operands(c)
    \/ c.op = "other" /\ NoOperands(c.line)

-----------------------------------------------------------------------------
(* Memory *)

Aligned(a, width) == a % width = 0
Peek(a, width) == [k \in 1 .. width |-> mem[a + k - 1]]
Poked(m, a, width, word) ==
  [b \in DOMAIN m |-> IF b \in a .. a + width - 1 THEN Byte(word, b - a) ELSE m[b]]

Text(t) == [text |-> t, bytes |-> <<>>]
Bytes(b) == [text |-> "bytes", bytes |-> b]

-----------------------------------------------------------------------------
(* monitor.c *)

SetFormat(c) ==
  /\ strlen = 1 /\ buffer[0] = c
  /\ little' = (c = "l")
  /\ shown' = Text("format")
  /\ UNCHANGED <<mem, buffer>>

NoCommand ==
  /\ \/ strlen = 0
     \/ strlen = 1 /\ buffer[0] = "h"
     \/ strlen < 3 /\ ~(strlen = 1 /\ buffer[0] \in {"h", "b", "l"})
     \/ strlen >= 3 /\ buffer[0] \notin {"r", "w"}
     \/ strlen >= 3 /\ buffer[0] \in {"r", "w"} /\ buffer[1] \notin DOMAIN Width
  /\ shown' = Text("help")
  /\ UNCHANGED <<mem, little, buffer>>

\* The number is printed by way of the same buffer.
Sprintf(bytes) ==
  [i \in DOMAIN buffer |->
     IF i < 2 * Len(bytes) THEN bytes[(i \div 2) + 1][(i % 2) + 1]
     ELSE IF i = 2 * Len(bytes) THEN Nul ELSE buffer[i]]

Read(width) ==
  LET a == Number(read_address)
      bytes == IF little THEN Peek(a, width) ELSE Reverse(Peek(a, width))
  IN /\ strlen >= 3 /\ buffer[0] = "r"
     /\ buffer[1] \in DOMAIN Width /\ width = Width[buffer[1]]
     /\ IF Aligned(a, width)
        THEN shown' = Bytes(bytes) /\ buffer' = Sprintf(bytes)
        ELSE shown' = Text("boundary") /\ UNCHANGED buffer
     /\ UNCHANGED <<mem, little>>

Write(width) ==
  LET a == Number(read_address)
  IN /\ strlen >= 3 /\ buffer[0] = "w"
     /\ buffer[1] \in DOMAIN Width /\ width = Width[buffer[1]]
     /\ IF Aligned(a, width)
        THEN /\ \E data \in read_data_after_address :
                  mem' = Poked(mem, a, width, Word(data))
             /\ shown' = Text("")
        ELSE shown' = Text("boundary") /\ UNCHANGED mem
     /\ UNCHANGED <<little, buffer>>

MonitorCommand ==
  /\ prog = "monitor"
  /\ \/ \E c \in {"l", "b"} : SetFormat(c)
     \/ NoCommand
     \/ \E width \in {4, 2, 1} : Read(width) \/ Write(width)
  /\ UNCHANGED addr

-----------------------------------------------------------------------------
(* The monitor of bootloader.c *)

IsDump == StartsWith(<<"d", "w", " ">>) \/ buffer[0] = "n"

\* Mutant: the address is set after the word has been read.
ReadWordAtOldAddress ==
  /\ StartsWith(<<"r", "w", " ">>)
  /\ addr' = Number(parsehex(3).v)
  /\ shown' = IF Aligned(addr, 4) THEN Bytes(Reverse(Peek(addr, 4))) ELSE Text("boundary")
  /\ UNCHANGED mem

ReadWord ==
  LET a == Number(parsehex(3).v)
  IN /\ StartsWith(<<"r", "w", " ">>)
     /\ addr' = a
     /\ shown' = IF Aligned(a, 4) THEN Bytes(Reverse(Peek(a, 4))) ELSE Text("boundary")
     /\ UNCHANGED mem

WriteWord ==
  LET p == parsehex(3)
      a == Number(p.v)
  IN /\ StartsWith(<<"w", "w", " ">>)
     /\ addr' = a
     /\ IF Aligned(a, 4)
        THEN mem' = Poked(mem, a, 4, Word(parsehex(p.end).v)) /\ shown' = Text("")
        ELSE UNCHANGED mem /\ shown' = Text("boundary")

\* Words from the highest byte to the lowest.  The user does not dump what
\* is not there.
Dump ==
  LET a == IF buffer[0] = "n" THEN addr ELSE Number(parsehex(3).v)
  IN /\ IsDump
     /\ a + 4 * DumpWords - 1 <= MemTop
     /\ IF Aligned(a, 4)
        THEN /\ shown' = Bytes(FlattenSeq([i \in 1 .. DumpWords |->
                                             Reverse(Peek(a + 4 * (i - 1), 4))]))
             /\ addr' = a + 4 * DumpWords
        ELSE /\ shown' = Text("boundary")
             /\ addr' = a
     /\ UNCHANGED mem

OtherText ==
  /\ ~IsDump
  /\ \A c \in {"r", "w"} : ~StartsWith(<<c, "w", " ">>)
  /\ ~(strlen = 1 /\ buffer[0] = "r")
  /\ shown' = Text(IF strlen = 0 THEN "" ELSE "help")
  /\ UNCHANGED <<mem, addr>>

BootMonitorCommand ==
  /\ prog = "bootloader"
  /\ ReadWord \/ WriteWord \/ Dump \/ OtherText
  /\ UNCHANGED <<little, buffer>>

-----------------------------------------------------------------------------
(* The user *)

Continues(chr) == \E l \in Lines : IsPrefix(Append(screen, chr), l)

\* Corrections, and keys that are hit by mistake.
Slips == Ignored \cup EraseKeys \cup {ControlU, ControlC, Space}

Type ==
  /\ UNCHANGED <<prog, mem, little, addr, shown>>
  /\ \/ /\ \E chr \in Printable : Continues(chr) /\ usart_gets(chr)
        /\ UNCHANGED <<lines, edits>>
     \/ /\ lines < MaxLines /\ screen \in Lines
        /\ usart_gets("cr")
        /\ lines' = lines + 1 /\ UNCHANGED edits
     \/ /\ edits < MaxEdits
        /\ \E chr \in Slips : usart_gets(chr)
        /\ edits' = edits + 1 /\ UNCHANGED lines

Command ==
  /\ ~reading
  /\ MonitorCommand \/ BootMonitorCommand
  /\ Called
  /\ UNCHANGED <<prog, lines, edits>>

Init ==
  /\ EditorInit
  /\ prog \in {"monitor", "bootloader"}
  /\ mem = [a \in 0 .. MemTop |-> <<"0", Digits[(a % 16) + 1]>>]
  /\ little = TRUE
  /\ addr = 0
  /\ shown = Text("")
  /\ lines = 0 /\ edits = 0

Next == Type \/ Command

Spec == Init /\ [][Next]_vars

-----------------------------------------------------------------------------
(* Properties *)

\* What a command does to the memory, for a user who knows the help text
\* and not the code: the bootloader has words only.
Meaning(c, m) ==
  IF c.op = "w" /\ Aligned(c.addr, c.width) /\ (prog = "monitor" \/ c.width = 4)
  THEN Poked(m, c.addr, c.width, Word(c.data)) ELSE m

Entered(c) == ~reading /\ reading' /\ screen = c.line
Means(c) == Entered(c) => mem' = Meaning(c, mem)

HasData(c) == c.op # "w" \/ c.data # <<>> \/ prog = "bootloader"

\* A command changes exactly the bytes it names, to the data on its own line,
\* whatever was typed, erased or printed before it, and every other command
\* changes nothing (monitor.c:217-278, bootloader.c:171-247); on a line without
\* data monitor.c:141 goes on to what stands behind its end.
CommandMeansLine == [][\A c \in Commands : HasData(c) => Means(c)]_vars

\* What a read command prints are the bytes of the memory, in the order of
\* their addresses if the format is little endian (monitor.c:219-229).
AnswerShowsMemory ==
  [][\A c \in Commands :
       (Entered(c) /\ c.op = "r" /\ Aligned(c.addr, c.width))
         => \/ prog = "monitor" /\ shown' = Bytes(IF little THEN Peek(c.addr, c.width)
                                                 ELSE Reverse(Peek(c.addr, c.width)))
            \/ prog = "bootloader" /\ (c.width = 4 => shown' = Bytes(Reverse(Peek(c.addr, 4))))]_vars
=============================================================================
