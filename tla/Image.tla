------------------------------- MODULE Image -------------------------------
(***************************************************************************)
(* From the S-records of a linked program to the contents of the ROM:      *)
(* CODE/srec2vhdl/srec2vhdl.c writes the table that rom.vhd is synthesised *)
(* with, CODE/srec2mif/srec2mif.c a memory initialisation file.            *)
(*                                                                         *)
(* A step is the command line or one line of the input.  A line is its     *)
(* type and its bytes, pairs of hexadecimal digits: the count, an address  *)
(* of two, three or four bytes, the data and a checksum.                   *)
(***************************************************************************)
EXTENDS Integers, SequencesExt

CONSTANTS
  Contents,    \* the bytes of the program, by their place in the ROM
  Commands,    \* command lines: [tool, options, infile, outfile]
  Files,       \* S-record files of the program, sequences of lines
  Bases,       \* the address that the linker gave the ROM
  LenCode,     \* LEN_CODE, the bytes a table can have
  RomSize      \* the bytes of the ROM

\* The ROM lies at 0, and the boot ROM beyond it.
ASSUME ImageAssumption ==
  /\ LenCode \in Nat /\ RomSize \in 0 .. LenCode
  /\ DOMAIN Contents \subseteq 0 .. RomSize - 1
  /\ \A a \in DOMAIN Contents : Contents[a] \in 0 .. 255
  /\ \A base \in Bases : base \in Nat /\ (base = 0 \/ base >= RomSize)

VARIABLES
  stage,     \* "shell", "reading", "failed", or "built" once there is a ROM
  command,
  input,     \* the lines yet to be read
  work,      \* first, offset, address and code of srec2vhdl, and the entries
             \* that srec2mif has written, by address, with their separators
  rom        \* the ROM, a byte at a time

image == <<stage, command, input, work, rom>>

-----------------------------------------------------------------------------
(* Hexadecimal digits *)

Digits == <<"0", "1", "2", "3", "4", "5", "6", "7", "8", "9", "A", "B", "C", "D",
            "E", "F">>
toupper(c) == CASE c = "a" -> "A" [] c = "b" -> "B" [] c = "c" -> "C" [] c = "d" -> "D"
                [] c = "e" -> "E" [] c = "f" -> "F" [] OTHER -> c
Digit(c) == CHOOSE d \in 0 .. 15 : Digits[d + 1] = toupper(c)

\* The argument is the place of the first byte in the line.
hex2(line, i) == 16 * Digit(line.bytes[i][1]) + Digit(line.bytes[i][2])
hex4(line, i) == hex2(line, i) * 256 + hex2(line, i + 1)
hex6(line, i) == hex4(line, i) * 256 + hex2(line, i + 2)
hex8(line, i) == hex6(line, i) * 256 + hex2(line, i + 3)

\* The records with data.  The checksum behind the data is not read.
Data(line, i, count) == [k \in 1 .. count |-> hex2(line, i + k - 1)]

Record(line) ==
  CASE line.type = "1" -> [address |-> hex4(line, 2), data |-> Data(line, 4, hex2(line, 1) - 3)]
    [] line.type = "2" -> [address |-> hex6(line, 2), data |-> Data(line, 5, hex2(line, 1) - 4)]
    [] line.type = "3" -> [address |-> hex8(line, 2), data |-> Data(line, 6, hex2(line, 1) - 5)]

HasData(line) == line.type \in {"1", "2", "3"}

\* The data put at a place of an array.
Placed(array, place, data) ==
  [a \in DOMAIN array |-> IF a \in place .. place + Len(data) - 1
                          THEN data[a - place + 1] ELSE array[a]]

-----------------------------------------------------------------------------
(* The command line *)

\* Both tools read the options first, then open the input, then the output.
Opened ==
  /\ command.infile = "program.srec"
  /\ command.outfile \notin {command.infile, "unwritable"}

\* srec2vhdl.c: the output is as bytes, halfwords or words, as the last of these
\* options says.  The others are about the layout, and what the program leaves of
\* the ROM.
VhdlSize ==
  LET sizes == {i \in DOMAIN command.options : command.options[i] \in {"b", "h", "w"}} IN
  IF sizes = {} THEN 1
  ELSE CASE command.options[Max(sizes)] = "h" -> 2
         [] command.options[Max(sizes)] = "w" -> 4
         [] OTHER -> 1

Accepted ==
  Range(command.options) \subseteq
    (IF command.tool = "srec2vhdl" THEN {"0", "b", "h", "w", "v", "q", "f", "i"}
                                   ELSE {"v", "q"})

NoCommand == [tool |-> "none", options |-> <<>>, infile |-> "", outfile |-> ""]

NoWork == [first |-> TRUE, offset |-> 0, address |-> 0,
           code |-> [a \in 0 .. LenCode - 1 |-> 0],
           entries |-> <<>>, separators |-> {}]

Start ==
  /\ stage = "shell"
  /\ stage' = IF Accepted /\ Opened THEN "reading" ELSE "failed"
  /\ UNCHANGED <<command, input, work, rom>>

-----------------------------------------------------------------------------
(* A line *)

ReadLine ==
  /\ stage = "reading" /\ input # <<>>
  /\ input' = Tail(input)
  /\ UNCHANGED <<stage, command, rom>>

\* Lines that are no S-records, and records without data.
SkipLine ==
  /\ ReadLine /\ ~HasData(Head(input))
  /\ UNCHANGED work

\* Mutant: the address of every record is the offset.
OffsetOfLatest(r) == r.address

\* The first address is that of the first element of the table.
Offset(r) == IF work.first THEN r.address ELSE work.offset

VhdlRecord ==
  LET r == Record(Head(input)) IN
  /\ command.tool = "srec2vhdl" /\ ReadLine /\ HasData(Head(input))
  /\ work' = [work EXCEPT !.first = FALSE, !.offset = Offset(r),
                          !.address = r.address + Len(r.data),
                          !.code = Placed(@, r.address - Offset(r), r.data)]

\* Addresses are kept as they are; of two entries the later one counts.
MifRecord ==
  LET r == Record(Head(input))
      separator == IF Head(input).type = "1" THEN ":" ELSE "=>"
      places    == r.address .. r.address + Len(r.data) - 1
  IN /\ command.tool = "srec2mif" /\ ReadLine /\ HasData(Head(input))
     /\ work' = [work EXCEPT
          !.entries    = [a \in places \cup DOMAIN @ |->
                            IF a \in places THEN r.data[a - r.address + 1] ELSE @[a]],
          !.separators = @ \cup {separator : a \in places}]

-----------------------------------------------------------------------------
(* The output, and the ROM that is made with it *)

Least(a, b) == IF a < b THEN a ELSE b

\* The table entry e: size bytes, in the order of their addresses.
VhdlEntries ==
  LET size  == VhdlSize
      bytes == Least(work.address - work.offset, LenCode)
  IN [e \in 0 .. ((bytes + size - 1) \div size) - 1 |->
        [k \in 1 .. size |-> work.code[e * size + k - 1]]]

\* The highest byte of a word of the table is the one at the lowest address.
\* What is left over is zero here, don't care or not: nothing reads it.
VhdlRom(entries, size) ==
  [a \in 0 .. RomSize - 1 |->
     IF a \div size \in DOMAIN entries THEN entries[a \div size][(a % size) + 1] ELSE 0]

Written ==
  /\ stage = "reading" /\ input = <<>>
  /\ work' = NoWork /\ command' = NoCommand
  /\ UNCHANGED input

VhdlWritten ==
  /\ command.tool = "srec2vhdl" /\ Written
  /\ stage' = "built"
  /\ rom' = VhdlRom(VhdlEntries, VhdlSize)

\* A memory initialisation file knows the separator ":" only.
MifWritten ==
  LET Readable == work.separators \subseteq {":"} /\ DOMAIN work.entries \subseteq DOMAIN rom
  IN /\ command.tool = "srec2mif" /\ Written
     /\ stage' = IF Readable THEN "built" ELSE "failed"
     /\ rom' = [a \in DOMAIN rom |->
                  IF Readable /\ a \in DOMAIN work.entries THEN work.entries[a] ELSE rom[a]]

-----------------------------------------------------------------------------

ImageInit ==
  /\ stage = "shell"
  /\ command \in Commands
  /\ input \in Files
  /\ work = NoWork
  /\ rom = [a \in 0 .. RomSize - 1 |-> 0]

ImageNext == Start \/ SkipLine \/ VhdlRecord \/ MifRecord \/ VhdlWritten \/ MifWritten

-----------------------------------------------------------------------------
(* What objcopy promises of the files *)

Lower == <<"0", "1", "2", "3", "4", "5", "6", "7", "8", "9", "a", "b", "c", "d", "e",
           "f">>

\* A pair of digits, of either case, for a byte.
Stands(pair, v) ==
  /\ pair[1] \in {Digits[(v \div 16) + 1], Lower[(v \div 16) + 1]}
  /\ pair[2] \in {Digits[(v % 16) + 1], Lower[(v % 16) + 1]}

AddressBytes(type) == CASE type = "1" -> 2 [] type = "2" -> 3 [] type = "3" -> 4

\* Bytes of an address, the lowest is number 0.
Weight(n) == CASE n = 0 -> 1 [] n = 1 -> 256 [] n = 2 -> 65536 [] n = 3 -> 16777216
ByteOf(a, n) == (a \div Weight(n)) % 256

\* The line has the bytes of the program from one place up to another.
Lists(line, base, from, to) ==
  LET n == AddressBytes(line.type) IN
  /\ HasData(line) /\ from <= to /\ from .. to - 1 \subseteq DOMAIN Contents
  /\ n + to - from + 1 <= 255 /\ Stands(line.bytes[1], n + to - from + 1)
  /\ (base + from) \div Weight(n - 1) <= 255
  /\ \A i \in 1 .. n : Stands(line.bytes[i + 1], ByteOf(base + from, n - i))
  /\ \A k \in 1 .. to - from : Stands(line.bytes[n + 1 + k], Contents[from + k - 1])

Places == 0 .. RomSize

\* Every record of a file has a part of the program, the first its beginning, and
\* the next one what comes later; together they have all of it.
Listing(file, base) ==
  LET lines == {i \in DOMAIN file : HasData(file[i])} IN
  /\ \A i \in lines : \E from, to \in Places : Lists(file[i], base, from, to)
  /\ \A i \in lines : (\A j \in lines : i <= j) => \E to \in Places : Lists(file[i], base, 0, to)
  /\ \A i, j \in lines, from, to, next, last \in Places :
       i < j /\ Lists(file[i], base, from, to) /\ Lists(file[j], base, next, last) => to <= next
  /\ \A p \in DOMAIN Contents : \E i \in lines, from \in 0 .. p, to \in p + 1 .. RomSize :
       Lists(file[i], base, from, to)

ASSUME FileAssumption ==
  \A file \in Files :
    file \in Seq(Range(file)) /\ \E base \in Bases : Listing(file, base)

-----------------------------------------------------------------------------
(* Properties *)

\* Whichever tool made the ROM, from records of whatever kind and length, and
\* in elements of whatever size, every byte of the program is at its place and
\* nothing else is in the ROM (srec2vhdl.c:227-349, srec2mif.c:166-216,
\* rom.vhd:91-108).
RomIsProgram ==
  stage = "built" =>
    \A a \in 0 .. RomSize - 1 : rom[a] = IF a \in DOMAIN Contents THEN Contents[a] ELSE 0
=============================================================================
