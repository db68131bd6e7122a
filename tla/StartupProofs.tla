--------------------------- MODULE StartupProofs ---------------------------
(***************************************************************************)
(* The tools and the start-up code, for every program, every S-record file *)
(* that lists it and every layout of its data: the ROM is the program, and *)
(* main finds its data, although resets may interrupt the copying.         *)
(***************************************************************************)
EXTENDS Startup, SequenceTheorems, TLAPS

-----------------------------------------------------------------------------
(* Numbers in hexadecimal digits *)

\* Both ways to write a digit are read as it is.
LEMMA DigitIs ==
  ASSUME NEW d \in 0 .. 15, NEW c \in {Digits[d + 1], Lower[d + 1]}
  PROVE  Digit(c) = d
<1>1. toupper(c) = Digits[d + 1]
  <2>1. \/ d = 0 \/ d = 1 \/ d = 2 \/ d = 3 \/ d = 4 \/ d = 5 \/ d = 6 \/ d = 7
        \/ d = 8 \/ d = 9 \/ d = 10 \/ d = 11 \/ d = 12 \/ d = 13 \/ d = 14 \/ d = 15
    OBVIOUS
  <2> QED
    BY <2>1 DEF Digits, Lower, toupper
<1>2. \A e \in 0 .. 15 : Digits[e + 1] = Digits[d + 1] => e = d
  <2> SUFFICES ASSUME NEW e \in 0 .. 15, Digits[e + 1] = Digits[d + 1] PROVE e = d
    OBVIOUS
  <2> QED
    BY DEF Digits
<1> QED
  BY <1>1, <1>2 DEF Digit

\* So is a pair of digits.
LEMMA PairIs ==
  ASSUME NEW v \in 0 .. 255, NEW line, NEW i, Stands(line.bytes[i], v)
  PROVE  hex2(line, i) = v
<1>1. v \div 16 \in 0 .. 15 /\ v % 16 \in 0 .. 15 /\ v = 16 * (v \div 16) + (v % 16)
  OBVIOUS
<1>2. Digit(line.bytes[i][1]) = v \div 16
  BY <1>1, DigitIs DEF Stands
<1>3. Digit(line.bytes[i][2]) = v % 16
  BY <1>1, DigitIs DEF Stands
<1> QED
  BY <1>1, <1>2, <1>3 DEF hex2

\* Sums of the bytes.
LEMMA BytesOfAddress ==
  ASSUME NEW a \in Nat
  PROVE  /\ \A n \in 0 .. 3 : ByteOf(a, n) \in 0 .. 255
         /\ a \div Weight(1) <= 255 => a = ByteOf(a, 1) * 256 + ByteOf(a, 0)
         /\ a \div Weight(2) <= 255 =>
              a = (ByteOf(a, 2) * 256 + ByteOf(a, 1)) * 256 + ByteOf(a, 0)
         /\ a \div Weight(3) <= 255 =>
              a = ((ByteOf(a, 3) * 256 + ByteOf(a, 2)) * 256 + ByteOf(a, 1)) * 256
                    + ByteOf(a, 0)
<1>1. \A n \in 0 .. 3 : ByteOf(a, n) \in 0 .. 255
  BY DEF ByteOf, Weight
<1>2. a \div Weight(1) <= 255 => a = ByteOf(a, 1) * 256 + ByteOf(a, 0)
  BY DEF ByteOf, Weight
<1> DEFINE b0 == a % 256
           b1 == (a \div 256) % 256
           b2 == (a \div 65536) % 256
           b3 == (a \div 16777216) % 256
<1>3. ByteOf(a, 0) = b0 /\ ByteOf(a, 1) = b1 /\ ByteOf(a, 2) = b2 /\ ByteOf(a, 3) = b3
  BY DEF ByteOf, Weight
<1>4. a \div Weight(2) <= 255 => a = (b2 * 256 + b1) * 256 + b0
  <2>1. a \div 65536 <= 255 => a = (b2 * 256 + b1) * 256 + b0
    OBVIOUS
  <2>2. Weight(2) = 65536
    BY DEF Weight
  <2> HIDE DEF b0, b1, b2, b3
  <2> QED
    BY <2>1, <2>2, SMT
<1>5. a \div Weight(3) <= 255 => a = ((b3 * 256 + b2) * 256 + b1) * 256 + b0
  <2>1. a \div 16777216 <= 255 => a = ((b3 * 256 + b2) * 256 + b1) * 256 + b0
    OBVIOUS
  <2>2. Weight(3) = 16777216
    BY DEF Weight
  <2> HIDE DEF b0, b1, b2, b3
  <2> QED
    BY <2>1, <2>2, SMT
<1> HIDE DEF b0, b1, b2, b3
<1> QED
  BY <1>1, <1>2, <1>3, <1>4, <1>5, SMT

\* The bytes of a part of the program.
Part(from, to) == [k \in 1 .. to - from |-> Contents[from + k - 1]]

\* The tools read a record as it is meant.
LEMMA RecordIs ==
  ASSUME NEW line, NEW base \in Nat, NEW from \in Nat, NEW to \in Nat,
         Lists(line, base, from, to)
  PROVE  Record(line) = [address |-> base + from, data |-> Part(from, to)]
<1> DEFINE n == AddressBytes(line.type)
           a == base + from
<1>1. /\ HasData(line) /\ from <= to /\ from .. to - 1 \subseteq DOMAIN Contents
      /\ n + to - from + 1 <= 255 /\ Stands(line.bytes[1], n + to - from + 1)
      /\ a \div Weight(n - 1) <= 255
      /\ \A i \in 1 .. n : Stands(line.bytes[i + 1], ByteOf(a, n - i))
      /\ \A k \in 1 .. to - from : Stands(line.bytes[n + 1 + k], Contents[from + k - 1])
  BY Zenon DEF Lists
<1>2. /\ line.type = "1" => n = 2
      /\ line.type = "2" => n = 3
      /\ line.type = "3" => n = 4
      /\ line.type \in {"1", "2", "3"}
  BY <1>1 DEF AddressBytes, HasData
<1>3. hex2(line, 1) - (n + 1) = to - from
  <2> HIDE DEF n
  <2>1. n \in 2 .. 4 /\ from <= to /\ n + to - from + 1 <= 255
    BY <1>1, <1>2
  <2>2. n + to - from + 1 \in 0 .. 255
    BY <2>1
  <2>3. hex2(line, 1) = n + to - from + 1
    BY <1>1, <2>2, PairIs
  <2> QED
    BY <2>1, <2>3
<1>4. \A k \in 1 .. to - from : hex2(line, n + 1 + k) = Contents[from + k - 1]
  <2> SUFFICES ASSUME NEW k \in 1 .. to - from
               PROVE  hex2(line, n + 1 + k) = Contents[from + k - 1]
    OBVIOUS
  <2>1. Contents[from + k - 1] \in 0 .. 255
    <3>1. from + k - 1 \in from .. to - 1
      OBVIOUS
    <3> QED
      BY <1>1, <3>1, ImageAssumption
  <2> HIDE DEF n
  <2> QED
    BY <1>1, <2>1, PairIs
<1>5. Data(line, n + 2, to - from) = Part(from, to)
  <2> SUFFICES ASSUME NEW k \in 1 .. to - from
               PROVE  hex2(line, n + 2 + k - 1) = Contents[from + k - 1]
    BY DEF Data, Part
  <2> HIDE DEF n
  <2>1. n + 2 + k - 1 = n + 1 + k
    BY <1>2
  <2> QED
    BY <1>4, <2>1
<1>6. \A i \in 1 .. n : hex2(line, i + 1) = ByteOf(a, n - i)
  <2> SUFFICES ASSUME NEW i \in 1 .. n PROVE hex2(line, i + 1) = ByteOf(a, n - i)
    OBVIOUS
  <2>1. n - i \in 0 .. 3
    BY <1>2
  <2>2. ByteOf(a, n - i) \in 0 .. 255
    BY <2>1, a \in Nat, BytesOfAddress, Zenon
  <2> HIDE DEF n, a
  <2> QED
    BY <1>1, <2>2, PairIs
<1>7. /\ line.type = "1" => hex4(line, 2) = a
      /\ line.type = "2" => hex6(line, 2) = a
      /\ line.type = "3" => hex8(line, 2) = a
  <2> HIDE DEF a
  <2>0. a \in Nat
    BY DEF a
  <2>1. CASE line.type = "1"
    <3>1. hex2(line, 2) = ByteOf(a, 1) /\ hex2(line, 3) = ByteOf(a, 0)
      <4>1. hex2(line, 1 + 1) = ByteOf(a, 2 - 1) /\ hex2(line, 2 + 1) = ByteOf(a, 2 - 2)
        BY <2>1, <1>2, <1>6
      <4> QED
        BY <4>1
    <3> QED
      BY <2>0, <2>1, <3>1, <1>1, <1>2, BytesOfAddress DEF hex4
  <2>2. CASE line.type = "2"
    <3>1. /\ hex2(line, 2) = ByteOf(a, 2) /\ hex2(line, 3) = ByteOf(a, 1)
          /\ hex2(line, 4) = ByteOf(a, 0)
      <4>1. /\ hex2(line, 1 + 1) = ByteOf(a, 3 - 1) /\ hex2(line, 2 + 1) = ByteOf(a, 3 - 2)
            /\ hex2(line, 3 + 1) = ByteOf(a, 3 - 3)
        BY <2>2, <1>2, <1>6
      <4> QED
        BY <4>1
    <3> QED
      BY <2>0, <2>2, <3>1, <1>1, <1>2, BytesOfAddress DEF hex4, hex6
  <2>3. CASE line.type = "3"
    <3>1. /\ hex2(line, 2) = ByteOf(a, 3) /\ hex2(line, 3) = ByteOf(a, 2)
          /\ hex2(line, 4) = ByteOf(a, 1) /\ hex2(line, 5) = ByteOf(a, 0)
      <4>1. /\ hex2(line, 1 + 1) = ByteOf(a, 4 - 1) /\ hex2(line, 2 + 1) = ByteOf(a, 4 - 2)
            /\ hex2(line, 3 + 1) = ByteOf(a, 4 - 3) /\ hex2(line, 4 + 1) = ByteOf(a, 4 - 4)
        BY <2>3, <1>2, <1>6
      <4> QED
        BY <4>1
    <3> QED
      BY <2>0, <2>3, <3>1, <1>1, <1>2, BytesOfAddress DEF hex4, hex6, hex8
  <2> QED
    BY <1>2, <2>1, <2>2, <2>3
<1> QED
  <2> HIDE DEF a
  <2>1. CASE line.type = "1"
    BY <2>1, <1>2, <1>3, <1>5, <1>7 DEF Record, a
  <2>2. CASE line.type = "2"
    BY <2>2, <1>2, <1>3, <1>5, <1>7 DEF Record, a
  <2>3. CASE line.type = "3"
    BY <2>3, <1>2, <1>3, <1>5, <1>7 DEF Record, a
  <2> QED
    BY <1>2, <2>1, <2>2, <2>3

-----------------------------------------------------------------------------
(* What has been read *)

\* The places of the program that the first k lines of a file have.
Got(file, base, k) ==
  {p \in DOMAIN Contents : \E i \in 1 .. k, from \in 0 .. p, to \in p + 1 .. RomSize :
                             Lists(file[i], base, from, to)}

WorkFields == {"first", "offset", "address", "code", "entries", "separators"}

\* The table has what was read, and ends where the latest record does.
TableHas(file, base, k) ==
  /\ work.first <=> \A i \in 1 .. k : ~HasData(file[i])
  /\ work.first => work.offset = 0 /\ work.address = 0
  /\ ~work.first => /\ work.offset = base
                    /\ \E end \in Places : /\ work.address = base + end
                                           /\ \A p \in Got(file, base, k) : p < end
  /\ work.code = [a \in 0 .. LenCode - 1 |->
                    IF a \in Got(file, base, k) THEN Contents[a] ELSE 0]

\* So has the memory initialisation file, at the addresses of the program.
MifHas(file, base, k) ==
  /\ DOMAIN work.entries = {base + p : p \in Got(file, base, k)}
  /\ \A p \in Got(file, base, k) : work.entries[base + p] = Contents[p]

Reads(file, base, k) ==
  /\ file \in Files /\ base \in Bases /\ Listing(file, base)
  /\ k \in 0 .. Len(file) /\ input = SubSeq(file, k + 1, Len(file))
  /\ DOMAIN work = WorkFields
  /\ command.tool = "srec2vhdl" => TableHas(file, base, k)
  /\ command.tool = "srec2mif"  => MifHas(file, base, k)

\* The inductive invariant of the tools.
Transcribed ==
  /\ stage \in {"shell", "reading"} => rom = [a \in 0 .. RomSize - 1 |-> 0]
  /\ stage = "shell" => input \in Files /\ work = NoWork
  /\ stage = "reading" => \E file \in Files, base \in Bases, k \in Nat : Reads(file, base, k)
  /\ RomIsProgram

\* What the assumptions say of the constants.
LEMMA ConstantFacts ==
  /\ LenCode \in Nat /\ RomSize \in Nat /\ RomSize <= LenCode
  /\ \A p \in DOMAIN Contents : p \in 0 .. RomSize - 1 /\ Contents[p] \in Int
  /\ \A base \in Bases : base \in Nat
  /\ \A file \in Files : Len(file) \in Nat /\ DOMAIN file = 1 .. Len(file)
<1>1. LenCode \in Nat /\ RomSize \in Nat /\ RomSize <= LenCode
  BY ImageAssumption
<1>2. \A p \in DOMAIN Contents : p \in 0 .. RomSize - 1 /\ Contents[p] \in Int
  BY ImageAssumption
<1>3. \A base \in Bases : base \in Nat
  BY ImageAssumption
<1>4. \A file \in Files : Len(file) \in Nat /\ DOMAIN file = 1 .. Len(file)
  <2> TAKE file \in Files
  <2>1. file \in Seq(Range(file))
    BY FileAssumption
  <2> QED
    BY <2>1
<1> QED
  BY <1>1, <1>2, <1>3, <1>4, Zenon

\* A part of the program, byte by byte.
LEMMA PartIs ==
  ASSUME NEW from \in Nat, NEW to \in Nat, from <= to
  PROVE  /\ Len(Part(from, to)) = to - from
         /\ \A p \in from .. to - 1 : Part(from, to)[p - from + 1] = Contents[p]
<1>1. Len(Part(from, to)) = to - from
  BY DEF Part
<1>2. ASSUME NEW p \in from .. to - 1
      PROVE  Part(from, to)[p - from + 1] = Contents[p]
  <2>1. p - from + 1 \in 1 .. to - from /\ from + (p - from + 1) - 1 = p
    OBVIOUS
  <2> QED
    BY <2>1 DEF Part
<1> QED
  BY <1>1, <1>2

\* A line tells what it lists.
LEMMA OneList ==
  ASSUME NEW line, NEW base \in Nat, NEW from \in Nat, NEW to \in Nat,
         NEW next \in Nat, NEW last \in Nat,
         Lists(line, base, from, to), Lists(line, base, next, last)
  PROVE  from = next /\ to = last
<1>1. from <= to /\ next <= last
  BY Zenon DEF Lists
<1>2. /\ Record(line) = [address |-> base + from, data |-> Part(from, to)]
      /\ Record(line) = [address |-> base + next, data |-> Part(next, last)]
  BY RecordIs
<1>3. base + from = base + next /\ Part(from, to) = Part(next, last)
  BY <1>2
<1>4. to - from = last - next
  BY <1>1, <1>3, PartIs
<1> QED
  BY <1>3, <1>4

\* The next line of the input is the file's.
LEMMA NextLine ==
  ASSUME NEW file \in Files, NEW k \in 0 .. Len(file),
         input = SubSeq(file, k + 1, Len(file)), input # <<>>
  PROVE  /\ k + 1 \in 1 .. Len(file) /\ Head(input) = file[k + 1]
         /\ Tail(input) = SubSeq(file, k + 1 + 1, Len(file))
<1>1. file \in Seq(Range(file)) /\ Len(file) \in Nat
  BY FileAssumption
<1>2. k + 1 \in 1 .. Len(file)
  BY <1>1, SubSeqEmpty
<1> QED
  BY <1>1, <1>2, HeadTailOfSubSeq

\* A line without data adds nothing, a record its part of the program.
LEMMA GotMore ==
  ASSUME NEW file \in Files, NEW base \in Bases, NEW k \in Nat
  PROVE  /\ ~HasData(file[k + 1]) => Got(file, base, k + 1) = Got(file, base, k)
         /\ \A from, to \in Places :
              Lists(file[k + 1], base, from, to) =>
                Got(file, base, k + 1) = Got(file, base, k) \cup (from .. to - 1)
<1>0. base \in Nat /\ RomSize \in Nat
  BY ConstantFacts
<1>1. 1 .. k + 1 = (1 .. k) \cup {k + 1}
  OBVIOUS
<1>2. ASSUME ~HasData(file[k + 1]) PROVE Got(file, base, k + 1) = Got(file, base, k)
  <2>1. \A from, to : ~Lists(file[k + 1], base, from, to)
    BY <1>2, Zenon DEF Lists
  <2> QED
    BY <1>1, <2>1, Zenon DEF Got
<1>3. ASSUME NEW from \in Places, NEW to \in Places, Lists(file[k + 1], base, from, to)
      PROVE  Got(file, base, k + 1) = Got(file, base, k) \cup (from .. to - 1)
  <2>1. from \in Nat /\ to \in Nat /\ from <= to /\ to <= RomSize /\ from .. to - 1 \subseteq DOMAIN Contents
    <3>1. from <= to /\ from .. to - 1 \subseteq DOMAIN Contents
      BY <1>3, Zenon DEF Lists
    <3> QED
      BY <1>0, <3>1 DEF Places
  <2>2. ASSUME NEW p \in Got(file, base, k + 1) PROVE p \in Got(file, base, k) \cup (from .. to - 1)
    <3>0. p \in DOMAIN Contents /\ p \in Nat
      BY ConstantFacts DEF Got
    <3>1. PICK i \in 1 .. k + 1, next \in 0 .. p, last \in p + 1 .. RomSize :
            Lists(file[i], base, next, last)
      BY Zenon DEF Got
    <3>2. CASE i = k + 1
      <4>1. next \in Nat /\ last \in Nat
        BY <3>0, <1>0
      <4>2. from = next /\ to = last
        BY <1>0, <1>3, <2>1, <3>1, <3>2, <4>1, OneList
      <4> QED
        BY <3>0, <4>2
    <3>3. CASE i # k + 1
      <4>1. i \in 1 .. k
        BY <3>3
      <4> QED
        BY <3>0, <3>1, <4>1, Zenon DEF Got
    <3> QED
      BY <3>2, <3>3
  <2>3. ASSUME NEW p \in Got(file, base, k) PROVE p \in Got(file, base, k + 1)
    BY <1>1, Zenon DEF Got
  <2>4. ASSUME NEW p \in from .. to - 1 PROVE p \in Got(file, base, k + 1)
    <3>1. p \in DOMAIN Contents /\ from \in 0 .. p /\ to \in p + 1 .. RomSize
      BY <1>0, <2>1
    <3> QED
      BY <1>1, <1>3, <3>1, Zenon DEF Got
  <2> QED
    BY <2>2, <2>3, <2>4
<1> QED
  BY <1>2, <1>3

\* What a record adds; the first one lists the beginning.
LEMMA RecordAdds ==
  ASSUME NEW file, NEW base, NEW k, Reads(file, base, k), ReadLine, HasData(Head(input))
  PROVE  \E from, to \in Places :
           /\ Record(Head(input)) = [address |-> base + from, data |-> Part(from, to)]
           /\ Lists(file[k + 1], base, from, to) /\ from <= to
           /\ Got(file, base, k + 1) = Got(file, base, k) \cup (from .. to - 1)
           /\ \A p \in from .. to - 1 : p \in DOMAIN Contents
           /\ (\A i \in 1 .. k : ~HasData(file[i])) => from = 0
           /\ \A p \in Got(file, base, k) : p < to
<1>1. /\ file \in Files /\ base \in Bases /\ Listing(file, base) /\ k \in 0 .. Len(file)
      /\ k \in Nat /\ base \in Nat /\ Len(file) \in Nat /\ DOMAIN file = 1 .. Len(file)
  BY ConstantFacts DEF Reads
<1>2. k + 1 \in 1 .. Len(file) /\ Head(input) = file[k + 1]
  BY <1>1, NextLine DEF Reads, ReadLine
<1> DEFINE lines == {i \in DOMAIN file : HasData(file[i])}
<1>3. k + 1 \in lines
  BY <1>1, <1>2
<1>4. PICK from \in Places, to \in Places : Lists(file[k + 1], base, from, to)
  BY <1>1, <1>3, Zenon DEF Listing
<1>5. /\ from <= to /\ \A p \in from .. to - 1 : p \in DOMAIN Contents
  BY <1>4, Zenon DEF Lists
<1>6. from \in Nat /\ to \in Nat /\ RomSize \in Nat
  BY ConstantFacts DEF Places
<1>7. ASSUME \A i \in 1 .. k : ~HasData(file[i]) PROVE from = 0
  <2>1. \A i \in lines : k + 1 <= i
    BY <1>1, <1>7
  <2>2. PICK last \in Places : Lists(file[k + 1], base, 0, last)
    BY <1>1, <1>3, <2>1, Zenon DEF Listing
  <2>3. last \in Nat
    BY <1>6 DEF Places
  <2> QED
    BY <1>1, <1>4, <1>6, <2>2, <2>3, OneList
<1>8. ASSUME NEW p \in Got(file, base, k) PROVE p < to
  <2>1. p \in Nat /\ p \in 0 .. RomSize - 1
    BY ConstantFacts DEF Got
  <2>2. PICK i \in 1 .. k, first \in 0 .. p, last \in p + 1 .. RomSize :
          Lists(file[i], base, first, last)
    BY Zenon DEF Got
  <2>3. i \in lines /\ i < k + 1
    <3>1. HasData(file[i])
      BY <2>2, Zenon DEF Lists
    <3> QED
      BY <1>1, <1>2, <3>1
  <2>4. first \in Places /\ last \in Places
    BY <1>6, <2>1 DEF Places
  <2>5. last <= from
    BY <1>1, <1>3, <1>4, <2>2, <2>3, <2>4, Zenon DEF Listing
  <2> QED
    BY <1>5, <1>6, <2>1, <2>5
<1>9. Record(Head(input)) = [address |-> base + from, data |-> Part(from, to)]
  BY <1>1, <1>2, <1>4, <1>6, RecordIs
<1>10. Got(file, base, k + 1) = Got(file, base, k) \cup (from .. to - 1)
  BY <1>1, <1>4, GotMore
<1> QED
  BY <1>4, <1>5, <1>7, <1>8, <1>9, <1>10, Zenon

\* What a line leaves to be read.
LEMMA RestOfFile ==
  ASSUME NEW file, NEW base, NEW k, Reads(file, base, k), ReadLine
  PROVE  /\ file \in Files /\ base \in Bases /\ Listing(file, base) /\ base \in Nat
         /\ k \in Nat /\ k + 1 \in 0 .. Len(file) /\ Head(input) = file[k + 1]
         /\ input' = SubSeq(file, k + 1 + 1, Len(file)) /\ command' = command
         /\ 1 .. k + 1 = (1 .. k) \cup {k + 1}
<1>1. file \in Files /\ base \in Bases /\ Listing(file, base) /\ k \in 0 .. Len(file)
  BY DEF Reads
<1>2. base \in Nat /\ Len(file) \in Nat
  BY <1>1, ConstantFacts
<1> QED
  BY <1>1, <1>2, NextLine DEF Reads, ReadLine

\* A line without data leaves the work as it is.
LEMMA SkipStep ==
  ASSUME NEW file, NEW base, NEW k, Reads(file, base, k), SkipLine
  PROVE  Reads(file, base, k + 1)'
<1>1. ReadLine /\ ~HasData(Head(input)) /\ work' = work
  BY DEF SkipLine
<1>2. k + 1 \in 0 .. Len(file) /\ input' = SubSeq(file, k + 1 + 1, Len(file)) /\ command' = command
  BY <1>1, RestOfFile
<1>3. ~HasData(file[k + 1]) /\ 1 .. k + 1 = (1 .. k) \cup {k + 1}
  BY <1>1, RestOfFile
<1>4. Got(file, base, k + 1) = Got(file, base, k)
  BY <1>1, <1>3, RestOfFile, GotMore
<1>5. TableHas(file, base, k) => TableHas(file, base, k + 1)'
  BY <1>1, <1>3, <1>4, Zenon DEF TableHas
<1>6. MifHas(file, base, k) => MifHas(file, base, k + 1)'
  BY <1>1, <1>4, Zenon DEF MifHas
<1> QED
  BY <1>1, <1>2, <1>5, <1>6 DEF Reads

\* The first record has the beginning of the program, so that the offset is the base
\* and a later part comes to its place in the table, behind all that it has.
LEMMA VhdlStep ==
  ASSUME NEW file, NEW base, NEW k, Reads(file, base, k), VhdlRecord
  PROVE  Reads(file, base, k + 1)'
<1>1. ReadLine /\ HasData(Head(input)) /\ command.tool = "srec2vhdl"
  BY Zenon DEF VhdlRecord
<1>2. /\ k + 1 \in 0 .. Len(file) /\ input' = SubSeq(file, k + 1 + 1, Len(file))
      /\ command' = command /\ base \in Nat /\ HasData(file[k + 1])
      /\ 1 .. k + 1 = (1 .. k) \cup {k + 1}
  BY <1>1, RestOfFile
<1>3. PICK from \in Places, to \in Places :
        /\ Record(Head(input)) = [address |-> base + from, data |-> Part(from, to)]
        /\ Lists(file[k + 1], base, from, to) /\ from <= to
        /\ Got(file, base, k + 1) = Got(file, base, k) \cup (from .. to - 1)
        /\ \A p \in from .. to - 1 : p \in DOMAIN Contents
        /\ (\A i \in 1 .. k : ~HasData(file[i])) => from = 0
        /\ \A p \in Got(file, base, k) : p < to
  BY <1>1, RecordAdds
<1>4. from \in Nat /\ to \in Nat /\ LenCode \in Nat
  BY ConstantFacts DEF Places
<1>5. TableHas(file, base, k) /\ DOMAIN work = WorkFields
  BY <1>1 DEF Reads
<1> DEFINE r == Record(Head(input))
<1>6. r.address = base + from /\ r.data = Part(from, to) /\ Len(r.data) = to - from
  <2>1. r = [address |-> base + from, data |-> Part(from, to)]
    BY <1>3
  <2>2. Len(Part(from, to)) = to - from
    BY <1>3, <1>4, PartIs
  <2> QED
    BY <2>1, <2>2
<1>7. Offset(r) = base
  <2> HIDE DEF r
  <2>1. CASE work.first
    <3>1. \A i \in 1 .. k : ~HasData(file[i])
      BY <1>5, <2>1, Zenon DEF TableHas
    <3>2. from = 0
      BY <1>3, <3>1, Zenon
    <3> QED
      BY <1>2, <1>6, <2>1, <3>2 DEF Offset
  <2>2. CASE ~work.first
    <3>1. work.offset = base
      BY <1>5, <2>2, Zenon DEF TableHas
    <3> QED
      BY <2>2, <3>1 DEF Offset
  <2> QED
    BY <2>1, <2>2
<1>8. work' = [work EXCEPT !.first = FALSE, !.offset = base, !.address = base + to,
                           !.code = Placed(work.code, from, Part(from, to))]
  <2> HIDE DEF r
  <2>1. r.address - Offset(r) = from /\ r.address + Len(r.data) = base + to
    BY <1>2, <1>4, <1>6, <1>7
  <2>2. work' = [work EXCEPT !.first = FALSE, !.offset = Offset(r),
                             !.address = r.address + Len(r.data),
                             !.code = Placed(@, r.address - Offset(r), r.data)]
    BY Zenon DEF VhdlRecord, r
  <2> QED
    BY <1>6, <1>7, <2>1, <2>2
<1>9. /\ DOMAIN work' = WorkFields /\ work'.first = FALSE /\ work'.offset = base
      /\ work'.address = base + to /\ work'.code = Placed(work.code, from, Part(from, to))
  BY <1>5, <1>8 DEF WorkFields
<1>10. Placed(work.code, from, Part(from, to)) =
         [a \in 0 .. LenCode - 1 |-> IF a \in Got(file, base, k + 1) THEN Contents[a] ELSE 0]
  <2>1. work.code = [a \in 0 .. LenCode - 1 |->
                      IF a \in Got(file, base, k) THEN Contents[a] ELSE 0]
    BY <1>5, Zenon DEF TableHas
  <2>2. DOMAIN work.code = 0 .. LenCode - 1
    BY <2>1
  <2>3. Placed(work.code, from, Part(from, to)) =
          [a \in 0 .. LenCode - 1 |-> IF a \in from .. to - 1 THEN Part(from, to)[a - from + 1]
                                      ELSE work.code[a]]
    <3>1. from + Len(Part(from, to)) - 1 = to - 1
      <4>1. Len(Part(from, to)) = to - from
        BY <1>3, <1>4, PartIs
      <4> QED
        BY <1>4, <4>1
    <3> QED
      BY <2>2, <3>1, Zenon DEF Placed
  <2>4. \A a \in 0 .. LenCode - 1 :
          (IF a \in from .. to - 1 THEN Part(from, to)[a - from + 1] ELSE work.code[a])
            = (IF a \in Got(file, base, k + 1) THEN Contents[a] ELSE 0)
    <3>1. \A p \in from .. to - 1 : Part(from, to)[p - from + 1] = Contents[p]
      BY <1>3, <1>4, PartIs
    <3>2. Got(file, base, k + 1) = Got(file, base, k) \cup (from .. to - 1)
      BY <1>3
    <3> QED
      BY <2>1, <3>1, <3>2
  <2> QED
    BY <2>3, <2>4, Zenon
<1>11. \A p \in Got(file, base, k + 1) : p < to
  BY <1>3, <1>4
<1>12. TableHas(file, base, k + 1)'
  <2>1. ~(\A i \in 1 .. k + 1 : ~HasData(file[i]))
    BY <1>2
  <2> QED
    BY <1>3, <1>9, <1>10, <1>11, <2>1, Zenon DEF TableHas
<1> QED
  BY <1>1, <1>2, <1>9, <1>12, RestOfFile DEF Reads

\* The entries keep the addresses: those of this record, and those written before.
LEMMA MifStep ==
  ASSUME NEW file, NEW base, NEW k, Reads(file, base, k), MifRecord
  PROVE  Reads(file, base, k + 1)'
<1>1. ReadLine /\ HasData(Head(input)) /\ command.tool = "srec2mif"
  BY Zenon DEF MifRecord
<1>2. /\ k + 1 \in 0 .. Len(file) /\ input' = SubSeq(file, k + 1 + 1, Len(file))
      /\ command' = command /\ base \in Nat
  BY <1>1, RestOfFile
<1>3. PICK from \in Places, to \in Places :
        /\ Record(Head(input)) = [address |-> base + from, data |-> Part(from, to)]
        /\ from <= to
        /\ Got(file, base, k + 1) = Got(file, base, k) \cup (from .. to - 1)
  <2>1. \E from, to \in Places :
          /\ Record(Head(input)) = [address |-> base + from, data |-> Part(from, to)]
          /\ Lists(file[k + 1], base, from, to) /\ from <= to
          /\ Got(file, base, k + 1) = Got(file, base, k) \cup (from .. to - 1)
          /\ \A p \in from .. to - 1 : p \in DOMAIN Contents
          /\ (\A i \in 1 .. k : ~HasData(file[i])) => from = 0
          /\ \A p \in Got(file, base, k) : p < to
    BY <1>1, RecordAdds
  <2> QED
    BY <2>1, Zenon
<1>4. from \in Nat /\ to \in Nat
  BY ConstantFacts DEF Places
<1>5. MifHas(file, base, k) /\ DOMAIN work = WorkFields
  BY <1>1 DEF Reads
<1> DEFINE addresses == base + from .. base + to - 1
           byte(a) == Part(from, to)[a - (base + from) + 1]
<1>6. /\ DOMAIN work' = WorkFields
      /\ work'.entries = [a \in addresses \cup DOMAIN work.entries |->
                            IF a \in addresses THEN byte(a) ELSE work.entries[a]]
  <2> DEFINE r == Record(Head(input))
             places == r.address .. r.address + Len(r.data) - 1
  <2>1. r.address = base + from /\ r.data = Part(from, to)
    <3>1. r = [address |-> base + from, data |-> Part(from, to)]
      BY <1>3
    <3> QED
      BY <3>1
  <2>5. Len(Part(from, to)) = to - from
    BY <1>3, <1>4, PartIs
  <2>2. PICK more :
          work' = [work EXCEPT
            !.entries = [a \in places \cup DOMAIN work.entries |->
                           IF a \in places THEN r.data[a - r.address + 1] ELSE work.entries[a]],
            !.separators = more]
    BY Zenon DEF MifRecord
  <2> HIDE DEF r
  <2>3. places = addresses
    BY <1>2, <1>4, <2>1, <2>5
  <2>4. DOMAIN work' = WorkFields /\ work'.entries =
          [a \in places \cup DOMAIN work.entries |->
             IF a \in places THEN r.data[a - r.address + 1] ELSE work.entries[a]]
    <3> HIDE DEF places
    <3> QED
      BY <1>5, <2>2 DEF WorkFields
  <2> HIDE DEF places, addresses
  <2> QED
    BY <2>1, <2>3, <2>4
<1>7. \A a : a \in addresses <=> \E p \in from .. to - 1 : a = base + p
  <2>1. ASSUME NEW a \in addresses PROVE \E p \in from .. to - 1 : a = base + p
    <3>1. a - base \in from .. to - 1 /\ a = base + (a - base)
      BY <1>2, <1>4
    <3> QED
      BY <3>1
  <2>2. ASSUME NEW p \in from .. to - 1 PROVE base + p \in addresses
    BY <1>2, <1>4
  <2> HIDE DEF addresses
  <2> QED
    BY <2>1, <2>2, Zenon
<1>8. ASSUME NEW p \in from .. to - 1 PROVE byte(base + p) = Contents[p]
  <2>1. (base + p) - (base + from) + 1 = p - from + 1
    BY <1>2, <1>4
  <2>2. Part(from, to)[p - from + 1] = Contents[p]
    BY <1>3, <1>4, PartIs
  <2> QED
    BY <2>1, <2>2
<1> HIDE DEF addresses, byte
<1>9. /\ DOMAIN work'.entries = addresses \cup DOMAIN work.entries
      /\ \A a \in addresses : work'.entries[a] = byte(a)
      /\ \A a \in DOMAIN work.entries \ addresses : work'.entries[a] = work.entries[a]
  BY <1>6
<1>10. DOMAIN work'.entries = {base + p : p \in Got(file, base, k + 1)}
  BY <1>3, <1>5, <1>7, <1>9 DEF MifHas
<1>11. ASSUME NEW p \in Got(file, base, k + 1) PROVE work'.entries[base + p] = Contents[p]
  <2>0. p \in Nat
    BY ConstantFacts DEF Got
  <2>1. CASE base + p \in addresses
    <3>1. p \in from .. to - 1
      BY <1>2, <1>4, <1>7, <2>0, <2>1
    <3> QED
      BY <1>8, <1>9, <2>1, <3>1
  <2>2. CASE base + p \notin addresses
    <3>1. p \in Got(file, base, k)
      BY <1>3, <1>7, <2>2
    <3> QED
      BY <1>5, <1>9, <2>2, <3>1 DEF MifHas
  <2> QED
    BY <2>1, <2>2
<1> QED
  BY <1>1, <1>2, <1>6, <1>10, <1>11, RestOfFile DEF Reads, MifHas

\* At the end of the file all of the program has been read.
LEMMA AllRead ==
  ASSUME NEW file, NEW base, NEW k, Reads(file, base, k), input = <<>>
  PROVE  Got(file, base, k) = DOMAIN Contents
<1>1. /\ file \in Files /\ Listing(file, base) /\ k \in 0 .. Len(file)
      /\ Len(file) \in Nat /\ DOMAIN file = 1 .. Len(file)
  BY ConstantFacts DEF Reads
<1>2. k \in 0 .. Len(file) /\ Len(file) \in Nat /\ input = SubSeq(file, k + 1, Len(file))
  BY <1>1 DEF Reads
<1>3. k = Len(file)
  <2> SUFFICES ASSUME k < Len(file) PROVE FALSE
    BY <1>2
  <2>1. k + 1 \in 1 .. Len(file) /\ Len(file) \in k + 1 .. Len(file)
    BY <1>2
  <2>2. file \in Seq(Range(file))
    BY <1>1, FileAssumption
  <2>3. Len(SubSeq(file, k + 1, Len(file))) = Len(file) - (k + 1) + 1
    BY <1>2, <2>1, <2>2, SubSeqProperties
  <2>4. Len(SubSeq(file, k + 1, Len(file))) = 0
    <3>1. Len(<<>>) = 0
      OBVIOUS
    <3> QED
      BY <1>2, <3>1, Zenon
  <2> QED
    BY <1>2, <2>3, <2>4
<1>4. ASSUME NEW p \in DOMAIN Contents PROVE p \in Got(file, base, k)
  BY <1>1, <1>3, <1>4, Zenon DEF Listing, Got
<1> QED
  BY <1>4 DEF Got

-----------------------------------------------------------------------------
(* What is written *)

\* Where byte a of the ROM is in a table of elements of size bytes.
LEMMA Element ==
  ASSUME NEW size \in {1, 2, 4}, NEW bytes \in Nat, NEW a \in Nat
  PROVE  /\ (a % size) + 1 \in 1 .. size
         /\ (a \div size) * size + ((a % size) + 1) - 1 = a
         /\ a < bytes => a \div size \in 0 .. ((bytes + size - 1) \div size) - 1
<1>1. CASE size = 1
  BY <1>1
<1>2. CASE size = 2
  BY <1>2
<1>3. CASE size = 4
  BY <1>3
<1> QED
  BY <1>1, <1>2, <1>3

\* The table is long enough, and the processor finds byte a where Element says.
LEMMA VhdlWrites ==
  ASSUME Transcribed, VhdlWritten
  PROVE  Transcribed'
<1>1. stage = "reading" /\ input = <<>> /\ command.tool = "srec2vhdl" /\ stage' = "built"
      /\ rom' = VhdlRom(VhdlEntries, VhdlSize)
  BY Zenon DEF VhdlWritten, Written
<1>2. PICK file \in Files, base \in Bases, k \in Nat : Reads(file, base, k)
  BY <1>1 DEF Transcribed
<1>3. TableHas(file, base, k) /\ Got(file, base, k) = DOMAIN Contents /\ base \in Nat
  BY <1>1, <1>2, AllRead, ConstantFacts DEF Reads
<1> DEFINE size  == VhdlSize
           bytes == Least(work.address - work.offset, LenCode)
<1>4. size \in {1, 2, 4}
  BY DEF VhdlSize
<1>5. bytes \in Nat /\ \A p \in DOMAIN Contents : p < bytes
  <2>1. CASE work.first
    <3>1. \A i \in 1 .. k : ~HasData(file[i])
      BY <1>3, <2>1, Zenon DEF TableHas
    <3>2. DOMAIN Contents = {}
      <4>1. \A i \in 1 .. k : \A from, to : ~Lists(file[i], base, from, to)
        BY <3>1, Zenon DEF Lists
      <4>2. Got(file, base, k) = {}
        BY <4>1, Zenon DEF Got
      <4> QED
        BY <1>3, <4>2
    <3>3. work.address - work.offset = 0
      BY <1>3, <2>1 DEF TableHas
    <3> QED
      BY <3>2, <3>3, ConstantFacts DEF Least
  <2>2. CASE ~work.first
    <3>1. PICK end \in Places : /\ work.address = base + end /\ work.offset = base
                                /\ \A p \in DOMAIN Contents : p < end
      BY <1>3, <2>2 DEF TableHas
    <3>2. end \in Nat /\ work.address - work.offset = end
      BY <1>3, <3>1, ConstantFacts DEF Places
    <3> QED
      BY <3>1, <3>2, ConstantFacts DEF Least
  <2> QED
    BY <2>1, <2>2
<1>6. ASSUME NEW a \in 0 .. RomSize - 1
      PROVE  rom'[a] = IF a \in DOMAIN Contents THEN Contents[a] ELSE 0
  <2> DEFINE e == a \div size
             j == (a % size) + 1
             count == (bytes + size - 1) \div size
  <2>1. a \in Nat /\ a \in 0 .. LenCode - 1
    BY ConstantFacts
  <2>2. work.code[a] = IF a \in DOMAIN Contents THEN Contents[a] ELSE 0
    BY <1>3, <2>1 DEF TableHas
  <2>3. VhdlEntries = [i \in 0 .. count - 1 |-> [n \in 1 .. size |-> work.code[i * size + n - 1]]]
    BY Zenon DEF VhdlEntries
  <2> HIDE DEF size, bytes
  <2>4. j \in 1 .. size /\ e * size + j - 1 = a /\ (a < bytes => e \in 0 .. count - 1)
    BY <1>4, <1>5, <2>1, Element
  <2>5. rom'[a] = IF e \in DOMAIN VhdlEntries THEN VhdlEntries[e][j] ELSE 0
    BY <1>1 DEF VhdlRom, size
  <2> HIDE DEF e, j, count
  <2>6. e \in 0 .. count - 1 => VhdlEntries[e][j] = work.code[a]
    BY <2>3, <2>4
  <2>7. DOMAIN VhdlEntries = 0 .. count - 1
    BY <2>3
  <2>8. CASE a \in DOMAIN Contents
    <3>1. e \in 0 .. count - 1
      BY <1>5, <2>4, <2>8
    <3> QED
      BY <2>2, <2>5, <2>6, <2>7, <2>8, <3>1, Zenon
  <2>9. CASE a \notin DOMAIN Contents
    BY <2>2, <2>5, <2>6, <2>7, <2>9, Zenon
  <2> QED
    BY <2>8, <2>9
<1> QED
  BY <1>1, <1>6, Zenon DEF Transcribed, RomIsProgram

\* Entries that all lie in the ROM are those of a program with base 0.
LEMMA MifWrites ==
  ASSUME Transcribed, MifWritten
  PROVE  Transcribed'
<1> DEFINE readable == work.separators \subseteq {":"} /\ DOMAIN work.entries \subseteq DOMAIN rom
<1>1. /\ stage = "reading" /\ input = <<>> /\ command.tool = "srec2mif"
      /\ stage' = IF readable THEN "built" ELSE "failed"
      /\ rom' = [a \in DOMAIN rom |->
                  IF readable /\ a \in DOMAIN work.entries THEN work.entries[a] ELSE rom[a]]
  BY Zenon DEF MifWritten, Written
<1>2. PICK file \in Files, base \in Bases, k \in Nat : Reads(file, base, k)
  BY <1>1 DEF Transcribed
<1>3. /\ DOMAIN work.entries = {base + p : p \in DOMAIN Contents}
      /\ \A p \in DOMAIN Contents : work.entries[base + p] = Contents[p]
  <2>1. MifHas(file, base, k) /\ Got(file, base, k) = DOMAIN Contents
    BY <1>1, <1>2, AllRead DEF Reads
  <2> QED
    BY <2>1, Zenon DEF MifHas
<1>4. rom = [a \in 0 .. RomSize - 1 |-> 0]
  BY <1>1, Zenon DEF Transcribed
<1>5. base \in Nat /\ (base = 0 \/ base >= RomSize)
      /\ \A p \in DOMAIN Contents : p \in 0 .. RomSize - 1
  BY ImageAssumption
<1>6. ASSUME readable, NEW a \in 0 .. RomSize - 1
      PROVE  rom'[a] = IF a \in DOMAIN Contents THEN Contents[a] ELSE 0
  <2>1. \A p \in DOMAIN Contents : base + p \in 0 .. RomSize - 1
    BY <1>3, <1>4, <1>6
  <2>2. rom'[a] = IF a \in DOMAIN work.entries THEN work.entries[a] ELSE 0
    BY <1>1, <1>4, <1>6
  <2>3. CASE base = 0
    <3>1. \A p \in DOMAIN Contents : base + p = p
      BY <1>5, <2>3
    <3>2. DOMAIN work.entries = DOMAIN Contents
      BY <1>3, <3>1
    <3> QED
      BY <1>3, <2>2, <3>1, <3>2
  <2>4. CASE base >= RomSize
    <3>1. DOMAIN Contents = {}
      <4> SUFFICES ASSUME NEW p \in DOMAIN Contents PROVE FALSE
        OBVIOUS
      <4>1. RomSize \in Nat /\ p \in 0 .. RomSize - 1 /\ base + p \in 0 .. RomSize - 1
        BY <1>5, <2>1, ConstantFacts
      <4> QED
        BY <1>5, <2>4, <4>1
    <3> QED
      BY <1>3, <2>2, <3>1
  <2> QED
    BY <1>5, <2>3, <2>4
<1> QED
  <2> HIDE DEF readable
  <2>1. stage' \notin {"shell", "reading"} /\ (stage' = "built" => readable)
    BY <1>1
  <2> QED
    BY <1>6, <2>1, Zenon DEF Transcribed, RomIsProgram

\* The tools start with the whole file before them.
LEMMA StartStep ==
  ASSUME Transcribed, Start
  PROVE  Transcribed'
<1>1. stage = "shell" /\ stage' \in {"reading", "failed"}
      /\ UNCHANGED <<command, input, work, rom>>
  BY DEF Start
<1>2. input \in Files /\ work = NoWork /\ rom = [a \in 0 .. RomSize - 1 |-> 0]
  BY <1>1 DEF Transcribed
<1>3. PICK base \in Bases : Listing(input, base)
  BY <1>2, FileAssumption
<1>4. Got(input, base, 0) = {} /\ \A i \in 1 .. 0 : ~HasData(input[i])
  BY DEF Got
<1>5. /\ DOMAIN work' = WorkFields /\ work'.first = TRUE /\ work'.offset = 0
      /\ work'.address = 0 /\ work'.code = [a \in 0 .. LenCode - 1 |-> 0]
      /\ work'.entries = <<>>
  BY <1>1, <1>2 DEF NoWork, WorkFields
<1>6. Reads(input, base, 0)'
  <2>1. TableHas(input, base, 0)'
    BY <1>1, <1>4, <1>5 DEF TableHas
  <2>2. MifHas(input, base, 0)'
    BY <1>1, <1>4, <1>5 DEF MifHas
  <2>3. input \in Seq(Range(input)) /\ Len(input) \in Nat
    BY <1>2, FileAssumption
  <2>4. input = SubSeq(input, 0 + 1, Len(input)) /\ 0 \in 0 .. Len(input)
    BY <2>3, SubSeqFull
  <2> QED
    BY <1>1, <1>2, <1>3, <1>5, <2>1, <2>2, <2>4 DEF Reads
<1> QED
  BY <1>1, <1>2, <1>6 DEF Transcribed, RomIsProgram

\* Every step of the tools keeps what they have right.
LEMMA ToolsStep ==
  ASSUME Transcribed, [ImageNext]_image
  PROVE  Transcribed'
<1>1. ASSUME SkipLine \/ VhdlRecord \/ MifRecord PROVE Transcribed'
  <2>1. stage = "reading" /\ stage' = stage /\ rom' = rom
    BY <1>1, Zenon DEF SkipLine, VhdlRecord, MifRecord, ReadLine
  <2>2. PICK file \in Files, base \in Bases, k \in Nat : Reads(file, base, k)
    BY <2>1 DEF Transcribed
  <2>3. Reads(file, base, k + 1)'
    BY <1>1, <2>2, SkipStep, VhdlStep, MifStep
  <2> QED
    BY <2>1, <2>3, k + 1 \in Nat DEF Transcribed, RomIsProgram
<1>2. CASE UNCHANGED image
  BY <1>2 DEF image, Transcribed, Reads, TableHas, MifHas, RomIsProgram
<1> QED
  BY <1>1, <1>2, StartStep, VhdlWrites, MifWrites DEF ImageNext

LEMMA ToolsInit == ImageInit => Transcribed
BY DEF ImageInit, Transcribed, RomIsProgram

\* Whatever its records and the options, a tool that does not fail makes a ROM of
\* the program, with every byte at its place and nothing else (srec2vhdl.c:145-369,
\* srec2mif.c:166-251): the table ends behind the last byte of the program, and what
\* the processor reads as a memory initialisation file has the program's addresses.
THEOREM RomIsRight ==
  ImageInit /\ [][ImageNext]_image => []RomIsProgram
<1>1. Transcribed => RomIsProgram
  BY DEF Transcribed
<1> QED
  BY <1>1, ToolsInit, ToolsStep, PTL

-----------------------------------------------------------------------------
(* The start-up code *)

\* What has been cleared and copied below an address.
Cleared(r, end) == \A a \in Sbss .. end - 1 : r[a] = 0
Copied(r, end)  == \A a \in Sdata .. end - 1 : r[a] = Contents[RomToCopy + a - Sdata]

\* The inductive invariant.  pStart and pdRom go on in step, and never beyond
\* the end of their loop.
Progress ==
  /\ ram \in [Ram -> Int]
  /\ at # "off" => stage = "built"
  /\ at = "bss" => /\ pointer = [start |-> pointer.start, rom |-> RomToCopy]
                   /\ pointer.start \in Sbss .. Ebss
                   /\ Cleared(ram, pointer.start)
  /\ at = "data" => /\ pointer = [start |-> pointer.start,
                                  rom |-> RomToCopy + pointer.start - Sdata]
                    /\ pointer.start \in Sdata .. Edata
                    /\ Cleared(ram, Ebss) /\ Copied(ram, pointer.start)
  /\ at = "main" => Cleared(ram, Ebss) /\ Copied(ram, Edata)

\* The layout is made of numbers, in the order of the linker script.
LEMMA Layout ==
  /\ Sdata \in Nat /\ Edata \in Nat /\ Sbss \in Nat /\ Ebss \in Nat /\ RomToCopy \in Nat
  /\ Sdata <= Edata /\ Edata <= Sbss /\ Sbss <= Ebss
  /\ \A a \in Sdata .. Edata - 1 : RomToCopy + a - Sdata \in DOMAIN Contents
BY LayoutAssumption

\* A ROM that is the program holds the initial values where the start-up code
\* looks for them.
LEMMA RomHoldsData ==
  ASSUME RomIsProgram, stage = "built", NEW a \in Sdata .. Edata - 1
  PROVE  /\ rom[RomToCopy + a - Sdata] = Contents[RomToCopy + a - Sdata]
         /\ Contents[RomToCopy + a - Sdata] \in Int
<1>1. RomToCopy + a - Sdata \in DOMAIN Contents
  BY Layout
<1>2. RomToCopy + a - Sdata \in 0 .. RomSize - 1
  BY <1>1, ImageAssumption
<1> QED
  BY <1>1, <1>2, ConstantFacts DEF RomIsProgram

\* One byte more is cleared.
LEMMA ClearStep ==
  ASSUME Progress, ClearBss
  PROVE  Progress'
<1>1. pointer.start \in Sbss .. Ebss - 1
  BY Layout DEF Progress, ClearBss
<1>2. pointer.start \in Ram
  BY <1>1, Layout DEF Ram
<1>3. ram' \in [Ram -> Int]
  BY <1>2 DEF Progress, ClearBss
<1>4. pointer' = [start |-> pointer.start + 1, rom |-> RomToCopy]
  BY DEF Progress, ClearBss
<1>5. \A a \in Sbss .. pointer.start : ram'[a] = 0
  BY <1>1, <1>2, Layout DEF Progress, ClearBss, Cleared, Ram
<1>6. Cleared(ram', pointer.start + 1)
  BY <1>1, <1>5, Layout DEF Cleared
<1> QED
  BY <1>1, <1>3, <1>4, <1>6, Layout DEF Progress, ClearBss, image

\* One byte more is copied; what is cleared lies behind it.
LEMMA CopyStep ==
  ASSUME Progress, RomIsProgram, CopyData
  PROVE  Progress'
<1>1. pointer.start \in Sdata .. Edata - 1 /\ stage = "built"
  BY Layout DEF Progress, CopyData, MoreToCopy
<1>2. pointer.start \in Ram
  BY <1>1, Layout DEF Ram
<1> DEFINE value == Contents[RomToCopy + pointer.start - Sdata]
<1>3. rom[pointer.rom] = value /\ value \in Int
  <2>1. pointer.rom = RomToCopy + pointer.start - Sdata
    BY DEF Progress, CopyData
  <2> QED
    BY <1>1, <2>1, RomHoldsData
<1>4. ram' = [ram EXCEPT ![pointer.start] = value]
  BY <1>3 DEF CopyData
<1>5. ram' \in [Ram -> Int]
  BY <1>2, <1>3, <1>4 DEF Progress
<1>6. pointer' = [start |-> pointer.start + 1, rom |-> RomToCopy + (pointer.start + 1) - Sdata]
  <2>1. pointer.rom + 1 = RomToCopy + (pointer.start + 1) - Sdata
    BY <1>1, Layout DEF Progress, CopyData
  <2> QED
    BY <2>1 DEF CopyData
<1>7. Cleared(ram', Ebss)
  BY <1>1, <1>4, Layout DEF Progress, CopyData, Cleared, Ram
<1>8. Copied(ram', pointer.start + 1)
  <2> SUFFICES ASSUME NEW a \in Sdata .. pointer.start
               PROVE  ram'[a] = Contents[RomToCopy + a - Sdata]
    BY <1>1, Layout DEF Copied
  <2>1. CASE a = pointer.start
    BY <2>1, <1>2, <1>4 DEF Progress
  <2>2. CASE a # pointer.start
    BY <2>2, <1>1, <1>2, <1>4, Layout DEF Progress, CopyData, Copied, Ram
  <2> QED
    BY <2>1, <2>2
<1>9. at = "data" /\ UNCHANGED <<stage, at>>
  BY DEF CopyData, image
<1> QED
  BY <1>1, <1>5, <1>6, <1>7, <1>8, <1>9, Layout DEF Progress

\* Each loop ends behind its last byte.
LEMMA LoopsEnd ==
  ASSUME Progress, BssCleared \/ CallMain
  PROVE  Progress'
<1>1. CASE BssCleared
  <2>1. pointer.start = Ebss /\ pointer.rom = RomToCopy
    BY <1>1, Layout DEF Progress, BssCleared
  <2>2. pointer' = [start |-> Sdata, rom |-> RomToCopy + Sdata - Sdata]
    BY <1>1, <2>1, Layout DEF Progress, BssCleared
  <2>3. Cleared(ram, Ebss) /\ Copied(ram, Sdata)
    BY <1>1, <2>1, Layout DEF Progress, BssCleared, Copied
  <2> QED
    BY <1>1, <2>2, <2>3, Layout DEF Progress, BssCleared, image
<1>2. CASE CallMain
  <2>1. pointer.start = Edata
    BY <1>2, Layout DEF Progress, CallMain, MoreToCopy
  <2> QED
    BY <1>2, <2>1, Layout DEF Progress, CallMain, image
<1> QED
  BY <1>1, <1>2

\* Every step of the start-up keeps what it has cleared and copied.
LEMMA ProgressStep ==
  ASSUME Progress, RomIsProgram,
         [MakeRom \/ StartupNext \/ ResetCore \/ ProgramRuns]_startup
  PROVE  Progress'
<1>1. CASE MakeRom
  BY <1>1 DEF Progress, MakeRom
<1>2. CASE PowerOn
  <2>1. ram' \in [Ram -> Int]
    BY <1>2, GarbageAssumption DEF PowerOn
  <2> QED
    BY <1>2, <2>1 DEF Progress, PowerOn, image
<1>3. CASE EnterStart
  BY <1>3, Layout DEF Progress, EnterStart, Cleared, image
<1>4. CASE ClearBss
  BY <1>4, ClearStep
<1>5. CASE CopyData
  BY <1>5, CopyStep
<1>6. CASE BssCleared \/ CallMain
  BY <1>6, LoopsEnd
<1>7. CASE ResetCore
  BY <1>7 DEF Progress, ResetCore, ResetTo, image
<1>8. CASE ProgramRuns
  BY <1>8 DEF Progress, ProgramRuns, image
<1>9. CASE UNCHANGED startup
  BY <1>9 DEF Progress, startup, image, Cleared, Copied
<1> QED
  BY <1>1, <1>2, <1>3, <1>4, <1>5, <1>6, <1>7, <1>8, <1>9 DEF StartupNext

\* The ROM is made once.
LEMMA RomStays ==
  ASSUME Transcribed, [MakeRom \/ StartupNext \/ ResetCore \/ ProgramRuns]_startup
  PROVE  RomIsProgram /\ Transcribed'
<1>1. [ImageNext]_image
  BY DEF MakeRom, StartupNext, PowerOn, EnterStart, ClearBss, BssCleared, CopyData,
         CallMain, ResetCore, ResetTo, ProgramRuns, startup
<1> QED
  BY <1>1, ToolsStep DEF Transcribed

\* The copying loop and the clearing loop of _start are right for every layout,
\* whatever the RAM holds and wherever resets hit (startup.c:55-70).
THEOREM DataInitialised ==
  StartupSpec => []MainFindsItsData
<1>1. ImageInit /\ StartupInit => Progress
  BY DEF StartupInit, Progress
<1>2. Progress => MainFindsItsData
  BY DEF Progress, MainFindsItsData, Cleared, Copied
<1>3. Transcribed /\ [MakeRom \/ StartupNext \/ ResetCore \/ ProgramRuns]_startup
        => RomIsProgram /\ Transcribed'
  BY RomStays
<1> QED
  BY <1>1, <1>2, <1>3, ProgressStep, ToolsInit, PTL DEF StartupSpec
=============================================================================
