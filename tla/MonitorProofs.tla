---------------------------- MODULE MonitorProofs ----------------------------
(***************************************************************************)
(* The monitors, for every set of commands written as the help texts say,  *)
(* every size of the buffer, every memory and every typing: a command      *)
(* changes the bytes it names to its data and nothing else, and what is    *)
(* printed are the bytes of the memory.                                    *)
(*                                                                         *)
(* The part about usart_gets is also for callers that print anything else  *)
(* into the buffer between two lines (EditorSpec).                         *)
(***************************************************************************)
EXTENDS Monitor, FiniteSetTheorems, TLAPS

-----------------------------------------------------------------------------
(* usart_gets *)

USE DEF Nul, EndKeys, EraseKeys, ControlU, ControlC

\* The index stays inside the buffer, whatever the buffer holds.
EditorShape ==
  /\ buffer = [i \in 0 .. Size - 1 |-> buffer[i]]
  /\ index \in 0 .. Size - 1
  /\ screen \in Seq(Printable)

EditorInv == EditorTypeOK /\ ScreenShowsLine /\ LineTerminated

\* The keys that take characters away.
LEMMA ErasingKeeps ==
  ASSUME EditorShape, ScreenShowsLine, UNCHANGED buffer, index' \in 0 .. index,
         screen' = [i \in 1 .. index' |-> screen[i]]
  PROVE  EditorShape' /\ ScreenShowsLine'
<1>1. screen \in Seq(Printable) /\ index' \in 0 .. Len(screen) /\ Len(screen) = index
  BY DEF EditorShape, ScreenShowsLine
<1>2. /\ screen' \in Seq(Printable) /\ Len(screen') = index'
      /\ \A i \in 1 .. index' : screen'[i] = screen[i]
  BY <1>1
<1>3. \A i \in 1 .. Len(screen') : screen'[i] = buffer[i - 1]
  BY <1>1, <1>2 DEF ScreenShowsLine
<1>4. index' \in 0 .. Size - 1 /\ buffer' = [i \in 0 .. Size - 1 |-> buffer'[i]]
  BY EditorAssumption DEF EditorShape
<1> QED
  BY <1>2, <1>3, <1>4 DEF EditorShape, ScreenShowsLine

\* Every key leaves the screen showing the line (monitor.c:64-98).
LEMMA KeyKeepsLine ==
  ASSUME EditorShape, ScreenShowsLine, NEW chr, usart_gets(chr)
  PROVE  EditorShape' /\ ScreenShowsLine'
<1>0. /\ index \in 0 .. Size - 1 /\ screen \in Seq(Printable) /\ Len(screen) = index
      /\ \A i \in 1 .. Len(screen) : screen[i] = buffer[i - 1]
      /\ Size \in Nat \ {0}
  BY EditorAssumption DEF EditorShape, ScreenShowsLine
<1>1. CASE EndLine(chr)
  <2>1. /\ buffer' = [buffer EXCEPT ![index] = Nul]
        /\ index' = index /\ screen' = screen
    BY <1>1 DEF EndLine
  <2>2. buffer' = [i \in 0 .. Size - 1 |-> IF i = index THEN Nul ELSE buffer[i]]
    BY <1>0, <2>1 DEF EditorShape
  <2>3. buffer' = [i \in 0 .. Size - 1 |-> buffer'[i]]
    BY <2>2
  <2>4. \A i \in 1 .. Len(screen') : screen'[i] = buffer'[i - 1]
    <3> SUFFICES ASSUME NEW i \in 1 .. Len(screen') PROVE screen'[i] = buffer'[i - 1]
      OBVIOUS
    <3>1. i - 1 \in 0 .. Size - 1 /\ i - 1 # index
      BY <1>0, <2>1
    <3> QED
      BY <1>0, <2>1, <2>2, <3>1
  <2> QED
    BY <1>0, <2>1, <2>3, <2>4 DEF EditorShape, ScreenShowsLine
<1>2. CASE Erase(chr)
  <2>1. CASE index > 0
    BY <1>0, <1>2, <2>1, ErasingKeeps DEF Erase, Erased
  <2>2. CASE ~(index > 0)
    <3>1. UNCHANGED <<buffer, index, screen>>
      BY <1>2, <2>2 DEF Erase
    <3> QED
      BY <1>0, <3>1 DEF EditorShape, ScreenShowsLine
  <2> QED
    BY <2>1, <2>2
<1>3. CASE EraseLine(chr)
  BY <1>0, <1>3, ErasingKeeps DEF EraseLine, Erased
<1>4. CASE Break(chr)
  <2>1. screen' = <<>> /\ index' = 0 /\ UNCHANGED buffer
    BY <1>4 DEF Break
  <2>2. screen' \in Seq(Printable) /\ Len(screen') = 0
    BY <2>1
  <2> QED
    BY <1>0, <2>1, <2>2, EditorAssumption DEF EditorShape, ScreenShowsLine
<1>5. CASE Insert(chr)
  <2>1. CASE HasRoom /\ chr \in Printable
    <3>1. /\ buffer' = [buffer EXCEPT ![index] = chr] /\ index' = index + 1
          /\ screen' = Append(screen, chr)
      BY <1>5, <2>1 DEF Insert
    <3>2. index < Size - 1
      BY <2>1 DEF HasRoom
    <3>3. /\ screen' \in Seq(Printable) /\ Len(screen') = index + 1
          /\ \A i \in 1 .. index : screen'[i] = screen[i]
          /\ screen'[index + 1] = chr
      BY <1>0, <2>1, <3>1
    <3>4. buffer' = [i \in 0 .. Size - 1 |-> IF i = index THEN chr ELSE buffer[i]]
      BY <1>0, <3>1 DEF EditorShape
    <3>5. \A i \in 1 .. Len(screen') : screen'[i] = buffer'[i - 1]
      <4> SUFFICES ASSUME NEW i \in 1 .. Len(screen') PROVE screen'[i] = buffer'[i - 1]
        OBVIOUS
      <4>1. i - 1 \in 0 .. Size - 1
        BY <1>0, <3>2, <3>3
      <4>2. CASE i = index + 1
        <5>1. i - 1 = index
          BY <1>0, <4>2
        <5> QED
          BY <3>3, <3>4, <4>1, <4>2, <5>1
      <4>3. CASE i # index + 1
        <5>1. i \in 1 .. index /\ i - 1 # index
          BY <1>0, <3>3, <4>3
        <5> QED
          BY <1>0, <3>3, <3>4, <4>1, <5>1
      <4> QED
        BY <4>2, <4>3
    <3>6. buffer' = [i \in 0 .. Size - 1 |-> buffer'[i]]
      BY <3>4
    <3>7. index' \in 0 .. Size - 1
      BY <1>0, <3>1, <3>2, EditorAssumption
    <3> QED
      BY <3>1, <3>3, <3>5, <3>6, <3>7 DEF EditorShape, ScreenShowsLine
  <2>2. CASE ~(HasRoom /\ chr \in Printable)
    <3>1. UNCHANGED <<buffer, index, screen>>
      BY <1>5, <2>2 DEF Insert
    <3> QED
      BY <1>0, <3>1 DEF EditorShape, ScreenShowsLine
  <2> QED
    BY <2>1, <2>2
<1> QED
  BY <1>1, <1>2, <1>3, <1>4, <1>5 DEF usart_gets

\* So does the caller, who asks for a new line.
LEMMA CallKeepsLine ==
  ASSUME EditorShape, Called, buffer' = [i \in 0 .. Size - 1 |-> buffer'[i]]
  PROVE  EditorShape' /\ ScreenShowsLine'
<1>1. screen' = <<>> /\ screen' \in Seq(Printable) /\ Len(screen') = 0 /\ index' = 0
  BY DEF Called
<1> QED
  BY <1>1, EditorAssumption DEF EditorShape, ScreenShowsLine

\* With a buffer of characters, an insertion leaves the last place alone, and a
\* line that is returned is terminated where the screen ends.
LEMMA KeyKeepsInv ==
  ASSUME EditorInv, NEW chr \in Keys, usart_gets(chr)
  PROVE  EditorInv'
<1> DEFINE Cell == Printable \cup {Nul}
<1>0. /\ buffer \in [0 .. Size - 1 -> Cell] /\ index \in 0 .. Size - 1
      /\ buffer[Size - 1] = Nul /\ reading = TRUE /\ Size \in Nat \ {0}
      /\ ScreenShowsLine
  BY EditorAssumption
  DEF EditorInv, EditorTypeOK, LineTerminated, usart_gets
<1>1. EditorShape' /\ ScreenShowsLine'
  <2>1. EditorShape
    BY DEF EditorInv, EditorTypeOK, EditorShape
  <2> QED
    BY <1>0, <2>1, KeyKeepsLine
<1>2. /\ buffer' \in [0 .. Size - 1 -> Cell] /\ reading' \in BOOLEAN
      /\ buffer'[Size - 1] = Nul
      /\ ~reading' => buffer'[index'] = Nul
  <2>1. CASE EndLine(chr)
    <3>1. /\ buffer' = [buffer EXCEPT ![index] = Nul]
          /\ reading' = FALSE /\ index' = index
      BY <2>1 DEF EndLine
    <3>2. buffer' \in [0 .. Size - 1 -> Cell] /\ buffer'[index] = Nul
      BY <1>0, <3>1
    <3>3. buffer'[Size - 1] = Nul
      BY <1>0, <3>1
    <3> QED
      BY <3>1, <3>2, <3>3
  <2>2. CASE UNCHANGED <<buffer, reading>>
    BY <1>0, <2>2
  <2>3. CASE Insert(chr) /\ HasRoom /\ chr \in Printable
    BY <1>0, <2>3 DEF Insert, HasRoom
  <2> QED
    BY <2>1, <2>2, <2>3 DEF usart_gets, Erase, EraseLine, Break, Insert
<1> QED
  BY <1>1, <1>2 DEF EditorInv, EditorTypeOK, EditorShape, LineTerminated

\* usart_gets never leaves its buffer, what the terminal shows is what the
\* caller gets, and the line is terminated (monitor.c:58-102).
THEOREM EditorCorrect ==
  EditorSpec => [](EditorTypeOK /\ ScreenShowsLine /\ LineTerminated)
<1>1. EditorInit => EditorInv
  BY EditorAssumption
  DEF EditorInit, EditorInv, EditorTypeOK, ScreenShowsLine, LineTerminated
<1>2. EditorInv /\ [EditorNext]_editor => EditorInv'
  <2> SUFFICES ASSUME EditorInv, [EditorNext]_editor
               PROVE  EditorInv'
    OBVIOUS
  <2>1. CASE \E chr \in Keys : usart_gets(chr)
    BY <2>1, KeyKeepsInv
  <2>2. CASE UNCHANGED editor
    BY <2>2 DEF editor, EditorInv, EditorTypeOK, ScreenShowsLine, LineTerminated
  <2>3. CASE /\ Called
             /\ buffer' \in {b \in [0 .. Size - 1 -> Printable \cup {Nul}] : b[Size - 1] = Nul}
    <3>1. EditorShape /\ buffer' = [i \in 0 .. Size - 1 |-> buffer'[i]]
      BY <2>3 DEF EditorInv, EditorTypeOK, EditorShape
    <3>2. EditorShape' /\ ScreenShowsLine'
      BY <2>3, <3>1, CallKeepsLine
    <3> QED
      BY <2>3, <3>2 DEF Called, EditorInv, EditorTypeOK, EditorShape, LineTerminated
  <2> QED
    BY <2>1, <2>2, <2>3 DEF EditorNext
<1> QED
  BY <1>1, <1>2, PTL DEF EditorSpec, EditorInv

-----------------------------------------------------------------------------
(* Looking at the buffer *)

\* The line is in the buffer, with its terminator; behind it can be anything.
InBuffer(line) ==
  /\ line \in Seq(Printable) /\ Len(line) < Size
  /\ \A k \in 1 .. Len(line) : buffer[k - 1] = line[k]
  /\ buffer[Len(line)] = Nul

\* The terminator and the blank are no digits.
LEMMA NoDigits ==
  /\ Nul \notin HexDigits /\ Space \notin HexDigits /\ Nul # Space
  /\ Nul \notin Printable
<1>1. DOMAIN Digits = 1 .. 16
  BY DEF Digits
<1>2. ASSUME NEW x \in 1 .. 16 PROVE Digits[x] # "nul" /\ Digits[x] # " "
  <2>1. x \in {1, 2, 3, 4, 5, 6, 7, 8, 9, 10, 11, 12, 13, 14, 15, 16}
    OBVIOUS
  <2>2. /\ Digits[1] = "0" /\ Digits[2] = "1" /\ Digits[3] = "2" /\ Digits[4] = "3"
        /\ Digits[5] = "4" /\ Digits[6] = "5" /\ Digits[7] = "6" /\ Digits[8] = "7"
        /\ Digits[9] = "8" /\ Digits[10] = "9" /\ Digits[11] = "a" /\ Digits[12] = "b"
        /\ Digits[13] = "c" /\ Digits[14] = "d" /\ Digits[15] = "e" /\ Digits[16] = "f"
    BY DEF Digits
  <2> QED
    BY <2>1, <2>2
<1>3. Nul \notin HexDigits /\ Space \notin HexDigits
  BY <1>1, <1>2, Zenon DEF HexDigits, Range, Nul, Space
<1> QED
  BY <1>3, EditorAssumption DEF Nul, Space

\* Where a search ends, if it has an end.
LEMMA FirstIs ==
  ASSUME NEW i \in Nat, NEW j \in i .. Size, NEW chars,
         j = Size \/ buffer[j] \in chars,
         \A k \in i .. j - 1 : buffer[k] \notin chars
  PROVE  First(i, chars) = j
<1> DEFINE IsFirst(x) ==
             /\ x = Size \/ buffer[x] \in chars
             /\ \A k \in i .. x - 1 : buffer[k] \notin chars
<1> USE EditorAssumption
<1>1. IsFirst(j)
  OBVIOUS
<1>2. ASSUME NEW x \in i .. Size, IsFirst(x) PROVE x = j
  <2>1. CASE x < j
    <3>1. x \in i .. j - 1 /\ x # Size
      BY <2>1
    <3> QED
      BY <1>2, <3>1
  <2>2. CASE j < x
    <3>1. j \in i .. x - 1 /\ j # Size
      BY <2>2
    <3> QED
      BY <1>2, <3>1
  <2> QED
    BY <2>1, <2>2
<1>3. First(i, chars) = CHOOSE x \in i .. Size : IsFirst(x)
  BY DEF First
<1> HIDE DEF IsFirst
<1> QED
  BY <1>1, <1>2, <1>3

\* Where all characters are digits, HexBetween is the part of the line.
LEMMA HexIs ==
  ASSUME NEW line, InBuffer(line), NEW i \in 0 .. Len(line), NEW j \in i .. Len(line),
         Consists(line, i + 1, j, HexDigits)
  PROVE  HexBetween(i, j) = SubSeq(line, i + 1, j)
<1> DEFINE at == {k \in i .. j - 1 : buffer[k] \in HexDigits}
           nth(n) == CHOOSE k \in at : Cardinality(at \cap (i .. k)) = n
<1>1. line \in Seq(Printable) /\ Len(line) \in Nat
  BY DEF InBuffer
<1>2. \A k \in i .. j - 1 : buffer[k] = line[k + 1] /\ buffer[k] \in HexDigits
  <2> SUFFICES ASSUME NEW k \in i .. j - 1
               PROVE  buffer[k] = line[k + 1] /\ buffer[k] \in HexDigits
    OBVIOUS
  <2>1. k + 1 \in i + 1 .. j /\ k + 1 \in 1 .. Len(line) /\ (k + 1) - 1 = k
    BY <1>1
  <2>2. buffer[(k + 1) - 1] = line[k + 1]
    BY <2>1 DEF InBuffer
  <2> QED
    BY <2>1, <2>2 DEF Consists
<1>3. at = i .. j - 1
  BY <1>2
<1>4. Cardinality(at) = j - i
  <2>1. i \in Int /\ j - 1 \in Int
    BY <1>1
  <2>2. Cardinality(i .. j - 1) = IF i > j - 1 THEN 0 ELSE (j - 1) - i + 1
    BY <2>1, FS_Interval, Zenon
  <2>3. Cardinality(at) = Cardinality(i .. j - 1)
    BY <1>3
  <2> HIDE DEF at
  <2> QED
    BY <1>1, <2>2, <2>3
<1>5. ASSUME NEW k \in at PROVE Cardinality(at \cap (i .. k)) = k - i + 1
  <2>1. k \in i .. j - 1 /\ k \in Int /\ i \in Int
    BY <1>1, <1>3
  <2>2. at \cap (i .. k) = i .. k
    BY <1>1, <1>3, <2>1
  <2>3. Cardinality(i .. k) = IF i > k THEN 0 ELSE k - i + 1
    BY <2>1, FS_Interval, Zenon
  <2>4. Cardinality(at \cap (i .. k)) = Cardinality(i .. k)
    BY <2>2
  <2> HIDE DEF at
  <2> QED
    BY <1>1, <2>1, <2>3, <2>4
<1>6. ASSUME NEW n \in 1 .. j - i PROVE nth(n) = i + n - 1
  <2>1. i + n - 1 \in at
    BY <1>1, <1>3
  <2>2. Cardinality(at \cap (i .. i + n - 1)) = n
    <3>1. Cardinality(at \cap (i .. i + n - 1)) = (i + n - 1) - i + 1
      BY <2>1, <1>5
    <3> QED
      BY <3>1
  <2>3. ASSUME NEW k \in at, Cardinality(at \cap (i .. k)) = n PROVE k = i + n - 1
    <3>1. k - i + 1 = n /\ k \in Int
      BY <1>3, <1>5, <2>3
    <3> QED
      BY <3>1
  <2> HIDE DEF at
  <2> QED
    BY <2>1, <2>2, <2>3
<1>7. HexBetween(i, j) = [n \in 1 .. j - i |-> buffer[nth(n)]]
  BY <1>4 DEF HexBetween
<1>8. ASSUME NEW n \in 1 .. j - i PROVE buffer[nth(n)] = line[(i + 1) + n - 1]
  <2>1. i + n - 1 \in i .. j - 1 /\ (i + n - 1) + 1 = (i + 1) + n - 1
    BY <1>1
  <2> QED
    BY <1>2, <1>6, <2>1
<1>9. SubSeq(line, i + 1, j) = [n \in 1 .. j - i |-> line[(i + 1) + n - 1]]
  BY <1>1
<1> HIDE DEF nth
<1> QED
  BY <1>7, <1>8, <1>9

-----------------------------------------------------------------------------
(* What the commands find in the buffer *)

\* The end of the line, for monitor.c.
LEMMA StrlenIs ==
  ASSUME NEW line, InBuffer(line)
  PROVE  strlen = Len(line)
<1>1. Len(line) \in 0 .. Size /\ line \in Seq(Printable)
  BY EditorAssumption DEF InBuffer
<1>2. \A k \in 0 .. Len(line) - 1 : buffer[k] \notin {Nul}
  <2> SUFFICES ASSUME NEW k \in 0 .. Len(line) - 1 PROVE buffer[k] # Nul
    OBVIOUS
  <2>1. k + 1 \in 1 .. Len(line) /\ (k + 1) - 1 = k
    BY <1>1
  <2>2. buffer[(k + 1) - 1] = line[k + 1]
    BY <2>1 DEF InBuffer
  <2>3. line[k + 1] \in Printable
    BY <1>1, <2>1
  <2> QED
    BY <2>1, <2>2, <2>3, NoDigits
<1>3. buffer[Len(line)] \in {Nul}
  BY DEF InBuffer
<1> QED
  BY <1>1, <1>2, <1>3, FirstIs DEF strlen

\* The letters of a command and the blank behind them.
LEMMA LettersAre ==
  ASSUME NEW c \in Commands, c.op # "other", InBuffer(c.line)
  PROVE  /\ strlen >= 4 /\ Letters(c) /\ Operands(c)
         /\ buffer[0] = c.op /\ buffer[1] \in DOMAIN Width /\ c.width = Width[buffer[1]]
         /\ buffer[2] = Space
<1>1. Len(c.line) >= 4 /\ Letters(c) /\ Operands(c) /\ Len(c.line) \in Nat
  BY CommandAssumption DEF InBuffer
<1>2. c.line[3] = Space
  BY <1>1 DEF Operands, Consists
<1>3. 1 \in 1 .. Len(c.line) /\ 2 \in 1 .. Len(c.line) /\ 3 \in 1 .. Len(c.line)
  BY <1>1
<1>4. buffer[1 - 1] = c.line[1] /\ buffer[2 - 1] = c.line[2] /\ buffer[3 - 1] = c.line[3]
  BY <1>3 DEF InBuffer
<1>5. 1 - 1 = 0 /\ 2 - 1 = 1 /\ 3 - 1 = 2
  OBVIOUS
<1> QED
  BY <1>1, <1>2, <1>4, <1>5, StrlenIs DEF Letters

\* A run of blanks is skipped,
LEMMA SkipsTo ==
  ASSUME NEW line, InBuffer(line), NEW i \in 0 .. Len(line), NEW j \in i .. Len(line),
         Consists(line, i + 1, j, {Space}), j = Len(line) \/ line[j + 1] # Space
  PROVE  First(i, NonSpace) = j
<1>1. line \in Seq(Printable) /\ Len(line) \in Nat /\ j \in i .. Size
  BY EditorAssumption DEF InBuffer
<1>2. \A k \in i .. j - 1 : buffer[k] \notin NonSpace
  <2> SUFFICES ASSUME NEW k \in i .. j - 1 PROVE buffer[k] = Space
    BY DEF NonSpace
  <2>1. k + 1 \in i + 1 .. j /\ k + 1 \in 1 .. Len(line) /\ (k + 1) - 1 = k
    BY <1>1
  <2>2. buffer[(k + 1) - 1] = line[k + 1]
    BY <2>1 DEF InBuffer
  <2> QED
    BY <2>1, <2>2 DEF Consists
<1>3. buffer[j] \in NonSpace
  <2>1. CASE j = Len(line)
    BY <2>1, NoDigits DEF InBuffer, NonSpace
  <2>2. CASE j # Len(line)
    <3>1. j + 1 \in 1 .. Len(line) /\ (j + 1) - 1 = j
      BY <1>1, <2>2
    <3>2. buffer[(j + 1) - 1] = line[j + 1]
      BY <3>1 DEF InBuffer
    <3> QED
      BY <1>1, <2>2, <3>1, <3>2 DEF NonSpace
  <2> QED
    BY <2>1, <2>2
<1> QED
  BY <1>1, <1>2, <1>3, FirstIs

\* and one of digits ends at a blank or the terminator.
LEMMA EndsAt ==
  ASSUME NEW line, InBuffer(line), NEW i \in 0 .. Len(line), NEW j \in i .. Len(line),
         Consists(line, i + 1, j, HexDigits), NEW chars, chars \cap HexDigits = {},
         buffer[j] \in chars
  PROVE  First(i, chars) = j
<1>1. line \in Seq(Printable) /\ Len(line) \in Nat /\ j \in i .. Size
  BY EditorAssumption DEF InBuffer
<1>2. \A k \in i .. j - 1 : buffer[k] \notin chars
  <2> SUFFICES ASSUME NEW k \in i .. j - 1 PROVE buffer[k] \in HexDigits
    OBVIOUS
  <2>1. k + 1 \in i + 1 .. j /\ k + 1 \in 1 .. Len(line) /\ (k + 1) - 1 = k
    BY <1>1
  <2>2. buffer[(k + 1) - 1] = line[k + 1]
    BY <2>1 DEF InBuffer
  <2> QED
    BY <2>1, <2>2 DEF Consists
<1> QED
  BY <1>1, <1>2, FirstIs

\* The places of a command's operands.
At(c, f, e) ==
  /\ f \in 4 .. Len(c.line) /\ e \in f .. Len(c.line)
  /\ Consists(c.line, 3, f - 1, {Space}) /\ Consists(c.line, f, e, HexDigits)
  /\ c.addr = Number(SubSeq(c.line, f, e))
DataAt(c, e, g) ==
  /\ g \in e + 2 .. Len(c.line)
  /\ Consists(c.line, e + 1, g - 1, {Space}) /\ Consists(c.line, g, Len(c.line), HexDigits)
  /\ c.op = "w" /\ c.data = SubSeq(c.line, g, Len(c.line))

\* A line with operands has them somewhere.
LEMMA OperandsAt ==
  ASSUME NEW c \in Commands, Operands(c), InBuffer(c.line)
  PROVE  \E f, e \in 4 .. Len(c.line) :
           /\ At(c, f, e)
           /\ \/ e = Len(c.line) /\ c.data = <<>>
              \/ \E g \in e + 2 .. Len(c.line) : DataAt(c, e, g)
<1>1. Len(c.line) \in Nat
  BY DEF InBuffer
<1>2. PICK f \in 4 .. Len(c.line), e \in 4 .. Len(c.line) :
        /\ Consists(c.line, 3, f - 1, {Space})
        /\ e \in f .. f + 7 /\ Consists(c.line, f, e, HexDigits)
        /\ c.addr = Number(SubSeq(c.line, f, e))
        /\ \/ e = Len(c.line) /\ c.data = <<>>
           \/ \E g \in e + 2 .. Len(c.line) :
                /\ Consists(c.line, e + 1, g - 1, {Space})
                /\ Consists(c.line, g, Len(c.line), HexDigits)
                /\ c.op = "w" /\ c.data = SubSeq(c.line, g, Len(c.line))
  BY Zenon DEF Operands
<1>3. At(c, f, e)
  BY <1>1, <1>2 DEF At
<1>4. ASSUME e # Len(c.line) \/ c.data # <<>>
      PROVE  \E g \in e + 2 .. Len(c.line) : DataAt(c, e, g)
  BY <1>2, <1>4, Zenon DEF DataAt
<1> QED
  BY <1>3, <1>4

\* What ends the address: a blank, or the terminator.
LEMMA AddressEnds ==
  ASSUME NEW c \in Commands, InBuffer(c.line), NEW f, NEW e, At(c, f, e),
         \/ e = Len(c.line)
         \/ \E g \in e + 2 .. Len(c.line) : DataAt(c, e, g)
  PROVE  buffer[e] \in {Nul, Space}
<1>1. Len(c.line) \in Nat /\ e \in 4 .. Len(c.line)
  BY DEF InBuffer, At
<1>2. CASE e = Len(c.line)
  BY <1>2 DEF InBuffer
<1>3. CASE \E g \in e + 2 .. Len(c.line) : DataAt(c, e, g)
  <2>1. PICK g \in e + 2 .. Len(c.line) : DataAt(c, e, g)
    BY <1>3
  <2>2. e + 1 \in e + 1 .. g - 1 /\ e + 1 \in 1 .. Len(c.line) /\ (e + 1) - 1 = e
    BY <1>1, <2>1
  <2>3. c.line[e + 1] = Space
    BY <2>1, <2>2 DEF DataAt, Consists
  <2>4. buffer[(e + 1) - 1] = c.line[e + 1]
    BY <2>2 DEF InBuffer
  <2> QED
    BY <2>2, <2>3, <2>4
<1> QED
  BY <1>2, <1>3

\* Both monitors find the beginning of the address, and its digits.
LEMMA AddressFound ==
  ASSUME NEW c \in Commands, InBuffer(c.line), NEW f, NEW e, At(c, f, e),
         buffer[e] \in {Nul, Space}
  PROVE  /\ First(2, NonSpace) = f - 1 /\ First(3, NonSpace) = f - 1
         /\ First(f - 1, {Nul, Space}) = e
         /\ First(f - 1, (Printable \cup {Nul}) \ HexDigits) = e
         /\ HexBetween(f - 1, e) = SubSeq(c.line, f, e)
         /\ buffer[f - 1] # Nul
<1> DEFINE line == c.line
<1>1. /\ line \in Seq(Printable) /\ Len(line) \in Nat /\ f \in 4 .. Len(line)
      /\ e \in f .. Len(line) /\ (f - 1) + 1 = f
  BY DEF InBuffer, At
<1>2. line[f] \in HexDigits /\ buffer[f - 1] = line[f]
  BY <1>1 DEF At, Consists, InBuffer
<1>3. line[f] # Space /\ line[f] # Nul
  BY <1>2, NoDigits
<1>4. First(2, NonSpace) = f - 1
  <2>1. Consists(line, 2 + 1, f - 1, {Space})
    BY DEF At
  <2>2. 2 \in 0 .. Len(line) /\ f - 1 \in 2 .. Len(line)
    BY <1>1
  <2> QED
    BY <1>1, <1>3, <2>1, <2>2, SkipsTo
<1>5. First(3, NonSpace) = f - 1
  <2>1. Consists(line, 3 + 1, f - 1, {Space})
    BY <1>1 DEF At, Consists
  <2>2. 3 \in 0 .. Len(line) /\ f - 1 \in 3 .. Len(line)
    BY <1>1
  <2> QED
    BY <1>1, <1>3, <2>1, <2>2, SkipsTo
<1>6. /\ f - 1 \in 0 .. Len(line) /\ e \in f - 1 .. Len(line)
      /\ Consists(line, (f - 1) + 1, e, HexDigits)
  BY <1>1 DEF At
<1>7. First(f - 1, {Nul, Space}) = e
  BY <1>6, NoDigits, EndsAt
<1>8. First(f - 1, (Printable \cup {Nul}) \ HexDigits) = e
  <2>1. buffer[e] \in (Printable \cup {Nul}) \ HexDigits
    <3>1. CASE buffer[e] = Nul
      BY <3>1, NoDigits
    <3>2. CASE buffer[e] = Space
      <4>1. e # Len(line)
        BY <3>2, NoDigits DEF InBuffer
      <4>2. e + 1 \in 1 .. Len(line) /\ (e + 1) - 1 = e
        BY <1>1, <4>1
      <4>3. buffer[(e + 1) - 1] = line[e + 1] /\ line[e + 1] \in Printable
        BY <1>1, <4>2 DEF InBuffer
      <4> QED
        BY <3>2, <4>2, <4>3, NoDigits
    <3> QED
      BY <3>1, <3>2
  <2>2. ((Printable \cup {Nul}) \ HexDigits) \cap HexDigits = {}
    OBVIOUS
  <2> QED
    BY <1>6, <2>1, <2>2, EndsAt
<1>9. HexBetween(f - 1, e) = SubSeq(line, (f - 1) + 1, e)
  BY <1>6, HexIs
<1> QED
  BY <1>1, <1>2, <1>3, <1>4, <1>5, <1>7, <1>8, <1>9

\* read_address, and parsehex behind the two letters and their blank.
LEMMA AddressIs ==
  ASSUME NEW c \in Commands, c.op # "other", InBuffer(c.line)
  PROVE  Number(read_address) = c.addr /\ Number(parsehex(3).v) = c.addr
<1>1. Operands(c)
  BY LettersAre
<1>2. PICK f \in 4 .. Len(c.line), e \in 4 .. Len(c.line) :
        /\ At(c, f, e)
        /\ \/ e = Len(c.line) /\ c.data = <<>>
           \/ \E g \in e + 2 .. Len(c.line) : DataAt(c, e, g)
  BY <1>1, OperandsAt
<1>3. buffer[e] \in {Nul, Space}
  BY <1>2, AddressEnds
<1>4. read_address = SubSeq(c.line, f, e) /\ parsehex(3).v = SubSeq(c.line, f, e)
  BY <1>2, <1>3, AddressFound DEF read_address, parsehex
<1> QED
  BY <1>2, <1>4 DEF At

\* The data, if there are any; parsehex finds none at the end of the line.
LEMMA DataIs ==
  ASSUME NEW c \in Commands, c.op = "w", InBuffer(c.line)
  PROVE  /\ c.data # <<>> => read_data_after_address = {c.data}
         /\ parsehex(parsehex(3).end).v = c.data
<1> DEFINE line == c.line
           n == Len(line)
<1>1. Operands(c) /\ line \in Seq(Printable) /\ n \in Nat
  BY LettersAre DEF InBuffer
<1>2. PICK f \in 4 .. n, e \in 4 .. n :
        /\ At(c, f, e)
        /\ \/ e = n /\ c.data = <<>>
           \/ \E g \in e + 2 .. n : DataAt(c, e, g)
  BY <1>1, OperandsAt
<1>3. buffer[e] \in {Nul, Space}
  BY <1>2, AddressEnds
<1>4. First(2, NonSpace) = f - 1 /\ parsehex(3).end = e /\ buffer[f - 1] # Nul
  BY <1>2, <1>3, AddressFound DEF parsehex
<1>5. CASE e = n /\ c.data = <<>>
  <2>1. First(n, NonSpace) = n
    <3>1. n \in 0 .. n /\ n \in n .. n /\ Consists(line, n + 1, n, {Space})
      BY <1>1 DEF Consists
    <3> QED
      BY <3>1, SkipsTo
  <2>2. n \in 0 .. n /\ n \in n .. n /\ Consists(line, n + 1, n, HexDigits)
    BY <1>1 DEF Consists
  <2>3. First(n, (Printable \cup {Nul}) \ HexDigits) = n
    <3>1. buffer[n] \in (Printable \cup {Nul}) \ HexDigits
      BY NoDigits DEF InBuffer
    <3>2. ((Printable \cup {Nul}) \ HexDigits) \cap HexDigits = {}
      OBVIOUS
    <3> QED
      BY <2>2, <3>1, <3>2, EndsAt
  <2>4. HexBetween(n, n) = SubSeq(line, n + 1, n)
    BY <2>2, HexIs
  <2>5. SubSeq(line, n + 1, n) = <<>>
    BY <1>1
  <2> QED
    BY <1>4, <1>5, <2>1, <2>3, <2>4, <2>5 DEF parsehex
<1>6. CASE \E g \in e + 2 .. n : DataAt(c, e, g)
  <2>1. PICK g \in e + 2 .. n : DataAt(c, e, g)
    BY <1>6
  <2>2. /\ e \in 0 .. n /\ g - 1 \in e .. n /\ (g - 1) + 1 = g
        /\ Consists(line, e + 1, g - 1, {Space})
    BY <1>1, <2>1 DEF DataAt
  <2>3. line[g] \in HexDigits
    BY <1>1, <2>1 DEF DataAt, Consists
  <2>4. First(e, NonSpace) = g - 1
    BY <2>2, <2>3, NoDigits, SkipsTo
  <2>5. buffer[e] = Space
    <3>1. e + 1 \in e + 1 .. g - 1 /\ e + 1 \in 1 .. n /\ (e + 1) - 1 = e
      BY <1>1, <2>1
    <3>2. buffer[(e + 1) - 1] = line[e + 1] /\ line[e + 1] = Space
      BY <2>2, <3>1 DEF InBuffer, Consists
    <3> QED
      BY <3>1, <3>2
  <2>6. /\ g - 1 \in 0 .. n /\ n \in g - 1 .. n
        /\ Consists(line, (g - 1) + 1, n, HexDigits)
    BY <1>1, <2>1, <2>2 DEF DataAt
  <2>7. First(g - 1, {Nul}) = n
    <3>1. buffer[n] \in {Nul} /\ {Nul} \cap HexDigits = {}
      BY NoDigits DEF InBuffer
    <3> QED
      BY <2>6, <3>1, EndsAt
  <2>8. First(g - 1, (Printable \cup {Nul}) \ HexDigits) = n
    <3>1. buffer[n] \in (Printable \cup {Nul}) \ HexDigits
      BY NoDigits DEF InBuffer
    <3>2. ((Printable \cup {Nul}) \ HexDigits) \cap HexDigits = {}
      OBVIOUS
    <3> QED
      BY <2>6, <3>1, <3>2, EndsAt
  <2>9. HexBetween(g - 1, n) = c.data
    <3>1. HexBetween(g - 1, n) = SubSeq(line, (g - 1) + 1, n)
      BY <2>6, HexIs
    <3> QED
      BY <2>1, <2>2, <3>1 DEF DataAt
  <2>10. First(f - 1, {Space}) = e /\ e < Size
    <3>1. f \in 4 .. n /\ e \in f .. n /\ Consists(line, f, e, HexDigits)
      BY <1>2 DEF At
    <3>2. f - 1 \in 0 .. n /\ e \in f - 1 .. n /\ (f - 1) + 1 = f
      BY <1>1, <3>1
    <3>3. buffer[e] \in {Space} /\ {Space} \cap HexDigits = {}
      BY <2>5, NoDigits
    <3>4. e < Size
      BY <1>1, EditorAssumption DEF InBuffer
    <3> QED
      BY <3>1, <3>2, <3>3, <3>4, EndsAt
  <2>11. read_data_after_address = {c.data}
    BY <1>4, <2>4, <2>7, <2>9, <2>10 DEF read_data_after_address
  <2>12. parsehex(e).v = c.data
    BY <2>4, <2>8, <2>9 DEF parsehex
  <2> QED
    BY <1>4, <2>11, <2>12
<1> QED
  BY <1>2, <1>5, <1>6

-----------------------------------------------------------------------------
(* The commands *)

\* The three widths.
LEMMA Widths ==
  DOMAIN Width = {"w", "h", "b"} /\ Width["w"] = 4 /\ Width["h"] = 2 /\ Width["b"] = 1
BY DEF Width

\* StartsWith, for the three characters in front of an address.
LEMMA BeginsWith ==
  ASSUME NEW t1, NEW t2, NEW t3
  PROVE  StartsWith(<<t1, t2, t3>>) <=> buffer[0] = t1 /\ buffer[1] = t2 /\ buffer[2] = t3
<1> DEFINE t == <<t1, t2, t3>>
<1>1. t[1] = t1 /\ t[2] = t2 /\ t[3] = t3 /\ Len(t) = 3
  OBVIOUS
<1>2. StartsWith(t) <=> \A i \in 1 .. 3 : buffer[i - 1] = t[i]
  BY <1>1 DEF StartsWith
<1> HIDE DEF t
<1>3. (\A i \in 1 .. 3 : buffer[i - 1] = t[i])
        <=> buffer[0] = t[1] /\ buffer[1] = t[2] /\ buffer[2] = t[3]
  OBVIOUS
<1> QED
  BY <1>1, <1>2, <1>3 DEF t

\* The lines of monitor.c that have no operands do not begin like one that has.
LEMMA OtherLine ==
  ASSUME NEW c \in Commands, c.op = "other", InBuffer(c.line)
  PROVE  /\ strlen >= 3 => buffer[0] \notin {"r", "w"} \/ buffer[1] \notin DOMAIN Width
         /\ ~StartsWith(<<"r", "w", " ">>) /\ ~StartsWith(<<"w", "w", " ">>)
<1> DEFINE line == c.line
           n == Len(line)
<1>1. NoOperands(line) /\ n \in Nat /\ strlen = n
  <2>1. NoOperands(line)
    BY CommandAssumption
  <2>2. strlen = n
    BY StrlenIs
  <2>3. n \in Nat
    BY DEF InBuffer
  <2> QED
    BY <2>1, <2>2, <2>3
<1>2. n < 3 \/ line[1] \notin {"r", "w"} \/ line[2] \notin DOMAIN Width
  BY <1>1 DEF NoOperands
<1>3. ASSUME NEW k \in 1 .. n PROVE buffer[k - 1] = line[k]
  BY DEF InBuffer
<1>4. buffer[n] = Nul
  BY DEF InBuffer
<1>5. 1 - 1 = 0 /\ 2 - 1 = 1
  OBVIOUS
<1>6. ASSUME NEW t
      PROVE  StartsWith(<<t, "w", " ">>)
               => buffer[0] = t /\ buffer[1] = "w" /\ buffer[2] = " "
  BY BeginsWith
<1>7. n >= 3 \/ n < 3
  BY <1>1
<1> HIDE DEF n
<1>8. CASE n >= 3
  <2>1. 1 \in 1 .. n /\ 2 \in 1 .. n
    BY <1>1, <1>8
  <2>2. buffer[0] = line[1] /\ buffer[1] = line[2]
    BY <1>3, <1>5, <2>1
  <2>3. line[1] \notin {"r", "w"} \/ line[2] \notin DOMAIN Width
    BY <1>1, <1>2, <1>8
  <2>4. "w" \in DOMAIN Width
    BY Widths
  <2> QED
    BY <1>6, <2>2, <2>3, <2>4
<1>9. CASE n < 3
  <2>1. n = 0 \/ n = 1 \/ n = 2
    BY <1>1, <1>9
  <2>2. buffer[0] = Nul \/ buffer[1] = Nul \/ buffer[2] = Nul
    BY <1>4, <2>1
  <2>3. ASSUME NEW t \in {"r", "w"} PROVE ~StartsWith(<<t, "w", " ">>)
    BY <1>6, <2>2
  <2>4. ~(strlen >= 3)
    BY <1>1, <1>9
  <2> QED
    BY <2>3, <2>4
<1> QED
  BY <1>7, <1>8, <1>9

\* A command of monitor.c.
LEMMA MonitorDoes ==
  ASSUME NEW c \in Commands, InBuffer(c.line), prog = "monitor", MonitorCommand
  PROVE  /\ HasData(c) => mem' = Meaning(c, mem)
         /\ c.op = "r" /\ Aligned(c.addr, c.width)
              => shown' = Bytes(IF little THEN Peek(c.addr, c.width)
                               ELSE Reverse(Peek(c.addr, c.width)))
<1>0. c.op \in {"r", "w", "other"} /\ strlen \in Nat
  <2>1. c.op \in {"r", "w", "other"}
    BY CommandAssumption
  <2>2. strlen = Len(c.line)
    BY StrlenIs
  <2>3. Len(c.line) \in Nat
    BY DEF InBuffer
  <2> QED
    BY <2>1, <2>2, <2>3
<1>1. CASE c.op = "other"
  <2>1. \A width \in {4, 2, 1} : ~Read(width) /\ ~Write(width)
    BY <1>1, OtherLine DEF Read, Write
  <2>2. mem' = mem
    BY <2>1 DEF MonitorCommand, SetFormat, NoCommand
  <2> QED
    BY <1>1, <2>2 DEF Meaning
<1>2. CASE c.op # "other"
  <2>1. /\ strlen >= 4 /\ buffer[0] = c.op /\ buffer[1] \in DOMAIN Width
        /\ c.width = Width[buffer[1]] /\ Number(read_address) = c.addr
    BY <1>2, LettersAre, AddressIs
  <2>2. ~NoCommand /\ \A l \in {"l", "b"} : ~SetFormat(l)
    BY <1>0, <1>2, <2>1 DEF NoCommand, SetFormat
  <2>3. PICK width \in {4, 2, 1} : Read(width) \/ Write(width)
    BY <2>2 DEF MonitorCommand
  <2>4. width = c.width
    BY <2>1, <2>3 DEF Read, Write
  <2>5. CASE c.op = "r"
    <3>1. Read(c.width)
      BY <2>1, <2>3, <2>4, <2>5 DEF Write
    <3> QED
      BY <2>1, <2>5, <3>1 DEF Read, Meaning
  <2>6. CASE c.op = "w"
    <3>1. Write(c.width)
      BY <2>1, <2>3, <2>4, <2>6 DEF Read
    <3>2. HasData(c) => read_data_after_address = {c.data}
      BY <2>6, DataIs DEF HasData
    <3> QED
      BY <2>1, <2>6, <3>1, <3>2 DEF Write, Meaning
  <2> QED
    BY <1>0, <1>2, <2>5, <2>6
<1> QED
  BY <1>1, <1>2

\* A command of the bootloader's monitor.
LEMMA BootMonitorDoes ==
  ASSUME NEW c \in Commands, InBuffer(c.line), prog = "bootloader", BootMonitorCommand
  PROVE  /\ mem' = Meaning(c, mem)
         /\ c.op = "r" /\ Aligned(c.addr, c.width) /\ c.width = 4
              => shown' = Bytes(Reverse(Peek(c.addr, 4)))
<1>0. c.op \in {"r", "w", "other"}
  BY CommandAssumption
<1>1. CASE c.op = "other"
  <2>1. ~ReadWord /\ ~WriteWord
    BY <1>1, OtherLine DEF ReadWord, WriteWord
  <2>2. mem' = mem
    BY <2>1 DEF BootMonitorCommand, Dump, OtherText
  <2> QED
    BY <1>1, <2>2 DEF Meaning
<1>2. CASE c.op # "other"
  <2>1. /\ buffer[0] = c.op /\ buffer[1] \in DOMAIN Width /\ c.width = Width[buffer[1]]
        /\ buffer[2] = " " /\ Number(parsehex(3).v) = c.addr
    BY <1>2, LettersAre, AddressIs DEF Space
  <2>0. ASSUME NEW t
        PROVE  StartsWith(<<t, "w", " ">>)
                 <=> buffer[0] = t /\ buffer[1] = "w" /\ buffer[2] = " "
    BY BeginsWith
  <2>2. buffer[1] = "w" <=> c.width = 4
    <3>1. buffer[1] = "w" \/ buffer[1] = "h" \/ buffer[1] = "b"
      BY <2>1, Widths
    <3>2. CASE buffer[1] = "w"
      BY <2>1, <3>2, Widths
    <3>3. CASE buffer[1] = "h"
      <4>1. c.width = 2
        BY <2>1, <3>3, Widths
      <4> QED
        BY <3>3, <4>1
    <3>4. CASE buffer[1] = "b"
      <4>1. c.width = 1
        BY <2>1, <3>4, Widths
      <4> QED
        BY <3>4, <4>1
    <3> QED
      BY <3>1, <3>2, <3>3, <3>4
  <2>3. /\ StartsWith(<<"r", "w", " ">>) <=> c.op = "r" /\ c.width = 4
        /\ StartsWith(<<"w", "w", " ">>) <=> c.op = "w" /\ c.width = 4
        /\ StartsWith(<<"d", "w", " ">>) => c.op = "d"
    <3>1. StartsWith(<<"r", "w", " ">>) <=> buffer[0] = "r" /\ buffer[1] = "w" /\ buffer[2] = " "
      BY <2>0
    <3>2. StartsWith(<<"w", "w", " ">>) <=> buffer[0] = "w" /\ buffer[1] = "w" /\ buffer[2] = " "
      BY <2>0
    <3>3. StartsWith(<<"d", "w", " ">>) <=> buffer[0] = "d" /\ buffer[1] = "w" /\ buffer[2] = " "
      BY <2>0
    <3> QED
      BY <2>1, <2>2, <3>1, <3>2, <3>3
  <2>4. ~Dump
    <3>1. ~IsDump
      BY <1>0, <1>2, <2>1, <2>3 DEF IsDump
    <3> QED
      BY <3>1 DEF Dump
  <2>5. CASE c.op = "r"
    <3>1. mem' = mem
      BY <2>1, <2>3, <2>4, <2>5 DEF BootMonitorCommand, ReadWord, WriteWord, OtherText
    <3>2. c.width = 4 => ReadWord
      BY <2>1, <2>3, <2>4, <2>5 DEF BootMonitorCommand, WriteWord, OtherText
    <3> QED
      BY <2>1, <2>5, <3>1, <3>2 DEF Meaning, ReadWord
  <2>6. CASE c.op = "w"
    <3>1. CASE c.width # 4
      <4>1. mem' = mem
        BY <2>1, <2>3, <2>4, <2>6, <3>1
        DEF BootMonitorCommand, ReadWord, WriteWord, OtherText
      <4> QED
        BY <2>6, <3>1, <4>1 DEF Meaning
    <3>2. CASE c.width = 4
      <4>1. WriteWord
        BY <2>1, <2>3, <2>4, <2>6, <3>2
        DEF BootMonitorCommand, ReadWord, OtherText
      <4>2. parsehex(parsehex(3).end).v = c.data
        BY <2>6, DataIs
      <4> QED
        BY <2>1, <2>6, <3>2, <4>1, <4>2 DEF Meaning, WriteWord
    <3> QED
      BY <2>6, <3>1, <3>2
  <2> QED
    BY <1>0, <1>2, <2>5, <2>6
<1> QED
  BY <1>1, <1>2

-----------------------------------------------------------------------------
(* The session *)

\* A line that has been returned is one that the user meant to type, and is
\* terminated.
Returned == ~reading => buffer[index] = Nul /\ screen \in Lines

MonitorInv == EditorShape /\ ScreenShowsLine /\ Returned

\* The command that is carried out is in the buffer.
LEMMA LineInBuffer ==
  ASSUME MonitorInv, ~reading
  PROVE  InBuffer(screen)
<1>1. screen \in Seq(Printable) /\ Len(screen) = index /\ index < Size
  <2>1. index \in 0 .. Size - 1 /\ screen \in Seq(Printable) /\ Len(screen) = index
    BY DEF MonitorInv, EditorShape, ScreenShowsLine
  <2> QED
    BY <2>1, EditorAssumption
<1>2. \A k \in 1 .. Len(screen) : buffer[k - 1] = screen[k]
  BY DEF MonitorInv, ScreenShowsLine
<1>3. buffer[index] = Nul
  BY DEF MonitorInv, Returned
<1> QED
  BY <1>1, <1>2, <1>3 DEF InBuffer

\* The user's keys.
LEMMA TypingStep ==
  ASSUME MonitorInv, Type
  PROVE  MonitorInv' /\ reading
<1>1. PICK chr : /\ usart_gets(chr)
                 /\ \/ chr \in Printable \cup Slips
                    \/ chr = "cr" /\ screen \in Lines
  BY Zenon DEF Type
<1>2. reading /\ EditorShape' /\ ScreenShowsLine'
  BY <1>1, KeyKeepsLine DEF usart_gets, MonitorInv
<1>3. Returned'
  <2>1. CASE chr \in Printable \cup Slips
    <3>1. chr \notin EndKeys
      BY <2>1, EditorAssumption DEF Slips, Space
    <3>2. reading'
      BY <1>1, <1>2, <3>1 DEF usart_gets, EndLine, Erase, EraseLine, Break, Insert
    <3> QED
      BY <3>2 DEF Returned
  <2>2. CASE chr = "cr" /\ screen \in Lines
    <3>1. EndLine(chr)
      BY <1>1, <2>2, EditorAssumption DEF usart_gets, Erase, EraseLine, Break, Insert
    <3>2. buffer' = [buffer EXCEPT ![index] = Nul] /\ index' = index /\ screen' = screen
      BY <3>1 DEF EndLine
    <3>3. index \in DOMAIN buffer
      BY DEF MonitorInv, EditorShape
    <3> QED
      BY <2>2, <3>2, <3>3 DEF Returned, Lines
  <2> QED
    BY <1>1, <2>1, <2>2
<1> QED
  BY <1>2, <1>3 DEF MonitorInv

\* Commands print into the buffer, but only into it.
LEMMA CommandStep ==
  ASSUME MonitorInv, Command
  PROVE  MonitorInv'
<1>1. buffer' = [i \in 0 .. Size - 1 |-> buffer'[i]]
  <2>0. DOMAIN buffer = 0 .. Size - 1
    BY DEF MonitorInv, EditorShape
  <2>1. CASE buffer' = buffer
    BY <2>1 DEF MonitorInv, EditorShape
  <2>2. CASE \E bytes : buffer' = Sprintf(bytes)
    BY <2>0, <2>2 DEF Sprintf
  <2>3. (\E bytes : buffer' = Sprintf(bytes)) \/ buffer' = buffer
    BY DEF Command, MonitorCommand, BootMonitorCommand, SetFormat, NoCommand, Read, Write
  <2> QED
    BY <2>1, <2>2, <2>3
<1>2. EditorShape' /\ ScreenShowsLine' /\ reading'
  BY <1>1, CallKeepsLine DEF Command, Called, MonitorInv
<1> QED
  BY <1>2 DEF MonitorInv, Returned

\* MonitorInv is inductive.
LEMMA MonitorInductive ==
  /\ Init => MonitorInv
  /\ MonitorInv /\ [Next]_vars => MonitorInv'
<1>1. Init => MonitorInv
  <2> SUFFICES ASSUME Init PROVE MonitorInv
    OBVIOUS
  <2>1. buffer = [i \in 0 .. Size - 1 |-> buffer[i]] /\ index = 0 /\ screen = <<>> /\ reading
    BY DEF Init, EditorInit
  <2>2. screen \in Seq(Printable) /\ Len(screen) = 0
    BY <2>1
  <2> QED
    BY <2>1, <2>2, EditorAssumption DEF MonitorInv, EditorShape, ScreenShowsLine, Returned
<1>2. ASSUME MonitorInv, UNCHANGED vars PROVE MonitorInv'
  BY <1>2 DEF vars, editor, MonitorInv, EditorShape, ScreenShowsLine, Returned, Lines
<1> QED
  BY <1>1, <1>2, TypingStep, CommandStep DEF Next

\* Only a command leads from a line that was returned to the next one.
LEMMA CommandEnters ==
  ASSUME MonitorInv, [Next]_vars, NEW c \in Commands, Entered(c)
  PROVE  /\ InBuffer(c.line)
         /\ \/ prog = "monitor" /\ MonitorCommand
            \/ prog = "bootloader" /\ BootMonitorCommand
<1>1. Command
  BY TypingStep DEF Entered, Next, vars, editor
<1>2. InBuffer(screen)
  BY LineInBuffer DEF Entered
<1> QED
  BY <1>1, <1>2 DEF Entered, Command, MonitorCommand, BootMonitorCommand

-----------------------------------------------------------------------------
(* Theorems *)

\* In both monitors the terminal shows the line that is in the buffer, also
\* after numbers have been printed by way of it (monitor.c:62-100).
THEOREM ScreenIsRight == Spec => []ScreenShowsLine
<1>1. MonitorInv => ScreenShowsLine
  BY DEF MonitorInv
<1> QED
  BY <1>1, MonitorInductive, PTL DEF Spec

\* A command changes the bytes that it names to the data of its own line, and
\* nothing else (monitor.c:217-278, bootloader.c:171-247).
THEOREM CommandsMeanTheirLines == Spec => CommandMeansLine
<1>1. ASSUME MonitorInv, [Next]_vars
      PROVE  \A c \in Commands : HasData(c) => Means(c)
  <2> SUFFICES ASSUME NEW c \in Commands, HasData(c), Entered(c)
               PROVE  mem' = Meaning(c, mem)
    BY DEF Means
  <2> QED
    BY <1>1, CommandEnters, MonitorDoes, BootMonitorDoes
<1> QED
  BY <1>1, MonitorInductive, PTL DEF Spec, CommandMeansLine

\* What a read command prints are the bytes of the memory, in the order of the
\* format that is set (monitor.c:219-229, bootloader.c:171-185).
THEOREM AnswersAreRight == Spec => AnswerShowsMemory
<1> DEFINE Shown(c) ==
  (Entered(c) /\ c.op = "r" /\ Aligned(c.addr, c.width))
    => \/ prog = "monitor" /\ shown' = Bytes(IF little THEN Peek(c.addr, c.width)
                                            ELSE Reverse(Peek(c.addr, c.width)))
       \/ prog = "bootloader" /\ (c.width = 4 => shown' = Bytes(Reverse(Peek(c.addr, 4))))
<1>1. ASSUME MonitorInv, [Next]_vars
      PROVE  \A c \in Commands : Shown(c)
  BY <1>1, CommandEnters, MonitorDoes, BootMonitorDoes
<1> QED
  BY <1>1, MonitorInductive, PTL DEF Spec, AnswerShowsMemory
=============================================================================
