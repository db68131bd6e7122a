---------------------------- MODULE UsartProofs ----------------------------
(***************************************************************************)
(* Theorems about the USART, for every format, every pair of BAUD          *)
(* registers that are near enough and every sequence of characters.        *)
(*                                                                         *)
(* Time is counted from the start of the frame that is being sent: Pos is  *)
(* where the transmitter is, Heard where the receiver is.  The invariant   *)
(* says that on a line that nothing disturbs they are one clock that both  *)
(* boards agree upon.                                                      *)
(***************************************************************************)
EXTENDS Usart, FiniteSetTheorems, SequenceTheorems, TLAPS

-----------------------------------------------------------------------------
(* What the line and the formats can be *)

LEMMA LineFacts ==
  ASSUME line \in Lines, mode \in line.modes
  PROVE  /\ line.tx \in Nat /\ line.rx \in Nat /\ line.patience \in Nat
         /\ mode.size \in 7 .. 9 /\ mode.stop \in 1 .. 2
         /\ mode.parity \in {"none", "even", "odd"}
  <1>1. line.modes \subseteq [size : 7 .. 9, parity : {"none", "even", "odd"}, stop : 1 .. 2]
    BY LineAssumption
  <1>2. mode \in [size : 7 .. 9, parity : {"none", "even", "odd"}, stop : 1 .. 2]
    BY <1>1
  <1> QED  BY <1>2, LineAssumption

\* A frame and half a bit, in clocks.
LEMMA FrameFacts ==
  ASSUME line \in Lines, mode \in line.modes
  PROVE  /\ Shifts \in 8 .. BufferWidth /\ FrameTime \in Nat /\ Patience \in 0 .. FrameTime
         /\ HalfBit \in 0 .. line.rx
  <1>1. /\ line.tx \in Nat /\ line.rx \in Nat /\ line.patience \in Nat
        /\ mode.size \in 7 .. 9 /\ mode.stop \in 1 .. 2
    BY LineFacts
  <1>2. Shifts \in 8 .. BufferWidth
    BY <1>1 DEF Shifts, BufferWidth
  <1>3. FrameTime \in Nat
    <2> DEFINE n == Shifts + 1
               t == line.tx + 1
    <2>1. n \in Nat /\ t \in Nat
      BY <1>1, <1>2 DEF BufferWidth
    <2> HIDE DEF n, t
    <2>2. n * t \in Nat
      BY <2>1
    <2> QED  BY <2>2 DEF FrameTime, n, t
  <1>4. Patience \in 0 .. FrameTime
    BY <1>1, <1>3 DEF Patience
  <1>5. HalfBit \in 0 .. line.rx
    BY <1>1 DEF HalfBit
  <1> QED  BY <1>2, <1>3, <1>4, <1>5

-----------------------------------------------------------------------------
(* Registers that shift *)

LEMMA BitsInARow ==
  ASSUME NEW n \in Nat, NEW b \in [1 .. n -> Bits]
  PROVE  b \in Seq(Bits) /\ Len(b) = n
  BY SMT

Join(f, s, t) ==
  /\ f \in Seq(Bits) /\ Len(f) = Len(s) + Len(t)
  /\ \A i \in 1 .. Len(s) : f[i] = s[i]
  /\ \A i \in 1 .. Len(t) : f[Len(s) + i] = t[i]

LEMMA Joined ==
  ASSUME NEW s \in Seq(Bits), NEW t \in Seq(Bits)
  PROVE  Join(s \o t, s, t)
  <1> DEFINE f == s \o t
             m == Len(s)
             n == Len(t)
  <1>1. m \in Nat /\ n \in Nat
    OBVIOUS
  <1>2. f \in Seq(Bits) /\ Len(f) = m + n
        /\ \A i \in 1 .. m + n : f[i] = IF i <= m THEN s[i] ELSE t[i - m]
    BY ConcatProperties
  <1> HIDE DEF f, m, n
  <1>3. \A i \in 1 .. m : i \in 1 .. m + n /\ i <= m
    BY SMT, <1>1
  <1>4. \A i \in 1 .. n : m + i \in 1 .. m + n /\ ~(m + i <= m) /\ (m + i) - m = i
    BY SMT, <1>1
  <1>5. \A i \in 1 .. m : f[i] = s[i]
    BY <1>2, <1>3
  <1>6. \A i \in 1 .. n : f[m + i] = t[i]
    BY <1>2, <1>4
  <1> QED  BY <1>2, <1>5, <1>6, Zenon DEF Join, f, m, n

\* A bit comes in at the end, the first one leaves.
LEMMA ShiftedIn ==
  ASSUME NEW n \in Nat \ {0}, NEW b \in [1 .. n -> Bits], NEW x \in Bits
  PROVE  LET s == Append(Tail(b), x)
         IN /\ s \in [1 .. n -> Bits] /\ s[n] = x
            /\ \A i \in 1 .. n - 1 : s[i] = b[i + 1]
  <1>1. b \in Seq(Bits) /\ Len(b) = n /\ b # <<>>
    BY SMT
  <1> DEFINE t == Tail(b)
  <1>2. t \in Seq(Bits) /\ Len(t) = n - 1 /\ \A i \in 1 .. Len(t) : t[i] = b[i + 1]
    BY <1>1, HeadTailProperties
  <1> HIDE DEF t
  <1>3. Append(t, x) \in [1 .. n -> Bits]
    <2>1. Append(t, x) \in Seq(Bits) /\ Len(Append(t, x)) = n
      BY <1>2, AppendProperties
    <2> QED  BY <2>1, LenProperties
  <1>4. Append(t, x)[n] = x /\ \A i \in 1 .. n - 1 : Append(t, x)[i] = t[i]
    BY <1>2, AppendProperties
  <1>5. \A i \in 1 .. n - 1 : t[i] = b[i + 1]
    BY <1>2
  <1> QED  BY <1>3, <1>4, <1>5 DEF t

\* The parity of a word is one bit.
LEMMA OddIsBit ==
  ASSUME NEW n \in Nat, NEW b \in [1 .. n -> Bits]
  PROVE  Odd(b) \in Bits
  <1> DEFINE S == {i \in DOMAIN b : b[i] = 1}
  <1>1. IsFiniteSet(1 .. n)
    BY FS_Interval
  <1>2. IsFiniteSet(S)
    BY <1>1, FS_Subset
  <1>3. Cardinality(S) \in Nat
    BY <1>2, FS_CardinalityType
  <1> HIDE DEF S
  <1>4. Cardinality(S) % 2 \in Bits
    BY <1>3 DEF Bits
  <1> QED  BY <1>4 DEF Odd, S

LEMMA CarriedBits ==
  ASSUME line \in Lines, mode \in line.modes, NEW c \in Chars
  PROVE  /\ Carried(c) \in [1 .. mode.size -> Bits] /\ Carried(c) \in Seq(Bits)
         /\ Len(Carried(c)) = mode.size
         /\ \A i \in 1 .. mode.size : Carried(c)[i] = c[i]
  <1>1. c \in [1 .. 9 -> Bits]
    BY LineAssumption DEF Bits
  <1>2. c \in Seq(Bits) /\ Len(c) = 9
    BY <1>1, BitsInARow, 9 \in Nat, Zenon
  <1> DEFINE z == mode.size
  <1>3. z \in 7 .. 9
    BY LineFacts
  <1> HIDE DEF z
  <1> DEFINE s == SubSeq(c, 1, z)
  <1>4. s \in Seq(Bits) /\ Len(s) = z /\ \A i \in 1 .. z : s[i] = c[i]
    <2>1. \A i \in 1 .. z : c[i] \in Bits
      BY <1>1, <1>3
    <2>2. /\ s \in Seq(Bits) /\ Len(s) = IF 1 <= z THEN z - 1 + 1 ELSE 0
          /\ \A i \in 1 .. z - 1 + 1 : s[i] = c[1 + i - 1]
      BY <1>3, <2>1, SubSeqProperties, 1 \in Int, z \in Int
    <2> HIDE DEF s
    <2>3. 1 <= z /\ z - 1 + 1 = z /\ \A i \in 1 .. z : 1 + i - 1 = i
      BY <1>3
    <2> QED  BY <2>2, <2>3
  <1> HIDE DEF s
  <1>5. s \in [1 .. z -> Bits]
    BY <1>4, LenProperties
  <1> QED  BY <1>4, <1>5 DEF Carried, z, s

LEMMA ParityBitIsBit ==
  ASSUME line \in Lines, mode \in line.modes, NEW c \in Chars
  PROVE  ParityBit(c) \in Bits
  <1>1. mode.size \in Nat /\ Carried(c) \in [1 .. mode.size -> Bits]
    BY LineFacts, CarriedBits
  <1>2. Odd(Carried(c)) \in {0, 1}
    BY <1>1, OddIsBit DEF Bits
  <1> QED  BY <1>2 DEF ParityBit, Bits

\* What is on the line in bit k of the frame of a character.
Level(c, k) ==
  IF k = 0 THEN 0
  ELSE IF k \in 1 .. mode.size THEN c[k]
  ELSE IF k = mode.size + 1 /\ HasParity THEN ParityBit(c)
  ELSE 1

LEMMA LevelIs ==
  ASSUME line \in Lines, mode \in line.modes, NEW c
  PROVE  /\ Level(c, 0) = 0
         /\ \A k \in 1 .. mode.size : Level(c, k) = c[k]
         /\ HasParity => Level(c, mode.size + 1) = ParityBit(c)
         /\ \A k \in Int : k > mode.size + 1 => Level(c, k) = 1
         /\ \A k \in Int : k > mode.size /\ ~HasParity => Level(c, k) = 1
  <1> DEFINE z == mode.size
  <1>1. z \in 7 .. 9
    BY LineFacts
  <1> HIDE DEF z
  <1>2. Level(c, 0) = 0
    BY DEF Level
  <1>3. \A k \in 1 .. z : Level(c, k) = c[k]
    <2>1. \A k \in 1 .. z : k # 0
      BY SMT
    <2> QED  BY <2>1, Zenon DEF Level, z
  <1>4. HasParity => Level(c, z + 1) = ParityBit(c)
    <2>1. z + 1 # 0 /\ z + 1 \notin 1 .. z
      BY SMT, <1>1
    <2> QED  BY <2>1, Zenon DEF Level, z
  <1>5. ASSUME NEW k \in Int, k > z, ~(HasParity /\ k = z + 1)
        PROVE  Level(c, k) = 1
    <2>1. k # 0 /\ k \notin 1 .. z
      BY SMT, <1>1, <1>5
    <2> QED  BY <1>5, <2>1, Zenon DEF Level, z
  <1>6. \A k \in Int : k > z + 1 => k > z /\ k # z + 1
    BY SMT, <1>1
  <1> QED  BY <1>2, <1>3, <1>4, <1>5, <1>6 DEF z

LEMMA FrameBits ==
  ASSUME line \in Lines, mode \in line.modes, NEW c \in Chars
  PROVE  /\ Framed(c) \in [1 .. BufferWidth -> Bits]
         /\ \A i \in 1 .. BufferWidth : Framed(c)[i] = Level(c, i - 1)
  <1> DEFINE z == mode.size
             d == Carried(c)
             p == IF HasParity THEN <<ParityBit(c)>> ELSE <<>>
             a == <<0>> \o d
             bits == a \o p
             ones == [i \in 1 .. BufferWidth - Len(bits) |-> 1]
  <1>1. z \in 7 .. 9 /\ d \in Seq(Bits) /\ Len(d) = z /\ \A i \in 1 .. z : d[i] = c[i]
    BY LineFacts, CarriedBits
  <1>2. p \in Seq(Bits) /\ (HasParity => Len(p) = 1 /\ p[1] = ParityBit(c)) /\ (~HasParity => Len(p) = 0)
    BY ParityBitIsBit
  <1>3. <<0>> \in Seq(Bits) /\ Len(<<0>>) = 1 /\ <<0>>[1] = 0
    BY DEF Bits
  <1> HIDE DEF z, d, p
  <1>4. /\ a \in Seq(Bits) /\ Len(a) = 1 + z /\ a[1] = 0
        /\ \A i \in 1 .. z : a[1 + i] = c[i]
    <2> DEFINE zero == <<0>>
    <2>1. zero \in Seq(Bits) /\ 1 = Len(zero) /\ zero[1] = 0
      BY <1>3
    <2>2. Join(zero \o d, zero, d)
      BY <1>1, <2>1, Joined, Zenon
    <2>3. a = zero \o d
      BY DEF zero
    <2>4. 1 \in 1 .. 1
      OBVIOUS
    <2> HIDE DEF zero, a
    <2> QED  BY <1>1, <2>1, <2>2, <2>3, <2>4, Zenon DEF Join
  <1> HIDE DEF a
  <1> DEFINE l == Len(p)
  <1>5. /\ bits \in Seq(Bits) /\ Len(bits) = 1 + z + l
        /\ \A i \in 1 .. 1 + z : bits[i] = a[i]
        /\ \A i \in 1 .. l : bits[1 + z + i] = p[i]
    <2>1. Join(a \o p, a, p)
      BY <1>2, <1>4, Joined, Zenon
    <2>2. bits = a \o p
      OBVIOUS
    <2> HIDE DEF bits
    <2> QED  BY <1>4, <2>1, <2>2, Zenon DEF Join
  <1>6. l \in 0 .. 1 /\ (HasParity <=> l = 1)
    BY <1>2 DEF HasParity
  <1> HIDE DEF bits, l
  <1> DEFINE m == Len(bits)
             n == BufferWidth - m
  <1>7. m \in 1 .. 11 /\ m = 1 + z + l /\ n \in Nat /\ m + n = BufferWidth
    BY <1>1, <1>5, <1>6 DEF BufferWidth
  <1>8. ones \in Seq(Bits) /\ Len(ones) = n /\ \A i \in 1 .. n : ones[i] = 1
    <2>1. ones \in [1 .. n -> Bits]
      BY DEF Bits
    <2> QED  BY <2>1, <1>7, BitsInARow
  <1> HIDE DEF ones
  <1> DEFINE f == bits \o ones
  <1>9. /\ f \in Seq(Bits) /\ Len(f) = m + n
        /\ \A i \in 1 .. m : f[i] = bits[i]
        /\ \A i \in 1 .. n : f[m + i] = ones[i]
    <2>1. Join(bits \o ones, bits, ones)
      BY <1>5, <1>8, Joined, Zenon
    <2>2. f = bits \o ones
      OBVIOUS
    <2> HIDE DEF f
    <2> QED  BY <1>8, <2>1, <2>2, Zenon DEF Join
  <1>10. f = Framed(c)
    BY DEF f, bits, a, d, p, ones, Framed
  <1> HIDE DEF f, m, n
  <1>11. f \in [1 .. BufferWidth -> Bits]
    BY <1>7, <1>9, LenProperties
  <1>12. f[1] = 0
    <2>1. 1 \in 1 .. m /\ 1 \in 1 .. 1 + z
      BY <1>1, <1>7
    <2> QED  BY <2>1, <1>4, <1>5, <1>9
  <1>13. \A k \in 1 .. z : f[1 + k] = c[k]
    <2>1. \A k \in 1 .. z : 1 + k \in 1 .. m /\ 1 + k \in 1 .. 1 + z
      BY SMT, <1>1, <1>6, <1>7
    <2> QED  BY <2>1, <1>4, <1>5, <1>9
  <1>14. HasParity => f[z + 2] = ParityBit(c)
    <2> SUFFICES ASSUME HasParity PROVE f[z + 2] = ParityBit(c)
      OBVIOUS
    <2>1. l = 1 /\ z + 2 \in 1 .. m /\ 1 + z + 1 = z + 2 /\ 1 \in 1 .. l
      BY <1>1, <1>6, <1>7
    <2>2. bits[1 + z + 1] = p[1]
      BY <2>1, <1>5
    <2> QED  BY <2>1, <2>2, <1>2, <1>9
  <1>15. \A i \in 1 .. BufferWidth : i > m => f[i] = 1
    <2> SUFFICES ASSUME NEW i \in 1 .. BufferWidth, i > m PROVE f[i] = 1
      OBVIOUS
    <2>1. i - m \in 1 .. n /\ m + (i - m) = i
      BY <1>7 DEF BufferWidth
    <2>2. f[m + (i - m)] = ones[i - m]
      BY <2>1, <1>9, Zenon
    <2> QED  BY <2>1, <2>2, <1>8
  <1>16. ASSUME NEW i \in 1 .. BufferWidth
         PROVE  f[i] = Level(c, i - 1)
    <2>1. CASE i = 1
      BY <2>1, <1>12, LevelIs
    <2>2. CASE i \in 2 .. 1 + z
      <3>1. i - 1 \in 1 .. z /\ 1 + (i - 1) = i
        BY <2>2, <1>1
      <3>2. f[1 + (i - 1)] = c[i - 1]
        BY <3>1, <1>13, Zenon
      <3>3. Level(c, i - 1) = c[i - 1]
        BY <3>1, LevelIs, Zenon DEF z
      <3> QED  BY <3>1, <3>2, <3>3, Zenon
    <2>3. CASE i = z + 2 /\ HasParity
      <3>1. i - 1 = z + 1
        BY <2>3, <1>1
      <3> QED  BY <2>3, <3>1, <1>14, LevelIs, Zenon DEF z
    <2>4. CASE i > z + 1 /\ ~(i = z + 2 /\ HasParity)
      <3>1. i > m /\ i - 1 > z /\ i - 1 \in Int /\ (~HasParity \/ i - 1 > z + 1)
        BY <2>4, <1>1, <1>6, <1>7
      <3>2. f[i] = 1
        BY <3>1, <1>15
      <3>3. Level(c, i - 1) = 1
        BY <3>1, LevelIs, Zenon DEF z
      <3> QED  BY <3>2, <3>3
    <2>5. i \in Int /\ i >= 1
      OBVIOUS
    <2> QED  BY SMT, <2>1, <2>2, <2>3, <2>4, <2>5, <1>1
  <1> QED  BY <1>10, <1>11, <1>16

-----------------------------------------------------------------------------
(* Types *)

LEMMA TypeInit == Init => TypeOK
  <1> SUFFICES ASSUME Init PROVE TypeOK
    OBVIOUS
  <1>1. line \in Lines /\ mode \in line.modes
    BY DEF Init
  <1>2. /\ line.tx \in Nat /\ line.rx \in Nat /\ mode.size \in 7 .. 9
        /\ 0 \in 0 .. Patience
    BY <1>1, LineFacts, FrameFacts
  <1>3. Zeroes \in [1 .. mode.size -> Bits]
    BY DEF Zeroes, Bits
  <1>4. tx \in [state : {"idle", "iter", "ready"}, start : BOOLEAN, timer : 0 .. line.tx,
                buffer : [1 .. BufferWidth -> Bits], count : 0 .. BufferWidth, line : Bits]
    BY <1>2 DEF Init, Bits, BufferWidth
  <1>5. rx \in [state : {"idle", "wait", "iter", "parity", "parity2", "ready", "fail"},
                buffer : [1 .. mode.size -> Bits], timer : 0 .. line.rx,
                count : 0 .. mode.size, sync : Bits]
    BY <1>2, <1>3 DEF Init, Bits
  <1>6. /\ stat \subseteq TransmitFlags \cup ReceiveFlags /\ data \in [1 .. mode.size -> Bits]
        /\ waited \in 0 .. Patience
        /\ spike \in [left : Nat, done : BOOLEAN] /\ (~spike.done => spike.left = 0)
        /\ sender = "idle" /\ reader = "poll" /\ delivered \in Nat
    BY <1>2, <1>3 DEF Init
  <1>7. sent \in Seq(Chars) /\ got \in Seq([char : [1 .. mode.size -> Bits], flags : SUBSET ReceiveFlags])
    BY DEF Init
  <1> QED  BY <1>1, <1>4, <1>5, <1>6, <1>7, Zenon DEF TypeOK

TxType ==
  [state : {"idle", "iter", "ready"}, start : BOOLEAN, timer : 0 .. line.tx,
   buffer : [1 .. BufferWidth -> Bits], count : 0 .. BufferWidth, line : Bits]
RxType ==
  [state : {"idle", "wait", "iter", "parity", "parity2", "ready", "fail"},
   buffer : [1 .. mode.size -> Bits], timer : 0 .. line.rx, count : 0 .. mode.size, sync : Bits]
GotType == [char : [1 .. mode.size -> Bits], flags : SUBSET ReceiveFlags]

LEMMA TypeIs ==
  TypeOK <=>
    /\ line \in Lines /\ mode \in line.modes /\ tx \in TxType /\ rx \in RxType
    /\ stat \subseteq TransmitFlags \cup ReceiveFlags
    /\ data \in [1 .. mode.size -> Bits] /\ waited \in 0 .. Patience
    /\ spike \in [left : Nat, done : BOOLEAN] /\ (~spike.done => spike.left = 0)
    /\ sender \in {"idle", "store", "poll"} /\ reader \in {"poll", "first", "second"}
    /\ sent \in Seq(Chars) /\ (sender # "idle" => sent # <<>>) /\ delivered \in Nat
    /\ got \in Seq(GotType)
  BY Zenon DEF TypeOK, TxType, RxType, GotType

\* The latest character given to putc.
Last == sent[Len(sent)]

LEMMA LastIsChar ==
  ASSUME sent \in Seq(Chars), sent # <<>> PROVE Last \in Chars
  BY DEF Last

LEMMA TransmitterType ==
  ASSUME TypeOK, TransmitterEdge PROVE tx' \in TxType
  <1>1. /\ line \in Lines /\ mode \in line.modes /\ tx \in TxType
        /\ sent \in Seq(Chars) /\ (sender # "idle" => sent # <<>>)
    BY TypeIs, Zenon
  <1>2. /\ tx.state \in {"idle", "iter", "ready"} /\ tx.timer \in 0 .. line.tx
        /\ tx.buffer \in [1 .. BufferWidth -> Bits] /\ tx.count \in 0 .. BufferWidth
    BY <1>1 DEF TxType
  <1>3. line.tx \in Nat /\ Shifts \in 0 .. BufferWidth
    BY <1>1, LineFacts, FrameFacts DEF BufferWidth
  <1>4. TransmitterState \in {"idle", "iter", "ready"}
    BY <1>2 DEF TransmitterState
  <1>5. TransmitterTimer \in 0 .. line.tx
    BY <1>2, <1>3 DEF TransmitterTimer
  <1>6. TransmitterCount \in 0 .. BufferWidth
    BY <1>2, <1>3 DEF TransmitterCount, Shifting, BufferWidth
  <1>7. Written \in BOOLEAN
    BY DEF Written
  <1>8. tx.buffer[1] \in Bits /\ 1 \in Bits
    BY <1>2 DEF Bits, BufferWidth
  <1>9. Append(Tail(tx.buffer), 1) \in [1 .. BufferWidth -> Bits]
    <2>1. BufferWidth \in Nat \ {0}
      BY DEF BufferWidth
    <2> QED  BY <1>2, <1>8, <2>1, ShiftedIn, Zenon
  <1>10. Written => Framed(sent[Len(sent)]) \in [1 .. BufferWidth -> Bits]
    <2> SUFFICES ASSUME Written PROVE Framed(Last) \in [1 .. BufferWidth -> Bits]
      BY DEF Last
    <2>1. sent # <<>>
      BY <1>1 DEF Written
    <2> QED  BY <1>1, <2>1, LastIsChar, FrameBits
  <1>11. /\ tx'.state = TransmitterState /\ tx'.start = Written /\ tx'.timer = TransmitterTimer
         /\ tx'.count = TransmitterCount
         /\ tx'.line = IF tx.state = "iter" THEN tx.buffer[1] ELSE 1
         /\ tx'.buffer = IF Shifting THEN Append(Tail(tx.buffer), 1)
                         ELSE IF Written THEN Framed(sent[Len(sent)]) ELSE tx.buffer
    BY DEF TransmitterEdge
  <1>12. tx'.line \in Bits
    BY <1>8, <1>11
  <1>13. tx'.buffer \in [1 .. BufferWidth -> Bits]
    BY <1>2, <1>9, <1>10, <1>11, Zenon
  <1>14. tx' = [state |-> tx'.state, start |-> tx'.start, buffer |-> tx'.buffer,
                timer |-> tx'.timer, count |-> tx'.count, line |-> tx'.line]
    BY <1>11, Zenon DEF TransmitterEdge
  <1> QED  BY <1>4, <1>5, <1>6, <1>7, <1>11, <1>12, <1>13, <1>14, Zenon DEF TxType

LEMMA ReceiverType ==
  ASSUME TypeOK, ReceiverEdge PROVE rx' \in RxType
  <1>1. /\ line \in Lines /\ mode \in line.modes /\ rx \in RxType /\ tx \in TxType
    BY TypeIs, Zenon
  <1>2. /\ rx.state \in {"idle", "wait", "iter", "parity", "parity2", "ready", "fail"}
        /\ rx.buffer \in [1 .. mode.size -> Bits] /\ rx.timer \in 0 .. line.rx
        /\ rx.count \in 0 .. mode.size /\ rx.sync \in Bits
    BY <1>1 DEF RxType
  <1>3. line.rx \in Nat /\ HalfBit \in 0 .. line.rx /\ mode.size \in 7 .. 9
    BY <1>1, LineFacts, FrameFacts
  <1>4. ReceiverState \in {"idle", "wait", "iter", "parity", "parity2", "ready", "fail"}
    BY <1>2 DEF ReceiverState
  <1>5. ReceiverTimer \in 0 .. line.rx
    BY <1>2, <1>3 DEF ReceiverTimer, Expired
  <1>6. RxD \in Bits
    BY <1>1 DEF RxD, TxType, Bits
  <1>7. Append(Tail(rx.buffer), rx.sync) \in [1 .. mode.size -> Bits]
    <2>1. mode.size \in Nat \ {0}
      BY <1>3
    <2> QED  BY <1>2, <2>1, ShiftedIn, Zenon
  <1>8. Zeroes \in [1 .. mode.size -> Bits]
    BY DEF Zeroes, Bits
  <1> DEFINE buffer == CASE StartSeen -> Zeroes
                         [] Sampling -> Append(Tail(rx.buffer), rx.sync)
                         [] OTHER -> rx.buffer
             count == CASE StartSeen -> mode.size
                        [] Sampling -> rx.count - 1
                        [] OTHER -> rx.count
  <1>9. buffer \in [1 .. mode.size -> Bits]
    <2>1. ~(StartSeen /\ Sampling)
      BY DEF StartSeen, Sampling
    <2> QED  BY <1>2, <1>7, <1>8, <2>1
  <1>10. count \in 0 .. mode.size
    BY <1>2, <1>3 DEF StartSeen, Sampling
  <1>11. rx' = [state |-> ReceiverState, buffer |-> buffer, timer |-> ReceiverTimer,
                count |-> count, sync |-> RxD]
    BY Zenon DEF ReceiverEdge
  <1> HIDE DEF buffer, count
  <1> QED  BY <1>4, <1>5, <1>6, <1>9, <1>10, <1>11, Zenon DEF RxType

LEMMA TypesKept ==
  ASSUME TypeOK,
         line' = line, mode' = mode, tx' = tx, rx' = rx, stat' = stat, data' = data,
         spike' = spike, sender' = sender, reader' = reader, waited' = waited,
         sent' = sent, got' = got, delivered' = delivered,
         Patience' = Patience, TxType' = TxType, RxType' = RxType, GotType' = GotType
  PROVE  TypeOK'
  <1>1. /\ line \in Lines /\ mode \in line.modes /\ tx \in TxType /\ rx \in RxType
        /\ stat \subseteq TransmitFlags \cup ReceiveFlags
        /\ data \in [1 .. mode.size -> Bits] /\ waited \in 0 .. Patience
        /\ spike \in [left : Nat, done : BOOLEAN] /\ (~spike.done => spike.left = 0)
        /\ sender \in {"idle", "store", "poll"} /\ reader \in {"poll", "first", "second"}
        /\ sent \in Seq(Chars) /\ (sender # "idle" => sent # <<>>) /\ delivered \in Nat
        /\ got \in Seq(GotType)
    BY TypeIs, Zenon
  <1>2. (/\ line \in Lines /\ mode \in line.modes /\ tx \in TxType /\ rx \in RxType
         /\ stat \subseteq TransmitFlags \cup ReceiveFlags
         /\ data \in [1 .. mode.size -> Bits] /\ waited \in 0 .. Patience
         /\ spike \in [left : Nat, done : BOOLEAN] /\ (~spike.done => spike.left = 0)
         /\ sender \in {"idle", "store", "poll"} /\ reader \in {"poll", "first", "second"}
         /\ sent \in Seq(Chars) /\ (sender # "idle" => sent # <<>>) /\ delivered \in Nat
         /\ got \in Seq(GotType))'
    BY <1>1, Zenon
  <1> QED  BY <1>2, TypeIs, PTL

LEMMA TypeNext == TypeOK /\ [Next]_vars => TypeOK'
  <1> SUFFICES ASSUME TypeOK, [Next]_vars PROVE TypeOK'
    OBVIOUS
  <1>1. CASE UNCHANGED vars
    <2>1. /\ line' = line /\ mode' = mode /\ tx' = tx /\ rx' = rx /\ stat' = stat /\ data' = data
          /\ spike' = spike /\ sender' = sender /\ reader' = reader /\ waited' = waited
          /\ sent' = sent /\ got' = got /\ delivered' = delivered
      BY <1>1, Zenon DEF vars, board
    <2>2. /\ Patience' = Patience /\ TxType' = TxType /\ RxType' = RxType /\ GotType' = GotType
      BY <2>1, Zenon DEF Patience, FrameTime, Shifts, HasParity, TxType, RxType, GotType
    <2> QED  BY <2>1, <2>2, TypesKept
  <1>2. CASE Next
    <2>0. /\ line \in Lines /\ mode \in line.modes /\ tx \in TxType /\ rx \in RxType
          /\ stat \subseteq TransmitFlags \cup ReceiveFlags
          /\ data \in [1 .. mode.size -> Bits] /\ waited \in 0 .. Patience
          /\ spike \in [left : Nat, done : BOOLEAN] /\ (~spike.done => spike.left = 0)
          /\ sender \in {"idle", "store", "poll"} /\ reader \in {"poll", "first", "second"}
          /\ sent \in Seq(Chars) /\ (sender # "idle" => sent # <<>>) /\ delivered \in Nat
          /\ got \in Seq(GotType)
      BY TypeIs, Zenon
    <2>1. line' = line /\ mode' = mode /\ TransmitterEdge /\ ReceiverEdge /\ LineEdge /\ FlagsEdge
      BY <1>2, Zenon DEF Next, ClockEdge
    <2>2. tx' \in TxType /\ TxType' = TxType
      BY <2>1, TransmitterType, Zenon DEF TxType
    <2>3. rx' \in RxType /\ RxType' = RxType
      BY <2>1, ReceiverType, Zenon DEF RxType
    <2>4. Patience' = Patience /\ GotType' = GotType
      BY <2>1, Zenon DEF Patience, FrameTime, Shifts, HasParity, GotType
    <2>5. stat' \subseteq TransmitFlags \cup ReceiveFlags
      <3>1. stat' = (stat \ Cleared) \cup Set
        BY <2>1, Zenon DEF FlagsEdge
      <3>2. Set \subseteq TransmitFlags \cup ReceiveFlags
        BY Zenon DEF Set
      <3> QED  BY <2>0, <3>1, <3>2, Zenon
    <2>6. data' \in [1 .. mode.size -> Bits] /\ delivered' \in Nat
      <3>1. rx.buffer \in [1 .. mode.size -> Bits]
        BY <2>0 DEF RxType
      <3> QED  BY <2>0, <2>1, <3>1 DEF FlagsEdge
    <2>7. spike' \in [left : Nat, done : BOOLEAN] /\ (~spike'.done => spike'.left = 0)
      <3>1. CASE ~spike.done /\ \E n \in line.spikes : spike' = [left |-> n, done |-> TRUE]
        <4>1. line.spikes \subseteq Nat
          BY <2>0, LineAssumption
        <4> QED  BY <3>1, <4>1
      <3>2. CASE spike' = [spike EXCEPT !.left = IF @ > 0 THEN @ - 1 ELSE 0]
        BY <2>0, <3>2
      <3> QED  BY <2>1, <3>1, <3>2, Zenon DEF LineEdge
    <2>8. /\ sender' \in {"idle", "store", "poll"} /\ sent' \in Seq(Chars)
          /\ (sender' # "idle" => sent' # <<>>)
      <3>1. CASE Call
        <4>1. PICK c \in Chars : sent' = Append(sent, c)
          BY <3>1 DEF Call
        <4>2. sent' \in Seq(Chars) /\ sent' # <<>>
          BY <2>0, <4>1, AppendProperties
        <4> QED  BY <3>1, <4>2 DEF Call
      <3>2. CASE NoCall
        BY <3>2, <2>0 DEF NoCall
      <3>3. CASE Store
        BY <3>3, <2>0 DEF Store
      <3>4. CASE Putc
        BY <3>4, <2>0 DEF Putc
      <3> QED  BY <1>2, <3>1, <3>2, <3>3, <3>4, Zenon DEF Next
    <2>9. reader' \in {"poll", "first", "second"} /\ waited' \in 0 .. Patience /\ got' \in Seq(GotType)
      <3>0. Patience \in Nat
        BY <2>0, FrameFacts
      <3>1. CASE Poll
        BY <3>0, <3>1, <2>0 DEF Poll
      <3>2. CASE CharacterSeen
        BY <3>0, <3>2, <2>0 DEF CharacterSeen
      <3>3. CASE Load
        <4> DEFINE g == [char |-> data, flags |-> stat \cap {"PE", "RF", "FE"}]
        <4>1. stat \cap {"PE", "RF", "FE"} \in SUBSET ReceiveFlags
          BY Zenon DEF ReceiveFlags
        <4>2. g \in GotType
          BY <2>0, <4>1, Zenon DEF GotType
        <4>3. got' = Append(got, g) /\ reader' = "second" /\ waited' = waited
          BY <3>3, Zenon DEF Load
        <4> HIDE DEF g
        <4>4. Append(got, g) \in Seq(GotType)
          BY <2>0, <4>2, AppendProperties, Zenon
        <4> QED  BY <2>0, <4>3, <4>4, Zenon
      <3>4. CASE LoadEnds
        BY <3>4, <2>0 DEF LoadEnds
      <3> QED  BY <1>2, <3>1, <3>2, <3>3, <3>4, Zenon DEF Next
    <2> HIDE DEF GotType
    <2>10. /\ line' \in Lines /\ mode' \in line'.modes /\ tx' \in TxType' /\ rx' \in RxType'
           /\ data' \in [1 .. mode'.size -> Bits] /\ waited' \in 0 .. Patience'
           /\ got' \in Seq(GotType')
      BY <2>0, <2>1, <2>2, <2>3, <2>4, <2>6, <2>9, Zenon
    <2> QED  BY <2>5, <2>6, <2>7, <2>8, <2>9, <2>10, Zenon
             DEF TypeOK, TxType, RxType, GotType, TransmitFlags, ReceiveFlags, Bits, BufferWidth
  <1> QED  BY <1>1, <1>2

\* The registers, the flags and what has been sent and received have their types.
THEOREM TypeCorrect == Spec => []TypeOK
  BY TypeInit, TypeNext, PTL DEF Spec

-----------------------------------------------------------------------------
(* Bits and samples *)

\* In clocks from the start of a frame: where bit k begins, and where the receiver
\* takes its k-th sample, two clocks behind the line.
BitAt(l, k)    == k * (l.tx + 1)
SampleAt(l, k) == l.rx \div 2 + k * (l.rx + 1)

\* The number of the first stop bit, and the clocks until the receiver is done.
StopOf(m)   == m.size + 1 + (IF m.parity # "none" THEN 1 ELSE 0)
EndOf(l, m) == SampleAt(l, StopOf(m)) + 3 + (IF m.parity # "none" THEN 2 ELSE 1)

\* The clocks of both boards are near enough for a format: every data bit is sampled
\* within it, the parity one clock later, nothing is taken for a stop bit too early, and
\* the receiver is done before a start bit that follows at once.
InTime(l, m) ==
  /\ \A k \in 0 .. m.size : /\ BitAt(l, k) <= 1 + SampleAt(l, k)
                            /\ 1 + SampleAt(l, k) < BitAt(l, k + 1)
  /\ m.parity # "none" => /\ BitAt(l, m.size + 1) <= 2 + SampleAt(l, m.size + 1)
                          /\ 2 + SampleAt(l, m.size + 1) < BitAt(l, m.size + 2)
  /\ BitAt(l, StopOf(m)) <= EndOf(l, m) - 2
  /\ EndOf(l, m) <= BitAt(l, StopOf(m) + m.stop) + 6

Bit(k)    == BitAt(line, k)
Sample(k) == SampleAt(line, k)
Stop      == StopOf(mode)
End       == EndOf(line, mode)

LEMMA Multiples ==
  ASSUME NEW t \in Nat
  PROVE  /\ 0 * t = 0
         /\ \A k \in Nat : k * t \in Nat /\ (k + 1) * t = k * t + t
         /\ \A j \in Nat, k \in Nat : j <= k => j * t <= k * t
  <1>1. \A k \in Nat : k * t \in Nat /\ (k + 1) * t = k * t + t
    BY SMT
  <1>2. ASSUME NEW j \in Nat, NEW k \in Nat, j <= k
        PROVE  j * t <= k * t
    <2>1. PICK d \in Nat : k = j + d
      BY <1>2, k - j \in Nat, k = j + (k - j)
    <2>2. k * t = j * t + d * t /\ d * t \in Nat /\ j * t \in Nat
      BY <2>1, SMT
    <2> QED  BY <2>2
  <1> QED  BY <1>1, <1>2

LEMMA BitFacts ==
  ASSUME line \in Lines, mode \in line.modes
  PROVE  /\ Bit(0) = 0
         /\ \A k \in Nat : Bit(k) \in Nat /\ Bit(k + 1) = Bit(k) + line.tx + 1
         /\ \A j \in Nat, k \in Nat : j <= k => Bit(j) <= Bit(k)
         /\ FrameTime = Bit(Stop + mode.stop) /\ FrameTime = Bit(Shifts + 1)
  <1> DEFINE t == line.tx + 1
  <1>1. t \in Nat /\ line.tx \in Nat
    BY LineFacts
  <1> HIDE DEF t
  <1>2. /\ 0 * t = 0 /\ \A k \in Nat : k * t \in Nat /\ (k + 1) * t = k * t + t
        /\ \A j \in Nat, k \in Nat : j <= k => j * t <= k * t
    BY <1>1, Multiples
  <1>3. \A k : Bit(k) = k * t
    BY Zenon DEF Bit, BitAt, t
  <1>4. \A k \in Nat : k + 1 \in Nat
    OBVIOUS
  <1>5. \A k \in Nat : Bit(k) \in Nat /\ Bit(k + 1) = Bit(k) + t
    BY <1>2, <1>3, <1>4, Zenon
  <1>6. \A k \in Nat : Bit(k + 1) = Bit(k) + line.tx + 1
    BY <1>1, <1>5 DEF t
  <1>7. FrameTime = Bit(Shifts + 1)
    BY Zenon DEF FrameTime, Bit, BitAt
  <1>8. Shifts + 1 = Stop + mode.stop
    BY LineFacts DEF Shifts, Stop, StopOf, HasParity
  <1> QED  BY <1>2, <1>3, <1>5, <1>6, <1>7, <1>8, Zenon

LEMMA SampleFacts ==
  ASSUME line \in Lines, mode \in line.modes
  PROVE  /\ Sample(0) = HalfBit
         /\ \A k \in Nat : Sample(k) \in Nat /\ Sample(k + 1) = Sample(k) + line.rx + 1
         /\ End = Sample(Stop) + 3 + (IF HasParity THEN 2 ELSE 1)
         /\ Stop = mode.size + 1 + (IF HasParity THEN 1 ELSE 0)
  <1> DEFINE t == line.rx + 1
             h == line.rx \div 2
  <1>1. t \in Nat /\ line.rx \in Nat /\ h \in Nat
    BY LineFacts
  <1>2. HalfBit = h
    BY DEF HalfBit
  <1> HIDE DEF t, h
  <1>3. 0 * t = 0 /\ \A k \in Nat : k * t \in Nat /\ (k + 1) * t = k * t + t
    BY <1>1, Multiples
  <1>4. \A k : Sample(k) = h + k * t
    BY Zenon DEF Sample, SampleAt, t, h
  <1>5. \A k \in Nat : Sample(k) \in Nat /\ Sample(k + 1) = Sample(k) + t
    <2> TAKE k \in Nat
    <2> DEFINE x == k * t
    <2>1. x \in Nat /\ (k + 1) * t = x + t
      BY <1>3
    <2>2. Sample(k) = h + x /\ Sample(k + 1) = h + (k + 1) * t
      BY <1>4
    <2> HIDE DEF x
    <2> QED  BY <2>1, <2>2, <1>1
  <1>6. \A k \in Nat : Sample(k + 1) = Sample(k) + line.rx + 1
    BY <1>1, <1>5 DEF t
  <1>7. Sample(0) = HalfBit
    BY <1>1, <1>2, <1>3, <1>4
  <1> QED  BY <1>5, <1>6, <1>7 DEF End, EndOf, Stop, StopOf, HasParity, Sample

LEMMA SamplesAscend ==
  ASSUME line \in Lines, mode \in line.modes, NEW j \in Nat, NEW k \in Nat, j <= k
  PROVE  Sample(j) <= Sample(k)
  <1> DEFINE t == line.rx + 1
             h == line.rx \div 2
             x == j * t
             y == k * t
  <1>1. t \in Nat /\ h \in Nat
    BY LineFacts
  <1> HIDE DEF t, h
  <1>2. x \in Nat /\ y \in Nat /\ x <= y
    BY <1>1, Multiples
  <1>3. Sample(j) = h + x /\ Sample(k) = h + y
    BY Zenon DEF Sample, SampleAt, t, h
  <1> HIDE DEF x, y
  <1> QED  BY <1>1, <1>2, <1>3

Timely == \A l \in Lines : \A m \in l.modes : InTime(l, m)

LEMMA TimelyFacts ==
  ASSUME Timely, line \in Lines, mode \in line.modes
  PROVE  /\ \A k \in 0 .. mode.size : Bit(k) <= 1 + Sample(k) /\ 1 + Sample(k) < Bit(k + 1)
         /\ HasParity => /\ Bit(mode.size + 1) <= 2 + Sample(mode.size + 1)
                         /\ 2 + Sample(mode.size + 1) < Bit(mode.size + 2)
         /\ Bit(Stop) <= End - 2 /\ End <= FrameTime + 6
  <1>1. InTime(line, mode)
    BY DEF Timely
  <1>2. FrameTime = Bit(Stop + mode.stop)
    BY BitFacts
  <1> QED  BY <1>1, <1>2, Zenon DEF InTime, Bit, Sample, Stop, End, HasParity

LEMMA StopInFrame ==
  ASSUME line \in Lines, mode \in line.modes
  PROVE  Bit(Stop) \in Nat /\ Bit(Stop) <= FrameTime /\ End \in Nat /\ FrameTime > 0
  <1>1. mode.size \in 7 .. 9 /\ mode.stop \in 1 .. 2
    BY LineFacts
  <1>2. /\ Stop \in Nat /\ Stop + mode.stop \in Nat /\ Stop <= Stop + mode.stop
        /\ End = Sample(Stop) + 3 + (IF HasParity THEN 2 ELSE 1)
    BY <1>1, SampleFacts
  <1>3. Sample(Stop) \in Nat
    BY <1>2, SampleFacts, Zenon
  <1>4. Bit(Stop) <= Bit(Stop + mode.stop) /\ Bit(Stop) \in Nat
    BY <1>2, BitFacts, Zenon
  <1>5. FrameTime = Bit(Stop + mode.stop)
    BY BitFacts
  <1>6. Bit(0) = 0 /\ Bit(1) = 0 + line.tx + 1 /\ Bit(1) <= Bit(Stop) /\ line.tx \in Nat
    <2>1. 0 \in Nat /\ 0 + 1 = 1 /\ 1 \in Nat /\ 1 <= Stop
      BY <1>1, SampleFacts
    <2> QED  BY <1>2, <2>1, BitFacts, LineFacts, Zenon
  <1>7. Bit(1) > 0
    BY <1>6
  <1>8. Bit(Stop) > 0 /\ FrameTime > 0
    <2>1. FrameTime \in Nat
      BY FrameFacts
    <2> QED  BY <1>4, <1>5, <1>6, <1>7, <2>1
  <1> QED  BY <1>2, <1>3, <1>4, <1>5, <1>8

\* A clock is in one bit only.
LEMMA OneBit ==
  ASSUME line \in Lines, mode \in line.modes, NEW p \in Int, NEW j \in Nat, NEW k \in Nat,
         Bit(j) <= p, p < Bit(j + 1), Bit(k) <= p, p < Bit(k + 1)
  PROVE  j = k
  <1>1. Bit(j) \in Nat /\ Bit(k) \in Nat /\ Bit(j + 1) \in Nat /\ Bit(k + 1) \in Nat
    BY BitFacts, j + 1 \in Nat, k + 1 \in Nat
  <1>2. j + 1 <= k => Bit(j + 1) <= Bit(k)
    BY BitFacts, j + 1 \in Nat
  <1>3. k + 1 <= j => Bit(k + 1) <= Bit(j)
    BY BitFacts, k + 1 \in Nat
  <1>4. ~(j + 1 <= k) /\ ~(k + 1 <= j)
    BY <1>1, <1>2, <1>3
  <1> QED  BY <1>4

\* Clocks within four percent of each other, and no faster than six per bit, are near
\* enough: the receiver's sample drifts by less than half a bit until the stop bit.
THEOREM NearClocksAreTimely ==
  ASSUME \A l \in Lines : 24 * (l.rx - l.tx) + 6 <= l.tx /\ 24 * (l.tx - l.rx) + 6 <= l.tx
  PROVE  Timely
  <1> SUFFICES ASSUME NEW l \in Lines, NEW m \in l.modes PROVE InTime(l, m)
    BY DEF Timely
  <1> DEFINE t == l.tx + 1
             u == l.rx + 1
             h == l.rx \div 2
             e == IF u >= t THEN u - t ELSE t - u
             B(k) == k * t
             S(k) == h + k * u
  <1>1. /\ l.tx \in Nat /\ l.rx \in Nat /\ m.size \in 7 .. 9 /\ m.stop \in 1 .. 2
        /\ m.parity \in {"none", "even", "odd"}
    <2>1. l.modes \subseteq [size : 7 .. 9, parity : {"none", "even", "odd"}, stop : 1 .. 2]
      BY LineAssumption
    <2> QED  BY <2>1, LineAssumption
  <1>2. 24 * (l.rx - l.tx) + 6 <= l.tx /\ 24 * (l.tx - l.rx) + 6 <= l.tx
    OBVIOUS
  <1>3. /\ t \in Nat /\ u \in Nat /\ h \in Nat /\ e \in Nat /\ (u = t + e \/ t = u + e)
        /\ 24 * e + 7 <= t /\ 2 * h <= u - 1 /\ u - 2 <= 2 * h
    <2>1. h \in Nat /\ 2 * h <= l.rx /\ l.rx - 1 <= 2 * h
      BY <1>1
    <2> HIDE DEF h
    <2>2. t \in Nat /\ u \in Nat /\ 2 * h <= u - 1 /\ u - 2 <= 2 * h
      BY <1>1, <2>1
    <2>3. CASE l.rx >= l.tx
      <3>1. e = l.rx - l.tx /\ u = t + e
        BY <1>1, <2>3
      <3> QED  BY <1>1, <1>2, <2>1, <2>2, <2>3, <3>1
    <2>4. CASE ~(l.rx >= l.tx)
      <3>1. e = l.tx - l.rx /\ t = u + e
        BY <1>1, <2>4
      <3> QED  BY <1>1, <1>2, <2>1, <2>2, <2>4, <3>1
    <2> QED  BY <2>3, <2>4
  <1> HIDE DEF t, u, h, e
  <1>4. ASSUME NEW k \in 0 .. 11
        PROVE  /\ B(k) \in Nat /\ S(k) \in Nat /\ B(k + 1) = B(k) + t
               /\ B(k) <= 1 + S(k) /\ 2 + S(k) < B(k + 1) /\ S(k) <= B(k) + h + 11 * e
    <2> DEFINE x == k * t
               y == k * u
               z == k * e
    <2>1. k \in Nat /\ k <= 11 /\ 11 \in Nat
      OBVIOUS
    <2>2. x \in Nat /\ y \in Nat /\ z \in Nat /\ (k + 1) * t = x + t
      BY <1>3, <2>1, Multiples
    <2>3. z <= 11 * e
      BY <1>3, <2>1, Multiples
    <2>4. y = x + z \/ x = y + z
      <3>1. CASE u = t + e
        <4>1. k * (t + e) = k * t + k * e
          BY <1>3, <2>1
        <4> QED  BY <3>1, <4>1
      <3>2. CASE t = u + e
        <4>1. k * (u + e) = k * u + k * e
          BY <1>3, <2>1
        <4> QED  BY <3>2, <4>1
      <3> QED  BY <1>3, <3>1, <3>2
    <2> HIDE DEF x, y, z
    <2>5. /\ x <= 1 + (h + y) /\ 2 + (h + y) < x + t /\ h + y <= x + h + 11 * e /\ h + y \in Nat
      BY <1>3, <2>2, <2>3, <2>4
    <2> QED  BY <2>2, <2>5 DEF x, y
  <1>5. \A k : BitAt(l, k) = B(k) /\ SampleAt(l, k) = S(k)
    BY Zenon DEF BitAt, SampleAt, t, u, h
  <1> HIDE DEF B, S
  <1>6. ASSUME NEW k \in 0 .. m.size
        PROVE  BitAt(l, k) <= 1 + SampleAt(l, k) /\ 1 + SampleAt(l, k) < BitAt(l, k + 1)
    <2>1. k \in 0 .. 11
      BY <1>1
    <2> QED  BY <1>3, <1>4, <1>5, <2>1
  <1>7. /\ BitAt(l, m.size + 1) <= 2 + SampleAt(l, m.size + 1)
        /\ 2 + SampleAt(l, m.size + 1) < BitAt(l, m.size + 2)
    <2> DEFINE k == m.size + 1
    <2>1. k \in 0 .. 11 /\ m.size + 2 = k + 1
      BY <1>1
    <2> HIDE DEF k
    <2>2. BitAt(l, k) <= 2 + SampleAt(l, k) /\ 2 + SampleAt(l, k) < BitAt(l, k + 1)
      BY <1>3, <1>4, <1>5, <2>1
    <2> QED  BY <2>1, <2>2 DEF k
  <1>8. BitAt(l, StopOf(m)) <= EndOf(l, m) - 2 /\ EndOf(l, m) <= BitAt(l, StopOf(m) + m.stop) + 6
    <2> DEFINE k == StopOf(m)
    <2>1. k \in 0 .. 11 /\ k \in Nat /\ k + 1 \in Nat /\ k + m.stop \in Nat /\ k + 1 <= k + m.stop
      BY <1>1 DEF StopOf
    <2>2. EndOf(l, m) = SampleAt(l, k) + 3 + (IF m.parity # "none" THEN 2 ELSE 1)
      BY DEF EndOf
    <2> HIDE DEF k
    <2>3. B(k + 1) <= B(k + m.stop) /\ B(k + m.stop) \in Nat
      BY <1>3, <2>1, Multiples DEF B
    <2>4. /\ B(k) \in Nat /\ S(k) \in Nat /\ B(k + 1) = B(k) + t
          /\ B(k) <= 1 + S(k) /\ S(k) <= B(k) + h + 11 * e
      BY <1>4, <2>1
    <2>5. B(k) <= EndOf(l, m) - 2 /\ EndOf(l, m) <= B(k + m.stop) + 6
      BY <1>3, <1>5, <2>2, <2>3, <2>4
    <2> QED  BY <1>5, <2>5 DEF k
  <1> QED  BY <1>6, <1>7, <1>8 DEF InTime

-----------------------------------------------------------------------------
(* The transmitter *)

\* The clocks since the frame of the latest character began.
Pos ==
  IF tx.state = "iter" THEN Bit(Shifts - tx.count) + line.tx - tx.timer
  ELSE IF tx.state = "ready" THEN FrameTime
  ELSE IF sender = "store" THEN -2
  ELSE IF tx.start THEN -1
  ELSE IF sender = "poll" THEN FrameTime + 1
  ELSE FrameTime + 2

\* putc waits as long as the transmitter works.
Sending ==
  /\ sender # "poll" => tx.state = "idle" /\ ~tx.start
  /\ tx.start => tx.state = "idle"
  /\ sender = "poll" => ("TC" \in stat <=> tx.state = "idle" /\ ~tx.start)
  /\ tx.state = "iter" => tx.count <= Shifts

Shifted ==
  /\ tx.start => \A i \in 1 .. BufferWidth : tx.buffer[i] = Level(Last, i - 1)
  /\ tx.state = "iter" =>
       \A i \in 1 .. BufferWidth : tx.buffer[i] = Level(Last, i - 1 + (Shifts - tx.count))

Resting == sender = "idle" /\ sender' = "idle" /\ sent' = sent /\ Pos = FrameTime + 2 /\ Pos' = FrameTime + 2
Called  == /\ sender = "idle" /\ sender' = "store" /\ Pos = FrameTime + 2 /\ Pos' = -2
           /\ \E c \in Chars : sent' = Append(sent, c)
Moving  == /\ sender # "idle" /\ sent' = sent /\ Pos \in Int /\ Pos >= -2 /\ Pos <= FrameTime + 1
           /\ Pos' = Pos + 1 /\ (sender' = "idle" <=> Pos' = FrameTime + 2)

LEMMA PosRange ==
  ASSUME TypeOK, Sending
  PROVE  Pos \in Int /\ Pos >= -2 /\ Pos <= FrameTime + 2
  <1>1. /\ line \in Lines /\ mode \in line.modes /\ tx \in TxType
    BY TypeIs, Zenon
  <1>2. /\ tx.timer \in 0 .. line.tx /\ tx.count \in 0 .. BufferWidth
    BY <1>1 DEF TxType
  <1>3. line.tx \in Nat /\ Shifts \in Nat /\ FrameTime \in Nat
    BY <1>1, LineFacts, FrameFacts DEF BufferWidth
  <1>4. CASE tx.state = "iter"
    <2> DEFINE n == Shifts - tx.count
    <2>1. n \in Nat /\ n + 1 \in Nat /\ Shifts + 1 \in Nat /\ n + 1 <= Shifts + 1
      BY <1>2, <1>3, <1>4 DEF Sending, BufferWidth
    <2>2. Pos = Bit(n) + line.tx - tx.timer
      BY <1>4 DEF Pos
    <2> HIDE DEF n
    <2>3. Bit(n) \in Nat /\ Bit(n + 1) = Bit(n) + line.tx + 1 /\ FrameTime = Bit(Shifts + 1)
      BY <1>1, <2>1, BitFacts
    <2>4. Bit(n + 1) <= FrameTime
      BY <1>1, <2>1, <2>3, BitFacts, Zenon
    <2> QED  BY <1>2, <1>3, <2>2, <2>3, <2>4
  <1>5. CASE tx.state # "iter"
    BY <1>3, <1>5 DEF Pos
  <1> QED  BY <1>4, <1>5

\* Nothing but putc and the clock moves the transmitter.
LEMMA TransmitterStep ==
  ASSUME TypeOK, Sending, Next
  PROVE  Sending' /\ (Resting \/ Called \/ Moving)
  <1>0. /\ line \in Lines /\ mode \in line.modes /\ tx \in TxType
        /\ sender \in {"idle", "store", "poll"}
        /\ line' = line /\ mode' = mode /\ TransmitterEdge
        /\ stat' = (stat \ Cleared) \cup Set
    BY TypeIs, Zenon DEF Next, ClockEdge, FlagsEdge
  <1>1. /\ tx.state \in {"idle", "iter", "ready"} /\ tx.timer \in 0 .. line.tx
        /\ tx.count \in 0 .. BufferWidth /\ tx.start \in BOOLEAN
    BY <1>0 DEF TxType
  <1>2. /\ tx'.state = TransmitterState /\ tx'.start = Written /\ tx'.timer = TransmitterTimer
        /\ tx'.count = TransmitterCount
    BY <1>0 DEF TransmitterEdge
  <1>3. /\ line.tx \in Nat /\ Shifts \in 8 .. BufferWidth /\ FrameTime \in Nat
        /\ Shifts' = Shifts /\ FrameTime' = FrameTime /\ \A k : Bit(k)' = Bit(k)
    BY <1>0, LineFacts, FrameFacts, Zenon DEF Shifts, FrameTime, Bit, HasParity
  <1>4. "TC" \in stat' <=> ("TC" \in stat /\ sender # "store") \/ tx.state = "ready"
    BY <1>0, Zenon DEF Cleared, Set, Written, TransmitFlags, ReceiveFlags
  <1>5. CASE sender = "idle"
    <2>1. tx.state = "idle" /\ ~tx.start /\ tx'.state = "idle" /\ ~tx'.start /\ Pos = FrameTime + 2
      BY <1>2, <1>5 DEF Sending, TransmitterState, Written, Pos
    <2>2. CASE NoCall
      <3>1. sender' = "idle" /\ sent' = sent
        BY <2>2 DEF NoCall
      <3> QED  BY <1>3, <1>5, <2>1, <3>1 DEF Sending, Resting, Pos
    <2>3. CASE Call
      <3>1. sender' = "store" /\ \E c \in Chars : sent' = Append(sent, c)
        BY <2>3 DEF Call
      <3> QED  BY <1>3, <1>5, <2>1, <3>1 DEF Sending, Called, Pos
    <2> QED  BY <1>5, <2>2, <2>3 DEF Next, Store, Putc
  <1>6. CASE sender = "store"
    <2>1. tx.state = "idle" /\ ~tx.start /\ tx'.state = "idle" /\ tx'.start /\ Pos = -2
      BY <1>2, <1>6 DEF Sending, TransmitterState, Written, Pos
    <2>2. sender' = "poll" /\ sent' = sent
      BY <1>6 DEF Next, Store, Call, NoCall, Putc
    <2> QED  BY <1>3, <1>4, <1>6, <2>1, <2>2 DEF Sending, Moving, Pos
  <1>7. CASE sender = "poll"
    <2>0. sent' = sent /\ sender' = (IF "TC" \in stat THEN "idle" ELSE "poll") /\ ~tx'.start
      BY <1>2, <1>7 DEF Next, Store, Call, NoCall, Putc, Written
    <2>1. CASE tx.start
      <3>1. /\ tx.state = "idle" /\ "TC" \notin stat /\ Pos = -1 /\ sender' = "poll"
            /\ tx'.state = "iter" /\ tx'.count = Shifts /\ tx'.timer = line.tx
        BY <1>2, <1>7, <2>0, <2>1 DEF Sending, Pos, TransmitterState, TransmitterCount, TransmitterTimer, Shifting
      <3>2. Shifts - Shifts = 0 /\ Bit(0) = 0
        BY <1>0, <1>3, BitFacts
      <3>3. Pos' = 0
        BY <1>0, <1>3, <3>1, <3>2 DEF Pos
      <3> QED  BY <1>3, <1>4, <1>7, <2>0, <3>1, <3>3 DEF Sending, Moving
    <2>2. CASE tx.state = "iter"
      <3> DEFINE n == Shifts - tx.count
      <3>1. /\ ~tx.start /\ "TC" \notin stat /\ sender' = "poll" /\ "TC" \notin stat'
            /\ tx.count \in 0 .. Shifts /\ Pos = Bit(n) + line.tx - tx.timer
        BY <1>1, <1>3, <1>4, <1>7, <2>0, <2>2 DEF Sending, Pos, BufferWidth
      <3>2. /\ n \in Nat /\ n + 1 = Shifts - (tx.count - 1)
            /\ n + 1 \in Nat /\ Shifts + 1 \in Nat /\ n + 1 <= Shifts + 1
        BY <1>3, <3>1 DEF BufferWidth
      <3>3. Bit(n) \in Nat /\ Bit(n + 1) = Bit(n) + line.tx + 1 /\ FrameTime = Bit(Shifts + 1)
        BY <1>0, <3>2, BitFacts
      <3>4. Bit(n + 1) <= FrameTime
        BY <1>0, <3>2, <3>3, BitFacts, Zenon
      <3>5. Pos \in Int /\ Pos >= 0 /\ Pos < FrameTime
        BY <1>1, <1>3, <3>1, <3>3, <3>4
      <3>6. CASE tx.timer > 0
        <4>1. tx'.state = "iter" /\ tx'.timer = tx.timer - 1 /\ tx'.count = tx.count
          BY <1>1, <1>2, <2>2, <3>6 DEF TransmitterState, TransmitterCount, TransmitterTimer, Shifting
        <4>2. Pos' = Pos + 1
          BY <1>0, <1>1, <1>3, <3>1, <3>3, <4>1 DEF Pos
        <4> QED  BY <1>3, <1>7, <2>0, <3>1, <3>5, <4>1, <4>2 DEF Sending, Moving
      <3>7. CASE tx.timer = 0 /\ tx.count > 0
        <4>1. tx'.state = "iter" /\ tx'.timer = line.tx /\ tx'.count = tx.count - 1
          BY <1>1, <1>2, <2>2, <3>7 DEF TransmitterState, TransmitterCount, TransmitterTimer, Shifting
        <4>2. Pos' = Bit(n + 1) + line.tx - line.tx
          BY <1>0, <1>3, <3>2, <4>1 DEF Pos
        <4>3. Pos' = Pos + 1
          BY <1>3, <3>1, <3>3, <3>7, <4>2
        <4> QED  BY <1>3, <1>7, <2>0, <3>1, <3>5, <4>1, <4>3 DEF Sending, Moving
      <3>8. CASE tx.timer = 0 /\ tx.count = 0
        <4>1. tx'.state = "ready"
          BY <1>2, <2>2, <3>8 DEF TransmitterState
        <4>2. n = Shifts
          BY <1>3, <3>8
        <4>3. Pos' = FrameTime
          BY <1>3, <4>1 DEF Pos
        <4>4. Pos' = Pos + 1
          BY <1>3, <3>1, <3>3, <3>8, <4>2, <4>3
        <4> QED  BY <1>3, <1>7, <2>0, <3>1, <3>5, <4>1, <4>3, <4>4 DEF Sending, Moving
      <3> QED  BY <1>1, <3>1, <3>6, <3>7, <3>8
    <2>3. CASE tx.state = "ready"
      <3>1. tx'.state = "idle" /\ ~tx.start /\ "TC" \notin stat /\ Pos = FrameTime
        BY <1>2, <1>7, <2>3 DEF Sending, Pos, TransmitterState
      <3>2. sender' = "poll" /\ Pos' = FrameTime + 1 /\ "TC" \in stat'
        BY <1>3, <1>4, <2>0, <2>3, <3>1 DEF Pos
      <3> QED  BY <1>3, <1>7, <2>0, <3>1, <3>2 DEF Sending, Moving
    <2>4. CASE tx.state = "idle" /\ ~tx.start
      <3>1. tx'.state = "idle" /\ "TC" \in stat /\ Pos = FrameTime + 1
        BY <1>2, <1>7, <2>4 DEF Sending, Pos, TransmitterState
      <3>2. sender' = "idle" /\ Pos' = FrameTime + 2
        BY <1>3, <2>0, <3>1 DEF Pos
      <3> QED  BY <1>3, <1>7, <2>0, <3>1, <3>2 DEF Sending, Moving
    <2> QED  BY <1>1, <2>1, <2>2, <2>3, <2>4
  <1> QED  BY <1>0, <1>5, <1>6, <1>7

\* The buffer holds what is left of the frame.
LEMMA ShiftStep ==
  ASSUME TypeOK, Sending, Shifted, Next
  PROVE  Shifted'
  <1>0. /\ line \in Lines /\ mode \in line.modes /\ tx \in TxType
        /\ sender \in {"idle", "store", "poll"} /\ sent \in Seq(Chars) /\ (sender # "idle" => sent # <<>>)
        /\ line' = line /\ mode' = mode /\ TransmitterEdge
    BY TypeIs, Zenon DEF Next, ClockEdge
  <1>1. /\ tx.state \in {"idle", "iter", "ready"} /\ tx.buffer \in [1 .. BufferWidth -> Bits]
        /\ tx.count \in 0 .. BufferWidth /\ tx.timer \in 0 .. line.tx
    BY <1>0 DEF TxType
  <1>2. /\ tx'.state = TransmitterState /\ tx'.start = Written
        /\ tx'.count = TransmitterCount
        /\ tx'.buffer = IF Shifting THEN Append(Tail(tx.buffer), 1)
                        ELSE IF Written THEN Framed(Last) ELSE tx.buffer
    BY <1>0 DEF TransmitterEdge, Last
  <1>3. Shifts \in 8 .. BufferWidth /\ Shifts' = Shifts
    BY <1>0, FrameFacts, Zenon DEF Shifts, HasParity
  <1>4. sender # "idle" => sent' = sent
    BY Zenon DEF Next, Call, NoCall, Store, Putc
  <1>5. sender # "idle" => Last' = Last /\ \A c, k : Level(c, k)' = Level(c, k)
    BY <1>0, <1>4, Zenon DEF Last, Level, ParityBit, Carried, HasParity
  <1>6. CASE sender = "idle"
    <2>1. tx'.state = "idle" /\ ~tx'.start
      BY <1>2, <1>6 DEF Sending, TransmitterState, Written
    <2> QED  BY <2>1, Zenon DEF Shifted
  <1>7. CASE sender = "store"
    <2>1. tx'.state = "idle" /\ ~Shifting /\ Written
      BY <1>2, <1>7 DEF Sending, TransmitterState, Written, Shifting
    <2>2. tx'.buffer = Framed(Last) /\ Last \in Chars
      BY <1>0, <1>2, <1>7, <2>1, LastIsChar
    <2>3. \A i \in 1 .. BufferWidth : tx'.buffer[i] = Level(Last, i - 1)
      BY <1>0, <2>2, FrameBits, Zenon
    <2> QED  BY <1>5, <1>7, <2>1, <2>3 DEF Shifted
  <1>8. CASE sender = "poll"
    <2>1. ~tx'.start
      BY <1>2, <1>8 DEF Written
    <2>2. CASE tx.start
      <3>1. tx'.state = "iter" /\ tx'.count = Shifts /\ tx'.buffer = tx.buffer
        BY <1>2, <1>8, <2>2 DEF Sending, TransmitterState, TransmitterCount, Shifting, Written
      <3>2. \A i \in 1 .. BufferWidth : i - 1 + (Shifts - Shifts) = i - 1
        BY <1>3 DEF BufferWidth
      <3>3. \A i \in 1 .. BufferWidth : tx'.buffer[i] = Level(Last, i - 1)
        BY <2>2, <3>1, Zenon DEF Shifted
      <3>4. \A i \in 1 .. BufferWidth : tx'.buffer[i] = Level(Last, i - 1 + (Shifts - Shifts))'
        <4>1. \A i \in 1 .. BufferWidth : tx'.buffer[i] = Level(Last, i - 1 + (Shifts - Shifts))
          BY <3>2, <3>3
        <4> QED  BY <1>3, <1>5, <1>8, <4>1, Zenon
      <3> QED  BY <1>3, <2>1, <3>1, <3>4, Zenon DEF Shifted
    <2>3. CASE tx.state = "iter" /\ Shifting
      <3> DEFINE n == Shifts - tx.count
      <3>1. tx'.state = "iter" /\ tx'.count = tx.count - 1 /\ tx'.buffer = Append(Tail(tx.buffer), 1)
        BY <1>1, <1>2, <2>3 DEF TransmitterState, TransmitterCount, Shifting
      <3>2. n \in Nat /\ Shifts - (tx.count - 1) = n + 1
        BY <1>1, <1>3, <2>3 DEF Sending, BufferWidth
      <3>3. /\ tx'.buffer[BufferWidth] = 1
            /\ \A i \in 1 .. BufferWidth - 1 : tx'.buffer[i] = tx.buffer[i + 1]
        <4>1. BufferWidth \in Nat \ {0} /\ 1 \in Bits
          BY DEF BufferWidth, Bits
        <4> DEFINE b == tx.buffer
                   w == BufferWidth
        <4>2. b \in [1 .. w -> Bits] /\ w \in Nat \ {0}
          BY <1>1, <4>1
        <4>3. tx'.buffer = Append(Tail(b), 1)
          BY <3>1
        <4>4. Append(Tail(b), 1)[w] = 1 /\ \A i \in 1 .. w - 1 : Append(Tail(b), 1)[i] = b[i + 1]
          <5> HIDE DEF b, w
          <5>1. 1 \in Bits /\ b \in [1 .. w -> Bits] /\ w \in Nat \ {0}
            BY <4>1, <4>2
          <5> QED  BY <5>1, ShiftedIn
        <4> QED  BY <4>3, <4>4, Zenon
      <3>4. \A i \in 1 .. BufferWidth : tx.buffer[i] = Level(Last, i - 1 + n)
        BY <2>3, Zenon DEF Shifted
      <3> HIDE DEF n
      <3>5. \A i \in 1 .. BufferWidth - 1 : tx'.buffer[i] = Level(Last, i - 1 + (n + 1))
        <4> TAKE i \in 1 .. BufferWidth - 1
        <4>1. i + 1 \in 1 .. BufferWidth /\ (i + 1) - 1 + n = i - 1 + (n + 1)
          BY SMT, <3>2 DEF BufferWidth
        <4> QED  BY <3>3, <3>4, <4>1
      <3>6. tx'.buffer[BufferWidth] = Level(Last, BufferWidth - 1 + (n + 1))
        <4>1. mode.size \in 7 .. 9
          BY <1>0, LineFacts
        <4>2. BufferWidth - 1 + (n + 1) \in Int /\ BufferWidth - 1 + (n + 1) > mode.size + 1
          BY <3>2, <4>1 DEF BufferWidth
        <4> QED  BY <1>0, <3>3, <4>2, LevelIs
      <3>7. \A i \in 1 .. BufferWidth : i \in 1 .. BufferWidth - 1 \/ i = BufferWidth
        BY SMT DEF BufferWidth
      <3>8. \A i \in 1 .. BufferWidth : tx'.buffer[i] = Level(Last, i - 1 + (n + 1))
        BY <3>5, <3>6, <3>7, Zenon
      <3>9. Shifts - tx'.count = n + 1
        BY <3>1, <3>2 DEF n
      <3> QED  BY <1>3, <1>5, <1>8, <2>1, <3>1, <3>8, <3>9, Zenon DEF Shifted
    <2>4. CASE tx.state = "iter" /\ ~Shifting
      <3>1. tx'.count = tx.count /\ tx'.buffer = tx.buffer
        BY <1>1, <1>2, <1>8, <2>4 DEF TransmitterCount, Written
      <3>2. \A i \in 1 .. BufferWidth : tx.buffer[i] = Level(Last, i - 1 + (Shifts - tx.count))
        BY <2>4, Zenon DEF Shifted
      <3> QED  BY <1>3, <1>5, <1>8, <2>1, <3>1, <3>2, Zenon DEF Shifted
    <2>5. CASE tx.state # "iter" /\ ~tx.start
      <3>1. tx'.state # "iter"
        BY <1>1, <1>2, <2>5 DEF TransmitterState
      <3> QED  BY <2>1, <3>1, Zenon DEF Shifted
    <2> QED  BY <2>2, <2>3, <2>4, <2>5
  <1> QED  BY <1>0, <1>6, <1>7, <1>8

-----------------------------------------------------------------------------
(* The line *)

\* b is what the frame of the latest character has at clock p; before it and after
\* it the line is high.
Shows(b, p) ==
  /\ p < 0 => b = 1
  /\ p >= FrameTime => b = 1
  /\ \A k \in 0 .. Shifts : Bit(k) <= p /\ p < Bit(k + 1) => b = Level(Last, k)

\* The output is one clock behind the buffer, the synchronised input two.
OnTheLine ==
  IF sent = <<>> THEN tx.line = 1 /\ rx.sync = 1
                 ELSE Shows(tx.line, Pos - 1) /\ Shows(rx.sync, Pos - 2)

LEMMA HighOutside ==
  ASSUME line \in Lines, mode \in line.modes, NEW p \in Int, p < 0 \/ p >= FrameTime
  PROVE  Shows(1, p)
  <1>1. ASSUME NEW k \in 0 .. Shifts
        PROVE  ~(Bit(k) <= p /\ p < Bit(k + 1))
    <2>1. Shifts \in Nat /\ FrameTime \in Nat
      BY FrameFacts DEF BufferWidth
    <2>2. k \in Nat /\ k + 1 \in Nat /\ Shifts + 1 \in Nat /\ k + 1 <= Shifts + 1
      BY <2>1
    <2>3. Bit(k) \in Nat /\ Bit(k + 1) \in Nat /\ Bit(k + 1) <= Bit(Shifts + 1) /\ Bit(Shifts + 1) = FrameTime
      BY <2>2, BitFacts, Zenon
    <2> QED  BY <2>1, <2>3
  <1> QED  BY <1>1, Zenon DEF Shows

LEMMA OnTheLineNext ==
  ASSUME sent' # <<>>, NEW b, NEW c, NEW p, NEW q, b = tx'.line, c = rx'.sync, p = Pos' - 1, q = Pos' - 2,
         Shows(b, p)', Shows(c, q)'
  PROVE  OnTheLine'
  BY Zenon DEF OnTheLine, Shows

LEMMA LineStep ==
  ASSUME TypeOK, Sending, Shifted, OnTheLine, Next, ~spike'.done
  PROVE  OnTheLine'
  <1>0. /\ line \in Lines /\ mode \in line.modes /\ tx \in TxType
        /\ sender \in {"idle", "store", "poll"} /\ sent \in Seq(Chars) /\ (sender # "idle" => sent # <<>>)
        /\ spike \in [left : Nat, done : BOOLEAN] /\ (~spike.done => spike.left = 0)
        /\ line' = line /\ mode' = mode /\ TransmitterEdge /\ ReceiverEdge /\ LineEdge
    BY TypeIs, Zenon DEF Next, ClockEdge
  <1>1. /\ line.tx \in Nat /\ Shifts \in 8 .. BufferWidth /\ FrameTime \in Nat
        /\ Shifts' = Shifts /\ FrameTime' = FrameTime /\ \A k : Bit(k)' = Bit(k)
    BY <1>0, LineFacts, FrameFacts, Zenon DEF Shifts, FrameTime, Bit, HasParity
  <1>2. spike.left = 0
    <2>1. ~spike.done
      BY <1>0 DEF LineEdge
    <2> QED  BY <1>0, <2>1
  <1>3. rx'.sync = tx.line /\ tx'.line = IF tx.state = "iter" THEN tx.buffer[1] ELSE 1
    BY <1>0, <1>2 DEF ReceiverEdge, TransmitterEdge, RxD
  <1>4. Resting \/ Called \/ Moving
    BY TransmitterStep
  <1>5. CASE sender = "idle"
    <2>1. Pos = FrameTime + 2 /\ tx.state = "idle"
      BY <1>4, <1>5 DEF Resting, Called, Moving, Sending
    <2>2. tx.line = 1
      <3>1. (FrameTime + 2) - 1 >= FrameTime
        BY <1>1
      <3> QED  BY <2>1, <3>1, Zenon DEF OnTheLine, Shows
    <2>3. rx'.sync = 1 /\ tx'.line = 1
      BY <1>3, <2>1, <2>2
    <2>4. Pos' \in Int /\ (Pos' = -2 \/ Pos' = FrameTime + 2)
      BY <1>1, <1>4, <1>5 DEF Resting, Called, Moving
    <2>5. PICK q \in Int : q = Pos' /\ (q = -2 \/ q = FrameTime + 2)
      BY <2>4, Zenon
    <2>6. /\ q - 1 \in Int /\ (q - 1 < 0 \/ q - 1 >= FrameTime)
           /\ q - 2 \in Int /\ (q - 2 < 0 \/ q - 2 >= FrameTime)
      <3>1. FrameTime \in Nat
        BY <1>1
      <3> DEFINE f == FrameTime
      <3>2. f \in Nat /\ (q = -2 \/ q = f + 2)
        BY <2>5, <3>1, Zenon
      <3> HIDE DEF f
      <3>3. /\ q - 1 \in Int /\ (q - 1 < 0 \/ q - 1 >= f)
            /\ q - 2 \in Int /\ (q - 2 < 0 \/ q - 2 >= f)
        BY <3>2
      <3> QED  BY <3>3, Zenon DEF f
    <2>7. \A p \in Int : p < 0 \/ p >= FrameTime => Shows(1, p)'
      <3>1. \A p \in Int : p < 0 \/ p >= FrameTime => \A k \in 0 .. Shifts : ~(Bit(k) <= p /\ p < Bit(k + 1))
        <4> TAKE p \in Int
        <4> HAVE p < 0 \/ p >= FrameTime
        <4> TAKE k \in 0 .. Shifts
        <4>1. Shifts \in Nat
          BY <1>1 DEF BufferWidth
        <4>2. k \in Nat /\ k + 1 \in Nat /\ Shifts + 1 \in Nat /\ k + 1 <= Shifts + 1
          BY <4>1
        <4>3. Bit(k) \in Nat /\ Bit(k + 1) \in Nat /\ Bit(k + 1) <= Bit(Shifts + 1) /\ Bit(Shifts + 1) = FrameTime
          BY <1>0, <4>2, BitFacts, Zenon
        <4> QED  BY <1>1, <4>3
      <3> QED  BY <1>1, <3>1, Zenon DEF Shows
    <2>8. Shows(1, q - 1)' /\ Shows(1, q - 2)'
      BY <2>6, <2>7, Zenon
    <2>9. CASE sent' = <<>>
      BY <2>3, <2>9 DEF OnTheLine
    <2>10. CASE sent' # <<>>
      <3>1. q - 1 = Pos' - 1 /\ q - 2 = Pos' - 2
        BY <2>5
      <3> QED  BY <2>3, <2>8, <2>10, <3>1, OnTheLineNext, Zenon
    <2> QED  BY <2>9, <2>10
  <1>6. CASE sender # "idle"
    <2>1. /\ Pos \in Int /\ Pos >= -2 /\ Pos <= FrameTime + 1 /\ Pos' = Pos + 1
          /\ sent' = sent /\ sent # <<>>
      BY <1>0, <1>4, <1>6 DEF Resting, Called, Moving
    <2>2. \A b, p : Shows(b, p)' = Shows(b, p)
      <3>1. Last' = Last /\ \A c, k : Level(c, k)' = Level(c, k)
        BY <1>0, <2>1, Zenon DEF Last, Level, ParityBit, Carried, HasParity
      <3> QED  BY <1>1, <3>1, Zenon DEF Shows
    <2>3. Shows(rx'.sync, Pos - 1)
      BY <1>3, <2>1, Zenon DEF OnTheLine
    <2>4. Shows(tx'.line, Pos)
      <3>1. CASE tx.state = "iter"
        <4> DEFINE n == Shifts - tx.count
        <4>1. n \in Nat /\ tx.timer \in 0 .. line.tx /\ n <= Shifts
          <5>1. tx.timer \in 0 .. line.tx /\ tx.count \in 0 .. BufferWidth
            BY <1>0 DEF TxType
          <5>2. tx.count <= Shifts
            BY <3>1 DEF Sending
          <5> QED  BY <1>1, <5>1, <5>2 DEF BufferWidth
        <4>2. Pos = Bit(n) + line.tx - tx.timer
          BY <3>1 DEF Pos
        <4>3. tx'.line = Level(Last, n)
          <5>1. 1 \in 1 .. BufferWidth /\ 1 - 1 + n = n
            BY <4>1 DEF BufferWidth
          <5>2. tx.buffer[1] = Level(Last, 1 - 1 + n)
            BY <3>1, <5>1, Zenon DEF Shifted
          <5> QED  BY <1>3, <3>1, <5>1, <5>2
        <4> HIDE DEF n
        <4>4. Bit(n) \in Nat /\ Bit(n + 1) = Bit(n) + line.tx + 1 /\ Bit(n) <= Pos /\ Pos < Bit(n + 1)
          <5>1. Bit(n) \in Nat /\ Bit(n + 1) = Bit(n) + line.tx + 1
            BY <1>0, <4>1, BitFacts
          <5> QED  BY <1>1, <4>1, <4>2, <5>1
        <4>5. Bit(n + 1) <= FrameTime
          <5>1. n + 1 \in Nat /\ Shifts + 1 \in Nat /\ n + 1 <= Shifts + 1
            BY <1>1, <4>1 DEF BufferWidth
          <5> QED  BY <1>0, <5>1, BitFacts
        <4>6. ~(Pos < 0) /\ ~(Pos >= FrameTime)
          BY <1>1, <2>1, <4>4, <4>5
        <4>7. ASSUME NEW k \in 0 .. Shifts, Bit(k) <= Pos, Pos < Bit(k + 1)
              PROVE  tx'.line = Level(Last, k)
          <5>1. k \in Nat
            OBVIOUS
          <5>2. k = n
            BY <1>0, <2>1, <4>1, <4>4, <4>7, <5>1, OneBit
          <5> QED  BY <4>3, <5>2
        <4> QED  BY <4>6, <4>7, Zenon DEF Shows
      <3>2. CASE tx.state # "iter"
        <4>1. Pos < 0 \/ Pos >= FrameTime
          BY <1>1, <1>6, <3>2 DEF Pos
        <4>2. Shows(1, Pos)
          BY <1>0, <2>1, <4>1, HighOutside
        <4> QED  BY <1>3, <3>2, <4>2
      <3> QED  BY <3>1, <3>2
    <2>5. (Pos + 1) - 1 = Pos /\ (Pos + 1) - 2 = Pos - 1
      BY <2>1
    <2>6. PICK b, c, p : b = tx'.line /\ c = rx'.sync /\ p = Pos
      OBVIOUS
    <2>7. Shows(b, p)' /\ Shows(c, p - 1)'
      BY <2>2, <2>3, <2>4, <2>6, Zenon
    <2>8. p = Pos' - 1 /\ p - 1 = Pos' - 2
      BY <2>1, <2>5, <2>6
    <2> QED  BY <2>1, <2>6, <2>7, <2>8, OnTheLineNext, Zenon
  <1> QED  BY <1>5, <1>6

-----------------------------------------------------------------------------
(* The receiver keeps time with the sender *)

\* Where in its frame the receiver is, in the clocks of Pos.
Heard ==
  IF rx.state = "wait" THEN 3 + HalfBit - rx.timer
  ELSE IF rx.state = "iter" THEN 4 + Sample(mode.size - rx.count) + line.rx - rx.timer
  ELSE IF rx.state = "parity" THEN 4 + Sample(mode.size + 1)
  ELSE IF rx.state = "parity2" THEN 5 + Sample(mode.size + 1) + line.rx - rx.timer
  ELSE End

\* Either the receiver is in the frame that is being sent, or the sender is done with
\* it, or putc has started the next one while the receiver still awaits a stop bit.
Between   == delivered = Len(sent) /\ (sender # "idle" => Pos > End)
Expecting == delivered + 1 = Len(sent) /\ sender # "idle" /\ Pos <= 2
Within    == delivered + 1 = Len(sent) /\ (Heard = Pos \/ (sender = "idle" /\ Heard >= Pos))
Behind    == delivered + 2 = Len(sent) /\ sender # "idle" /\ Heard >= FrameTime + 5 + Pos

Working == rx.state # "fail" /\ (rx.state \in {"parity", "parity2"} => HasParity)
             /\ (rx.state = "wait" => rx.timer <= HalfBit)

InPhase == Working /\ (IF rx.state = "idle" THEN Between \/ Expecting ELSE Within \/ Behind)

\* What the receiver's registers say when its time has expired.
LEMMA HeardAt ==
  ASSUME TypeOK, Working
  PROVE  /\ Heard \in Int /\ Heard <= End
         /\ rx.state = "wait" /\ Expired => Heard = 3 + Sample(0)
         /\ rx.state = "iter" /\ Expired => Heard = 3 + Sample(mode.size - rx.count + 1)
         /\ rx.state = "parity" => HasParity /\ Heard = 4 + Sample(mode.size + 1)
         /\ rx.state = "ready" => Heard = End
  <1>1. /\ line \in Lines /\ mode \in line.modes /\ rx \in RxType
    BY TypeIs, Zenon
  <1>2. /\ line.rx \in Nat /\ mode.size \in 7 .. 9 /\ rx.timer \in 0 .. line.rx /\ rx.count \in 0 .. mode.size
    BY <1>1, LineFacts DEF RxType
  <1> DEFINE n == mode.size - rx.count
             s == mode.size
  <1>3. n \in Nat /\ s + 1 \in Nat /\ Stop \in Nat
    BY <1>2, SampleFacts, <1>1 DEF HasParity
  <1>4. /\ Sample(0) = HalfBit /\ HalfBit \in Nat /\ Sample(n) \in Nat /\ Sample(n + 1) = Sample(n) + line.rx + 1
        /\ Sample(s + 1) \in Nat /\ Sample(n + 1) <= Sample(s + 1) /\ HalfBit <= Sample(s + 1)
    <2>0. 0 \in Nat /\ n + 1 \in Nat /\ n + 1 <= s + 1 /\ 0 <= s + 1
      BY <1>2, <1>3
    <2>1. HalfBit \in Nat
      BY <1>1, <1>2, FrameFacts
    <2> QED  BY <1>1, <1>3, <2>0, <2>1, SampleFacts, SamplesAscend, Zenon
  <1>5. End \in Int /\ End = IF HasParity THEN Sample(s + 1) + line.rx + 1 + 5 ELSE Sample(s + 1) + 4
    <2>1. /\ Sample(Stop) \in Nat /\ End = Sample(Stop) + 3 + (IF HasParity THEN 2 ELSE 1)
          /\ Stop = s + 1 + (IF HasParity THEN 1 ELSE 0)
          /\ Sample((s + 1) + 1) = Sample(s + 1) + line.rx + 1
      BY <1>1, <1>3, SampleFacts, Zenon
    <2>2. CASE HasParity
      <3>1. Stop = (s + 1) + 1
        BY <1>2, <2>1, <2>2
      <3> QED  BY <2>1, <2>2, <3>1
    <2>3. CASE ~HasParity
      <3>1. Stop = s + 1
        BY <1>2, <2>1, <2>3
      <3> QED  BY <2>1, <2>3, <3>1
    <2> QED  BY <2>2, <2>3
  <1> HIDE DEF n, s
  <1>6. Heard \in Int /\ Heard <= End
    <2>1. rx.state = "parity2" => HasParity
      BY DEF Working
    <2>2. rx.state = "wait" => Heard \in Int /\ Heard <= End
      BY <1>2, <1>4, <1>5 DEF Heard
    <2>3. rx.state = "iter" => Heard \in Int /\ Heard <= End
      BY <1>2, <1>4, <1>5 DEF Heard, n
    <2>4. rx.state \in {"parity", "parity2"} => Heard \in Int /\ Heard <= End
      BY <1>2, <1>4, <1>5, <2>1 DEF Heard, s, Working
    <2> QED  BY <1>5, <2>2, <2>3, <2>4 DEF Heard
  <1>7. rx.state = "wait" /\ Expired => Heard = 3 + Sample(0)
    BY <1>2, <1>4 DEF Heard, Expired
  <1>8. rx.state = "iter" /\ Expired => Heard = 3 + Sample(n + 1)
    <2>1. rx.state = "iter" => Heard = 4 + Sample(n) + line.rx - rx.timer
      BY DEF Heard, n
    <2> QED  BY <1>2, <1>4, <2>1 DEF Expired
  <1>9. rx.state = "parity" => HasParity /\ Heard = 4 + Sample(s + 1)
    BY DEF Heard, s, Working
  <1>10. rx.state = "ready" => Heard = End
    BY DEF Heard
  <1> QED  BY <1>6, <1>7, <1>8, <1>9, <1>10 DEF n, s

\* A clock at which a bit of the frame is on the line is one of the frame that is
\* being sent.
LEMMA Synchronous ==
  ASSUME TypeOK, Sending, OnTheLine, InPhase, rx.state # "idle", Heard \in Int,
         NEW k \in 0 .. Shifts, Bit(k) <= Heard - 2, Heard - 2 < Bit(k + 1)
  PROVE  Within /\ Heard = Pos /\ sent # <<>> /\ rx.sync = Level(Last, k)
  <1>1. /\ line \in Lines /\ mode \in line.modes /\ sent \in Seq(Chars) /\ delivered \in Nat
    BY TypeIs, Zenon
  <1>2. Bit(k + 1) <= FrameTime /\ FrameTime \in Nat /\ Bit(k + 1) \in Nat
    <2>1. Shifts \in Nat /\ FrameTime \in Nat
      BY <1>1, FrameFacts DEF BufferWidth
    <2>2. k \in Nat /\ k + 1 \in Nat /\ Shifts + 1 \in Nat /\ k + 1 <= Shifts + 1
      BY <2>1
    <2> QED  BY <1>1, <2>1, <2>2, BitFacts, Zenon
  <1>3. Heard < FrameTime + 2
    BY <1>2
  <1>4. Pos \in Int /\ Pos >= -2 /\ (sender = "idle" => Pos = FrameTime + 2)
    <2>1. sender = "idle" => Pos = FrameTime + 2
      BY DEF Sending, Pos
    <2> QED  BY <2>1, <1>2, PosRange
  <1>5. ~Behind
    BY <1>2, <1>3, <1>4 DEF Behind
  <1>6. Within /\ Heard = Pos
    BY <1>2, <1>3, <1>4, <1>5 DEF InPhase, Within
  <1>7. sent # <<>>
    <2>1. Len(sent) # 0
      BY <1>1, <1>6 DEF Within
    <2> QED  BY <2>1
  <1>8. Shows(rx.sync, Pos - 2)
    BY <1>7, Zenon DEF OnTheLine
  <1>9. Shows(rx.sync, Heard - 2)
    BY <1>6, <1>8, Zenon
  <1> QED  BY <1>6, <1>7, <1>9, Zenon DEF Shows

\* One clock of the receiver, when the start bit is still there in the middle.
LEMMA ReceiverClock ==
  ASSUME TypeOK, Working, ReceiverEdge, line' = line, mode' = mode,
         rx.state = "wait" /\ Expired => rx.sync = 0
  PROVE  /\ Working'
         /\ rx.state = "idle" /\ rx.sync = 1 => rx'.state = "idle"
         /\ rx.state = "idle" /\ rx.sync = 0 => rx'.state = "wait" /\ Heard' = 3
         /\ rx.state = "ready" => rx'.state = "idle"
         /\ rx.state \notin {"idle", "ready"} => rx'.state # "idle" /\ Heard' = Heard + 1
  <1>1. /\ line \in Lines /\ mode \in line.modes /\ rx \in RxType
    BY TypeIs, Zenon
  <1>2. /\ rx.state \in {"idle", "wait", "iter", "parity", "parity2", "ready", "fail"}
        /\ line.rx \in Nat /\ mode.size \in 7 .. 9 /\ rx.timer \in 0 .. line.rx
        /\ rx.count \in 0 .. mode.size /\ rx.sync \in {0, 1} /\ HalfBit \in 0 .. line.rx
    BY <1>1, LineFacts, FrameFacts DEF RxType, Bits
  <1> DEFINE n == mode.size - rx.count
             s == mode.size
             count == CASE StartSeen -> mode.size
                        [] Sampling -> rx.count - 1
                        [] OTHER -> rx.count
  <1>3. rx'.state = ReceiverState /\ rx'.timer = ReceiverTimer /\ rx'.count = count
    BY DEF ReceiverEdge
  <1>4. /\ HasParity' = HasParity /\ HalfBit' = HalfBit /\ End' = End /\ \A k : Sample(k)' = Sample(k)
    BY <1>1, Zenon DEF HasParity, HalfBit, End, EndOf, Sample, SampleAt
  <1>5. /\ n \in Nat /\ s + 1 \in Nat /\ Sample(0) = HalfBit
        /\ Sample(n) \in Nat /\ Sample(n + 1) = Sample(n) + line.rx + 1
        /\ Sample(s) \in Nat /\ Sample(s + 1) = Sample(s) + line.rx + 1
    <2>1. n \in Nat /\ s \in Nat /\ s + 1 \in Nat
      BY <1>2
    <2> QED  BY <1>1, <2>1, SampleFacts, Zenon
  <1>6. End = Sample(Stop) + 3 + (IF HasParity THEN 2 ELSE 1) /\ Stop = s + 1 + (IF HasParity THEN 1 ELSE 0)
    BY <1>1, SampleFacts
  <1>7. CASE rx.state = "idle"
    <2>1. CASE rx.sync = 1
      <3>1. rx'.state = "idle"
        BY <1>3, <1>7, <2>1 DEF ReceiverState
      <3> QED  BY <1>7, <2>1, <3>1 DEF Working
    <2>2. CASE rx.sync = 0
      <3>1. rx'.state = "wait" /\ rx'.timer = HalfBit
        BY <1>3, <1>7, <2>2 DEF ReceiverState, ReceiverTimer, StartSeen, Sampling
      <3>2. Heard' = 3
        BY <1>2, <1>4, <3>1 DEF Heard
      <3>3. Working'
        BY <1>2, <1>4, <3>1 DEF Working
      <3> QED  BY <1>7, <2>2, <3>1, <3>2, <3>3
    <2> QED  BY <1>2, <2>1, <2>2
  <1>8. CASE rx.state = "wait"
    <2>0. Heard = 3 + HalfBit - rx.timer /\ rx.timer <= HalfBit
      BY <1>8 DEF Heard, Working
    <2>1. CASE ~Expired
      <3>1. rx'.state = "wait" /\ rx'.timer = rx.timer - 1
        BY <1>3, <1>8, <2>1 DEF ReceiverState, ReceiverTimer, StartSeen, Sampling
      <3>2. Heard' = 3 + HalfBit - (rx.timer - 1)
        BY <1>4, <3>1 DEF Heard
      <3>3. Working'
        BY <1>2, <1>4, <2>0, <3>1 DEF Working
      <3> QED  BY <1>2, <1>8, <2>0, <3>1, <3>2, <3>3
    <2>2. CASE Expired
      <3>1. rx'.state = "iter" /\ rx'.timer = line.rx /\ rx'.count = s
        BY <1>3, <1>8, <2>2 DEF ReceiverState, ReceiverTimer, StartSeen, Sampling
      <3>2. Heard' = 4 + Sample(s - s) + line.rx - line.rx
        BY <1>1, <1>4, <3>1 DEF Heard
      <3>3. s - s = 0
        BY <1>2
      <3>4. Heard' = 4 + Sample(0) + line.rx - line.rx
        BY <3>2, <3>3
      <3>5. Working'
        BY <3>1 DEF Working
      <3> QED  BY <1>2, <1>5, <1>8, <2>0, <2>2, <3>1, <3>4, <3>5 DEF Expired
    <2> QED  BY <2>1, <2>2
  <1>9. CASE rx.state = "iter"
    <2> HIDE DEF n, s, count
    <2>0. Heard = 4 + Sample(n) + line.rx - rx.timer
      BY <1>9 DEF Heard, n
    <2>1. CASE ~Expired
      <3>1. rx'.state = "iter" /\ rx'.timer = rx.timer - 1 /\ rx'.count = rx.count
        BY <1>3, <1>9, <2>1 DEF ReceiverState, ReceiverTimer, StartSeen, Sampling, count
      <3>2. Heard' = 4 + Sample(n) + line.rx - (rx.timer - 1)
        BY <1>1, <1>4, <3>1 DEF Heard, n
      <3>3. Working'
        BY <3>1 DEF Working
      <3> QED  BY <1>2, <1>5, <1>9, <2>0, <3>1, <3>2, <3>3
    <2>2. CASE Expired /\ rx.count > 0
      <3>1. rx'.state = "iter" /\ rx'.timer = line.rx /\ rx'.count = rx.count - 1
        BY <1>3, <1>9, <2>2 DEF ReceiverState, ReceiverTimer, StartSeen, Sampling, count
      <3>2. mode.size - (rx.count - 1) = n + 1
        BY <1>2 DEF n
      <3>3. Heard' = 4 + Sample(mode.size - (rx.count - 1)) + line.rx - line.rx
        BY <1>1, <1>4, <3>1 DEF Heard
      <3>4. Heard' = 4 + Sample(n + 1) + line.rx - line.rx
        BY <3>2, <3>3
      <3>5. Working'
        BY <3>1 DEF Working
      <3> QED  BY <1>2, <1>5, <1>9, <2>0, <2>2, <3>1, <3>4, <3>5 DEF Expired
    <2>3. CASE Expired /\ ~(rx.count > 0)
      <3>1. n = s
        BY <1>2, <2>3 DEF n, s
      <3>2. Heard = 4 + Sample(s) + line.rx - 0
        BY <2>0, <2>3, <3>1 DEF Expired
      <3>3. Heard = 3 + Sample(s + 1)
        BY <1>2, <1>5, <3>2
      <3>4. CASE HasParity
        <4>1. rx'.state = "parity"
          BY <1>3, <1>9, <2>3, <3>4 DEF ReceiverState
        <4>2. Heard' = 4 + Sample(s + 1)
          BY <1>1, <1>4, <4>1 DEF Heard, s
        <4>3. Working'
          BY <1>4, <3>4, <4>1 DEF Working
        <4> QED  BY <1>2, <1>5, <1>9, <3>3, <4>1, <4>2, <4>3
      <3>5. CASE ~HasParity
        <4>1. rx'.state = "ready"
          BY <1>3, <1>9, <2>3, <3>5 DEF ReceiverState
        <4>2. Heard' = End
          BY <1>4, <4>1 DEF Heard
        <4>3. Stop = s + 1
          BY <1>6, <1>5, <3>5
        <4>4. End = Sample(s + 1) + 3 + 1
          BY <1>6, <3>5, <4>3
        <4>5. Working'
          BY <4>1 DEF Working
        <4> QED  BY <1>2, <1>5, <1>9, <3>3, <4>1, <4>2, <4>4, <4>5
      <3> QED  BY <3>4, <3>5
    <2> QED  BY <2>1, <2>2, <2>3
  <1>10. CASE rx.state = "parity"
    <2>1. rx'.state = "parity2" /\ rx'.timer = line.rx
      BY <1>3, <1>10 DEF ReceiverState, ReceiverTimer, StartSeen, Sampling
    <2>2. Heard = 4 + Sample(s + 1) /\ Heard' = 5 + Sample(s + 1) + line.rx - line.rx
      BY <1>1, <1>4, <1>10, <2>1 DEF Heard
    <2>3. Working'
      BY <1>4, <1>10, <2>1 DEF Working
    <2> QED  BY <1>2, <1>5, <1>10, <2>1, <2>2, <2>3
  <1>11. CASE rx.state = "parity2"
    <2>0. Heard = 5 + Sample(s + 1) + line.rx - rx.timer
      BY <1>11 DEF Heard
    <2>1. CASE ~Expired
      <3>1. rx'.state = "parity2" /\ rx'.timer = rx.timer - 1
        BY <1>3, <1>11, <2>1 DEF ReceiverState, ReceiverTimer, StartSeen, Sampling
      <3>2. Heard' = 5 + Sample(s + 1) + line.rx - (rx.timer - 1)
        BY <1>1, <1>4, <3>1 DEF Heard
      <3>3. Working'
        BY <1>4, <1>11, <3>1 DEF Working
      <3> QED  BY <1>2, <1>5, <1>11, <2>0, <3>1, <3>2, <3>3
    <2>2. CASE Expired
      <3>1. rx'.state = "ready"
        BY <1>3, <1>11, <2>2 DEF ReceiverState
      <3>2. HasParity
        BY <1>11 DEF Working
      <3>3. Stop = (s + 1) + 1 /\ Heard' = End
        BY <1>4, <1>5, <1>6, <3>1, <3>2 DEF Heard
      <3>4. End = Sample((s + 1) + 1) + 3 + 2
        BY <1>6, <3>2, <3>3
      <3>5. Sample((s + 1) + 1) = Sample(s + 1) + line.rx + 1
        BY <1>1, <1>5, SampleFacts, Zenon
      <3>6. Working'
        BY <3>1 DEF Working
      <3> QED  BY <1>2, <1>5, <1>11, <2>0, <2>2, <3>1, <3>3, <3>4, <3>5, <3>6 DEF Expired
    <2> QED  BY <2>1, <2>2
  <1>12. CASE rx.state = "ready"
    <2>1. rx'.state = "idle"
      BY <1>3, <1>12 DEF ReceiverState
    <2> QED  BY <1>12, <2>1 DEF Working
  <1>13. rx.state # "fail"
    BY DEF Working
  <1> QED  BY <1>2, <1>7, <1>8, <1>9, <1>10, <1>11, <1>12, <1>13

\* The synchronised line is high before a start bit and from the first stop bit on.
LEMMA HighAround ==
  ASSUME TypeOK, Sending, OnTheLine, Pos < 2 \/ Pos - 2 >= Bit(Stop)
  PROVE  rx.sync = 1
  <1>1. /\ line \in Lines /\ mode \in line.modes /\ rx \in RxType
    BY TypeIs, Zenon
  <1>2. CASE sent = <<>>
    BY <1>2 DEF OnTheLine
  <1>3. CASE sent # <<>>
    <2> DEFINE p == Pos - 2
               f == FrameTime
    <2>1. p \in Int /\ (p < 0 \/ p >= Bit(Stop))
      BY PosRange
    <2>2. Shows(rx.sync, p)
      BY <1>3, Zenon DEF OnTheLine
    <2> HIDE DEF p
    <2>3. CASE p < 0 \/ p >= f
      BY <2>2, <2>3, Zenon DEF Shows
    <2>4. CASE p >= Bit(Stop) /\ p < f
      <3>1. /\ mode.size \in 7 .. 9 /\ mode.stop \in 1 .. 2
        BY <1>1, LineFacts
      <3>2. /\ Stop \in Nat /\ Stop > mode.size /\ (HasParity => Stop > mode.size + 1)
            /\ Stop + 1 \in Nat /\ Shifts = Stop + mode.stop - 1
        BY <1>1, <3>1, SampleFacts DEF Shifts
      <3>3. /\ Bit(Stop + mode.stop) = f /\ Bit(Stop + 1) \in Nat
        BY <1>1, <3>2, BitFacts, Zenon
      <3>4. ASSUME NEW k \in {Stop, Stop + 1}, k <= Shifts, Bit(k) <= p, p < Bit(k + 1)
            PROVE  rx.sync = 1
        <4>1. k \in 0 .. Shifts /\ k \in Int
          BY <3>1, <3>2, <3>4
        <4>2. rx.sync = Level(Last, k)
          BY <2>2, <3>4, <4>1, Zenon DEF Shows
        <4>3. k > mode.size /\ (HasParity => k > mode.size + 1)
          BY <3>1, <3>2, <3>4
        <4>4. Level(Last, k) = 1
          BY <1>1, <4>1, <4>3, LevelIs, Zenon
        <4> QED  BY <4>2, <4>4
      <3>5. CASE p < Bit(Stop + 1)
        <4>1. Stop \in {Stop, Stop + 1} /\ Stop <= Shifts
          BY <3>1, <3>2
        <4> QED  BY <2>4, <3>4, <3>5, <4>1
      <3>6. CASE ~(p < Bit(Stop + 1))
        <4>1. mode.stop = 2
          BY <2>1, <2>4, <3>1, <3>3, <3>6
        <4>2. (Stop + 1) + 1 = Stop + mode.stop /\ Stop + 1 <= Shifts
          BY <3>2, <4>1
        <4>3. Bit(Stop + 1) <= p /\ p < Bit((Stop + 1) + 1)
          BY <2>1, <2>4, <3>3, <3>6, <4>2
        <4> QED  BY <3>4, <4>2, <4>3
      <3> QED  BY <3>5, <3>6
    <2>5. FrameTime \in Nat
      BY <1>1, FrameFacts
    <2> QED  BY <2>1, <2>3, <2>4, <2>5
  <1> QED  BY <1>2, <1>3

\* What the synchronised line has when it matters.
LEMMA Sampled ==
  ASSUME Timely, TypeOK, Sending, OnTheLine, InPhase
  PROVE  /\ rx.state = "idle" => (rx.sync = 0 <=> Expecting /\ Pos = 2)
         /\ rx.state = "wait" /\ Expired => rx.sync = 0
         /\ rx.state = "iter" /\ Expired /\ rx.count > 0 =>
              Within /\ rx.sync = Last[mode.size - rx.count + 1]
         /\ rx.state = "parity" => Within /\ rx.sync = ParityBit(Last)
         /\ rx.state = "ready" => rx.sync = 1
  <1>1. /\ line \in Lines /\ mode \in line.modes /\ rx \in RxType /\ sent \in Seq(Chars) /\ delivered \in Nat
    BY TypeIs, Zenon
  <1>2. /\ mode.size \in 7 .. 9 /\ rx.count \in 0 .. mode.size /\ rx.sync \in Bits
        /\ Shifts \in Nat /\ FrameTime \in Nat /\ mode.size <= Shifts /\ (HasParity => mode.size + 1 <= Shifts)
    <2>1. mode.size \in 7 .. 9 /\ mode.stop \in 1 .. 2
      BY <1>1, LineFacts
    <2>2. FrameTime \in Nat
      BY <1>1, FrameFacts
    <2>3. rx.count \in 0 .. mode.size /\ rx.sync \in Bits
      BY <1>1 DEF RxType
    <2>4. Shifts \in Nat /\ mode.size <= Shifts /\ (HasParity => mode.size + 1 <= Shifts)
      BY <2>1 DEF Shifts
    <2> QED  BY <2>1, <2>2, <2>3, <2>4
  <1>3. /\ Heard \in Int
        /\ rx.state = "wait" /\ Expired => Heard = 3 + Sample(0)
        /\ rx.state = "iter" /\ Expired => Heard = 3 + Sample(mode.size - rx.count + 1)
        /\ rx.state = "parity" => HasParity /\ Heard = 4 + Sample(mode.size + 1)
        /\ rx.state = "ready" => Heard = End
    BY HeardAt DEF InPhase
  <1>4. Pos \in Int /\ Pos >= -2 /\ Pos <= FrameTime + 2
    BY PosRange
  <1>5. /\ \A k \in 0 .. mode.size : Bit(k) <= 1 + Sample(k) /\ 1 + Sample(k) < Bit(k + 1)
        /\ HasParity => /\ Bit(mode.size + 1) <= 2 + Sample(mode.size + 1)
                        /\ 2 + Sample(mode.size + 1) < Bit(mode.size + 2)
        /\ Bit(Stop) <= End - 2 /\ End <= FrameTime + 6
    BY <1>1, TimelyFacts
  <1>6. \A k \in Nat : Bit(k) \in Nat /\ Sample(k) \in Nat
    BY <1>1, BitFacts, SampleFacts
  <1>7. rx.state = "idle" => (rx.sync = 0 <=> Expecting /\ Pos = 2)
    <2> SUFFICES ASSUME rx.state = "idle" PROVE rx.sync = 0 <=> Expecting /\ Pos = 2
      OBVIOUS
    <2>1. CASE Expecting /\ Pos = 2
      <3>1. sent # <<>>
        BY <1>1, <2>1 DEF Expecting
      <3>2. Shows(rx.sync, Pos - 2)
        BY <3>1, Zenon DEF OnTheLine
      <3>3. Shows(rx.sync, 0)
        <4>1. Pos - 2 = 0
          BY <2>1
        <4> QED  BY <3>2, <4>1, Zenon
      <3>4. 0 \in 0 .. Shifts /\ Bit(0) <= 0 /\ 0 < Bit(0 + 1)
        <4>1. Bit(0) = 0 /\ Bit(0 + 1) = Bit(0) + line.tx + 1 /\ line.tx \in Nat
          BY <1>1, BitFacts, LineFacts, 0 \in Nat
        <4> QED  BY <1>2, <4>1
      <3>5. rx.sync = Level(Last, 0)
        BY <3>3, <3>4, Zenon DEF Shows
      <3> QED  BY <1>1, <2>1, <3>5, LevelIs
    <2>2. CASE ~(Expecting /\ Pos = 2)
      <3>1. Between \/ Expecting
        BY DEF InPhase
      <3>2. Between => Pos - 2 >= Bit(Stop)
        <4>1. CASE sender = "idle"
          <5>1. Pos = FrameTime + 2
            BY <4>1 DEF Sending, Pos
          <5>2. Bit(Stop) <= FrameTime /\ Bit(Stop) \in Nat
            BY <1>1, <1>6, StopInFrame
          <5> QED  BY <1>2, <5>1, <5>2
        <4>2. CASE sender # "idle"
          <5>1. End \in Int /\ Bit(Stop) \in Nat
            BY <1>1, <1>6, StopInFrame
          <5> QED  BY <1>4, <1>5, <4>2, <5>1 DEF Between
        <4> QED  BY <4>1, <4>2
      <3>3. Expecting => Pos < 2
        BY <1>4, <2>2 DEF Expecting
      <3>4. rx.sync = 1
        BY <3>1, <3>2, <3>3, HighAround
      <3> QED  BY <2>2, <3>4
    <2> QED  BY <2>1, <2>2
  <1>8. rx.state = "wait" /\ Expired => rx.sync = 0
    <2> SUFFICES ASSUME rx.state = "wait", Expired PROVE rx.sync = 0
      OBVIOUS
    <2>1. 0 \in 0 .. mode.size /\ 0 \in 0 .. Shifts
      BY <1>2
    <2>2. Bit(0) <= Heard - 2 /\ Heard - 2 < Bit(0 + 1)
      BY <1>3, <1>5, <1>6, <2>1
    <2>3. rx.sync = Level(Last, 0)
      BY <1>3, <2>1, <2>2, Synchronous
    <2> QED  BY <1>1, <2>3, LevelIs
  <1>9. rx.state = "iter" /\ Expired /\ rx.count > 0 =>
          Within /\ rx.sync = Last[mode.size - rx.count + 1]
    <2> DEFINE k == mode.size - rx.count + 1
    <2> SUFFICES ASSUME rx.state = "iter", Expired, rx.count > 0 PROVE Within /\ rx.sync = Last[k]
      BY Zenon
    <2>1. k \in 0 .. mode.size /\ k \in 0 .. Shifts /\ k \in 1 .. mode.size /\ k \in Nat
      BY <1>2
    <2>2. Heard = 3 + Sample(k)
      BY <1>3
    <2> HIDE DEF k
    <2>3. Bit(k) <= Heard - 2 /\ Heard - 2 < Bit(k + 1)
      BY <1>5, <1>6, <2>1, <2>2
    <2>4. Within /\ rx.sync = Level(Last, k)
      BY <1>3, <2>1, <2>3, Synchronous
    <2> QED  BY <1>1, <2>1, <2>4, LevelIs, Zenon
  <1>10. rx.state = "parity" => Within /\ rx.sync = ParityBit(Last)
    <2> DEFINE k == mode.size + 1
    <2> SUFFICES ASSUME rx.state = "parity" PROVE Within /\ rx.sync = ParityBit(Last)
      OBVIOUS
    <2>1. k \in 0 .. Shifts /\ k \in Nat /\ k + 1 = mode.size + 2
      BY <1>2, <1>3
    <2>2. Heard = 4 + Sample(k) /\ HasParity
      BY <1>3
    <2>3. Bit(k) <= 2 + Sample(k) /\ 2 + Sample(k) < Bit(mode.size + 2)
      BY <1>5, <2>2
    <2>4. Bit(k) <= Heard - 2 /\ Heard - 2 < Bit(k + 1)
      <3> HIDE DEF k
      <3> QED  BY <1>6, <2>1, <2>2, <2>3
    <2>5. Within /\ rx.sync = Level(Last, k)
      BY <1>3, <2>1, <2>4, Synchronous
    <2> QED  BY <1>1, <2>2, <2>5, LevelIs
  <1>11. rx.state = "ready" => rx.sync = 1
    <2> SUFFICES ASSUME rx.state = "ready" PROVE rx.sync = 1
      OBVIOUS
    <2>1. Heard = End /\ Bit(Stop) \in Nat /\ Bit(Stop) <= FrameTime
      BY <1>1, <1>3, StopInFrame
    <2>2. Within \/ Behind
      BY DEF InPhase
    <2>3. CASE Within /\ sender = "idle"
      <3>1. Pos = FrameTime + 2
        BY <2>3 DEF Sending, Pos
      <3> QED  BY <1>2, <2>1, <3>1, HighAround
    <2>4. CASE Within /\ Heard = Pos
      BY <1>3, <1>5, <2>1, <2>4, HighAround
    <2>5. CASE Behind
      <3>1. End >= FrameTime + 5 + Pos
        BY <2>1, <2>5 DEF Behind
      <3>2. Pos < 2
        BY <1>2, <1>3, <1>4, <1>5, <2>1, <3>1
      <3> QED  BY <3>2, HighAround
    <2> QED  BY <2>2, <2>3, <2>4, <2>5 DEF Within
  <1> QED  BY <1>7, <1>8, <1>9, <1>10, <1>11

LEMMA Appended ==
  ASSUME sent \in Seq(Chars), NEW c \in Chars, sent' = Append(sent, c)
  PROVE  /\ Len(sent') = Len(sent) + 1 /\ sent' \in Seq(Chars)
         /\ \A i \in 1 .. Len(sent) : sent'[i] = sent[i]
  BY AppendProperties

\* One character is in the receiver at a time, the last or the last but one.
LEMMA ReceiverStep ==
  ASSUME Timely, TypeOK, Sending, OnTheLine, InPhase, Next
  PROVE  InPhase'
  <1>0. /\ line \in Lines /\ mode \in line.modes /\ rx \in RxType /\ sent \in Seq(Chars) /\ delivered \in Nat
        /\ line' = line /\ mode' = mode /\ ReceiverEdge
        /\ delivered' = IF Received THEN delivered + 1 ELSE delivered
    BY TypeIs, Zenon DEF Next, ClockEdge, FlagsEdge
  <1>1. rx.sync \in {0, 1}
    BY <1>0 DEF RxType, Bits
  <1>2. /\ FrameTime \in Nat /\ FrameTime' = FrameTime /\ FrameTime > 0
        /\ End \in Nat /\ End' = End /\ End <= FrameTime + 6
    <2>1. End' = End /\ FrameTime' = FrameTime
      BY <1>0, Zenon DEF End, EndOf, FrameTime, Shifts, HasParity
    <2> QED  BY <1>0, <2>1, FrameFacts, StopInFrame, TimelyFacts
  <1>3. Heard \in Int /\ Heard <= End /\ (rx.state = "ready" => Heard = End)
    BY HeardAt DEF InPhase
  <1>4. /\ rx.state = "idle" => (rx.sync = 0 <=> Expecting /\ Pos = 2)
        /\ rx.state = "wait" /\ Expired => rx.sync = 0
    BY Sampled
  <1>5. /\ Working'
        /\ rx.state = "idle" /\ rx.sync = 1 => rx'.state = "idle"
        /\ rx.state = "idle" /\ rx.sync = 0 => rx'.state = "wait" /\ Heard' = 3
        /\ rx.state = "ready" => rx'.state = "idle"
        /\ rx.state \notin {"idle", "ready"} => rx'.state # "idle" /\ Heard' = Heard + 1
    BY <1>0, <1>4, ReceiverClock DEF InPhase
  <1> DEFINE n == Len(sent)
             m == Len(sent')
             rest == sender = "idle" /\ sender' = "idle" /\ m = n /\ Pos = FrameTime + 2 /\ Pos' = FrameTime + 2
             call == sender = "idle" /\ sender' = "store" /\ m = n + 1 /\ Pos = FrameTime + 2 /\ Pos' = -2
             move == /\ sender # "idle" /\ m = n /\ Pos >= -2 /\ Pos <= FrameTime + 1
                     /\ Pos' = Pos + 1 /\ (sender' = "idle" <=> Pos' = FrameTime + 2)
  <1>6. Pos \in Int /\ n \in Nat
    BY <1>0, PosRange
  <1>7. rest \/ call \/ move
    <2>1. Resting => rest
      BY DEF Resting
    <2>2. Called => call
      BY <1>0, Appended DEF Called
    <2>3. Moving => move
      BY DEF Moving
    <2> QED  BY <2>1, <2>2, <2>3, TransmitterStep, Zenon
  <1> HIDE DEF n, m
  <1>8. SUFFICES IF rx'.state = "idle"
                 THEN \/ delivered' = m /\ (sender' # "idle" => Pos' > End)
                      \/ delivered' + 1 = m /\ sender' # "idle" /\ Pos' <= 2
                 ELSE \/ delivered' + 1 = m /\ (Heard' = Pos' \/ (sender' = "idle" /\ Heard' >= Pos'))
                      \/ delivered' + 2 = m /\ sender' # "idle" /\ Heard' >= FrameTime + 5 + Pos'
    BY <1>2, <1>5, <1>8 DEF InPhase, Between, Expecting, Within, Behind, m
  <1>9. CASE rx.state = "idle"
    <2>1. delivered' = delivered /\ (Between \/ Expecting)
      BY <1>0, <1>9 DEF Received, InPhase
    <2>2. CASE rx.sync = 1
      <3>1. rx'.state = "idle" /\ ~(Expecting /\ Pos = 2)
        BY <1>4, <1>5, <1>9, <2>2
      <3> QED  BY <1>2, <1>6, <1>7, <2>1, <3>1 DEF Between, Expecting, n
    <2>3. CASE rx.sync = 0
      <3>1. rx'.state = "wait" /\ Heard' = 3 /\ Expecting /\ Pos = 2
        BY <1>4, <1>5, <1>9, <2>3
      <3> QED  BY <1>2, <1>6, <1>7, <2>1, <3>1 DEF Expecting, n
    <2> QED  BY <1>1, <2>2, <2>3
  <1>10. CASE rx.state = "ready"
    <2>1. rx'.state = "idle" /\ delivered' = delivered + 1 /\ Heard = End /\ (Within \/ Behind)
      BY <1>0, <1>3, <1>5, <1>10 DEF Received, InPhase
    <2>2. CASE Within
      BY <1>0, <1>2, <1>6, <1>7, <2>1, <2>2 DEF Within, n
    <2>3. CASE Behind
      BY <1>0, <1>2, <1>6, <1>7, <2>1, <2>3 DEF Behind, n
    <2> QED  BY <2>1, <2>2, <2>3
  <1>11. CASE rx.state \notin {"idle", "ready"}
    <2>1. rx'.state # "idle" /\ delivered' = delivered /\ Heard' = Heard + 1 /\ (Within \/ Behind)
      BY <1>0, <1>5, <1>11 DEF Received, InPhase
    <2>2. CASE Within
      BY <1>0, <1>2, <1>3, <1>6, <1>7, <2>1, <2>2 DEF Within, n
    <2>3. CASE Behind
      BY <1>0, <1>2, <1>3, <1>6, <1>7, <2>1, <2>3 DEF Behind, n
    <2> QED  BY <2>1, <2>2, <2>3
  <1> QED  BY <1>9, <1>10, <1>11

-----------------------------------------------------------------------------
(* What the receiver has got *)

Heading == sent[delivered + 1]

ReceivedBits ==
  /\ rx.state = "iter" => \A j \in 1 .. mode.size - rx.count : rx.buffer[rx.count + j] = Heading[j]
  /\ rx.state \in {"parity", "parity2", "ready"} => rx.buffer = Carried(Heading)
  /\ delivered > 0 => data = Carried(sent[delivered])

\* What was sent stays as it was.
LEMMA SentStays ==
  ASSUME TypeOK, Next
  PROVE  /\ Len(sent) \in Nat /\ Len(sent') \in Nat /\ Len(sent) <= Len(sent')
         /\ \A i \in 1 .. Len(sent) : sent'[i] = sent[i] /\ sent[i] \in Chars
  <1>1. sent \in Seq(Chars)
    BY TypeIs, Zenon
  <1>2. Len(sent) \in Nat /\ \A i \in 1 .. Len(sent) : sent[i] \in Chars
    BY <1>1
  <1>3. CASE sent' = sent
    BY <1>2, <1>3
  <1>4. CASE \E c \in Chars : sent' = Append(sent, c)
    <2>1. Len(sent') = Len(sent) + 1 /\ \A i \in 1 .. Len(sent) : sent'[i] = sent[i]
      BY <1>1, <1>4, Appended
    <2> QED  BY <1>2, <2>1
  <1> QED  BY <1>3, <1>4, Zenon DEF Next, Call, NoCall, Store, Putc

LEMMA Counts ==
  ASSUME TypeOK, InPhase
  PROVE  /\ delivered \in Nat /\ delivered <= Len(sent)
         /\ rx.state # "idle" => delivered + 1 \in 1 .. Len(sent)
         /\ Within => Heading = Last
  <1>1. sent \in Seq(Chars) /\ delivered \in Nat
    BY TypeIs, Zenon
  <1> DEFINE n == Len(sent)
  <1>2. n \in Nat
    BY <1>1
  <1>3. IF rx.state = "idle" THEN delivered = n \/ delivered + 1 = n
                             ELSE delivered + 1 = n \/ delivered + 2 = n
    BY DEF InPhase, Between, Expecting, Within, Behind
  <1>4. Within => delivered + 1 = n
    BY DEF Within
  <1>5. delivered <= n /\ (rx.state # "idle" => delivered + 1 \in 1 .. n)
    <2> HIDE DEF n
    <2> QED  BY <1>1, <1>2, <1>3
  <1> QED  BY <1>1, <1>4, <1>5 DEF Heading, Last

\* Bit by bit the character comes in.
LEMMA BufferStep ==
  ASSUME Timely, TypeOK, Sending, OnTheLine, InPhase, ReceivedBits, Next, rx.state \notin {"idle", "ready"}
  PROVE  /\ rx'.state = "iter" =>
              \A j \in 1 .. mode.size - rx'.count : rx'.buffer[rx'.count + j] = Heading[j]
         /\ rx'.state \in {"parity", "parity2", "ready"} => rx'.buffer = Carried(Heading)
  <1>0. /\ line \in Lines /\ mode \in line.modes /\ rx \in RxType /\ sent \in Seq(Chars)
        /\ ReceiverEdge
    BY TypeIs, Zenon DEF Next, ClockEdge
  <1>1. /\ rx.state \in {"idle", "wait", "iter", "parity", "parity2", "ready", "fail"}
        /\ rx.buffer \in [1 .. mode.size -> Bits] /\ rx.count \in 0 .. mode.size /\ rx.sync \in Bits
        /\ mode.size \in 7 .. 9
    BY <1>0, LineFacts DEF RxType
  <1> DEFINE buffer == CASE StartSeen -> Zeroes
                         [] Sampling -> Append(Tail(rx.buffer), rx.sync)
                         [] OTHER -> rx.buffer
             count == CASE StartSeen -> mode.size
                        [] Sampling -> rx.count - 1
                        [] OTHER -> rx.count
             c == rx.count
  <1>2. rx'.state = ReceiverState /\ rx'.buffer = buffer /\ rx'.count = count
    BY <1>0 DEF ReceiverEdge
  <1>3. rx.state # "fail"
    BY DEF InPhase, Working
  <1>4. CASE rx.state = "wait"
    <2>1. CASE StartSeen
      <3>1. rx'.state = "iter" /\ rx'.count = mode.size
        BY <1>2, <1>4, <2>1 DEF ReceiverState, StartSeen, Sampling
      <3>2. 1 .. mode.size - mode.size = {}
        BY <1>1
      <3> QED  BY <3>1, <3>2
    <2>2. CASE ~StartSeen
      <3>1. rx'.state \in {"wait", "fail"}
        BY <1>2, <1>4, <2>2 DEF ReceiverState
      <3> QED  BY <3>1
    <2> QED  BY <2>1, <2>2
  <1>5. CASE rx.state = "iter"
    <2>1. \A j \in 1 .. mode.size - c : rx.buffer[c + j] = Heading[j]
      BY <1>5 DEF ReceivedBits
    <2>2. CASE Sampling
      <3>1. rx'.state = "iter" /\ rx'.count = c - 1 /\ c > 0 /\ Expired
        BY <1>1, <1>2, <1>5, <2>2 DEF ReceiverState, StartSeen, Sampling
      <3>2. rx'.buffer = Append(Tail(rx.buffer), rx.sync)
        BY <1>2, <1>5, <2>2 DEF StartSeen
      <3>3. Append(Tail(rx.buffer), rx.sync)[mode.size] = rx.sync
            /\ \A i \in 1 .. mode.size - 1 : Append(Tail(rx.buffer), rx.sync)[i] = rx.buffer[i + 1]
        <4>1. mode.size \in Nat \ {0}
          BY <1>1
        <4> QED  BY <1>1, <4>1, ShiftedIn
      <3>4. rx.sync = Heading[mode.size - c + 1]
        <4>1. Within /\ rx.sync = Last[mode.size - c + 1]
          BY <1>5, <3>1, Sampled
        <4> QED  BY <4>1, Counts
      <3>5. ASSUME NEW j \in 1 .. mode.size - (c - 1)
            PROVE  rx'.buffer[(c - 1) + j] = Heading[j]
        <4>1. CASE j = mode.size - c + 1
          <5>1. (c - 1) + j = mode.size
            BY <1>1, <4>1
          <5>2. rx'.buffer[mode.size] = rx.sync
            BY <3>2, <3>3, Zenon
          <5> QED  BY <3>4, <4>1, <5>1, <5>2, Zenon
        <4>2. CASE j \in 1 .. mode.size - c
          <5>1. (c - 1) + j \in 1 .. mode.size - 1 /\ ((c - 1) + j) + 1 = c + j
            BY <1>1, <3>1, <4>2
          <5>2. rx'.buffer[(c - 1) + j] = rx.buffer[((c - 1) + j) + 1]
            BY <3>2, <3>3, <5>1
          <5> QED  BY <2>1, <4>2, <5>1, <5>2
        <4>3. j \in 1 .. mode.size - c \/ j = mode.size - c + 1
          BY <1>1, <3>1, <3>5
        <4> QED  BY <4>1, <4>2, <4>3
      <3> QED  BY <3>1, <3>5, Zenon
    <2>3. CASE ~Sampling
      <3>1. rx'.buffer = rx.buffer /\ rx'.count = c
        BY <1>2, <1>5, <2>3 DEF StartSeen
      <3>2. CASE rx'.state = "iter"
        BY <2>1, <3>1, <3>2
      <3>3. CASE rx'.state # "iter"
        <4>1. c = 0
          BY <1>1, <1>2, <1>5, <2>3, <3>3 DEF ReceiverState, Sampling
        <4>2. \A j \in 1 .. mode.size : j \in 1 .. mode.size - 0 /\ 0 + j = j
          BY <1>1
        <4>3. \A j \in 1 .. mode.size : rx.buffer[j] = Heading[j]
          BY <2>1, <4>1, <4>2
        <4>4. Heading \in Chars
          <5>1. delivered + 1 \in 1 .. Len(sent)
            BY <1>5, Counts
          <5> QED  BY <1>0, <5>1 DEF Heading
        <4>5. Carried(Heading) \in [1 .. mode.size -> Bits] /\ \A j \in 1 .. mode.size : Carried(Heading)[j] = Heading[j]
          BY <1>0, <4>4, CarriedBits
        <4>6. rx.buffer = Carried(Heading)
          <5> DEFINE b == rx.buffer
                     h == Carried(Heading)
                     z == mode.size
          <5>1. b \in [1 .. z -> Bits] /\ h \in [1 .. z -> Bits] /\ \A j \in 1 .. z : b[j] = h[j]
            BY <1>1, <4>3, <4>5
          <5> HIDE DEF b, h, z
          <5>2. b = [j \in 1 .. z |-> b[j]] /\ h = [j \in 1 .. z |-> h[j]]
            BY <5>1
          <5>3. b = h
            BY <5>1, <5>2, Zenon
          <5> QED  BY <5>3 DEF b, h
        <4> QED  BY <3>1, <3>3, <4>6
      <3> QED  BY <3>2, <3>3
    <2> QED  BY <2>2, <2>3
  <1>6. CASE rx.state \in {"parity", "parity2"}
    <2>1. rx'.buffer = rx.buffer /\ rx'.state # "iter"
      BY <1>2, <1>6 DEF ReceiverState, StartSeen, Sampling
    <2>2. rx.buffer = Carried(Heading)
      BY <1>6 DEF ReceivedBits
    <2> QED  BY <2>1, <2>2
  <1> QED  BY <1>1, <1>3, <1>4, <1>5, <1>6

LEMMA ReceivedStep ==
  ASSUME Timely, TypeOK, Sending, OnTheLine, InPhase, ReceivedBits, Next
  PROVE  ReceivedBits'
  <1>0. /\ mode' = mode /\ rx \in RxType /\ ReceiverEdge
        /\ delivered' = (IF Received THEN delivered + 1 ELSE delivered)
        /\ data' = (IF Received THEN rx.buffer ELSE data)
    BY TypeIs, Zenon DEF Next, ClockEdge, FlagsEdge
  <1>1. delivered \in Nat /\ delivered <= Len(sent) /\ (rx.state # "idle" => delivered + 1 \in 1 .. Len(sent))
    BY Counts
  <1>2. Len(sent) \in Nat /\ \A i \in 1 .. Len(sent) : sent'[i] = sent[i]
    BY SentStays
  <1>3. rx'.state = ReceiverState
    BY <1>0 DEF ReceiverEdge
  <1>4. CASE rx.state = "ready"
    <2>1. rx'.state = "idle" /\ delivered' = delivered + 1 /\ data' = rx.buffer
      BY <1>0, <1>3, <1>4 DEF ReceiverState, Received
    <2>2. rx.buffer = Carried(Heading) /\ Heading = sent'[delivered']
      BY <1>1, <1>2, <1>4, <2>1 DEF ReceivedBits, Heading
    <2>3. data' = Carried(sent[delivered])'
      BY <1>0, <2>1, <2>2, Zenon DEF Carried
    <2> QED  BY <2>1, <2>3 DEF ReceivedBits
  <1>5. CASE rx.state # "ready"
    <2>1. delivered' = delivered /\ data' = data
      BY <1>0, <1>5 DEF Received
    <2>2. delivered' > 0 => data' = Carried(sent[delivered])'
      <3>1. delivered > 0 => delivered \in 1 .. Len(sent)
        BY <1>1, <1>2
      <3>2. delivered > 0 => data = Carried(sent[delivered]) /\ sent'[delivered'] = sent[delivered]
        BY <1>2, <2>1, <3>1, Zenon DEF ReceivedBits
      <3> QED  BY <1>0, <2>1, <3>2, Zenon DEF Carried
    <2>3. CASE rx.state = "idle"
      <3>1. rx'.state \in {"idle", "wait"}
        BY <1>3, <2>3 DEF ReceiverState
      <3> QED  BY <2>2, <3>1 DEF ReceivedBits
    <2>4. CASE rx.state # "idle"
      <3>1. Heading' = Heading
        BY <1>1, <1>2, <2>1, <2>4 DEF Heading
      <3>2. /\ rx'.state = "iter" =>
                 \A j \in 1 .. mode.size - rx'.count : rx'.buffer[rx'.count + j] = Heading[j]
            /\ rx'.state \in {"parity", "parity2", "ready"} => rx'.buffer = Carried(Heading)
        BY <1>5, <2>4, BufferStep, Zenon
      <3>3. Carried(Heading)' = Carried(Heading)
        BY <1>0, <3>1, Zenon DEF Carried
      <3> QED  BY <1>0, <2>2, <3>1, <3>2, <3>3, Zenon DEF ReceivedBits
    <2> QED  BY <2>3, <2>4
  <1> QED  BY <1>4, <1>5

-----------------------------------------------------------------------------
(* What the flags say *)

NoError == mode.parity # "odd" => stat \cap {"PE", "RF", "FE"} = {}

\* The bits of an undisturbed frame add up, and a stop bit follows them.
LEMMA FlagsStep ==
  ASSUME Timely, TypeOK, Sending, OnTheLine, InPhase, ReceivedBits, Next
  PROVE  /\ NoError => NoError'
         /\ "RC" \in stat' <=> Received \/ ("RC" \in stat /\ ~DataRead)
  <1>0. /\ line \in Lines /\ mode \in line.modes /\ sent \in Seq(Chars) /\ mode' = mode
        /\ stat' = (stat \ Cleared) \cup Set
    BY TypeIs, Zenon DEF Next, ClockEdge, FlagsEdge
  <1>1. "RC" \in stat' <=> Received \/ ("RC" \in stat /\ ~DataRead)
    <2>1. "RC" \in Set <=> Received
      BY Zenon DEF Set, ReceiveFlags
    <2>2. "RC" \in Cleared <=> DataRead
      BY Zenon DEF Cleared, ReceiveFlags
    <2> QED  BY <1>0, <2>1, <2>2, Zenon
  <1>2. "RF" \notin Set
    <2>1. rx.state # "fail"
      BY DEF InPhase, Working
    <2> QED  BY <2>1, Zenon DEF Set
  <1>3. "FE" \notin Set
    <2>1. Received => rx.sync # 0
      BY Sampled DEF Received
    <2> QED  BY <2>1, Zenon DEF Set
  <1>4. mode.parity # "odd" => "PE" \notin Set
    <2> SUFFICES ASSUME mode.parity # "odd", rx.state = "parity"
                 PROVE  ~((Odd(rx.buffer) + rx.sync) % 2 = 1)
      BY Zenon DEF Set, ParityError
    <2> DEFINE o == Odd(Carried(Last))
    <2>1. Within /\ rx.sync = ParityBit(Last) /\ rx.buffer = Carried(Heading) /\ delivered + 1 \in 1 .. Len(sent)
          /\ Heading = Last
      BY Sampled, Counts DEF ReceivedBits
    <2>2. Last \in Chars
      <3>1. sent # <<>>
        BY <2>1
      <3> QED  BY <1>0, <3>1, LastIsChar
    <2>3. o \in {0, 1}
      <3>1. mode.size \in Nat /\ Carried(Last) \in [1 .. mode.size -> Bits]
        BY <1>0, <2>2, LineFacts, CarriedBits
      <3> QED  BY <3>1, OddIsBit DEF Bits
    <2>4. rx.sync = (o + 0) % 2 /\ Odd(rx.buffer) = o
      BY <2>1 DEF ParityBit
    <2> HIDE DEF o
    <2> QED  BY <2>3, <2>4
  <1>5. NoError => NoError'
    BY <1>0, <1>2, <1>3, <1>4, Zenon DEF NoError
  <1> QED  BY <1>1, <1>5

-----------------------------------------------------------------------------
(* getc *)

\* At least as many clocks as have passed since RC was set.
Since ==
  IF rx.state # "idle" THEN FrameTime + 4 + Heard - End
  ELSE IF delivered = Len(sent) THEN Pos - (End + 1) ELSE FrameTime + 4 + Pos - End

\* getc takes a character before the next one is complete.
Reading ==
  IF reader = "poll"
  THEN IF "RC" \in stat THEN delivered = Len(got) + 1 /\ waited >= Since
                        ELSE delivered = Len(got) /\ waited = 0
  ELSE IF reader = "first"
  THEN "RC" \in stat /\ delivered = Len(got) + 1 /\ Since <= FrameTime + 1 /\ waited = 0
  ELSE "RC" \notin stat /\ delivered = Len(got) /\ Since <= FrameTime + 2 /\ waited = 0

LEMMA SinceStep ==
  ASSUME Timely, TypeOK, Sending, OnTheLine, InPhase, Next
  PROVE  /\ Since \in Int /\ Since' \in Int
         /\ rx.state = "ready" => Since = FrameTime + 4 /\ Since' <= 0
         /\ rx.state # "ready" => Since' <= Since + 1
  <1>0. /\ line \in Lines /\ mode \in line.modes /\ rx \in RxType /\ sent \in Seq(Chars) /\ delivered \in Nat
        /\ line' = line /\ mode' = mode /\ ReceiverEdge
        /\ delivered' = IF Received THEN delivered + 1 ELSE delivered
    BY TypeIs, Zenon DEF Next, ClockEdge, FlagsEdge
  <1>1. rx.sync \in {0, 1}
    BY <1>0 DEF RxType, Bits
  <1>2. /\ FrameTime \in Nat /\ FrameTime' = FrameTime /\ FrameTime > 0
        /\ End \in Nat /\ End' = End /\ End <= FrameTime + 6
    <2>1. End' = End /\ FrameTime' = FrameTime
      BY <1>0, Zenon DEF End, EndOf, FrameTime, Shifts, HasParity
    <2> QED  BY <1>0, <2>1, FrameFacts, StopInFrame, TimelyFacts
  <1>3. Heard \in Int /\ Heard <= End /\ (rx.state = "ready" => Heard = End)
    BY HeardAt DEF InPhase
  <1>4. /\ rx.state = "idle" => (rx.sync = 0 <=> Expecting /\ Pos = 2)
        /\ rx.state = "wait" /\ Expired => rx.sync = 0
    BY Sampled
  <1>5. /\ rx.state = "idle" /\ rx.sync = 1 => rx'.state = "idle"
        /\ rx.state = "idle" /\ rx.sync = 0 => rx'.state = "wait" /\ Heard' = 3
        /\ rx.state = "ready" => rx'.state = "idle"
        /\ rx.state \notin {"idle", "ready"} => rx'.state # "idle" /\ Heard' = Heard + 1
    BY <1>0, <1>4, ReceiverClock DEF InPhase
  <1> DEFINE n == Len(sent)
             m == Len(sent')
             rest == sender = "idle" /\ sender' = "idle" /\ m = n /\ Pos = FrameTime + 2 /\ Pos' = FrameTime + 2
             call == sender = "idle" /\ sender' = "store" /\ m = n + 1 /\ Pos = FrameTime + 2 /\ Pos' = -2
             move == /\ sender # "idle" /\ m = n /\ Pos >= -2 /\ Pos <= FrameTime + 1
                     /\ Pos' = Pos + 1 /\ (sender' = "idle" <=> Pos' = FrameTime + 2)
             next == IF rx'.state # "idle" THEN FrameTime + 4 + Heard' - End
                     ELSE IF delivered' = m THEN Pos' - (End + 1) ELSE FrameTime + 4 + Pos' - End
  <1>6. Pos \in Int /\ n \in Nat
    BY <1>0, PosRange
  <1>7. rest \/ call \/ move
    <2>1. Resting => rest
      BY DEF Resting
    <2>2. Called => call
      BY <1>0, Appended DEF Called
    <2>3. Moving => move
      BY DEF Moving
    <2> QED  BY <2>1, <2>2, <2>3, TransmitterStep, Zenon
  <1>8. Since' = next
    BY <1>2 DEF Since
  <1> HIDE DEF n, m
  <1>9. Pos' \in Int
    BY <1>2, <1>6, <1>7
  <1>10. Since \in Int
    BY <1>2, <1>3, <1>6 DEF Since
  <1>11. CASE rx.state = "idle"
    <2>1. delivered' = delivered /\ (Between \/ Expecting)
      BY <1>0, <1>11 DEF Received, InPhase
    <2>2. Since = IF delivered = n THEN Pos - (End + 1) ELSE FrameTime + 4 + Pos - End
      BY <1>11 DEF Since, n
    <2>3. CASE rx.sync = 1
      <3>1. rx'.state = "idle"
        BY <1>5, <1>11, <2>3
      <3>2. next = IF delivered' = m THEN Pos' - (End + 1) ELSE FrameTime + 4 + Pos' - End
        BY <3>1
      <3>3. delivered = n \/ (delivered + 1 = n /\ sender # "idle")
        BY <2>1 DEF Between, Expecting, n
      <3> HIDE DEF next
      <3>4. next \in Int /\ next <= Since + 1
        <4>1. delivered' = delivered
          BY <2>1
        <4>2. CASE rest
          BY <1>0, <1>2, <1>6, <2>2, <3>2, <3>3, <4>1, <4>2
        <4>3. CASE call
          BY <1>0, <1>2, <1>6, <2>2, <3>2, <3>3, <4>1, <4>3
        <4>4. CASE move
          BY <1>0, <1>2, <1>6, <2>2, <3>2, <3>3, <4>1, <4>4
        <4> HIDE DEF rest, call, move
        <4> QED  BY <1>7, <4>2, <4>3, <4>4
      <3> QED  BY <1>8, <1>10, <1>11, <3>4
    <2>4. CASE rx.sync = 0
      <3>1. rx'.state = "wait" /\ Heard' = 3 /\ delivered + 1 = n /\ Pos = 2
        BY <1>4, <1>5, <1>11, <2>4 DEF Expecting, n
      <3>2. Since = FrameTime + 4 + Pos - End
        BY <1>0, <1>6, <2>2, <3>1
      <3>3. Since' = FrameTime + 4 + 3 - End
        BY <1>8, <3>1
      <3> QED  BY <1>2, <1>10, <1>11, <3>1, <3>2, <3>3
    <2> QED  BY <1>1, <2>3, <2>4
  <1>12. CASE rx.state = "ready"
    <2>1. rx'.state = "idle" /\ delivered' = delivered + 1 /\ Heard = End /\ (Within \/ Behind)
      BY <1>0, <1>3, <1>5, <1>12 DEF Received, InPhase
    <2>2. Since = FrameTime + 4
      BY <1>2, <1>12, <2>1 DEF Since
    <2>3. next = IF delivered' = m THEN Pos' - (End + 1) ELSE FrameTime + 4 + Pos' - End
      BY <2>1
    <2> HIDE DEF next
    <2>4. CASE Within
      <3>1. delivered + 1 = n /\ (End = Pos \/ (sender = "idle" /\ End >= Pos))
        BY <2>1, <2>4 DEF Within, n
      <3>2. next \in Int /\ next <= 0
        <4>1. delivered' = delivered + 1
          BY <2>1
        <4>2. CASE rest
          BY <1>0, <1>2, <1>6, <2>3, <3>1, <4>1, <4>2
        <4>3. CASE call
          BY <1>0, <1>2, <1>6, <2>3, <3>1, <4>1, <4>3
        <4>4. CASE move
          BY <1>0, <1>2, <1>6, <2>3, <3>1, <4>1, <4>4
        <4> HIDE DEF rest, call, move
        <4> QED  BY <1>7, <4>2, <4>3, <4>4
      <3> QED  BY <1>8, <1>10, <1>12, <2>2, <3>2
    <2>5. CASE Behind
      <3>1. delivered + 2 = n /\ sender # "idle" /\ End >= FrameTime + 5 + Pos
        BY <2>1, <2>5 DEF Behind, n
      <3>2. next \in Int /\ next <= 0
        <4>1. delivered' = delivered + 1
          BY <2>1
        <4>2. CASE rest
          BY <1>0, <1>2, <1>6, <2>3, <3>1, <4>1, <4>2
        <4>3. CASE call
          BY <1>0, <1>2, <1>6, <2>3, <3>1, <4>1, <4>3
        <4>4. CASE move
          BY <1>0, <1>2, <1>6, <2>3, <3>1, <4>1, <4>4
        <4> HIDE DEF rest, call, move
        <4> QED  BY <1>7, <4>2, <4>3, <4>4
      <3> QED  BY <1>8, <1>10, <1>12, <2>2, <3>2
    <2> QED  BY <2>1, <2>4, <2>5
  <1>13. CASE rx.state \notin {"idle", "ready"}
    <2>1. rx'.state # "idle" /\ Heard' = Heard + 1
      BY <1>5, <1>13
    <2>2. Since = FrameTime + 4 + Heard - End /\ next = FrameTime + 4 + (Heard + 1) - End
      BY <1>13, <2>1 DEF Since
    <2> HIDE DEF next
    <2> QED  BY <1>2, <1>3, <1>8, <1>10, <1>13, <2>2
  <1> QED  BY <1>11, <1>12, <1>13

LEMMA ReaderStep ==
  ASSUME Timely, TypeOK, Sending, OnTheLine, InPhase, ReceivedBits, Reading, Next
  PROVE  Reading'
  <1>0. /\ line \in Lines /\ mode \in line.modes /\ delivered \in Nat /\ line' = line /\ mode' = mode
        /\ waited \in 0 .. Patience /\ reader \in {"poll", "first", "second"} /\ got \in Seq(GotType)
        /\ delivered' = (IF Received THEN delivered + 1 ELSE delivered) /\ data \in [1 .. mode.size -> Bits]
        /\ (Poll \/ CharacterSeen \/ Load \/ LoadEnds)
    BY TypeIs, Zenon DEF Next, ClockEdge, FlagsEdge
  <1>1. FrameTime \in Nat /\ FrameTime' = FrameTime /\ Patience \in 0 .. FrameTime
    <2>1. FrameTime' = FrameTime
      BY <1>0, Zenon DEF FrameTime, Shifts, HasParity
    <2> QED  BY <1>0, <2>1, FrameFacts
  <1>2. /\ Since \in Int /\ Since' \in Int
        /\ Received => Since = FrameTime + 4 /\ Since' <= 0
        /\ ~Received => Since' <= Since + 1
    BY SinceStep DEF Received
  <1>3. "RC" \in stat' <=> Received \/ ("RC" \in stat /\ ~DataRead)
    BY FlagsStep
  <1> DEFINE n == Len(got)
             m == Len(got')
  <1>4. n \in Nat
    BY <1>0
  <1>5. Load => m = n + 1
    <2> SUFFICES ASSUME Load PROVE m = n + 1
      OBVIOUS
    <2> DEFINE g == [char |-> data, flags |-> stat \cap {"PE", "RF", "FE"}]
    <2>1. stat \cap {"PE", "RF", "FE"} \in SUBSET ReceiveFlags
      BY Zenon DEF ReceiveFlags
    <2>2. g \in GotType
      BY <1>0, <2>1, Zenon DEF GotType
    <2>3. got' = Append(got, g)
      BY Zenon DEF Load
    <2> HIDE DEF g
    <2>4. Len(Append(got, g)) = Len(got) + 1
      BY <1>0, <2>2, AppendProperties
    <2> QED  BY <2>3, <2>4
  <1>6. ~Load => m = n
    BY <1>0 DEF Poll, CharacterSeen, LoadEnds
  <1>7. SUFFICES
          IF reader' = "poll"
          THEN IF "RC" \in stat' THEN delivered' = m + 1 /\ waited' >= Since'
                                 ELSE delivered' = m /\ waited' = 0
          ELSE IF reader' = "first"
          THEN "RC" \in stat' /\ delivered' = m + 1 /\ Since' <= FrameTime + 1 /\ waited' = 0
          ELSE "RC" \notin stat' /\ delivered' = m /\ Since' <= FrameTime + 2 /\ waited' = 0
    BY <1>1, <1>7 DEF Reading
  <1>8. /\ reader = "poll" => IF "RC" \in stat THEN delivered = n + 1 /\ waited >= Since
                                               ELSE delivered = n /\ waited = 0
        /\ reader = "first" => "RC" \in stat /\ delivered = n + 1 /\ Since <= FrameTime + 1 /\ waited = 0
        /\ reader = "second" => "RC" \notin stat /\ delivered = n /\ Since <= FrameTime + 2 /\ waited = 0
    BY DEF Reading
  <1> HIDE DEF n, m
  <1>9. CASE Received
    <2>1. reader = "poll" /\ "RC" \notin stat /\ delivered = n /\ waited = 0
      BY <1>0, <1>1, <1>2, <1>8, <1>9
    <2>2. reader' = "poll" /\ waited' = 0 /\ m = n
      BY <1>0, <1>6, <2>1 DEF Poll, CharacterSeen, Load, LoadEnds
    <2> QED  BY <1>0, <1>2, <1>3, <1>9, <2>1, <2>2
  <1>10. CASE ~Received
    <2>1. delivered' = delivered /\ Since' <= Since + 1
      BY <1>0, <1>2, <1>10
    <2>2. CASE Poll
      <3>1. reader = "poll" /\ reader' = "poll" /\ ~DataRead /\ ~Load
        BY <2>2 DEF Poll, DataRead, Load
      <3>2. waited' = IF "RC" \in stat THEN waited + 1 ELSE 0
        BY <2>2 DEF Poll
      <3> QED  BY <1>0, <1>1, <1>2, <1>3, <1>6, <1>8, <1>10, <2>1, <3>1, <3>2
    <2>3. CASE CharacterSeen
      <3>1. reader = "poll" /\ reader' = "first" /\ ~DataRead /\ ~Load /\ "RC" \in stat /\ waited' = 0
        BY <2>3 DEF CharacterSeen, DataRead, Load
      <3> QED  BY <1>0, <1>1, <1>2, <1>3, <1>6, <1>8, <1>10, <2>1, <3>1
    <2>4. CASE Load
      <3>1. reader = "first" /\ reader' = "second" /\ DataRead /\ waited' = waited
        BY <2>4 DEF Load, DataRead
      <3> QED  BY <1>0, <1>1, <1>2, <1>3, <1>4, <1>5, <1>8, <1>10, <2>1, <2>4, <3>1
    <2>5. CASE LoadEnds
      <3>1. reader = "second" /\ reader' = "poll" /\ DataRead /\ waited' = waited /\ ~Load
        BY <2>5 DEF LoadEnds, DataRead, Load
      <3> QED  BY <1>0, <1>1, <1>2, <1>3, <1>6, <1>8, <1>10, <2>1, <3>1
    <2> QED  BY <1>0, <2>2, <2>3, <2>4, <2>5
  <1> QED  BY <1>9, <1>10

-----------------------------------------------------------------------------
(* As long as nothing disturbs the line *)

Intact ==
  mode.parity # "odd" => \A i \in 1 .. Len(got) : got[i] = [char |-> Carried(sent[i]), flags |-> {}]

LEMMA IntactStep ==
  ASSUME TypeOK, InPhase, ReceivedBits, Reading, NoError, Intact, Next
  PROVE  Intact'
  <1>0. /\ mode' = mode /\ delivered \in Nat /\ got \in Seq(GotType) /\ data \in [1 .. mode.size -> Bits]
        /\ reader \in {"poll", "first", "second"}
        /\ (Poll \/ CharacterSeen \/ Load \/ LoadEnds)
    BY TypeIs, Zenon DEF Next, ClockEdge
  <1> DEFINE n == Len(got)
  <1>1. n \in Nat /\ n <= Len(sent) /\ (Load => delivered = n + 1 /\ delivered <= Len(sent))
    <2>1. delivered <= Len(sent) /\ n \in Nat /\ Len(sent) \in Nat
      BY <1>0, Counts, SentStays
    <2>2. (delivered = n \/ delivered = n + 1) /\ (reader = "first" => delivered = n + 1)
      BY DEF Reading
    <2> HIDE DEF n
    <2> QED  BY <1>0, <2>1, <2>2 DEF Load
  <1>2. \A i \in 1 .. n : i \in 1 .. Len(sent) /\ sent'[i] = sent[i]
    <2>1. Len(sent) \in Nat /\ \A i \in 1 .. Len(sent) : sent'[i] = sent[i]
      BY SentStays
    <2>2. \A i \in 1 .. n : i \in 1 .. Len(sent)
      <3> HIDE DEF n
      <3> QED  BY <1>1, <2>1
    <2> QED  BY <2>1, <2>2
  <1> SUFFICES ASSUME mode.parity # "odd"
               PROVE  \A i \in 1 .. Len(got') : got'[i] = [char |-> SubSeq(sent'[i], 1, mode.size), flags |-> {}]
    BY <1>0, Zenon DEF Intact, Carried
  <1>3. \A i \in 1 .. n : got[i] = [char |-> SubSeq(sent'[i], 1, mode.size), flags |-> {}]
    BY <1>2, Zenon DEF Intact, Carried
  <1>4. CASE Load
    <2> DEFINE g == [char |-> data, flags |-> stat \cap {"PE", "RF", "FE"}]
    <2>1. stat \cap {"PE", "RF", "FE"} = {}
      BY Zenon DEF NoError
    <2>2. g \in GotType
      <3>1. stat \cap {"PE", "RF", "FE"} \in SUBSET ReceiveFlags
        BY Zenon DEF ReceiveFlags
      <3> QED  BY <1>0, <3>1, Zenon DEF GotType
    <2>3. g = [char |-> SubSeq(sent'[n + 1], 1, mode.size), flags |-> {}]
      <3>1. delivered > 0 /\ delivered = n + 1 /\ delivered \in 1 .. Len(sent)
        BY <1>0, <1>1, <1>4, SentStays
      <3>2. data = SubSeq(sent[delivered], 1, mode.size) /\ sent'[delivered] = sent[delivered]
        <4>1. sent'[delivered] = sent[delivered]
          BY <3>1, SentStays
        <4> QED  BY <3>1, <4>1, Zenon DEF ReceivedBits, Carried
      <3> QED  BY <2>1, <3>1, <3>2, Zenon
    <2>4. got' = Append(got, g)
      BY <1>4, Zenon DEF Load
    <2> HIDE DEF g
    <2>5. /\ Len(Append(got, g)) = n + 1 /\ Append(got, g)[n + 1] = g
          /\ \A i \in 1 .. n : Append(got, g)[i] = got[i]
      BY <1>0, <2>2, AppendProperties
    <2> HIDE DEF n
    <2>6. \A i \in 1 .. n + 1 : i \in 1 .. n \/ i = n + 1
      BY <1>1
    <2> QED  BY <1>3, <2>3, <2>4, <2>5, <2>6, Zenon
  <1>5. CASE ~Load
    <2>1. got' = got
      BY <1>0, <1>5 DEF Poll, CharacterSeen, LoadEnds
    <2> QED  BY <1>3, <2>1, Zenon
  <1> QED  BY <1>4, <1>5

Undisturbed ==
  Sending /\ Shifted /\ OnTheLine /\ InPhase /\ ReceivedBits /\ Reading /\ NoError /\ Intact

LEMMA UndisturbedInit == Init => Undisturbed
  <1> SUFFICES ASSUME Init PROVE Undisturbed
    OBVIOUS
  <1>1. /\ tx.state = "idle" /\ ~tx.start /\ tx.line = 1
        /\ rx.state = "idle" /\ rx.sync = 1
        /\ stat = {} /\ sender = "idle" /\ reader = "poll" /\ waited = 0
        /\ sent = << >> /\ got = << >> /\ delivered = 0
    BY DEF Init
  <1>2. Len(sent) = 0 /\ Len(got) = 0 /\ 1 .. 0 = {}
    BY <1>1
  <1>3. Sending /\ Shifted /\ OnTheLine
    BY <1>1 DEF Sending, Shifted, OnTheLine
  <1>4. InPhase /\ ReceivedBits
    BY <1>1, <1>2 DEF InPhase, Working, Between, ReceivedBits
  <1>5. Reading /\ NoError /\ Intact
    BY <1>1, <1>2 DEF Reading, NoError, Intact
  <1> QED  BY <1>3, <1>4, <1>5 DEF Undisturbed

LEMMA UndisturbedStutter ==
  ASSUME Undisturbed, UNCHANGED vars
  PROVE  Undisturbed'
  <1>1. /\ line' = line /\ mode' = mode /\ tx' = tx /\ rx' = rx /\ stat' = stat /\ data' = data
        /\ sender' = sender /\ reader' = reader /\ waited' = waited /\ sent' = sent /\ got' = got
        /\ delivered' = delivered
    BY Zenon DEF vars, board
  <1>2. /\ Shifts' = Shifts /\ FrameTime' = FrameTime /\ End' = End /\ HalfBit' = HalfBit /\ HasParity' = HasParity
        /\ Last' = Last /\ Heading' = Heading /\ Stop' = Stop
    BY <1>1, Zenon DEF Shifts, FrameTime, End, EndOf, HalfBit, HasParity, Last, Heading, Stop
  <1>3. /\ \A k : Bit(k)' = Bit(k) /\ Sample(k)' = Sample(k)
        /\ \A c : Carried(c)' = Carried(c)
        /\ \A c, k : Level(c, k)' = Level(c, k)
    BY <1>1, Zenon DEF Bit, Sample, Carried, Level, HasParity, ParityBit
  <1>4. Pos' = Pos
    BY <1>1, <1>2, Zenon DEF Pos, Bit
  <1>5. Heard' = Heard
    BY <1>1, <1>2, Zenon DEF Heard, Sample
  <1>6. Sending' /\ NoError' /\ Intact'
    BY <1>1, <1>2, Zenon DEF Undisturbed, Sending, NoError, Intact, Carried
  <1>7. Shifted'
    <2>1. \A k : Level(Last, k)' = Level(Last, k)
      BY <1>1, Zenon DEF Level, HasParity, ParityBit, Last, Carried
    <2> QED  BY <1>1, <1>2, <2>1, Zenon DEF Undisturbed, Shifted
  <1>8. OnTheLine'
    <2>1. \A k : Level(Last, k)' = Level(Last, k)
      BY <1>1, Zenon DEF Level, HasParity, ParityBit, Last, Carried
    <2> QED  BY <1>1, <1>2, <1>3, <1>4, <2>1, Zenon DEF Undisturbed, OnTheLine, Shows, Bit
  <1>9. InPhase'
    BY <1>1, <1>2, <1>4, <1>5, Zenon DEF Undisturbed, InPhase, Working, Between, Expecting, Within, Behind
  <1>10. ReceivedBits'
    BY <1>1, <1>2, Zenon DEF Undisturbed, ReceivedBits, Carried
  <1>11. Reading'
    BY <1>1, <1>2, <1>4, <1>5, Zenon DEF Undisturbed, Reading, Since
  <1> QED  BY <1>6, <1>7, <1>8, <1>9, <1>10, <1>11 DEF Undisturbed

LEMMA UndisturbedNext ==
  ASSUME Timely, TypeOK, Undisturbed, Next, ~spike'.done
  PROVE  Undisturbed'
  <1> USE DEF Undisturbed
  <1>1. Sending' /\ Shifted' /\ OnTheLine'
    BY TransmitterStep, ShiftStep, LineStep
  <1>2. InPhase' /\ ReceivedBits' /\ Reading'
    BY ReceiverStep, ReceivedStep, ReaderStep
  <1>3. NoError' /\ Intact'
    BY FlagsStep, IntactStep
  <1> QED  BY <1>1, <1>2, <1>3

\* The inductive invariant: until a spike strikes, both boards are where the other
\* one takes them to be.
Inv == TypeOK /\ (~spike.done => Undisturbed)

LEMMA Invariance == ASSUME Timely PROVE Spec => []Inv
  <1>1. Init => Inv
    BY TypeInit, UndisturbedInit DEF Inv
  <1>2. ASSUME Inv, [Next]_vars PROVE Inv'
    <2>1. TypeOK'
      BY <1>2, TypeNext DEF Inv
    <2>2. CASE UNCHANGED vars
      <3>1. spike' = spike
        BY <2>2, Zenon DEF vars, board
      <3> QED  BY <1>2, <2>1, <2>2, <3>1, UndisturbedStutter DEF Inv
    <2>3. CASE Next
      <3>1. spike \in [left : Nat, done : BOOLEAN] /\ LineEdge
        BY <1>2, <2>3, TypeIs, Zenon DEF Inv, Next, ClockEdge
      <3>2. spike.done => spike'.done
        BY <3>1 DEF LineEdge
      <3> QED  BY <1>2, <2>1, <2>3, <3>2, UndisturbedNext DEF Inv
    <2> QED  BY <1>2, <2>2, <2>3
  <1> QED  BY <1>1, <1>2, PTL DEF Spec

\* Between boards whose clocks are near enough, on a line that nothing disturbs and
\* in every format but odd parity, getc returns the characters that putc got, in
\* order and with no error flag: the receiver finds the start bit, takes every bit
\* while it is on the line, sees a stop bit after them, and a caller who comes
\* within a frame's time reads the character before the next one is complete
\* (io.vhd:202-440, usart.c:31-33).
THEOREM CharactersArrive ==
  ASSUME Timely, \A l \in Lines : \A m \in l.modes : m.parity # "odd"
  PROVE  Spec => []CharactersIntact
  <1>1. Inv => CharactersIntact
    <2> SUFFICES ASSUME Inv, ~spike.done PROVE Intact /\ mode.parity # "odd"
      BY DEF CharactersIntact, Intact
    <2>1. line \in Lines /\ mode \in line.modes
      BY TypeIs, Zenon DEF Inv
    <2> QED  BY <2>1 DEF Inv, Undisturbed
  <1> QED  BY <1>1, Invariance, PTL

NoSpike == ~spike.done

\* Where no line is disturbed, nothing is invented and nothing is lost: what getc has
\* not returned yet is one character, and RC says so, for no character is complete
\* between the flag and the two edges at which a load clears it (io.vhd:255-265,
\* 412-431).
THEOREM NoneLost ==
  ASSUME Timely, \A l \in Lines : l.spikes = {}
  PROVE  Spec => []NothingLost
  <1>1. Init => NoSpike
    BY DEF Init, NoSpike
  <1>2. TypeOK /\ NoSpike /\ [Next]_vars => NoSpike'
    <2> SUFFICES ASSUME TypeOK, ~spike.done, [Next]_vars PROVE ~spike'.done
      BY DEF NoSpike
    <2>1. CASE UNCHANGED vars
      BY <2>1, Zenon DEF vars, board
    <2>2. CASE Next
      <3>1. spike \in [left : Nat, done : BOOLEAN] /\ line.spikes = {} /\ LineEdge
        BY <2>2, TypeIs, Zenon DEF Next, ClockEdge
      <3> QED  BY <3>1 DEF LineEdge
    <2> QED  BY <2>1, <2>2
  <1>3. Inv /\ NoSpike => NothingLost
    <2> SUFFICES ASSUME Inv, ~spike.done PROVE NothingLost
      BY DEF NoSpike
    <2>1. delivered \in Nat /\ delivered <= Len(sent) /\ got \in Seq(GotType) /\ reader \in {"poll", "first", "second"}
      BY Counts, TypeIs, Zenon DEF Inv, Undisturbed
    <2> DEFINE n == Len(got)
    <2>2. n \in Nat
      BY <2>1
    <2>3. IF "RC" \in stat THEN delivered = n + 1 ELSE delivered = n
      BY <2>1 DEF Inv, Undisturbed, Reading
    <2>4. n <= delivered /\ (n < delivered => delivered = n + 1 /\ "RC" \in stat)
      <3> HIDE DEF n
      <3> QED  BY <2>1, <2>2, <2>3
    <2> QED  BY <2>1, <2>4 DEF NothingLost
  <1>4. Inv => TypeOK
    BY DEF Inv
  <1> QED  BY <1>1, <1>2, <1>3, <1>4, Invariance, PTL DEF Spec

\* Between boards of one clock that is not too fast for the receiver's five states,
\* the other board has the character when putc returns, and both USARTs rest: the
\* stop bits have been on the line in full (io.vhd:304-309, usart.c:31-33).
THEOREM PutcReturnsLate ==
  ASSUME Timely, \A l \in Lines : l.tx = l.rx => l.tx >= 5
  PROVE  Spec => []PutcMeansReceived
  <1>1. Inv => PutcMeansReceived
    <2> SUFFICES ASSUME Inv, sender = "idle", line.tx = line.rx, ~spike.done
                 PROVE  delivered = Len(sent) /\ tx.state = "idle" /\ rx.state = "idle"
      BY DEF PutcMeansReceived
    <2>0. TypeOK /\ Sending /\ InPhase /\ line \in Lines /\ mode \in line.modes
      BY TypeIs, Zenon DEF Inv, Undisturbed
    <2>1. tx.state = "idle" /\ Pos = FrameTime + 2
      BY <2>0 DEF Sending, Pos
    <2>2. Heard \in Int /\ Heard <= End
      BY <2>0, HeardAt DEF InPhase
    <2>3. End \in Nat /\ FrameTime \in Nat /\ End <= FrameTime + 1
      <3> DEFINE t == line.tx + 1
                 h == line.rx \div 2
                 k == Stop
      <3>1. /\ line.tx \in Nat /\ line.tx >= 5 /\ mode.stop \in 1 .. 2 /\ t \in Nat /\ h \in Nat
            /\ h + 5 <= t + 1
        BY <2>0, LineFacts
      <3>2. k \in Nat /\ k + 1 \in Nat /\ k + mode.stop \in Nat /\ k + 1 <= k + mode.stop
        <4>1. mode.size \in 7 .. 9 /\ k = mode.size + 1 + (IF HasParity THEN 1 ELSE 0)
          BY <2>0, LineFacts, SampleFacts
        <4>2. k \in Nat
          BY <4>1
        <4> HIDE DEF k
        <4> QED  BY <3>1, <4>2
      <3>3. Bit(k) \in Nat /\ Bit(k + 1) = Bit(k) + t /\ Bit(k + 1) <= Bit(k + mode.stop)
        <4>1. Bit(k + 1) <= Bit(k + mode.stop)
          BY <2>0, <3>2, BitFacts, Zenon
        <4>2. Bit(k) \in Nat /\ Bit(k + 1) = Bit(k) + line.tx + 1
          BY <2>0, <3>2, BitFacts, Zenon
        <4> QED  BY <3>1, <4>1, <4>2
      <3>4. Sample(k) = h + Bit(k)
        BY DEF Sample, SampleAt, Bit, BitAt
      <3>5. End = Sample(k) + 3 + (IF HasParity THEN 2 ELSE 1) /\ End \in Nat
        BY <2>0, SampleFacts, StopInFrame
      <3>6. FrameTime \in Nat /\ FrameTime = Bit(k + mode.stop)
        BY <2>0, FrameFacts, BitFacts
      <3> HIDE DEF t, h, k
      <3> QED  BY <3>1, <3>3, <3>4, <3>5, <3>6
    <2>4. rx.state = "idle"
      <3>1. ~Within /\ ~Behind
        BY <2>1, <2>2, <2>3 DEF Within, Behind
      <3> QED  BY <2>0, <3>1 DEF InPhase
    <2>5. delivered = Len(sent)
      BY <2>0, <2>4 DEF InPhase, Between, Expecting
    <2> QED  BY <2>1, <2>4, <2>5
  <1> QED  BY <1>1, Invariance, PTL

=============================================================================
